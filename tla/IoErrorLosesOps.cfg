SPECIFICATION Spec
CONSTANTS
  Clients = {c1}
  Flusher = flusher
  Nobody = nobody
  Keys = {k1}
  KeysOf <- SharedKeys
  EmptyKey = empty
  Missing = missing
  Torn = torn
  Kinds <- Inserts
  AddsEntries = FALSE
  PollExpires = TRUE
  TornWrites = FALSE
  MaxTxs = 1
  MaxOps = 1
  MaxCrashes = 0
  MaxIoErrors = 1
CHECK_DEADLOCK FALSE
INVARIANTS AcknowledgedIsKept
