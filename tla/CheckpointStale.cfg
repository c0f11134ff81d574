SPECIFICATION CkptSpec
CONSTANTS
  Clients = {c1}
  Flusher = flusher
  Nobody = nobody
  Keys = {k1}
  KeysOf <- SharedKeys
  EmptyKey = empty
  Missing = missing
  Torn = torn
  Kinds <- Inserts
  AddsEntries = FALSE
  PollExpires = FALSE
  TornWrites = FALSE
  MaxTxs = 2
  MaxOps = 1
  MaxCrashes = 0
  MaxIoErrors = 0
  Checkpointers = {s1}
  Unreadable = unreadable
  MaxCheckpoints = 1
CHECK_DEADLOCK FALSE
INVARIANTS ReplayMatchesStore
