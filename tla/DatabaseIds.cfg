SPECIFICATION Spec
CONSTANTS
  Clients = {c1, c2}
  Flusher = flusher
  Nobody = nobody
  Keys = {k1}
  KeysOf <- SharedKeys
  EmptyKey = empty
  Missing = missing
  Torn = torn
  Kinds <- InsertsUpdates
  AddsEntries = TRUE
  PollExpires = TRUE
  TornWrites = TRUE
  MaxTxs = 2
  MaxOps = 1
  MaxCrashes = 1
  MaxIoErrors = 1
CHECK_DEADLOCK FALSE
SYMMETRY Symmetry
INVARIANTS RolledBackStaysOut ReadableIdsAreUnique
