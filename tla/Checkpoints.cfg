SPECIFICATION CkptSpec
CONSTANTS
  Clients = {c1, c2}
  Flusher = flusher
  Nobody = nobody
  Keys = {c1, c2}
  KeysOf <- OwnKeys
  EmptyKey = empty
  Missing = missing
  Torn = torn
  Kinds <- InsertsDeletes
  AddsEntries = FALSE
  PollExpires = FALSE
  TornWrites = FALSE
  MaxTxs = 2
  MaxOps = 1
  MaxCrashes = 1
  MaxIoErrors = 0
  Checkpointers = {s1, s2}
  Unreadable = unreadable
  MaxCheckpoints = 1
CHECK_DEADLOCK FALSE
SYMMETRY CkptSymmetry
INVARIANTS CkptTypeOK VisibleIsLogged RolledBackStaysOut MarkerIsCommitted
PROPERTIES QuietCheckpoint
