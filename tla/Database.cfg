SPECIFICATION Spec
CONSTANTS
  Clients = {c1, c2}
  Flusher = flusher
  Nobody = nobody
  Keys = {c1, c2}
  KeysOf <- OwnKeys
  EmptyKey = empty
  Missing = missing
  Torn = torn
  Kinds <- InsertsDeletes
  AddsEntries = FALSE
  PollExpires = FALSE
  TornWrites = FALSE
  MaxTxs = 2
  MaxOps = 2
  MaxCrashes = 2
  MaxIoErrors = 0
CHECK_DEADLOCK FALSE
SYMMETRY Symmetry
INVARIANTS TypeOK ReplayMatchesStore CommittedIsDurable VisibleIsDurable IdsAreUnique
