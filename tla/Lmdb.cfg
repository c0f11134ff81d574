SPECIFICATION Spec
CONSTANTS
  Callers = {a, b}
  Keys = {k1, k2}
  Values = {v1}
  Missing = missing
  Keep = keep
  NoCall = nocall
  Nobody = nobody
INVARIANTS TypeOK WorkOK
PROPERTIES ImplementsKvStore
