SPECIFICATION FairSpec
CONSTANTS
  Writers = {w1, w2}
  Stoppers = {s1}
  Flusher = flusher
  MaxQueueSize = 1
  MaxRetries = 0
  Torn = torn
  MaxAppends = 1
  MaxIoErrors = 0
CHECK_DEADLOCK FALSE
INVARIANTS ShutdownDrains
PROPERTIES QueuedReachesDisk FlushReturns WaitersAreWoken StopReturns
