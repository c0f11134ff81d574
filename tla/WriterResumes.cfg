SPECIFICATION TickingSpec
CONSTANTS
  Writers = {w1, w2}
  Stoppers = {}
  Flusher = flusher
  MaxQueueSize = 1
  MaxRetries = 0
  Torn = torn
  MaxAppends = 1
  MaxIoErrors = 0
CHECK_DEADLOCK FALSE
PROPERTIES WritersResume
