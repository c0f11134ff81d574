SPECIFICATION Spec
CONSTANTS
  Writers = {w1, w2}
  Stoppers = {}
  Flusher = flusher
  MaxQueueSize = 2
  MaxRetries = 1
  Torn = torn
  MaxAppends = 2
  MaxIoErrors = 1
SYMMETRY Symmetry
INVARIANTS TypeOK Capacity CountIsHeld ZeroMeansDurable ExactlyOnce PoppedInOrder FlushLeavesNothingQueued
PROPERTIES SlotsFreedWhenDurable ImplementsWalLog
