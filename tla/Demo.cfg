SPECIFICATION DemoSpec
CONSTANTS
  Clients = {c1, c2}
  Flusher = flusher
  Nobody = nobody
  Keys = {c1, c2}
  KeysOf <- OwnKeys
  EmptyKey = empty
  Missing = missing
  Torn = torn
  Kinds <- Inserts
  AddsEntries = FALSE
  PollExpires = FALSE
  TornWrites = FALSE
  MaxTxs = 2
  MaxOps = 1
  MaxCrashes = 1
  MaxIoErrors = 2
  Checkpointers = {main, scheduler}
  Unreadable = unreadable
  MaxCheckpoints = 1
  Main = main
  Scheduler = scheduler
  Handles <- Order
INVARIANTS DemoVerifies DemoNeverStuck
CHECK_DEADLOCK FALSE
