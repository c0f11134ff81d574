SPECIFICATION FileSpec
CONSTANTS
  Keys = {}
  Missing = missing
  Torn = torn
  Base = 4
  LengthBytes = 3
  MaxAlloc = 15
  TxNumbers = {1, 2}
  MaxRecords = 2
  MaxFaults = 1
CHECK_DEADLOCK FALSE
INVARIANTS RecoveryNeverAborts
