SPECIFICATION ClientSpec
CONSTANTS
  Timeouts <- MCTimeouts
  Delay = 2
  DefaultAttempts = 2
  Prelude = 1
  Stale = 13
  SweepInterval = 2
  Retention = 19
  RetryInterval = 2
  MaxTransientRetries = 1
  RetryTime = 1
  MaxTime = 26
INVARIANTS HandoversKeepDeadline NeverDeletesAttended ClientTruthful
PROPERTIES SweepSparesAttended ClientReturns
CHECK_DEADLOCK FALSE
