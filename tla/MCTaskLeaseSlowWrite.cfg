SPECIFICATION Spec
CONSTANTS
  r1 = r1
  r2 = r2
  t1 = t1
  Replica = {r1, r2}
  Task = {t1}
  Monitor <- MCMonitor
  At <- MCAt
  Of <- MCOf
  Acceptor <- MCAcceptor
  TTL = 10
  Interval = 2
  RenewTimeout = 2
  StartDelay = 0
  WriteDelay = 4
  Skew = 0
  BatchSize = 1
  MaxTime = 14
  NoOwner = NoOwner
INVARIANT OneOutcome
CHECK_DEADLOCK FALSE
