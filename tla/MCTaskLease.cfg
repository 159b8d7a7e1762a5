SPECIFICATION Spec
CONSTANTS
  r1 = r1
  r2 = r2
  t1 = t1
  Replica = {r1, r2}
  Task = {t1}
  Monitor <- MCMonitor
  At <- MCAt
  Of <- MCOf
  Acceptor <- MCAcceptor
  TTL = 5
  Interval = 1
  RenewTimeout = 1
  StartDelay = 1
  WriteDelay = 3
  Skew = 0
  BatchSize = 1
  MaxTime = 8
  NoOwner = NoOwner
INVARIANTS
  LeaseInv
  ExclusiveMonitor
  OneOutcomeInTime
PROPERTIES
  OwnershipSpec
  NoTakeoverOfAttended
CHECK_DEADLOCK FALSE
