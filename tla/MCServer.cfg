SPECIFICATION Spec
CONSTANTS
  t1 = t1
  c1 = c1
  c2 = c2
  Tab <- TabDef
  Conn <- ConnDef
  NoConn = NoConn
  MaxFaults = 2
  Budget = 5
  DrainDelay = 1
  HttpBudget = 1
  WsTimeout = 2
INVARIANTS WriteBacksNotStarved NoneLeft
PROPERTIES NoAddAfterWait BannerSettles ShutdownCompletes
CHECK_DEADLOCK FALSE
