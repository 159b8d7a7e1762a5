SPECIFICATION Spec
CONSTANTS
  accept = accept
  resume1 = resume1
  resume2 = resume2
  Monitor = {accept, resume1, resume2}
  Acceptor = accept
  Expected <- MCExpected
  hasProxy = TRUE
  acceptSuspended = FALSE
  Apps <- MCApps
  Details <- MCDetails
  refresh = TRUE
  MaxPolls = 2
  Faults = {"write", "read"}
INVARIANTS
  AnnouncedOutcome
  ShutdownFailsNothing
  NoSentinelEscapes
  CauseReported
  ReportConsistent
  DriftIsReal
PROPERTY RolloutAnnounced
CHECK_DEADLOCK FALSE
