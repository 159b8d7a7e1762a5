SPECIFICATION Spec
CONSTANTS
  r1 = r1
  r2 = r2
  Req <- MCReq
  Requests <- MCRequests
  Interval = 2
  NegativeTTL = 1
  RoundTrip = 1
  Expiry = 3
  MaxTime = 4
  MaxChanges = 2
SYMMETRY Symmetry
PROPERTY StalenessBounded
PROPERTY PrivilegeIsCurrent
PROPERTY OutageForgotten
PROPERTY ValidSessionNotRejected
