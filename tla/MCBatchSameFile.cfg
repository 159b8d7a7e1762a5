SPECIFICATION Spec
CONSTANTS
  q1 = q1
  q2 = q2
  q3 = q3
  b1 = b1
  b2 = b2
  m = m
  s1 = s1
  s2 = s2
  v1 = v1
  v2 = v2
  Request = {q1, q2}
  Batcher = {b1}
  Branch = {m}
  Slot = {s1}
  Tag = {v1, v2}
  At <- OneQueue
  Writes <- SameContent
  MaxBatch = 2
  MaxAttempts = 2
  Faults = {"git"}
  MayMisconfigure = {}
  NoTag = NoTag
  NoQueue = NoQueue
INVARIANT NilMeansWritten
CHECK_DEADLOCK FALSE
