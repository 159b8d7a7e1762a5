SPECIFICATION Spec
CONSTANTS
  d1 = d1
  d2 = d2
  d3 = d3
  a1 = a1
  i1 = i1
  i2 = i2
  Deploy = {d1, d2}
  App = {a1}
  Image = {i1, i2}
  AppOf <- MCAppOf
  ImagesOf <- MCImagesOf
  Validated = {d1, d2}
  MaxAttempts = 2
  Faults = {"cancel", "insert", "read", "record", "git", "lock"}
  MaxCrashes = 1
  NoDeploy = NoDeploy
PROPERTIES
  CancelSparesFinished
  DeploymentEnds
CHECK_DEADLOCK FALSE
