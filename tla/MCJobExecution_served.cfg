SPECIFICATION FairSpec
CONSTANTS
  p = p
  q = q
  x = x
  y = y
  z = z
  Jobs = {p, q}
  Artifacts = {x, y, z}
  Steps <- MCSteps
  Makes <- MCMakes
  Needs <- MCNeeds
  HasSource = TRUE
INVARIANT ServedIsWhole
CHECK_DEADLOCK FALSE
