SPECIFICATION Spec
CONSTANTS
  a = a
  b = b
  c = c
  z = z
  u = u
  v = v
  Names = {a, b, c, z}
  Artifacts = {u, v}
  Inputs <- MCInputs
INVARIANTS CyclesFound AcceptedIsRunnable CyclesAreReal
CHECK_DEADLOCK FALSE
