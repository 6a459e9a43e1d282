SPECIFICATION FairSpec
CONSTANTS
  P = P
  Q = Q
  a = a
  b = b
  c = c
  d = d
  x = x
  y = y
  w1 = w1
  w2 = w2
  NoJob = NoJob
  Pipelines = {P, Q}
  Jobs = {a, b, c, d, x}
  Workers = {w1}
  PipelineOf <- TwoOf
  Deps <- TwoDeps
PROPERTIES Termination StopEnds ShutdownEnds
CHECK_DEADLOCK FALSE
