SPECIFICATION Spec
CONSTANTS
  P = P
  Q = Q
  a = a
  b = b
  c = c
  d = d
  x = x
  y = y
  w1 = w1
  w2 = w2
  NoJob = NoJob
  Pipelines = {P, Q}
  Jobs = {a, b, c, d, x}
  Workers = {w1, w2}
  PipelineOf <- TwoOf
  Deps <- TwoDeps
SYMMETRY WorkerSymmetry
INVARIANTS Quiescent Verdict PostNeverBlocks
PROPERTY FirstErrorKept KeepsPromise
CHECK_DEADLOCK FALSE
