SPECIFICATION FairSpec
CONSTANTS
  d1 = d1
  o1 = o1
  o2 = o2
  main = main
  dev = dev
  any = any
  none = none
  Deliveries = {d1}
  Owners = {o1, o2}
  AnyBranch = any
  Rows <- MCRows
  Events <- MCEvents
  Pipelines <- MCPipelines
  None = none
INVARIANTS NoneLeftBehind StatusIsVerdict AssetsAccounted
PROPERTIES FinalStays StatusesSettle
