SPECIFICATION FairSpec
CONSTANTS
  s1 = s1
  s2 = s2
  None = None
  Streams = {"stdout", "stderr"}
  Subscribers = {s1, s2}
  Chunks <- MCChunks
  Capacity = 1
  MaxBytes = 3
INVARIANTS FileIsOutput LiveLines SubscribersKept
PROPERTY WritersNotBlocked
CHECK_DEADLOCK FALSE
