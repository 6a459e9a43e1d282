SPECIFICATION FairSpec
CONSTANTS
  r1 = r1
  r2 = r2
  Runs = {r1, r2}
INVARIANTS RowTellsTruth NothingRunsUnrecorded DoneIsSaved
PROPERTIES FinalRows KeepsRecords RowsSettle CancelsEnd
