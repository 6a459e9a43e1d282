SPECIFICATION FairSpec
CONSTANT N = 2
CHECK_DEADLOCK FALSE
INVARIANTS IInv OkMeansSucceeded CancelReachesAll
PROPERTY CommandEnds
