SPECIFICATION FairSpec
CONSTANTS
  MaxSteps = 5
  Interval = 2
  KeepLast = 2
  KeepInterval = 0
  TargetLag = 1
  MaxLives = 3
INVARIANT ResumeTogether
INVARIANT LoadsWhole
PROPERTY OwnBatch
PROPERTY RollbackPoint
PROPERTY OfferAnswered
CHECK_DEADLOCK FALSE
