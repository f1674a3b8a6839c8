SPECIFICATION Spec
CONSTANTS
  MaxSteps = 5
  Interval = 2
  KeepLast = 2
  KeepInterval = 0
  TargetLag = 1
  MaxLives = 3
INVARIANT LatestResumes
CHECK_DEADLOCK FALSE
