SPECIFICATION FairPipeline
CONSTANTS
  TrainGroup = {1, 2, 3, 4, 5, 6}
  EvalGroup = {}
  FrozenGroup = {}
  GroupSize = 1
  Limits = {2}
  MinBurst = 1
  QueueMax = 2
  RateLimited = FALSE
  MaxOffPolicy = 0
  TargetLag = 1
  Cuts = {}
  CutSizes = {1}
  EvalSteps = {}
  EvalExamples = 1
  MaxStep = 3
  FileSystem = TRUE
  WatcherFails = FALSE
  WaitsExpire = FALSE
CONSTRAINT OpensInOrder
PROPERTIES
  NoVersionSkipped
  HoldEnds
  DeadDispatcherEndsRun
\* a failed or finished run stops
CHECK_DEADLOCK FALSE
