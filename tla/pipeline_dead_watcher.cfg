SPECIFICATION FairPipeline
CONSTANTS
  TrainGroup = {g1, g2, g3}
  EvalGroup = {}
  FrozenGroup = {}
  GroupSize = 1
  Limits = {1}
  MinBurst = 2
  QueueMax = 1
  RateLimited = FALSE
  MaxOffPolicy = 3
  TargetLag = 1
  Cuts = {}
  CutSizes = {1}
  EvalSteps = {}
  EvalExamples = 1
  MaxStep = 3
  FileSystem = FALSE
  WatcherFails = TRUE
  WaitsExpire = FALSE
PROPERTY
  DeadWatcherEndsRun
CHECK_DEADLOCK FALSE
