SPECIFICATION PipelineSpec
CONSTANTS
  TrainGroup = {g1}
  EvalGroup = {e1, e2}
  FrozenGroup = {}
  GroupSize = 2
  Limits = {2}
  MinBurst = 2
  QueueMax = 2
  RateLimited = TRUE
  MaxOffPolicy = 0
  TargetLag = 1
  Cuts = {}
  CutSizes = {1}
  EvalSteps = {1}
  EvalExamples = 2
  MaxStep = 1
  FileSystem = TRUE
  WatcherFails = FALSE
  WaitsExpire = FALSE
INVARIANT
  ExitLeavesNoEval
CHECK_DEADLOCK FALSE
