SPECIFICATION FairPipeline
CONSTANTS
  TrainGroup = {g1}
  EvalGroup = {e1, e2}
  FrozenGroup = {}
  GroupSize = 2
  Limits = {1, 2}
  MinBurst = 2
  QueueMax = 2
  RateLimited = FALSE
  MaxOffPolicy = 0
  TargetLag = 1
  Cuts = {c1}
  CutSizes = {1}
  EvalSteps = {0, 1}
  EvalExamples = 1
  MaxStep = 1
  FileSystem = FALSE
  WatcherFails = TRUE
  WaitsExpire = TRUE
INVARIANTS
  ExitFreesTrainer
  ExitLeavesNoEval
PROPERTIES
  DrainEnds
  EvalSettles
\* a failed or finished run stops
CHECK_DEADLOCK FALSE
