SPECIFICATION PipelineSpec
CONSTANTS
  TrainGroup = {g1, g2, g3, g4, g5, g6}
  EvalGroup = {}
  FrozenGroup = {}
  GroupSize = 1
  Limits = {2}
  MinBurst = 2
  QueueMax = 2
  RateLimited = FALSE
  MaxOffPolicy = 0
  TargetLag = 1
  Cuts = {}
  CutSizes = {1}
  EvalSteps = {}
  EvalExamples = 1
  MaxStep = 3
  FileSystem = FALSE
  WatcherFails = FALSE
  WaitsExpire = FALSE
INVARIANT
  HoldSatisfiable
SYMMETRY GroupSymmetry
CHECK_DEADLOCK FALSE
