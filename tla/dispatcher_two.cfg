SPECIFICATION Spec
CONSTANTS
  TrainGroup = {g1, g2}
  EvalGroup = {}
  FrozenGroup = {}
  GroupSize = 2
  Limits = {2, 3}
  MinBurst = 2
  QueueMax = 3
  RateLimited = TRUE
  MaxOffPolicy = 0
  TargetLag = 1
  Cuts = {c1}
  CutSizes = {1}
  EvalSteps = {}
  EvalExamples = 1
  MaxStep = 2
PROPERTY
  StaleWorkCut
SYMMETRY TrainSymmetry
\* the main loop stops reading once the pipeline is drained
CHECK_DEADLOCK FALSE
