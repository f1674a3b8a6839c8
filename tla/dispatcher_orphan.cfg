SPECIFICATION Spec
CONSTANTS
  TrainGroup = {g1}
  EvalGroup = {}
  FrozenGroup = {}
  GroupSize = 2
  Limits = {2}
  MinBurst = 2
  QueueMax = 0
  RateLimited = TRUE
  MaxOffPolicy = 0
  TargetLag = 1
  Cuts = {c1}
  CutSizes = {1}
  EvalSteps = {}
  EvalExamples = 1
  MaxStep = 1
INVARIANT
  NoOrphan
CHECK_DEADLOCK FALSE
