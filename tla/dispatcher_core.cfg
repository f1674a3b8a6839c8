SPECIFICATION Spec
CONSTANTS
  TrainGroup = {g1}
  EvalGroup = {e1}
  FrozenGroup = {}
  GroupSize = 2
  Limits = {2, 3}
  MinBurst = 2
  QueueMax = 3
  RateLimited = TRUE
  MaxOffPolicy = 0
  TargetLag = 1
  Cuts = {c1}
  CutSizes = {1}
  EvalSteps = {0}
  EvalExamples = 1
  MaxStep = 2
INVARIANTS
  PermitAccounting
  ExactlyOnce
  GrowthIsMetered
PROPERTIES
  LedgerSpec
  NoDispatchDuringSwap
  StaleWorkCut
\* the main loop stops reading once the pipeline is drained
CHECK_DEADLOCK FALSE
