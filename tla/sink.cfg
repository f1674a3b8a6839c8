SPECIFICATION Spec
CONSTANTS
  Group = {g1, g2, f1}
  FrozenGroup = {f1}
  GroupSize = 2
  BatchSizes = {1, 2}
  TokenBatchSizes = {3}
  TokenSizes = {1, 2}
  SeqLen = 2
  FilterZero = TRUE
  MaxOffPolicy = 0
  TargetLag = 1
  MaxZeroOutput = 2
  MaxEmpty = 2
  StartSteps = {1, 3}
  MaxSteps = 2
INVARIANTS
  StalenessBound
  FinalisedOnce
  BarrenBounded
SYMMETRY GroupSymmetry
\* every group of the instance may be finalised
CHECK_DEADLOCK FALSE
