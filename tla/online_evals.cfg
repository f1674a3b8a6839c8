SPECIFICATION FairSpec
CONSTANTS
  Env = {"a", "b"}
  Order <- OrderOfEnvs
  Interval <- IntervalOfEnv
  Examples <- ExamplesOfEnv
  GroupSize <- GroupSizeOfEnv
  MaxSteps = 4
  Resumes = {0, 2}
  Limit = 2
  OutMax = 2
INVARIANTS
  EpochMeasuresOneVersion
  AttemptsAccounted
  DueEpochsReported
PROPERTY
  RunEnds
\* the run ends
CHECK_DEADLOCK FALSE
