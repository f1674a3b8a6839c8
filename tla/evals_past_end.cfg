SPECIFICATION FairSpec
CONSTANTS
  Env = {"a", "b"}
  Order <- OrderOfEnvs
  Interval <- IntervalOfEnv
  Examples <- ExamplesOfEnv
  GroupSize <- GroupSizeOfEnv
  MaxSteps = 4
  Resumes = {4}
  Limit = 2
  OutMax = 2
PROPERTY
  FinalBroadcastFires
\* the run ends or the trainer waits for ever
CHECK_DEADLOCK FALSE
