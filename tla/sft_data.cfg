SPECIFICATION FairSpec
CONSTANTS
  World = 2
  CpSizes = {1, 2}
  NumWorkers = 1
  Prefetch = 2
  SeqLen = 3
  MicroBatch = 2
  GradAccum = 2
  MaxSteps = 3
  CkptInterval = 1
  ValInterval = 2
  EvalOnStart = FALSE
  MaxCrashes = 1
  TrainData <- TrainExamples
  ValData <- ValExamples
  Shuffle <- Rotate
INVARIANTS
  StreamIntact
  RowsTrain
PROPERTY
  RunEnds
\* a finished run stops
CHECK_DEADLOCK FALSE
