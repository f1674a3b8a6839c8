SPECIFICATION Spec
CONSTANTS
  World = 2
  CpSizes = {1}
  NumWorkers = 2
  Prefetch = 2
  SeqLen = 3
  MicroBatch = 2
  GradAccum = 2
  MaxSteps = 3
  CkptInterval = 1
  ValInterval = 2
  EvalOnStart = FALSE
  MaxCrashes = 0
  TrainData <- TrainExamples
  ValData <- ValExamples
  Shuffle <- Rotate
INVARIANT
  EachSampleOnce
CHECK_DEADLOCK FALSE
