SPECIFICATION FairSpec
CONSTANTS
  Samples = 6
  Batches <- ChosenBatches
  RawSample <- RawSamples
  NoImage = NoImage
  Shape = {ShapeA, ShapeB}
  ShapeA = ShapeA
  ShapeB = ShapeB
  MaxLen = 10
  Workers = 2
  PadTo = 2
  Linear = 2
  Quadratic = 1
INVARIANTS
  SamplesTrainOnce
  RanksInStep
  PacksFit
\* a packed batch is the end
CHECK_DEADLOCK FALSE
