SPECIFICATION Spec
CONSTANTS
  Param = {"a", "b", "e"}
  Dense = {"a", "b"}
  Rank <- RankOfParam
  Chunk = {1, 2}
  NoChunk = 0
  ChunkOf <- ChunkOfParam
  InSlot = {1, 2}
  OutSlot = {1}
  Micro = 3
  Window = 2
  MaxStep = 2
CHECK_DEADLOCK FALSE
INVARIANTS
  GradientsAllTrain
  WeightsHoldStill
  NoProtocolError
PROPERTY
  RunEnds
