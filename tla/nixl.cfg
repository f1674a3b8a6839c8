SPECIFICATION FairSpec
CONSTANTS
  Rank = {r0, r1, r2}
  Master = r0
  Serving = {r0, r1}
  Engines = {{w1}, {w2}}
  MaxAttempts = 2
  Groups = 3
  MaxStaging = 2
  MaxVersion = 1
  Faults = TRUE
CONSTRAINT
  Up
INVARIANTS
  TransfersHold
  WholeWeights
PROPERTY
  BroadcastsEnd
\* the run ends
CHECK_DEADLOCK FALSE
