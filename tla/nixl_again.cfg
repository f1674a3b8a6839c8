\* Refuted, and left out of the runs: a call that is repeated in the middle of
\* a broadcast takes a later group for the first one.
SPECIFICATION Spec
CONSTANTS
  Rank = {r0}
  Master = r0
  Serving = {r0}
  Engines = {{w1}}
  MaxAttempts = 2
  Groups = 3
  MaxStaging = 2
  MaxVersion = 0
  Faults = TRUE
INVARIANT
  CallsHold
CHECK_DEADLOCK FALSE
