SPECIFICATION Spec
CONSTANTS
  Floor = 1
  Ceiling = 4
  Initial = 0
  Derived = {2}
  Usages = {50, 85, 95}
  Cancels = TRUE
  GroupSize = 2
  QueuePolls = 2
  TrimPolls = 2
  GracePolls = 3
INVARIANT
  OneCutPerOverload
PROPERTIES
  Recovers
