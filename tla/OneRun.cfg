SPECIFICATION Spec
CONSTANTS
  Library <- Definitions
  Drafts = {}
  Nodes = {1, 2, 3, 4}
  MaxRuns = 3
  MaxParallel = 2
  Starts <- Demands
INVARIANTS OneRun
CHECK_DEADLOCK FALSE
