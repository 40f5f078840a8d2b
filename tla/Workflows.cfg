SPECIFICATION Spec
CONSTANTS
  Library <- Definitions
  Drafts = {"looping", "strict"}
  Nodes = {1, 2, 3, 4}
  MaxRuns = 3
  MaxParallel = 2
  Starts <- AllStarts
INVARIANTS TypeOK SourcesFirst Settled RetriesAreSafe SlotOnce Armed ShownIsLive
PROPERTIES CallsApproved AppliesReviewed RunsMoveOn DisposeEnds
CHECK_DEADLOCK FALSE
