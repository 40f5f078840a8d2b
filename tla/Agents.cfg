SPECIFICATION FairSpec
CONSTANTS
  MaxRuns = 3
  MaxClock = 2
  Starts <- Conversations
INVARIANTS TypeOK OneAtATime 
PROPERTIES Quiet EverythingEnds
CHECK_DEADLOCK FALSE
