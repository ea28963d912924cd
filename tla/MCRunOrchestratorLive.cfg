SPECIFICATION FairSpec
CONSTANTS
  MaxRuns = 1
  MaxEvents = 2
  Cancelled <- First
  Stopped <- Nobody
  Closed <- First
  HasWriter = TRUE
INVARIANT QueuedUnderBinding
PROPERTY EndedRunLeaves
CHECK_DEADLOCK FALSE
