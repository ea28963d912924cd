SPECIFICATION Spec
CONSTANTS
  MaxRuns = 2
  MaxEvents = 1
  Cancelled <- First
  Stopped <- First
  Closed <- Second
  HasWriter = TRUE
INVARIANTS
  ToldSuccessIsDurable
  HoleIsAdmitted
  NoSuccessOverAHole
  TerminalIsFenced
CHECK_DEADLOCK FALSE
