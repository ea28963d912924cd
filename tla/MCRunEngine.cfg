SPECIFICATION FairSpec
CONSTANTS
  Id = {"first", "second", "third"}
  Ceiling = 3
  MaxRecoveries = 1
  MaxPolls = 2
  Budgeted = TRUE
INVARIANTS
  LedgerCoversTools
  NothingLeftOpen
  ResultsAreRead
  CeilingHolds
PROPERTY
  EveryRunEnds
CHECK_DEADLOCK FALSE
