SPECIFICATION FairSpec
CONSTANTS
  Id = {"first"}
  Ceiling = 1
  MaxRecoveries = 0
  MaxPolls = 0
  Budgeted = FALSE
PROPERTY
  ReplacementEarnsRetry
CHECK_DEADLOCK FALSE
