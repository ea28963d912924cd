SPECIFICATION FairSpec
CONSTANTS
  Tools = {t1, t2}
  MaxAttempts = 2
  FlushEvery = 2
  MaxSeq = 3
INVARIANTS
  VerdictIsDurable
  AnsweredBeforeTerminal
  NothingVanishes
PROPERTIES
  KeepsPromise
  SettleAnswers
CHECK_DEADLOCK FALSE
