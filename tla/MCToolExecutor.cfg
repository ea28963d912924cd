SPECIFICATION FairSpec
CONSTANTS
  Tool <- MCTool
  Path = {"p"}
  Decl <- MCDecl
  Asks <- MCAsks
  MaxWave = 2
  MaxReads = 2
INVARIANTS
  ConflictsSerialise
  RequiredFirst
  SlotsAreExclusive
PROPERTIES
  StopStartsNothing
  KeepsPort
  EveryDrainEnds
CHECK_DEADLOCK FALSE
