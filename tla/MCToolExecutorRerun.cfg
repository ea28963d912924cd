SPECIFICATION Spec
CONSTANTS
  Tool <- MCTool
  Path = {"p"}
  Decl <- MCDecl
  Asks <- MCAsks
  MaxWave = 2
  MaxReads = 2
INVARIANT RerunsOnlyRepeatable
CHECK_DEADLOCK FALSE
