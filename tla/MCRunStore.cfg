SPECIFICATION Spec
CONSTANTS
  Writers = {w1, w2}
  Operators = {op}
  Manifests = {m1}
  Inputs = {}
  Terminals <- EngineTerminals
  MaxSeq = 2
  MaxEpoch = 1
SYMMETRY WriterSymmetry
INVARIANTS
  AckedIsStored
  SettledAsTold
  ConflictIsARival
PROPERTY SupersededWritesNothing
CHECK_DEADLOCK FALSE
