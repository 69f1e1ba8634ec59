SPECIFICATION Spec
CONSTANTS
  Tau = 1
  Visible = 0
  MaxState = 3
  MaxEdges = 4
  Diagrams <- MCDiagrams
INVARIANTS
  TypeOK
  WitnessIsLivelock
  FreeCannotDiverge
  StemIsShortest
PROPERTY
  Returns
CHECK_DEADLOCK FALSE
