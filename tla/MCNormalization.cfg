SPECIFICATION Spec
CONSTANTS
  Char = {"p", "q", "r", "_"}
  Sep = "_"
  Tau = 3
  MaxEdges = 3
  MaxTrace = 3
  IDs <- PlainIDs
  Inputs <- MCInputs
INVARIANTS
  TypeOK
  FollowsEveryTrace
  KeepsPredicates
PROPERTY
  Returns
CHECK_DEADLOCK FALSE
