SPECIFICATION TreeSpec
CONSTANTS
  Char = {"s", "0", "1", "_"}
  Sep = "_"
  Tau = "tau"
  LocalEvents = {"a", "tau"}
  Interface = {"x"}
  MaxEdges = 2
  Jobs <- MCJobs
  Library <- MCLibrary
  Trees <- MCTrees
INVARIANTS
  TypeOK
  ExhaustedIsProduct
  ResultIsInterfaceParallel
  TreeIsProcess
PROPERTY
  Returns
CHECK_DEADLOCK FALSE
