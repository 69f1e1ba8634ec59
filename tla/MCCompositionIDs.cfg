SPECIFICATION TreeSpec
CONSTANTS
  Char = {"a", "b", "_"}
  Sep = "_"
  Tau = "tau"
  LocalEvents = {"a", "tau"}
  Interface = {"x"}
  MaxEdges = 2
  Jobs <- AmbiguousJobs
  Library <- MCLibrary
  Trees = {}
INVARIANTS
  ResultIsInterfaceParallel
CHECK_DEADLOCK FALSE
