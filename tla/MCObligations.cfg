SPECIFICATION Spec
CONSTANTS
  Jobs <- MCJobs
  Tau <- MCTau
  Hex <- MCHex
  IdSpace = 16
  Hash <- MCHash
INVARIANTS
  PlaceholdersFaithful
  TheoryDenotesDiagrams
  DivergenceIsObliged
  BackendsMirror
PROPERTY ProbingEnds
CHECK_DEADLOCK FALSE
