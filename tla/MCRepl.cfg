SPECIFICATION ReplSpec
CONSTANTS
  Tau = Tau
  Malformed = Malformed
  None = None
  MaxEntries = 4
  Diagrams <- Declared
  Inputs <- MCInputs
INVARIANT
  ModesInStep
PROPERTIES
  BehavesAsDocumented
  InterruptsHeeded
  EndsWithInput
CHECK_DEADLOCK FALSE
