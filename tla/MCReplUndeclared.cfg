SPECIFICATION ReplSpec
CONSTANTS
  Tau = Tau
  Malformed = Malformed
  None = None
  MaxEntries = 3
  Diagrams <- AsParsed
  Inputs <- MCInputs
PROPERTY
  BehavesAsDocumented
CHECK_DEADLOCK FALSE
