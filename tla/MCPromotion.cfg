SPECIFICATION ReaderSpec
CONSTANTS
  Tau = Tau
  None = None
  Instances = {1, 2}
  Sources <- MCSources
  Inputs <- MCInputs
  LocalFiles <- MCFiles
  MaxDecompressedSize = 28
INVARIANTS
  TypeOK
  ExpansionIsFamily
  DirectivesApply
  PostsKept
  ReadAsWritten
  GlobalIsRefusedAsPlain
CHECK_DEADLOCK FALSE
