SPECIFICATION ReaderSpec
CONSTANTS
  Tau = Tau
  None = None
  Instances = {1, 2}
  Sources <- Namesakes
  Inputs = {}
  LocalFiles <- MCFiles
  MaxDecompressedSize = 28
INVARIANT
  ExpansionIsFamily
CHECK_DEADLOCK FALSE
