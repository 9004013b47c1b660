\* A read of more bytes than the line brings in the client's second: 10 bytes
\* for more than 11520, 4 in a second.
CONSTANTS
  FlashBytes = 32
  SectorBytes = 16
  PageBytes = 4
  ChunkBytes = 2
  StepBytes = 4
  ImageAddrs = {6}
  ImageLengths = {10}
  EraseAddrs = {16}
  ReadLengths = {10}
  StartMode = "main"
  Careful = TRUE
  MaxFailures = 0
  SecondBytes = 4
  EraseInTime = TRUE
SPECIFICATION Spec
PROPERTY KnownAnswered
