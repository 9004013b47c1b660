\* Erases that may take longer than the client's second, but not two.
CONSTANTS
  FlashBytes = 32
  SectorBytes = 16
  PageBytes = 4
  ChunkBytes = 2
  StepBytes = 4
  ImageAddrs = {6}
  ImageLengths = {10}
  EraseAddrs = {16}
  ReadLengths = {10}
  StartMode = "main"
  Careful = TRUE
  MaxFailures = 0
  SecondBytes = 16
  EraseInTime = FALSE
SPECIFICATION Spec
PROPERTY ImageWritten
