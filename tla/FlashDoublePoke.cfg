CONSTANTS
  FlashBytes = 32
  SectorBytes = 16
  PageBytes = 4
  ChunkBytes = 2
  StepBytes = 4
  ImageAddrs = {0, 6}
  ImageLengths = {4, 14}
  EraseAddrs = {6, 16}
  ReadLengths = {4}
  StartMode = "auto"
  Careful = FALSE
  MaxFailures = 1
  SecondBytes = 16
  EraseInTime = TRUE
SPECIFICATION Spec
INVARIANT RequestResponse
