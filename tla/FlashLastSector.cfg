\* An image that ends with the memory, after one in the first sector.
CONSTANTS
  FlashBytes = 32
  SectorBytes = 16
  PageBytes = 4
  ChunkBytes = 2
  StepBytes = 4
  ImageAddrs = {0, 16}
  ImageLengths = {16}
  EraseAddrs = {16}
  ReadLengths = {4}
  StartMode = "main"
  Careful = TRUE
  MaxFailures = 0
  SecondBytes = 16
  EraseInTime = TRUE
SPECIFICATION Spec
PROPERTY ImageWritten
