\* An image at an address that is no multiple of a chunk: chunks cross pages.
CONSTANTS
  FlashBytes = 32
  SectorBytes = 16
  PageBytes = 4
  ChunkBytes = 2
  StepBytes = 4
  ImageAddrs = {5}
  ImageLengths = {10}
  EraseAddrs = {16}
  ReadLengths = {10}
  StartMode = "main"
  Careful = TRUE
  MaxFailures = 0
  SecondBytes = 16
  EraseInTime = TRUE
SPECIFICATION Spec
PROPERTY ImageWritten
