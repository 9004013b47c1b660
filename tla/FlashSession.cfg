CONSTANTS
  FlashBytes = 32
  SectorBytes = 16
  PageBytes = 4
  ChunkBytes = 2
  StepBytes = 4
  ImageAddrs = {6}
  ImageLengths = {4, 10, 14}
  EraseAddrs = {3, 16}
  ReadLengths = {10}
  StartMode = "main"
  Careful = TRUE
  MaxFailures = 1
  SecondBytes = 14
  EraseInTime = TRUE
SPECIFICATION Spec
INVARIANTS TypeOK RequestResponse NothingRefused AckedStays
PROPERTIES ImageWritten KnownAnswered Ends
