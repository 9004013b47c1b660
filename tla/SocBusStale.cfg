\* The assumption of wb_xbar.v:5, which the ADC register file does not meet.
CONSTANTS
  TIMEOUT_VAL = 3
  Bits <- MCBits
  PadBits <- MCPadBits
  Lane <- MCLane
  AdcWords <- MCAdcWords
  Written <- MCWritten
  LowHalf <- MCLowHalf
  Reset256 <- MCReset256
  DeadBeef <- MCDeadBeef
  ChipId <- MCChipId
  SdInfo <- MCSdInfo
  Requests <- MCRequests
SPECIFICATION Spec
PROPERTY ReadAnswersRegister
