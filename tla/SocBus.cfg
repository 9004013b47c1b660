\* The bus of soc_top.v with every slave; a timeout of 3 clocks for 255.
CONSTANTS
  TIMEOUT_VAL = 3
  Bits <- MCBits
  PadBits <- MCPadBits
  Lane <- MCLane
  AdcWords <- MCAdcWords
  Written <- MCWritten
  LowHalf <- MCLowHalf
  Reset256 <- MCReset256
  DeadBeef <- MCDeadBeef
  ChipId <- MCChipId
  SdInfo <- MCSdInfo
  Requests <- MCRequests
SPECIFICATION Spec
INVARIANTS AnswerFromAddressed TimeoutOnlyUnmapped
PROPERTIES ReadAnswersRegisterAndLastAdcWord SoftResetIsPulse RequestAnswered
