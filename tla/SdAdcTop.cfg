\* The ratios of the SoC: eight samples for every I2S frame.
CONSTANTS
  R = 4
  Depth = 4
  Slots = 8
  Div = 2
  Labels = 8
  Silence = Silence
SPECIFICATION Spec
INVARIANTS NoSampleLostAfterAcceptance ReadOnlyNonEmpty
PROPERTIES StoredWhenNotFull AcceptedIsSent FifoStaysFull
