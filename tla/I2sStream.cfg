\* clock_generator.v and i2s_master.v at their real sizes.
CONSTANTS
  Ratios = {2, 4, 8, 16}
  Div = 16
  Slots = 64
  Labels = 4
  Silence = Silence
SPECIFICATION Spec
INVARIANTS LrclkOneBitEarly EveryWordSentOnce
PROPERTIES SclkOnMclkEdge
