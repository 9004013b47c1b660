\* adc/cic_decimator.v, decimating by two, with registers of five bits: the
\* smallest that hold the gain R^3 = 8 with its sign.  The integrators wrap
\* after six clocks.
CONSTANTS
  R = 2
  Half = 16
  Dropped = 2
  MaxClocks = 15
  ResetAt = 7
  Stale = {0, 5}
SPECIFICATION MCSpec
INVARIANTS RegistersCongruent OutputExact OutputIsMovingSum OneOutputPerR
CHECK_DEADLOCK FALSE
