\* Small values of the output, odd ones among them, as around mid-scale in the code.
CONSTANTS
  R = 2
  Half = 32
  Dropped = 2
  Stale = {0}
  MaxClocks = 16
SPECIFICATION TopSpec
PROPERTY LitProgressively
CHECK_DEADLOCK FALSE
