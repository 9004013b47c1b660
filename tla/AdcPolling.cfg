\* Pauses from shorter than the time between samples to longer: samples are
\* read twice, once, late, or overwritten, at every phase.
CONSTANTS
  R = 7
  Labels = 2
  MaxPause = 8
SPECIFICATION Spec
INVARIANTS ReadyMeansNew LostOnlyInReadStrobe
PROPERTIES ReadyIsRead FakeCpuTakesNothing
