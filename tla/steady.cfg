\* The clock is set once and the loop never stalls: one sample per period.
SPECIFICATION Spec
CONSTANTS
  N = 3
  PERIOD = 4
  RATE = 2
  CountMod = 8
  Elapsed = {1}
  Offsets = {7}
  MaxUptime = 32
INVARIANTS OversamplingBounded
PROPERTIES AckReleasesOnly
