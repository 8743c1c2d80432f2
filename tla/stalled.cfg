\* One loop pass may take more than a period: the ring has gaps.
SPECIFICATION Spec
CONSTANTS
  N = 4
  PERIOD = 2
  RATE = 1
  CountMod = 8
  Elapsed = {1, 5}
  Offsets = {4}
  MaxUptime = 16
PROPERTIES AckReleasesOnly
