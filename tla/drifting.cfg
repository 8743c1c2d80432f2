\* The loop stalls and the service sets the clock forwards and backwards.
SPECIFICATION Spec
CONSTANTS
  N = 4
  PERIOD = 2
  RATE = 1
  CountMod = 8
  Elapsed = {1, 5}
  Offsets = {4, 7, 12}
  MaxUptime = 15
INVARIANTS TypeOK Spaced Dated SentClosed BatchExact
PROPERTIES AckReleasesAll DropsOnlyWhenFull QueueSpec
