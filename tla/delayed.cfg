\* Clock commands are under way for up to two periods.
SPECIFICATION Spec
CONSTANTS
  N = 3
  PERIOD = 2
  RATE = 1
  CountMod = 1
  Elapsed = {1}
  MaxUptime = 8
  Tolerance = 2
  Epoch = 6
  MaxDelay = 3
  MaxInFlight = 2
  MaxFaults = 1
\* a device told to register again stops reporting
CHECK_DEADLOCK FALSE
INVARIANTS TypeOK AcksAreStored ClockBounded
PROPERTIES SamplerSpec
