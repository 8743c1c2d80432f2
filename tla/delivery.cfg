\* Commands arrive within a loop pass, so the device's clock is steady.
SPECIFICATION FairSpec
CONSTANTS
  N = 3
  PERIOD = 2
  RATE = 1
  CountMod = 1
  Elapsed = {1}
  MaxUptime = 10
  Tolerance = 3
  Epoch = 6
  MaxDelay = 0
  MaxInFlight = 2
  MaxFaults = 2
\* a device told to register again stops reporting
CHECK_DEADLOCK FALSE
PROPERTIES NoSilentLoss Delivered DeletedIsTold
