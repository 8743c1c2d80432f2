SPECIFICATION Spec
CHECK_DEADLOCK FALSE
CONSTANTS
  Blobs <- MCBlobs
  Accepting = TRUE
  MaxStuck = 3
  MaxDevices = 10
  MaxTrouble = 5
INVARIANTS TypeOK RunningIsRegistered OrphansExplained
PROPERTIES RegistrationKept ReturnsToRegistering RegisteredComesToRun
