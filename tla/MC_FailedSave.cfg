\* A configuration is received and the save fails.
SPECIFICATION ProvisioningSpec
CONSTANTS
  Announced = 2
  MaxConnections = 4
  MaxPowerCycles = 1
CHECK_DEADLOCK FALSE
INVARIANTS FurtherAttemptPossible
