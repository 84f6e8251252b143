\* One command while the door travels.
SPECIFICATION GarageSpec
CONSTANTS
  SensorDebounce = 1
  MaxGarageCommands = 1
CHECK_DEADLOCK FALSE
PROPERTIES PublishedSettles
