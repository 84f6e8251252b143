\* A hold of three ticks, turns of up to two.
SPECIFICATION ButtonSpec
CONSTANTS
  Hold = 3
  MaxWait = 2
  MaxTicks = 7
CHECK_DEADLOCK FALSE
INVARIANTS ClearNeedsHold
