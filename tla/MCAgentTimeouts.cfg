\* One registration, asked on three ticks, two timeouts allowed.
SPECIFICATION RowSpec
CONSTANTS
  Agent = {a1}
  Threshold = 2
  Keep = 1
  MaxTick = 2
  MaxGen = 1
PROPERTIES
  ConsecutiveTimeouts
CHECK_DEADLOCK FALSE
