\* Three runs of two ticks or without a limit, given up at the third error.
SPECIFICATION FairSpec
CONSTANTS
  Limits = {0, 2}
  MaxErrors = 3
  MaxStarts = 3
  MaxTicks = 3
INVARIANTS OneLoop EveryTickOnce StatusHonest
PROPERTIES EveryRunEnds
CHECK_DEADLOCK FALSE
