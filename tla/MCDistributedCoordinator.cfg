\* Two workers, two ticks, one restart.
SPECIFICATION FairSpec
CONSTANTS
  Worker = {w1, w2}
  MaxTick = 2
  MaxStarts = 2
INVARIANTS NobodyLeftBehind
PROPERTIES ImplementsBarrier RemovedForCause TicksMoveOn
CHECK_DEADLOCK FALSE
