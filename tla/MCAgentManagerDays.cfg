\* One registration, handlers of three ticks at work at once.
SPECIFICATION Spec
CONSTANTS
  Agent = {a1}
  Threshold = 2
  Keep = 1
  MaxTick = 2
  MaxGen = 1
INVARIANTS
  OneDecisionPerDay
CHECK_DEADLOCK FALSE
