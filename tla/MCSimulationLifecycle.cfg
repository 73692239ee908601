\* Two requests of each kind, in any order.
SPECIFICATION LifecycleFairSpec
CONSTANTS
  Starts = {s1, s2}
  Runs = {r1, r2}
  Stops = {q1, q2}
  None = None
INVARIANTS OneRunner StoppedIsQuiet LiveIsRegistered
PROPERTIES RunsAreCleanedUp
CHECK_DEADLOCK FALSE
