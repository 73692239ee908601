\* A class and its subclass, a handler under one selector, three publications,
\* in a process that logs or does not: recording switched and cleared, the bus
\* stopped by one caller or by two at once, and lazily started again.
SPECIFICATION FairSpec
CONSTANTS
  h1 = h1
  h2 = h2
  A = A
  B = B
  AName = AName
  Handler = {h1}
  Class = {A, B}
  NameOf <- MCNameOf
  Supers <- MCSupers
  Unsummarised <- MCUnsummarised
  RecordingMax = 2
  MaxEvents = 3
  MaxSubs = 1
  MaxSwitches = 2
INVARIANTS CountersAddUp RecordingHonest
PROPERTIES OrderedDelivery DrainsBeforeStop StopReturns EventuallyDispatched
CHECK_DEADLOCK FALSE
