\* Two events of each kind, four callers' transactions and a dispute.
SPECIFICATION DisputesSpec
CONSTANTS
  e1 = e1
  e2 = e2
  EventId = {e1, e2}
  Manual <- MCManual
  Sales <- MCSales
  Adjustments <- MCAdjustments
  Capital <- MCCapital
  DisputeId = {e1}
  Claims <- MCClaims
  Amounts <- MCAmounts
  MaxTx = 4
INVARIANTS
  IntegrityHolds
  ListedIsNotPosted
  JournalExplainsBalances
  SettledOnce
PROPERTIES
  AllOrNothing
  CleanDrainEmptiesList
CHECK_DEADLOCK FALSE
