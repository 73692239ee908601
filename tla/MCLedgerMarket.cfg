SPECIFICATION DisputesSpec
CONSTANTS
  e1 = e1
  e2 = e2
  EventId = {e1, e2}
  Manual <- MCNone
  Sales <- MCMarketSales
  Adjustments <- MCNone
  Capital <- MCCapital
  DisputeId = {}
  Claims <- MCNone
  Amounts <- MCNone
  MaxTx = 4
INVARIANT EverySaleBooked
CHECK_DEADLOCK FALSE
