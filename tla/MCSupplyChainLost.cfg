SPECIFICATION Spec
CONSTANTS
  Asins = {a1}
  Quantities = {1}
  Demands = {1}
  Rates = {50}
  BaseLead = 1
  SupplierLeads = {}
  Variances <- MCVariances
  Extras = {0}
  Multipliers = {10}
  InitialStock = 2
  MaxTick = 4
  MaxOrders = 1
  MaxSales = 1
INVARIANT ArrivalsReachTheStock
CHECK_DEADLOCK FALSE
