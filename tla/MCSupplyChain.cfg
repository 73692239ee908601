SPECIFICATION Spec
CONSTANTS
  Asins = {a1, a2}
  Quantities = {1, 2}
  Demands = {3}
  Rates = {50}
  BaseLead = 2
  SupplierLeads = {0}
  Variances <- MCVariances
  Extras = {1}
  Multipliers = {10}
  InitialStock = 2
  MaxTick = 3
  MaxOrders = 2
  MaxSales = 1
INVARIANTS OrdersConserved NothingOverdue CutOnce
PROPERTY KeepsEveryUnit
CHECK_DEADLOCK FALSE
