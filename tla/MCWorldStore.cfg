\* Arbitration: one product, three commands under two ids.
\* Persistence: both backends, two products, two snapshots.
SPECIFICATION MCSpec
CONSTANTS
  Asins = {a1}
  Ids = {c1, c2}
  Prices <- MCPrices
  Quantities = {0, 3}
  MinPrice = 2
  MaxPrice = 12
  SnapshotEvery = 2
  MaxTick = 3
  MaxHandled = 3
  MaxSnapshots = 2
  b1 = b1
  b2 = b2
  Items = {b1, b2}
  Amounts = {5}
  Levels = {0, 3}
  Looks <- MCLooks
  Backends = {"memory", "json"}
  MaxSaves = 2
SYMMETRY MCSymmetry
INVARIANTS
  OneUpdatePerTick
  PriceDriftPerTick
  StatisticsAddUp
  RestoredGoods
  RestoredMetadata
CHECK_DEADLOCK FALSE
