\* A Release heap that nothing else allocates from: dangling reads give the old bytes.
\* Quantities may be zero.
CONSTANTS
  OrderIds = {o1, o2, o3}
  Prices = {1, 2}
  Quantities = {0, 1, 2}
  StaleReads = {"kept"}
SPECIFICATION HSpec
INVARIANTS
  NeverCrashes
  IndexConsistent
  TradesAccountForFills
PROPERTIES
  FillsEnd
  GoodTillCancelHolds
