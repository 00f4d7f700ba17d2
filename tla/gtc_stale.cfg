\* A modify whose read of the freed order sees bytes written by another thread.
CONSTANTS
  OrderIds = {o1, o2, o3}
  Prices = {1, 2}
  Quantities = {1, 2}
  StaleReads = {"kept", "reused"}
\* A process that has crashed does nothing more.
CHECK_DEADLOCK FALSE
SYMMETRY Symmetry
SPECIFICATION HSpec
PROPERTIES
  GoodTillCancelHolds
