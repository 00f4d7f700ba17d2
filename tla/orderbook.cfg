\* Every operation on four ids; dangling reads give old bytes, other bytes or a fault.
CONSTANTS
  OrderIds = {o1, o2, o3, o4}
  Prices = {2, 3}
  Quantities = {1, 2}
  StaleReads = {"kept", "reused", "fault"}
SYMMETRY Symmetry
SPECIFICATION Spec
INVARIANTS
  TypeOK
  IndexConsistent
  UncrossedAtRest
  NoLeftoversAtRest
PROPERTIES
  PriceTimePriority
