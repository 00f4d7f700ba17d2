\* Does every matching call come back?
CONSTANTS
  OrderIds = {o1, o2, o3}
  Prices = {1, 2}
  Quantities = {1, 2}
  StaleReads = {"kept"}
SPECIFICATION Spec
PROPERTIES
  MatchingReturns
