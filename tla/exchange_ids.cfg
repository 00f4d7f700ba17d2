\* Two clients that each number their orders from 1, and orders that only rest.
CONSTANTS
  OrderIds = {1, 2}
  Prices <- MCPrices
  Quantities = {1, 15}
  StaleReads = {"kept"}
  Byte = 4
  MaxLevels = 1
  Clients = {c1, c2}
  None = none
  Commands <- MCBids
  MaxRequests = 2
  SendResults = {"sent"}
\* The clients make a bounded number of requests.
CHECK_DEADLOCK FALSE
SPECIFICATION ExchangeSpec
INVARIANTS
  ServerIdsUnique
