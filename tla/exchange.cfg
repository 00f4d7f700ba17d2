\* Two clients, two requests each, one shown level: a level of two orders can
\* wrap, and every call can meet a call that is matching.
CONSTANTS
  OrderIds = {1, 2}
  Prices <- MCPrices
  Quantities = {1, 15}
  StaleReads = {"kept"}
  Byte = 4
  MaxLevels = 1
  Clients = {c1, c2}
  None = none
  Commands <- MCCommands
  MaxRequests = 2
  SendResults = {"sent", "cut", "failed"}
\* The clients make a bounded number of requests.
CHECK_DEADLOCK FALSE
SPECIFICATION ExchangeSpec
INVARIANTS
  ExchangeTypeOK
  AnswersInOrder
  ShownUncrossed
  NobodyStuck
PROPERTIES
  LevelsShown
  HandledUnlessExhausted
