\* Any sequence of commands with two orders, against a server that sends up to
\* two messages on each connection, whole, in part or with two bytes behind them,
\* and may go away.
CONSTANTS
  MaxOrders = 2
  HeaderSize = 2
  Lengths = {2, 3}
  BufferSize = 4
  Misread = {0, 1, 3}
  MaxMessages = 2
  Sends = {"whole", "cut", "overrun"}
  MaxExtra = 2
SPECIFICATION Spec
INVARIANTS
  TypeOK
  RequestsHaveSocket
  ReleasedTogether
  IdsIncrease
  AnswersIntact
PROPERTIES
  LossIsNoticed
  DisconnectReturns
  AnswersHandled
