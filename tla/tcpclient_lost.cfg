\* Does the client end normally when the server has gone away?
CONSTANTS
  MaxOrders = 2
  HeaderSize = 2
  Lengths = {2, 3}
  BufferSize = 4
  Misread = {0, 1, 3}
  MaxMessages = 2
  Sends = {"whole", "cut", "overrun"}
  MaxExtra = 2
SPECIFICATION Spec
INVARIANTS
  ExitsNormally
