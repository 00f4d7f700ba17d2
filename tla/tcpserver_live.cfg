\* Two clients and book calls that may spin, of a server that is stopped.
CONSTANTS
  Workers = {w1, w2}
  Connections = {c1, c2}
  Handles = {h1, h2}
  None = None
  Requests = {"order"}
  Lengths = {"proper"}
  MaxUnread = 1
  BookCalls = {"returns", "spins"}
  DestroyedReads = {"harmless", "fault"}
SPECIFICATION Spec
PROPERTIES
  EndsUnlessEndless
  HandledWhenFree
