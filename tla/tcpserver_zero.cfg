\* One client that sends several messages at once, some of length zero.
CONSTANTS
  Workers = {w1, w2}
  Connections = {c1}
  Handles = {h1}
  None = None
  Requests = {"users", "order"}
  Lengths = {"proper", "zero"}
  MaxUnread = 2
  BookCalls = {"returns", "spins"}
  DestroyedReads = {"harmless", "fault"}
SPECIFICATION Spec
PROPERTIES
  EndsUnlessEndless
