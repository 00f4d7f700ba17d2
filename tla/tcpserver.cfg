\* Two workers, three connections that reuse two socket values.
CONSTANTS
  Workers = {w1, w2}
  Connections = {c1, c2, c3}
  Handles = {h1, h2}
  None = None
  Requests = {"status", "order"}
  Lengths = {"proper"}
  MaxUnread = 1
  BookCalls = {"returns", "spins"}
  DestroyedReads = {"harmless", "fault"}
SYMMETRY Symmetry
SPECIFICATION Spec
INVARIANTS
  TypeOK
  ClientsListed
  OwnSocket
  NeverDeadlocked
PROPERTIES
  StopEndsIntake
