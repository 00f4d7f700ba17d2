\* Three workers, two callers and running tasks race for the queue.
CONSTANTS
  Workers = {w1, w2, w3}
  Callers = {c1, c2}
  Tasks = {t1, t2, t3}
SPECIFICATION Spec
INVARIANTS
  TypeOK
  NoTaskLost
  Drained
  NoLostWakeup
PROPERTIES
  AcceptedStart
  DestructorReturns
