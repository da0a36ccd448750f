\* Threads enqueue concurrently, three at a ring of two; one message is too long.
CONSTANTS
  Workers = {w1}
  Threads = {t1, t2, t3, t4}
  Oversized = {t4}
  CAP = 2
  NoWorker = NoWorker
  NoMsg = NoMsg
  NoPayload = NoPayload
  Budgets = {2}
  LIMIT = 1
SPECIFICATION Spec
SYMMETRY Symmetry
INVARIANTS TypeOK SemaphoresSurvive
CHECK_DEADLOCK FALSE
