\* Three requests in a ring of two slots, each may be canceled at any time.
CONSTANTS
  Workers = {w1}
  Threads = {t1, t2, t3}
  Oversized = {}
  CAP = 2
  NoWorker = NoWorker
  NoMsg = NoMsg
SPECIFICATION CancelSpec
SYMMETRY Symmetry
INVARIANTS TypeOK SpaceConservation TaskIdsUnique
           ItemsCountQueue NoOverwrite OwnPrompt CancelIsKept MissedIsDequeued
PROPERTY ImplementsTaskQueue
CHECK_DEADLOCK FALSE
