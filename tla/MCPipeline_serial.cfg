\* Two requests through one worker's ring of two slots; both threads wait for
\* chunks at once.  Liveness, so no symmetry.
CONSTANTS
  Workers = {w1}
  Threads = {t1, t2}
  Oversized = {}
  CAP = 2
  NoWorker = NoWorker
  NoMsg = NoMsg
  NoPayload = NoPayload
  Budgets = {1, 3}
  LIMIT = 2
SPECIFICATION FairSerialSpec
INVARIANTS OwnAnswerInOrder WholeAnswer NothingLeftBehind
PROPERTIES EveryRequestEnds KeepsSlotProtocol
CHECK_DEADLOCK FALSE
