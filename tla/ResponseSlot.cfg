\* Two threads on one worker, any chunk to any task; no symmetry, for liveness.
CONSTANTS
  Workers = {w1}
  Threads = {t1, t2}
  NoWorker = NoWorker
  TaskIds = {1, 2}
  Payloads = {p1, p2}
  NoPayload = NoPayload
SPECIFICATION FairSpec
INVARIANTS TypeOK TokenConservation
PROPERTIES SlotStable ImplementsMailbox EveryChunkDelivered
