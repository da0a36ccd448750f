\* The ring as the server uses it: two threads load the same head.
CONSTANTS
  Workers = {w1}
  Threads = {t1, t2}
  Oversized = {}
  CAP = 2
  NoWorker = NoWorker
  NoMsg = NoMsg
SPECIFICATION Spec
INVARIANT ItemsCountQueue
CHECK_DEADLOCK FALSE
