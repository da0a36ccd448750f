\* A request without max_tokens, alone on the server.
CONSTANTS
  Workers = {w1}
  Threads = {t1}
  Oversized = {}
  CAP = 2
  NoWorker = NoWorker
  NoMsg = NoMsg
  NoPayload = NoPayload
  Budgets = {0}
  LIMIT = 1
SPECIFICATION FairSerialSpec
PROPERTY EveryRequestEnds
CHECK_DEADLOCK FALSE
