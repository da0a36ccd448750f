\* One worker, which may end by itself.
CONSTANTS
  Threads = {t1, t2}
  Monitor = Monitor
  MAX_WORKERS = 2
  min_workers = 1
  max_workers = 2
  MAX_FORKS = 2
  MAX_CRASHES = 1
SPECIFICATION FairSpec
PROPERTY DeadIsRemoved
CHECK_DEADLOCK FALSE
