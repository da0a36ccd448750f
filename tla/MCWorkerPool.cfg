\* One worker at first, room for a second; one process may end by itself.
CONSTANTS
  Threads = {t1, t2, t3}
  Monitor = Monitor
  MAX_WORKERS = 2
  min_workers = 1
  max_workers = 2
  MAX_FORKS = 3
  MAX_CRASHES = 1
SPECIFICATION Spec
SYMMETRY Symmetry
INVARIANTS TypeOK ChildrenCounted AlwaysAWorker ScaleDownSparesOpen ServedUnlessEnded
CHECK_DEADLOCK FALSE
