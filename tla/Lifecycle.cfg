\* Two starts of the server, which may be killed once; two indices of which one
\* has a worker at first, two clients of which one may be connected.
CONSTANTS
  Clients = {c1, c2}
  MAX_WORKERS = 2
  min_workers = 1
  MAX_CONNECTIONS = 1
  MAX_RUNS = 2
  MAX_FORKS = 2
  MAX_KILLS = 1
SPECIFICATION FairSpec
INVARIANTS ConnectionsCounted KnownReaped FreshObjects
PROPERTIES ShutdownEnds StrayEnds
CHECK_DEADLOCK FALSE
