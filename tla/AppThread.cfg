CONSTANTS
  Threads = {m, t, u}
  Master = m
  Pipelines = {f, p}
  Firewalls = {f}
  Capacity = 2
  RingSlots = 1
  MaxCommands = 6
  NULL = NULL
SPECIFICATION Spec
CHECK_DEADLOCK FALSE
INVARIANTS FlagMatchesThreads StatusesLagByTimeouts
PROPERTIES CommandsReturn RequestsAreHandled
