CONSTANTS
  Kinds = {"firewall"}
  BurstMax = 3
  Mbufs = {m1, m2, m3}
  NumTables = 1
  NumPortsIn = 1
  NumPortsOut = 2
  NULL = NULL
SPECIFICATION Spec
SYMMETRY Symmetric
CHECK_DEADLOCK FALSE
INVARIANT PoolIsNeverExhausted
