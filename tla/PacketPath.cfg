CONSTANTS
  Kinds = {"firewall", "library"}
  BurstMax = 2
  Mbufs = {m1, m2}
  NumTables = 2
  NumPortsIn = 1
  NumPortsOut = 2
  NULL = NULL
SPECIFICATION Spec
SYMMETRY Symmetric
CHECK_DEADLOCK FALSE
INVARIANTS EveryPacketInOnePlace PacketsFollowTheirVerdict CopiesAreFreedOnce DropsLeakTheirCopies
