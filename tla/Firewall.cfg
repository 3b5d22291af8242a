CONSTANTS
  AddrBits = 1
  Protos = {tcp}
  Ports = {p1, p2}
  BadPort = bad
  Capacity = 2
  Ops = {"add", "del", "add_bulk", "del_bulk", "add_default", "del_default", "ping"}
  MaxBatch = 2
  RingSlots = 1
  MaxCommands = 3
  NONE = NONE
SPECIFICATION Spec
SYMMETRY Symmetric
CHECK_DEADLOCK FALSE
INVARIANTS TypeOK MirrorMatchesTable ListedOnce NoUnknownRules MemoryErrorsNeedTimeouts
PROPERTY ImplementsChannel
