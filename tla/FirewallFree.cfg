CONSTANTS
  AddrBits = 1
  Protos = {tcp}
  Ports = {p1, p2}
  BadPort = bad
  Capacity = 2
  Ops = {"add_bulk"}
  MaxBatch = 2
  RingSlots = 1
  MaxCommands = 1
  NONE = NONE
SPECIFICATION Spec
CHECK_DEADLOCK FALSE
INVARIANT OnlyAllocatedIsFreed
