CONSTANTS
  RingSlots = 3
  MaxCommands = 11
SPECIFICATION Spec
CHECK_DEADLOCK FALSE
INVARIANTS OutstandingInOrder TimeoutsFillTheRings
PROPERTIES RepliesLagByTimeouts CommandsReturn
