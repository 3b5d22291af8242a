CONSTANTS
  Packets = {x, y}
  Foreign = foreign
  BurstMax = 3
  Capacity = 3
  ReadBurst = 2
  CounterRange = 4
  BurstSizes = {1, 2, 3}
  Retries = {0, 1, 2, 4}
  Multi = {TRUE, FALSE}
SPECIFICATION Spec
CHECK_DEADLOCK FALSE
INVARIANT BufferFits
PROPERTIES ImplementsPacketChannel CallsOfThePortReturn BufferedPacketsLeave
