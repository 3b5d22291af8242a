CONSTANTS
  Producers = {p1, p2}
  Consumers = {c1, c2}
  Objects = {x}
  Empty = Empty
  SingleProducer = {FALSE}
  SingleConsumer = {TRUE, FALSE}
  Size = 4
  IndexBits = 4
  Starts = {14}
  Behaviors = {TRUE}
  MaxBurst = 1
  MaxEnqueues = 5
SPECIFICATION Spec
INVARIANTS IndicesInOrder ReservationsAreDisjoint
PROPERTIES ImplementsFifo CallsReturn
