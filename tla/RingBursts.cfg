CONSTANTS
  Producers = {p1, p2}
  Consumers = {c1}
  Objects = {x, y}
  Empty = Empty
  SingleProducer = {TRUE, FALSE}
  SingleConsumer = {TRUE}
  Size = 4
  IndexBits = 4
  Starts = {14}
  Behaviors = {TRUE, FALSE}
  MaxBurst = 2
  MaxEnqueues = 3
SPECIFICATION Spec
SYMMETRY Symmetric
INVARIANT TypeOK
PROPERTIES RefusedOnlyWithReason ImplementsFifo
