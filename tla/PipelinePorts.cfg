CONSTANTS
  Width = 5
  NumPortsIn = 5
  NULL = NULL
SPECIFICATION Spec
INVARIANTS ChainLinksEnabledPorts TurnIsEnabled
PROPERTIES ImplementsRoundRobin EveryEnabledPortIsServed
CHECK_DEADLOCK TRUE
