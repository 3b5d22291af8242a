CONSTANTS
  Keys = {k1, k2, k3}
  Entries = {e1, e2}
  NRules = 3
  MaxPriority = 1
  Priorities <- MCPriorities
  MaxBatch = 2
  NULL = NULL
SPECIFICATION Spec
SYMMETRY Symmetric
PROPERTY FailedBulkAddKeepsEntries
