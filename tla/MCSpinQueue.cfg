CONSTANTS
  Procs = {p1, p2}
  Nodes = {n1, n2, n3}
  Values = {v1, v2}
  NULL = NULL
  None = None
  Empty = Empty
  Filled = Filled
SPECIFICATION Spec
INVARIANTS
  ListSound
  NodesOwned
PROPERTIES
  ImplementsFifo
