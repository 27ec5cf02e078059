\* A start node with two outputs and three nodes, drawn in every way.
SPECIFICATION Spec
CONSTANTS
  t = t  a = a  m = m  k = k
  Nodes = {t, a, m, k}
  Start = t
  Workflows <- Drawings
  Ranks <- Places
  Demands <- Requirements
  None = None
INVARIANTS TypeOK NodesRunOnce TopLeftFirst RanAsDrawn
CHECK_DEADLOCK FALSE
