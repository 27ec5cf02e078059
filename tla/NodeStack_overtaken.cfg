\* Data that overtake others on their way to a node.
SPECIFICATION Spec
CONSTANTS
  t = t  a = a  m = m  k = k
  Nodes = {t, a, m, k}
  Start = t
  Workflows <- Overtaken
  Ranks <- Places
  Demands <- Requirements
  None = None
INVARIANTS DataIsKept
CHECK_DEADLOCK FALSE
