\* Three workflows: with a trigger that fails, with polls, with both kinds of nodes.
SPECIFICATION FairSpec
CONSTANTS
  u = u  v = v
  Users = {u, v}
  None = None
  Workflows <- SmallWorkflows
  MaxFailures = 3
INVARIANTS TypeOK DownIsRetried DownIsShown RunsAsStored
PROPERTIES ComesUp
CHECK_DEADLOCK FALSE
