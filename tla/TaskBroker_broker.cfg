\* Two runners of one place each, connected from outside, each a launcher or not; one fault.
SPECIFICATION Spec
CONSTANTS
  Requests = {q1, q2}
  Runners = {r1, r2}
  OfferIds = {1, 2, 3}
  MaxConcurrency = 1
  MaxTasks = 3
  MaxFaults = 1
  None = None
  Mode = "external"
INVARIANTS AcceptedIsWanted TasksAreAwaited RunnersCarryTasks
 
SYMMETRY Symmetry
CHECK_DEADLOCK FALSE
