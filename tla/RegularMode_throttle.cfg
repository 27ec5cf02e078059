\* A production and a manual execution that wait and are resumed by timer and
\* by webhook, compete for one slot; a stop, timeouts and a failed write.
SPECIFICATION Spec
CONSTANTS
  e1 = e1  e2 = e2  e3 = e3
  production = production  evaluation = evaluation
  Execs = {e1, e2}
  Calls = {c1, c2, c3}
  Stops = {s1}
  QueueTypes <- OneQueue
  Unlimited = Unlimited
  None = None
  Limit <- LimitOne
  ModeLane <- OneManual
  WebhookLane = production
  Outcomes = {"success", "waiting"}
  HasTimeout = TRUE
  MaxFaults = 1
  MaxCrashes = 0
INVARIANTS SlotConservation NoIdleCapacity HoldersBounded NoLeak
SYMMETRY CallSymmetry
CHECK_DEADLOCK FALSE
