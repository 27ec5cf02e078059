\* Stopping a queued execution lets another one exceed the limit.
SPECIFICATION Spec
CONSTANTS
  e1 = e1  e2 = e2  e3 = e3
  production = production  evaluation = evaluation
  Execs = {e1, e2, e3}
  Calls = {c1, c2, c3}
  Stops = {s1, s2}
  QueueTypes <- OneQueue
  Unlimited = Unlimited
  None = None
  Limit <- LimitOne
  ModeLane <- AllLimited
  WebhookLane = production
  Outcomes = {"success"}
  HasTimeout = FALSE
  MaxFaults = 0
  MaxCrashes = 0
INVARIANTS WithinLimit
SYMMETRY Symmetry
CHECK_DEADLOCK FALSE
