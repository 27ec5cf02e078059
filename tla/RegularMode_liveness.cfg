\* Three executions, one slot, a failed write, a shutdown or crash at any step, and
\* a boot that reruns what was still queued.
SPECIFICATION Spec
CONSTANTS
  e1 = e1  e2 = e2  e3 = e3
  production = production  evaluation = evaluation
  Execs = {e1, e2, e3}
  Calls = {c1, c2, c3}
  Stops = {}
  QueueTypes <- OneQueue
  Unlimited = Unlimited
  None = None
  Limit <- LimitOne
  ModeLane <- AllLimited
  WebhookLane = production
  Outcomes = {"success"}
  HasTimeout = FALSE
  MaxFaults = 1
  MaxCrashes = 1
 
PROPERTIES NoAdmissionInDrain FirstInFirstOut QueueMoves ShutdownEnds
CHECK_DEADLOCK FALSE
