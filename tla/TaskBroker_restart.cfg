\* One request; the child process crashes, stops or answers late once.
SPECIFICATION FairSpec
CONSTANTS
  Requests = {q1}
  Runners = {1, 2, 3}
  OfferIds = {1, 2, 3}
  MaxConcurrency = 1
  MaxTasks = 3
  MaxFaults = 1
  None = None
  Mode = "internal"
PROPERTY RequestAnswered
CHECK_DEADLOCK FALSE
