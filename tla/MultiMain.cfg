SPECIFICATION FairMultiMainSpec
CONSTANTS
  Mains = {a, b}
  Waits = {x}
  Me = a
  None = None
  Gone = Gone
  MaxFaults = 1
INVARIANTS LeaderHoldsKey  LeaderServes ActiveHasTrigger
PROPERTIES LeaderAgain WaitsResume
CHECK_DEADLOCK FALSE
