\* One execution, two workers, two processes that end, one stop, one call that throws.
SPECIFICATION FairSpec
CONSTANTS
  Execs = {x}
  Workers = {v, w}
  None = None
  MaxStalled = 1
  Batch = 1
  MaxDeaths = 2
  MaxStops = 1
  MaxErrors = 1
INVARIANTS AccountedFor ReportedIsFinal 
PROPERTIES FinishedIsNotRerun EntrySettles ExecutionEnds
CHECK_DEADLOCK FALSE
