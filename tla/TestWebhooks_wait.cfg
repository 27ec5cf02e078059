\* A workflow with one webhook and one with two, two calls, a third party that fails once.
SPECIFICATION FairSpec
CONSTANTS
  w = w  x = x
  Workflows = {w, x}
  None = None
  Calls = {c, d}
  Hooks <- OneAndTwo
  MaxJobs = 2
  MaxFaults = 1
INVARIANTS WaitIsWatched
PROPERTIES WaitEnds
CHECK_DEADLOCK FALSE
