SPECIFICATION FairSpec
CONSTANTS
  Parts = {"keys", "poll", "workflow", "process"}
  Hooks = {e1}
  Requests = {k1}
  Contents = {x1, x2}
  Clients = {c1, c2}
  Messages = {m1, m2, m3}
  MaxRuns = 3
  MaxTime = 2
  MaxChanges = 2
  MaxFaults = 1
  None = None
INVARIANTS OneRunPerCause
   
CHECK_DEADLOCK FALSE
