\* A failed run revived after its successor was opened.
SPECIFICATION Spec
CONSTANTS
  Request = {r1, r2}
  Stage3Run = {S1}
  S1 = S1
  Stage3RunOf <- OneStage3Run
  Owner = {o1, o2, o3}
  Sweeper = {w1}
  None = None
  NumGates = 2
  MaxSweeps = 1
  MaxTaskRetries = 0
  MaxFaults = 0
  MaxRetriggers = 1
INVARIANT OneLiveRun
CHECK_DEADLOCK FALSE
