\* One run that fails in FINALIZE.
SPECIFICATION Spec
CONSTANTS
  Request = {r1}
  Stage3Run = {S1}
  S1 = S1
  Stage3RunOf <- OneStage3Run
  Owner = {o1, o2}
  Sweeper = {w1}
  None = None
  NumGates = 2
  MaxSweeps = 1
  MaxTaskRetries = 0
  MaxFaults = 0
  MaxRetriggers = 0
INVARIANT FailedRunRevivable
CHECK_DEADLOCK FALSE
