\* One run, a crash after the last commit.
SPECIFICATION FairSpec
CONSTANTS
  Request = {r1}
  Stage3Run = {S1}
  S1 = S1
  Stage3RunOf <- OneStage3Run
  Owner = {o1, o2, o3}
  Sweeper = {w1}
  None = None
  NumGates = 2
  MaxSweeps = 1
  MaxTaskRetries = 1
  MaxFaults = 1
  MaxRetriggers = 0
PROPERTY RunSettles
CHECK_DEADLOCK FALSE
