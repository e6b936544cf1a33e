\* One run of two gates under two faults, with the fairness of the deployment.
SPECIFICATION FairSpec
CONSTANTS
  Request = {r1}
  Stage3Run = {S1}
  S1 = S1
  Stage3RunOf <- OneStage3Run
  Owner = {o1, o2, o3, o4}
  Sweeper = {w1}
  None = None
  NumGates = 2
  MaxSweeps = 1
  MaxTaskRetries = 0
  MaxFaults = 2
  MaxRetriggers = 0
PROPERTY CascadeProgress
CHECK_DEADLOCK FALSE
