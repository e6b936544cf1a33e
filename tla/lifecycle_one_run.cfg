\* One run of two gates under two faults, with two sweeps racing each other.
SPECIFICATION Spec
CONSTANTS
  Request = {r1}
  Stage3Run = {S1}
  S1 = S1
  Stage3RunOf <- OneStage3Run
  Owner = {o1, o2, o3}
  Sweeper = {w1, w2}
  None = None
  NumGates = 2
  MaxSweeps = 1
  MaxTaskRetries = 1
  MaxFaults = 2
  MaxRetriggers = 1
SYMMETRY OwnerSymmetry
INVARIANTS TypeOK CascadeOrder SweepBudget
PROPERTIES LostLeaseNeverRegained LiveLeaseRespected CommittedGateFinal
CHECK_DEADLOCK FALSE
