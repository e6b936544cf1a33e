\* Two runs of one stage-3 run, a retrigger, and one fault.
SPECIFICATION Spec
CONSTANTS
  Request = {r1, r2}
  Stage3Run = {S1}
  S1 = S1
  Stage3RunOf <- OneStage3Run
  Owner = {o1, o2, o3}
  Sweeper = {w1}
  None = None
  NumGates = 2
  MaxSweeps = 1
  MaxTaskRetries = 1
  MaxFaults = 1
  MaxRetriggers = 1
SYMMETRY OwnerSymmetry
INVARIANTS PublishAfterCommit RunOutcome OneLiveRunUnlessRetriggered
PROPERTIES FailedGateWaitsForOperator ImplementsLifecycle
CHECK_DEADLOCK FALSE
