\* One run, in earnest or in SHADOW mode, through a crash and a gate error, with task retries and claims.
SPECIFICATION Spec
CONSTANTS
  NumPairs = 3
  NumRuns = 1
  Owner = {o1, o2}
  None = None
  BatchSize = 2
  OverFetch = 1
  MaxLlmPairs = 1
  JudgeModes = {"GATEKEEPER", "SHADOW"}
  Scores <- MCAllScores
  MaxAttempts = 2
  MaxTaskRetries = 1
  MaxFaults <- MCCrashes
CHECK_DEADLOCK FALSE
SYMMETRY MCSymmetry
INVARIANTS VerdictDurable SucceededIsDrained SettledWithinCap DisputesReachTheTail ShadowSilent
