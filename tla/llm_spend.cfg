\* G4 crashes between the calls of a batch and its routing.
SPECIFICATION Spec
CONSTANTS
  NumPairs = 2
  NumRuns = 1
  Owner = {o1, o2}
  None = None
  BatchSize = 1
  OverFetch = 4
  MaxLlmPairs = 1
  JudgeModes = {"GATEKEEPER"}
  Scores <- MCTailScores
  MaxAttempts = 2
  MaxTaskRetries = 1
  MaxFaults <- MCCrash
INVARIANT CallsWithinCap
CHECK_DEADLOCK FALSE
