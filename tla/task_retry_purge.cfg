\* G1 crashes after a batch and Cloud Run retries the task.
SPECIFICATION Spec
CONSTANTS
  NumPairs = 2
  NumRuns = 1
  Owner = {o1, o2}
  None = None
  BatchSize = 1
  OverFetch = 4
  MaxLlmPairs = 0
  JudgeModes = {"GATEKEEPER"}
  Scores <- MCFewScores
  MaxAttempts = 1
  MaxTaskRetries = 1
  MaxFaults <- MCCrash
PROPERTY PurgeSparesOwnOutput
CHECK_DEADLOCK FALSE
