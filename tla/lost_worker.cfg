\* A worker stands still in the middle of a batch.
SPECIFICATION Spec
CONSTANTS
  NumPairs = 2
  NumRuns = 1
  Owner = {o1, o2}
  None = None
  BatchSize = 2
  OverFetch = 4
  MaxLlmPairs = 0
  JudgeModes = {"GATEKEEPER"}
  Scores <- MCFewScores
  MaxAttempts = 2
  MaxTaskRetries = 0
  MaxFaults <- MCStall
PROPERTY LostWorkerWritesNothing
CHECK_DEADLOCK FALSE
