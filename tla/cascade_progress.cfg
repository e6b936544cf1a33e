\* Progress through a crash and a stall, under the fairness of the deployment.
SPECIFICATION FairSpec
CONSTANTS
  NumPairs = 2
  NumRuns = 1
  Owner = {o1, o2}
  None = None
  BatchSize = 2
  OverFetch = 4
  MaxLlmPairs = 1
  JudgeModes = {"GATEKEEPER"}
  Scores <- MCProgressScores
  MaxAttempts = 3
  MaxTaskRetries = 0
  MaxFaults <- MCStallCrash
CHECK_DEADLOCK FALSE
PROPERTIES Progress EveryRunSucceeds
