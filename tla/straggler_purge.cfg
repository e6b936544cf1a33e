\* A superseded first attempt is still in its setup.
SPECIFICATION Spec
CONSTANTS
  NumPairs = 2
  NumRuns = 2
  Owner = {o1, o2}
  None = None
  BatchSize = 2
  OverFetch = 4
  MaxLlmPairs = 0
  JudgeModes = {"GATEKEEPER"}
  Scores <- MCFewScores
  MaxAttempts = 1
  MaxTaskRetries = 0
  MaxFaults <- MCNoFault
PROPERTY NoStragglerRegression
CHECK_DEADLOCK FALSE
