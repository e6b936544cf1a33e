\* The second run's G1 fails before its purge and is retriggered.
SPECIFICATION Spec
CONSTANTS
  NumPairs = 2
  NumRuns = 2
  Owner = {o1, o2}
  None = None
  BatchSize = 2
  OverFetch = 4
  MaxLlmPairs = 0
  JudgeModes = {"GATEKEEPER"}
  Scores <- MCTailScores
  MaxAttempts = 2
  MaxTaskRetries = 0
  MaxFaults <- MCError
INVARIANT FromStartRejudges
CHECK_DEADLOCK FALSE
