\* Two runs of one stage-3 run whose workers overlap: superseded, stalled, rescued.
SPECIFICATION Spec
CONSTANTS
  NumPairs = 2
  NumRuns = 2
  Owner = {o1, o2, o3}
  None = None
  BatchSize = 1
  OverFetch = 4
  MaxLlmPairs = 1
  JudgeModes = {"GATEKEEPER"}
  Scores <- MCFlagScores
  MaxAttempts = 2
  MaxTaskRetries = 0
  MaxFaults <- MCStall
CHECK_DEADLOCK FALSE
SYMMETRY MCSymmetry
INVARIANT EscapeHatch
PROPERTY OnlyResetGoesBack
