\* One of the claims at a time: ContradictionsForHumans, DoubleNeverAuthoritative,
\* AuthoritativeOnlyIfPinned, SpendIsBilled or FailureCostsItsPair; OneVerdictPerAnswer with the answers
\* MCTwoRows, ConfidenceClamped with MCNaN.
SPECIFICATION Spec
CONSTANTS
  Pairs <- MCPairs
  Answers <- MCAnswers
  Verdicts <- MCVerdicts
  MaxLlmPairs = 3
  PriorLlmPairs = 1
  RetryAttempts = 4
  One = 2
  DefaultMode = "GATEKEEPER"
  NaN = NaN
  Huge = Huge
  None = None
INVARIANT ContradictionsForHumans
CHECK_DEADLOCK FALSE
