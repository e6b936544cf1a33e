\* Every judge mode, door, reply and answer.
SPECIFICATION Spec
CONSTANTS
  Pairs <- MCPairs
  Answers <- MCAnswers
  Verdicts <- MCVerdicts
  MaxLlmPairs = 3
  PriorLlmPairs = 1
  RetryAttempts = 4
  One = 2
  DefaultMode = "GATEKEEPER"
  NaN = NaN
  Huge = Huge
  None = None
INVARIANTS NeverAGuess CalledWithinCap
PROPERTY AnsweredOnce
CHECK_DEADLOCK FALSE
