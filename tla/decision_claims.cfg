\* One of the claims at a time: FlaggedNeverNeutral or TruncationReachesG3.
SPECIFICATION Spec
CONSTANTS
  Nli <- MCNli
  Grounding <- MCGrounding
  None = None
  NeutralMin = 4
  RepeatMin = 3
  ContraEscape = 0
  SupportMin = 4
  ContraMin = 3
  NeutralConsensus = 2
INVARIANT FlaggedNeverNeutral
CHECK_DEADLOCK FALSE
