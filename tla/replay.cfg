\* Every combination of answers, for a pair with no source excerpt or one of its first claim.
SPECIFICATION ReplaySpec
CONSTANTS
  Nli <- MCNli
  Grounding <- MCGrounding
  None = None
  NeutralMin = 4
  RepeatMin = 3
  ContraEscape = 0
  SupportMin = 4
  ContraMin = 3
  NeutralConsensus = 2
  Excerpts <- NoExcerptOrFirst
INVARIANTS HumanSawTwoFamilies StrongSignalNeverSettled DirectionBlind ReplayMatches
CHECK_DEADLOCK FALSE
