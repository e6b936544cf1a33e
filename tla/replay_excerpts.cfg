\* A pair with a source excerpt of each claim.
SPECIFICATION ReplaySpec
CONSTANTS
  Nli <- MCNli
  Grounding <- MCGrounding
  None = None
  NeutralMin = 4
  RepeatMin = 3
  ContraEscape = 0
  SupportMin = 4
  ContraMin = 3
  NeutralConsensus = 2
  Excerpts <- AnyExcerpt
INVARIANT ReplayMeasuresProduction
CHECK_DEADLOCK FALSE
