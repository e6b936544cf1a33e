\* One of the claims at a time: NewQuantizerDecides, RevisionOfItsWeights,
\* ScoredAgainstItsParent, ReusesExports or HalfPublishInvisible.
SPECIFICATION Spec
CONSTANTS
  Revisions = {"rev1", "rev2"}
  Quantizers = {"q1", "q2"}
  Levels = {0, 1}
  MaxRuns = 3
  None = None
  Torn = Torn
INVARIANT NewQuantizerDecides
