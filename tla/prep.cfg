\* Three runs on one scratch directory, with upstream moving.
SPECIFICATION Spec
CONSTANTS
  Revisions = {"rev1", "rev2"}
  Quantizers = {"q1"}
  Levels = {0, 1}
  MaxRuns = 3
  None = None
  Torn = Torn
INVARIANTS Int8EarnedItsPlace PinIsServed
PROPERTY ManifestGoesLast
