\* One of the claims at a time: OnlyCutPairsReported, or ConfigHasTheWord with
\* the artifacts MCRenamed.
SPECIFICATION ServingSpec
CONSTANTS
  Releases = {"old", "new"}
  FileOrder <- MCFileOrder
  Contents <- MCContents
  Weights <- MCWeights
  Artifacts <- MCArtifacts
  Works <- MCWorks
  MaxSeqTokens = 2
  BatchSize = 2
  Unpinned = Unpinned
  Absent = Absent
  NoDir = NoDir
  None = None
INVARIANT OnlyCutPairsReported
