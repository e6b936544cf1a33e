\* Mirroring, loading, kills and damage in every order, and scoring with what
\* is installed.
SPECIFICATION ServingSpec
CONSTANTS
  Releases = {"old", "new"}
  FileOrder <- MCFileOrder
  Contents <- MCContents
  Weights <- MCWeights
  Artifacts <- MCArtifacts
  Works <- MCWorks
  MaxSeqTokens = 2
  BatchSize = 2
  Unpinned = Unpinned
  Absent = Absent
  NoDir = NoDir
  None = None
INVARIANTS WholePinnedRelease ScoresMeanWhatTheySay CutPairsReported
PROPERTIES EntryGivesWayToWhole LoadsInTheEnd
