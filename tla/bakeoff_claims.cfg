\* One of the claims at a time: CrashedRunResumes, ReportedOverItsTexts,
\* PrecisionOfItsNumbers or GraphWins.
SPECIFICATION Spec
CONSTANTS
  Rosters <- MCRosters
  Sources <- MCRetold
  Limits <- NoLimit
  Base <- MCBase
  Grids <- MCNoGrid
  Releases <- MCReleases
  Says <- MCSays
  MaxChanges = 1
  None = None
  Torn = Torn
  Scale = 4
  Bins = 2
INVARIANT CrashedRunResumes
