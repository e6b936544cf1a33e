\* Runs over changing corpora, with and without --limit and --grid.
SPECIFICATION Spec
CONSTANTS
  Rosters <- MCRosters
  Sources <- MCSources
  Limits <- AnyLimit
  Base <- MCBase
  Grids <- MCGrids
  Releases <- MCReleases
  Says <- MCSays
  MaxChanges = 1
  None = None
  Torn = Torn
  Scale = 4
  Bins = 2
INVARIANTS ReportedOverTheCorpus SharedPassPaidOnce AdoptedIsTheBest ReportAddsUp
