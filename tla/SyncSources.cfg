\* A git project and a manual one, from every state an earlier play may have left.
SPECIFICATION FairSpec
CONSTANTS
  p1 = p1
  p2 = p2
  None = None
  old = old
  new = new
  Project = {p1, p2}
  Projects <- TwoProjects
  Scm = {p1}
  Source = {old, new}
  Desired = new
  Tries = 2
  MaxOthers = 2
  MaxFaults = 2
  MaxRuns = 2
INVARIANTS
  PassedMeansSynced
PROPERTIES
  NoPileUp
  SyncEnds
