\* The retry loop around one project.
SPECIFICATION Spec
CONSTANTS
  p1 = p1
  p2 = p2
  None = None
  old = old
  new = new
  Project = {p1}
  Projects <- OneProject
  Scm = {p1}
  Source = {old, new}
  Desired = new
  Tries = 4
  MaxOthers = 0
  MaxFaults = 1
  MaxRuns = 1
PROPERTIES
  ExhaustedMeansNotApplied
