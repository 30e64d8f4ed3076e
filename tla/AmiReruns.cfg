\* Reruns after failures, time-outs and lost answers.
SPECIFICATION FairSpec
CONSTANTS
  i1 = i1
  i2 = i2
  i3 = i3
  i4 = i4
  Env = Env
  Owner = Owner
  Team = Team
  None = None
  Id = {i1, i2, i3, i4}
  Tag = {Env, Owner, Team}
  Call <- MCCall
  Seed <- MCSeed
  MaxRuns = 3
  MaxFaults = 1
INVARIANTS
  ReportTellsTruth
PROPERTIES
  RunsEnd
  KeepsPromise
