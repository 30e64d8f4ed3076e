\* Every combination of flags, and finalize runs over a namespace that users
\* delete and create again.
SPECIFICATION FairSpec
CONSTANTS
  App = App
  Infra = Infra
  Shared = Shared
  Wild = Wild
  Old = Old
  Namespace <- WithOld
  MalformedName = {Wild}
  SharedOperators = Shared
  Name <- MCName
  Token <- MCToken
  HardBlocked = {Infra}
  Actor = {"namespaces", "release"}
  Population <- FurnishedAndStuck
  InitialPhases <- OldPresent
  Contested = {Old}
  GlobalCsv = {}
  PartialCsvAdmitted = TRUE
  MaxRevision = 2
  Config <- GuardConfig
  Retries = 2
  MaxFaults = 1
INVARIANTS
  RefusalIsClean
  SharedOperatorsIntact
  FinalizesOnlyTerminating
  SweepIsComplete
PROPERTIES
  Terminates
