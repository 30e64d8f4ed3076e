\* OLM and the workload controllers act between any two calls of the role.
SPECIFICATION FairSpec
CONSTANTS
  App = App
  Infra = Infra
  Shared = Shared
  Wild = Wild
  Old = Old
  Namespace <- MCNamespace
  MalformedName = {Wild}
  SharedOperators = Shared
  Name <- MCName
  Token <- MCToken
  HardBlocked = {Infra}
  Actor = {"olm", "copies", "release", "workloads"}
  Population <- BusyOnly
  InitialPhases <- AllActive
  Contested = {}
  GlobalCsv <- AcmOnly
  PartialCsvAdmitted = TRUE
  MaxRevision = 0
  Config <- CallerConfig
  Retries = 1
  MaxFaults = 1
INVARIANTS
  RemovalsAuthorized
PROPERTIES
  CopiesSurvive
  OnlySelectedTouched
