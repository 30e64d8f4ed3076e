\* Users delete and create one namespace during the run, and one call may fail;
\* another namespace is left to the role.
SPECIFICATION NamespaceFairSpec
CONSTANTS
  App = App
  Quiet = Quiet
  Shared = Shared
  Wild = Wild
  Namespace <- MCNamespace
  MalformedName = {Wild}
  HardBlocked = {}
  SharedOperators = Shared
  Name <- MCName
  Token <- MCToken
  Population <- MCPopulation
  GlobalCsv = {}
  PartialCsvAdmitted = TRUE
  Config <- MCConfig
  Request <- MCRequest
  InitialPhases <- MCPhases
  Contested = {App}
  Actor = {"namespaces"}
  MaxRevision = 2
  Retries = 1
  MaxFaults = 1
INVARIANTS
  NamespaceTypeOK
  ActsWithinRequest
PROPERTIES
  SuccessTellsTruth
  StuckNamespaceCleared
