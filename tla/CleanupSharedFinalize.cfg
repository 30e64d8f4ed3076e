\* A finalize run over the shared operators namespace, which somebody deletes.
SPECIFICATION Spec
CONSTANTS
  App = App
  Infra = Infra
  Shared = Shared
  Wild = Wild
  Old = Old
  Namespace <- TwoNamespaces
  MalformedName = {}
  SharedOperators = Shared
  Name <- MCName
  Token <- MCToken
  HardBlocked = {}
  Actor = {"namespaces", "release"}
  Population <- StuckOnly
  InitialPhases <- AppPresent
  Contested = {Shared}
  GlobalCsv = {}
  PartialCsvAdmitted = FALSE
  MaxRevision = 2
  Config <- SharedFinalizeConfig
  Retries = 2
  MaxFaults = 0
INVARIANT
  SharedOperatorsKept
