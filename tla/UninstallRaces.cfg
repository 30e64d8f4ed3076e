\* OLM runs between any two calls.
SPECIFICATION UninstallFairSpec
CONSTANTS
  App = App
  Shared = Shared
  Namespace <- MCNamespace
  MalformedName = {}
  HardBlocked = {}
  SharedOperators = Shared
  Name <- MCName
  Token <- MCToken
  InitialPhases <- AllActive
  Contested = {}
  GlobalCsv = {}
  Config <- MCConfig
  MaxRevision = 0
  Retries = 0
  PlanNames <- MCPlanNames
  Actor = {"olm", "release", "workloads"}
  Population <- MCPopulation
  PartialCsvAdmitted = FALSE
  Uninstall <- MCUninstall
  PlanSets <- AloneInPlan
  MaxRuns = 2
  MaxFaults = 1
INVARIANTS
  UninstallSparesOthers
  UninstallFinal
PROPERTIES
  UninstallConverges
