\* Two plays at once install three operators into one namespace, each with an
\* OperatorGroup of its own.  A play that fails is repeated once.
SPECIFICATION OlmFairSpec
CONSTANTS
  NMState = NMState
  MetalLB = MetalLB
  Lvms = Lvms
  Old = Old
  p1 = p1
  p2 = p2
  None = None
  Component <- MCComponent
  Space = {"shared"}
  Grouped = {NMState, MetalLB, Lvms}
  Stale <- MCStale
  Mentions <- OwnNames
  AllNamespaces = {NMState}
  Patterned = {NMState, MetalLB}
  Polls = 1
  Play = {p1, p2}
  Order <- MixedOrder
  SpaceOf <- OneSpace
  MaxRuns = 2
INVARIANTS
  WaitsDoNotPassEarly
  GroupsByPlays
PROPERTIES
  SubscribedInstalls
