\* ocp_networking: the second wait reuses the first operator's substring.
SPECIFICATION Spec
CONSTANTS
  NMState = NMState
  MetalLB = MetalLB
  Lvms = Lvms
  Old = Old
  p1 = p1
  p2 = p2
  None = None
  Component <- MCComponent
  Space = {"nmstate", "metallb", "lvms"}
  Grouped = {NMState, MetalLB}
  Stale <- MCStale
  Mentions <- OwnNames
  AllNamespaces = {NMState}
  Patterned = {NMState, MetalLB}
  Polls = 1
  Play = {p1}
  Order <- NetworkingOrder
  SpaceOf <- OwnSpaces
  MaxRuns = 1
INVARIANT
  PassedOperatorsInstalled
