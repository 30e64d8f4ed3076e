------------------------- MODULE AbsentCleanupProofs -------------------------
(***************************************************************************)
(* What a run of ocp_absent_cleanup keeps to in every cluster and for      *)
(* every configuration.  Scope is the inductive invariant: past the gate   *)
(* the namespace at hand is requested and allowed, past the refusals the   *)
(* flags authorize what is selected, and while a namespace is about to be  *)
(* finalized its resourceVersion tells whether it changed since the look.  *)
(***************************************************************************)
EXTENDS AbsentCleanup, TLAPS

\* pc values at which a namespace is being worked on, and those only cleanup
\* mode reaches.
Working == {"list", "select", "delete", "strip", "settle", "finalize", "wait",
            "verify"}
Destructive == {"select", "delete", "strip", "settle", "finalize", "wait"}

\* NameInScope by kind and name.
ScopeOf(k, name) ==
  CASE k = "CSV" -> /\ cfg.sweepOlm /\ cfg.authCsv
                    /\ IF cfg.match = <<>> THEN cfg.authAnyCsv
                       ELSE csv_name_matches(name, cfg.match)
    [] k = "InstallPlan" -> /\ cfg.sweepOlm /\ cfg.authCsv
                            /\ cfg.match # <<>> \/ cfg.authAnyCsv
    [] k = "Deployment" -> /\ cfg.sweepWork
                           /\ IF cfg.deploys = {} THEN cfg.authAnyWork
                              ELSE name \in cfg.deploys
    [] k = "Pod" -> cfg.sweepWork /\ cfg.authAnyWork

TargetInScope ==
  /\ pc \in Working => cur \in cfg.targets /\ Allowed(cur) /\ ~RefusedForPresent
  /\ pc \in Destructive => cfg.mode = "cleanup"
  /\ pc \notin {"gate", "refused"} =>
       cfg.mode \in {"check", "cleanup"} /\ \A n \in cfg.targets : Allowed(n)
  /\ pending \subseteq cfg.targets

SelectionInScope ==
  /\ \A k \in Kind : \A o \in sel[k] : ScopeOf(k, o.name)
  /\ pc = "select" => kind = "CSV"
  /\ pc = "delete" => todo \subseteq sel[kind]

HistoryInScope ==
  /\ pc = "gate" => removed = {} /\ finalized = {}
  /\ removed # {} \/ finalized # {} => ~RefusedForPresent
  /\ RefusalIsClean
  /\ RemovalsAuthorized
  /\ FinalizesOnlyTerminating

\* Between the second lookup and the PUT: an unchanged resourceVersion means
\* the phase the lookup saw, or a namespace that has gone.
SnapshotHonest ==
  pc = "finalize" =>
    /\ cfg.finalize
    /\ cfg.onlyTerminating => snap.phase = "Terminating"
    /\ snap.rev <= spaces[cur].rev
    /\ snap.rev = spaces[cur].rev => spaces[cur].phase \in {snap.phase, "Absent"}

Scope == TargetInScope /\ SelectionInScope /\ HistoryInScope /\ SnapshotHonest
-----------------------------------------------------------------------------
(* Types.                                                                  *)

\* What the API does to the objects keeps them objects: marking, stripping
\* and creating, for every kind and name.
LEMMA ObjectTypes ==
  ASSUME objects \subseteq Object
  PROVE  /\ \A doomed \in SUBSET Object : Deleted(doomed) \subseteq Object
         /\ \A k \in Kind, n \in Namespace, name \in Name :
              /\ At(k, n, name) \subseteq Object
              /\ Blank(k, n, name) \in Object
         /\ \A n \in Namespace, name \in Name :
              FinalizersStripped(n, name) \subseteq Object
  <1>1. \A o \in Object : /\ [o EXCEPT !.deleting = TRUE] \in Object
                          /\ [o EXCEPT !.fin = FALSE] \in Object
    BY DEF Object
  <1>2. \A k \in Kind, n \in Namespace, name \in Name : Blank(k, n, name) \in Object
    BY DEF Blank, Object
  <1>3. \A k, n, name : At(k, n, name) \subseteq objects
    BY DEF At, Listed
  <1>4. \A doomed \in SUBSET Object : Deleted(doomed) \subseteq Object
    BY <1>1 DEF Deleted
  <1>5. ASSUME NEW n \in Namespace, NEW name \in Name
        PROVE  FinalizersStripped(n, name) \subseteq Object
    <2>1. CASE At("CSV", n, name) = {}
      <3>1. "CSV" \in Kind
        BY DEF Kind
      <3>2. QED BY <1>2, <2>1, <3>1 DEF FinalizersStripped
    <2>2. CASE At("CSV", n, name) # {}
      BY <1>1, <1>3, <2>2 DEF FinalizersStripped
    <2>3. QED BY <2>1, <2>2
  <1>6. QED BY <1>2, <1>3, <1>4, <1>5

\* The environment keeps the cluster well typed.
LEMMA ClusterKeepsTypes ==
  ASSUME ClusterTypeOK, NEW n \in Namespace, ClusterStep(n)
  PROVE  ClusterTypeOK'
  <1> USE DEF ClusterTypeOK, Phase
  <1>1. CASE UserDeletesSpace(n)
    BY <1>1 DEF UserDeletesSpace, SpaceDeleted
  <1>2. CASE UserCreatesSpace(n)
    BY <1>2 DEF UserCreatesSpace, SpaceCreated
  <1>3. CASE ControllerEmpties(n)
    BY <1>3, ObjectTypes DEF ControllerEmpties
  <1>4. CASE ControllerEnds(n)
    BY <1>4 DEF ControllerEnds
  <1>5. CASE OlmInstalls(n)
    <2>1. PICK ip \in Listed("InstallPlan", n) : \E name \in ip.left :
            objects' = (objects \ {ip})
                         \cup {[ip EXCEPT !.left = @ \ {name}]}
                         \cup IF At("CSV", n, name) = {}
                              THEN {Blank("CSV", n, name)} ELSE {}
      BY <1>5 DEF OlmInstalls
    <2>2. ip \in Object /\ ip.left \subseteq Name
      BY DEF Listed, Object
    <2>3. \A name : [ip EXCEPT !.left = @ \ {name}] \in Object
      BY <2>2 DEF Object
    <2>4. \A name \in ip.left : Blank("CSV", n, name) \in Object
      BY <2>2, ObjectTypes DEF Kind
    <2>5. QED BY <1>5, <2>1, <2>3, <2>4 DEF OlmInstalls
  <1>6. CASE OlmCopies(n)
    <2>1. PICK name \in GlobalCsv :
            objects' = objects \cup {[Blank("CSV", n, name) EXCEPT !.copy = TRUE]}
      BY <1>6 DEF OlmCopies
    <2>2. Blank("CSV", n, name) \in Object
      BY ClusterAssumption, ObjectTypes DEF Kind
    <2>3. [Blank("CSV", n, name) EXCEPT !.copy = TRUE] \in Object
      BY <2>2 DEF Object
    <2>4. QED BY <1>6, <2>1, <2>3 DEF OlmCopies
  <1>7. CASE OlmReleases(n)
    BY <1>7 DEF OlmReleases
  <1>8. CASE OlmDeploys(n)
    <2>1. PICK o \in Listed("CSV", n) :
            objects' = objects \cup {Blank("Deployment", n, o.name)}
      BY <1>8 DEF OlmDeploys
    <2>2. o.name \in Name
      BY DEF Listed, Object
    <2>3. QED BY <1>8, <2>1, <2>2, ObjectTypes DEF OlmDeploys, Kind
  <1>9. CASE ReplicaStarts(n)
    <2>1. PICK o \in Listed("Deployment", n) :
            objects' = objects \cup {Blank("Pod", n, o.name)}
      BY <1>9 DEF ReplicaStarts
    <2>2. o.name \in Name
      BY DEF Listed, Object
    <2>3. QED BY <1>9, <2>1, <2>2, ObjectTypes DEF ReplicaStarts, Kind
  <1>10. CASE PodCollected(n)
    BY <1>10 DEF PodCollected
  <1>11. QED
    BY <1>1, <1>2, <1>3, <1>4, <1>5, <1>6, <1>7, <1>8, <1>9, <1>10 DEF ClusterStep

\* The four selections are of listed objects.
LEMMA SelectionTypes ==
  ASSUME CleanupTypeOK, NEW k \in Kind
  PROVE  Selection(k) \subseteq listed[k]
  BY DEF CleanupTypeOK, Kind, OlmKind, Selection, select_csvs,
         select_installplans, select_workloads, InNamespace

\* Types are inductive.
LEMMA StepKeepsTypes ==
  ASSUME CleanupTypeOK, [Next]_vars
  PROVE  CleanupTypeOK'
  <1> USE DEF CleanupTypeOK, PC, factVars, historyVars, clusterVars
  <1>1. CASE Gate
    <2>1. cfg.targets \subseteq Namespace
      BY DEF ConfigType
    <2>2. QED BY <1>1, <2>1 DEF Gate, ClusterTypeOK
  <1>2. ASSUME NEW n \in Namespace, Lookup(n) PROVE CleanupTypeOK'
    <2>1. Nothing \in [Kind -> SUBSET Object]
      BY DEF Nothing
    <2>2. "CSV" \in Kind
      BY DEF Kind
    <2>3. QED BY <1>2, <2>1, <2>2, CleanupAssumption
              DEF Lookup, Succeeds, Fails, ClusterTypeOK
  <1>3. CASE NamespacesDone
    BY <1>3 DEF NamespacesDone, ClusterTypeOK
  <1>4. CASE List
    <2>1. Listed(kind, cur) \subseteq Object
      BY DEF Listed, ClusterTypeOK
    <2>2. listed' \in [Kind -> SUBSET Object] /\ faults' \in Nat
      BY <1>4, <2>1 DEF List, Succeeds, Fails
    <2>3. kind' \in Kind
      BY <1>4 DEF List, NextKind, Kind
    <2>4. QED BY <1>4, <2>2, <2>3 DEF List, ClusterTypeOK
  <1>5. CASE Select
    <2>1. sel' \in [Kind -> SUBSET Object]
      BY <1>5, SelectionTypes DEF Select
    <2>2. todo' \subseteq Object
      <3>1. Selection("CSV") \subseteq Object
        BY SelectionTypes DEF Kind
      <3>2. QED BY <1>5, <3>1 DEF Select, LoopItems
    <2>3. QED BY <1>5, <2>1, <2>2 DEF Select, ClusterTypeOK
  <1>6. ASSUME NEW o \in todo, Delete(o) PROVE CleanupTypeOK'
    <2>1. o.name \in Name
      BY DEF Object
    <2>2. At(kind, cur, o.name) \subseteq Object
      BY <2>1, ObjectTypes DEF ClusterTypeOK
    <2>3. Deleted(At(kind, cur, o.name)) \subseteq Object
      BY <2>2, ObjectTypes DEF ClusterTypeOK
    <2>4. objects' \subseteq Object /\ removed' \subseteq Object /\ faults' \in Nat
      BY <1>6, <2>2, <2>3 DEF Delete, Succeeds, Fails, ClusterTypeOK
    <2>5. QED BY <1>6, <2>4 DEF Delete, ClusterTypeOK
  <1>7. ASSUME NEW o \in todo, Strip(o) PROVE CleanupTypeOK'
    <2>1. o.name \in Name
      BY DEF Object
    <2>2. FinalizersStripped(cur, o.name) \subseteq Object
      BY <2>1, ObjectTypes DEF ClusterTypeOK
    <2>3. objects' \subseteq Object /\ faults' \in Nat
      BY <1>7, <2>2 DEF Strip, Succeeds, Fails, ClusterTypeOK
    <2>4. QED BY <1>7, <2>3 DEF Strip, ClusterTypeOK
  <1>8. CASE LoopDone
    <2>1. NextKind(kind) \in Kind
      BY DEF NextKind, Kind
    <2>2. \A k \in Kind : LoopItems(k, sel[k]) \subseteq Object
      BY DEF LoopItems
    <2>3. Strippable \subseteq Object
      BY <2>2 DEF Strippable, Kind
    <2>4. kind' \in Kind /\ todo' \subseteq Object /\ pc' \in PC
      BY <1>8, <2>1, <2>2, <2>3 DEF LoopDone
    <2>5. QED BY <1>8, <2>4 DEF LoopDone, ClusterTypeOK
  <1>9. CASE Relookup
    BY <1>9 DEF Relookup, Succeeds, Fails, ClusterTypeOK
  <1>10. CASE PutFinalize
    <2>1. Finalized(cur, snap.rev) \in [Namespace -> [phase : Phase, fin : BOOLEAN, rev : Nat]]
      BY DEF Finalized, ClusterTypeOK, Phase
    <2>2. spaces[cur].phase \in Phase
      BY DEF ClusterTypeOK
    <2>3. QED BY <1>10, <2>1, <2>2 DEF PutFinalize, Succeeds, Fails, ClusterTypeOK
  <1>11. CASE WaitGone
    BY <1>11 DEF WaitGone, Succeeds, Fails, ClusterTypeOK
  <1>12. CASE Verify
    BY <1>12 DEF Verify, Succeeds, Fails, ClusterTypeOK
  <1>13. CASE EnvironmentStep
    BY <1>13, ClusterKeepsTypes DEF EnvironmentStep, roleVars, flowVars
  <1>14. CASE UNCHANGED vars
    BY <1>14 DEF vars, roleVars, flowVars, ClusterTypeOK
  <1>15. QED
    BY <1>1, <1>2, <1>3, <1>4, <1>5, <1>6, <1>7, <1>8, <1>9, <1>10, <1>11,
       <1>12, <1>13, <1>14 DEF Next, CleanupStep, Stopped

\* Every initial state is well typed.
LEMMA InitialTypes ==
  ASSUME Init
  PROVE  CleanupTypeOK
  <1>1. ClusterTypeOK
    BY ClusterAssumption DEF ClusterAssumption, Init, ClusterInit, ClusterTypeOK, Phase
  <1>2. SharedOperators \in Namespace /\ cfg \in ConfigType
    BY NamespaceAssumption, CleanupAssumption
       DEF NamespaceAssumption, CleanupAssumption, Init, CleanupInit
  <1>3. QED BY <1>1, <1>2
            DEF Init, CleanupInit, CleanupTypeOK, PC, Kind, Nothing, Phase

\* Whatever the cluster and the configuration, the run keeps its variables
\* within their types.
THEOREM TypeCorrect == Spec => []CleanupTypeOK
  <1>1. Init => CleanupTypeOK
    BY InitialTypes
  <1>2. CleanupTypeOK /\ [Next]_vars => CleanupTypeOK'
    BY StepKeepsTypes
  <1>3. QED BY <1>1, <1>2, PTL DEF Spec

-----------------------------------------------------------------------------
(* Authorization.                                                          *)

\* Whatever the four filters select of whatever was listed, the flags cover.
LEMMA SelectionAuthorized ==
  ASSUME NEW k \in Kind, NEW o \in Selection(k)
  PROVE  ScopeOf(k, o.name)
  BY DEF Kind, OlmKind, Selection, Sweeping, ScopeOf, OlmDeleteAuthorized,
         InNamespace, select_csvs, select_installplans, select_workloads

\* The role variables decide what is allowed, and a run never changes them.
LEMMA SameConfiguration ==
  ASSUME cfg' = cfg
  PROVE  /\ \A k, name : ScopeOf(k, name)' <=> ScopeOf(k, name)
         /\ \A n : Allowed(n)' <=> Allowed(n)
         /\ RefusedForPresent' <=> RefusedForPresent
  BY DEF ScopeOf, Allowed, RefusedForPresent, cleanup_refused

LEMMA ConfigurationFixed ==
  ASSUME [Next]_vars
  PROVE  cfg' = cfg
  BY DEF Next, CleanupStep, EnvironmentStep, Stopped, vars, roleVars, Gate,
         Lookup, NamespacesDone, List, Select, Delete, Strip, LoopDone,
         Relookup, PutFinalize, WaitGone, Verify

\* The resourceVersion of a namespace never goes back, and while it stays the
\* phase stays, unless the namespace goes.
LEMMA RevisionsTell ==
  ASSUME ClusterTypeOK, NEW n \in Namespace, ClusterStep(n), NEW m \in Namespace
  PROVE  /\ spaces[m].rev <= spaces'[m].rev
         /\ spaces'[m].rev = spaces[m].rev =>
              spaces'[m].phase \in {spaces[m].phase, "Absent"}
  <1>1. spaces \in [Namespace -> [phase : Phase, fin : BOOLEAN, rev : Nat]]
    BY DEF ClusterTypeOK
  <1>2. CASE UserDeletesSpace(n)
    BY <1>1, <1>2 DEF UserDeletesSpace, SpaceDeleted
  <1>3. CASE UserCreatesSpace(n)
    BY <1>1, <1>3 DEF UserCreatesSpace, SpaceCreated
  <1>4. CASE ControllerEnds(n)
    BY <1>1, <1>4 DEF ControllerEnds
  <1>5. CASE UNCHANGED spaces
    BY <1>1, <1>5
  <1>6. QED
    BY <1>2, <1>3, <1>4, <1>5
       DEF ClusterStep, ControllerEmpties, OlmInstalls, OlmCopies, OlmReleases,
           OlmDeploys, ReplicaStarts, PodCollected

\* Past the gate a run works on requested and allowed namespaces alone; past
\* the refusals its flags are coherent.
LEMMA TargetStep ==
  ASSUME TargetInScope, [Next]_vars
  PROVE  TargetInScope'
  <1>1. cfg' = cfg
    BY ConfigurationFixed
  <1> USE <1>1, SameConfiguration DEF TargetInScope, Working, Destructive
  <1>2. CASE Gate
    BY <1>2 DEF Gate
  <1>3. ASSUME NEW n \in Namespace, Lookup(n) PROVE TargetInScope'
    BY <1>3 DEF Lookup
  <1>4. CASE NamespacesDone
    BY <1>4 DEF NamespacesDone
  <1>5. CASE List
    BY <1>5 DEF List
  <1>6. CASE Select
    BY <1>6 DEF Select
  <1>7. ASSUME NEW o \in todo, Delete(o) \/ Strip(o) PROVE TargetInScope'
    BY <1>7 DEF Delete, Strip
  <1>8. CASE LoopDone
    BY <1>8 DEF LoopDone
  <1>9. CASE Relookup
    BY <1>9 DEF Relookup
  <1>10. CASE PutFinalize
    BY <1>10 DEF PutFinalize
  <1>11. CASE WaitGone
    BY <1>11 DEF WaitGone
  <1>12. CASE Verify
    BY <1>12 DEF Verify
  <1>13. CASE UNCHANGED roleVars
    BY <1>13 DEF roleVars, flowVars
  <1>14. QED
    BY <1>2, <1>3, <1>4, <1>5, <1>6, <1>7, <1>8, <1>9, <1>10, <1>11, <1>12,
       <1>13 DEF Next, CleanupStep, EnvironmentStep, Stopped, vars

\* A loop deletes only what the selections of its kind hold, and those are
\* authorized from the moment they are made.
LEMMA SelectionStep ==
  ASSUME CleanupTypeOK, SelectionInScope, [Next]_vars
  PROVE  SelectionInScope'
  <1>1. cfg' = cfg
    BY ConfigurationFixed
  <1>2. ASSUME UNCHANGED sel
        PROVE  (\A k \in Kind : \A o \in sel[k] : ScopeOf(k, o.name))'
    BY <1>1, <1>2, SameConfiguration DEF SelectionInScope
  <1>3. ASSUME NEW n \in Namespace, Lookup(n) PROVE SelectionInScope'
    BY <1>3 DEF Lookup, Nothing, SelectionInScope
  <1>4. CASE Select
    <2>1. \A k \in Kind : \A o \in sel'[k] : ScopeOf(k, o.name)
      BY <1>4, SelectionAuthorized DEF Select
    <2>2. kind' = "CSV" /\ pc' # "select"
      BY <1>4 DEF Select, SelectionInScope
    <2>3. pc' = "delete" => todo' \subseteq sel'["CSV"]
      BY <1>4 DEF Select, LoopItems, Kind
    <2>4. QED BY <1>1, <2>1, <2>2, <2>3, SameConfiguration DEF SelectionInScope
  <1>5. CASE LoopDone
    <2>1. pc' = "delete" => kind' \in Kind /\ todo' \subseteq sel[kind']
      BY <1>5 DEF LoopDone, NextKind, Kind, LoopItems, CleanupTypeOK
    <2>2. UNCHANGED sel /\ pc' # "select"
      BY <1>5 DEF LoopDone, factVars
    <2>3. QED BY <1>2, <2>1, <2>2 DEF SelectionInScope
  <1>6. ASSUME NEW o \in todo, Delete(o) \/ Strip(o) PROVE SelectionInScope'
    BY <1>2, <1>6 DEF Delete, Strip, factVars, SelectionInScope
  <1>7. CASE List
    BY <1>2, <1>7 DEF List, NextKind, SelectionInScope
  <1>8. CASE \/ Gate \/ NamespacesDone \/ Relookup
             \/ PutFinalize \/ WaitGone \/ Verify
    BY <1>2, <1>8 DEF Gate, NamespacesDone, Relookup, PutFinalize, WaitGone,
       Verify, factVars, SelectionInScope
  <1>9. CASE UNCHANGED roleVars
    BY <1>2, <1>9 DEF roleVars, flowVars, factVars, SelectionInScope
  <1>10. QED
    BY <1>3, <1>4, <1>5, <1>6, <1>7, <1>8, <1>9
       DEF Next, CleanupStep, EnvironmentStep, Stopped, vars

\* What a step deletes or finalizes is authorized, whichever pass it is part of.
LEMMA AuthorizationStep ==
  ASSUME CleanupTypeOK, TargetInScope, SelectionInScope, SnapshotHonest,
         RemovalsAuthorized, FinalizesOnlyTerminating, [Next]_vars
  PROVE  RemovalsAuthorized' /\ FinalizesOnlyTerminating'
  <1>1. cfg' = cfg
    BY ConfigurationFixed
  <1> DEFINE Authorized(o) == /\ cfg.mode = "cleanup"
                              /\ o.ns \in cfg.targets
                              /\ Allowed(o.ns)
                              /\ ScopeOf(o.kind, o.name)
             Due(f) == /\ cfg.finalize /\ f.ns \in cfg.targets /\ Allowed(f.ns)
                       /\ cfg.onlyTerminating => f.phase = "Terminating"
  <1>2. \A o : Authorized(o)' <=> Authorized(o)
    BY <1>1, SameConfiguration
  <1>3. \A f : Due(f)' <=> Due(f)
    BY <1>1, SameConfiguration
  <1>4. RemovalsAuthorized <=> \A o \in removed : Authorized(o)
    BY DEF RemovalsAuthorized, NameInScope, ScopeOf
  <1>5. RemovalsAuthorized' <=> \A o \in removed' : Authorized(o)
    BY <1>1, <1>2 DEF RemovalsAuthorized, NameInScope, ScopeOf
  <1>6. FinalizesOnlyTerminating <=> \A f \in finalized : Due(f)
    BY DEF FinalizesOnlyTerminating
  <1>7. FinalizesOnlyTerminating' <=> \A f \in finalized' : Due(f)
    BY <1>1, <1>3 DEF FinalizesOnlyTerminating
  <1> HIDE DEF Authorized, Due
  <1>8. ASSUME NEW o \in todo, Delete(o)
        PROVE  UNCHANGED finalized /\ \A x \in removed' : Authorized(x)
    <2>1. pc = "delete" /\ UNCHANGED finalized
      BY <1>8 DEF Delete
    <2>2. cfg.mode = "cleanup" /\ cur \in cfg.targets /\ Allowed(cur)
      BY <2>1 DEF TargetInScope, Working, Destructive
    <2>3. ScopeOf(kind, o.name)
      BY <2>1 DEF SelectionInScope, CleanupTypeOK
    <2>4. \A x \in At(kind, cur, o.name) : Authorized(x)
      BY <2>2, <2>3 DEF At, Listed, Authorized
    <2>5. removed' \subseteq removed \cup At(kind, cur, o.name)
      BY <1>8 DEF Delete
    <2>6. QED BY <1>4, <2>1, <2>4, <2>5
  <1>9. CASE PutFinalize
    <2>1. pc = "finalize" /\ UNCHANGED removed
      BY <1>9 DEF PutFinalize
    <2>2. cur \in cfg.targets /\ Allowed(cur)
      BY <2>1 DEF TargetInScope, Working
    <2>3. \/ finalized' = finalized
          \/ /\ finalized' = finalized \cup {[ns |-> cur, phase |-> spaces[cur].phase]}
             /\ Exists(cur) /\ snap.rev = spaces[cur].rev
      BY <1>9 DEF PutFinalize, Finalized
    <2>4. Exists(cur) /\ snap.rev = spaces[cur].rev
            => Due([ns |-> cur, phase |-> spaces[cur].phase])
      BY <2>1, <2>2 DEF SnapshotHonest, Exists, Due
    <2>5. QED BY <1>4, <1>5, <1>6, <1>7, <2>1, <2>3, <2>4
  <1>10. CASE UNCHANGED <<removed, finalized>>
    BY <1>4, <1>5, <1>6, <1>7, <1>10
  <1>11. QED
    BY <1>5, <1>6, <1>7, <1>8, <1>9, <1>10
       DEF Next, CleanupStep, EnvironmentStep, Stopped, vars, roleVars, historyVars,
           Gate, Lookup, NamespacesDone, List, Select, Strip, LoopDone, Relookup,
           WaitGone, Verify

\* What a run has deleted and finalized stays within its authorization, and
\* a refusal comes before the first of either.
LEMMA HistoryStep ==
  ASSUME CleanupTypeOK, Scope, [Next]_vars
  PROVE  HistoryInScope'
  <1>1. cfg' = cfg
    BY ConfigurationFixed
  <1>2. RemovalsAuthorized' /\ FinalizesOnlyTerminating'
    BY AuthorizationStep DEF Scope, HistoryInScope
  <1>3. /\ pc = "gate" => removed = {} /\ finalized = {}
        /\ removed # {} \/ finalized # {} => ~RefusedForPresent
        /\ removed # {} \/ finalized # {} =>
             pc # "refused" /\ \A n \in cfg.targets : Allowed(n)
    BY DEF Scope, HistoryInScope, RefusalIsClean
  <1>4. SUFFICES
          /\ pc' = "gate" => removed' = {} /\ finalized' = {}
          /\ removed' # {} \/ finalized' # {} => ~RefusedForPresent
          /\ removed' # {} \/ finalized' # {} =>
               pc' # "refused" /\ \A n \in cfg.targets : Allowed(n)
    BY <1>1, <1>2, SameConfiguration DEF HistoryInScope, RefusalIsClean
  <1>5. CASE Gate
    BY <1>3, <1>5 DEF Gate, historyVars
  <1>6. ASSUME NEW n \in Namespace, Lookup(n)
        PROVE  /\ pc' # "gate"
               /\ pc' = "refused" => RefusedForPresent
               /\ UNCHANGED <<removed, finalized>>
    BY <1>6 DEF Lookup
  <1>7. ASSUME PutFinalize \/ \E o \in todo : Delete(o)
        PROVE  /\ pc' \notin {"gate", "refused"}
               /\ ~RefusedForPresent /\ \A n \in cfg.targets : Allowed(n)
    <2>1. pc \in {"finalize", "delete"} /\ pc' \in {"failed", "wait", "delete"}
      BY <1>7 DEF PutFinalize, Delete
    <2>2. QED BY <2>1 DEF Scope, TargetInScope, Working
  <1>8. CASE \/ NamespacesDone \/ List \/ Select \/ LoopDone \/ Relookup
             \/ WaitGone \/ Verify \/ \E o \in todo : Strip(o)
    <2>1. pc' \notin {"gate", "refused"} /\ UNCHANGED <<removed, finalized>>
      BY <1>8 DEF NamespacesDone, List, Select, LoopDone, Relookup, WaitGone,
         Verify, Strip, historyVars
    <2>2. QED BY <1>3, <2>1
  <1>9. CASE UNCHANGED roleVars
    BY <1>3, <1>9 DEF roleVars, flowVars, historyVars
  <1>10. QED
    BY <1>3, <1>5, <1>6, <1>7, <1>8, <1>9
       DEF Next, CleanupStep, EnvironmentStep, Stopped, vars

\* The body of the PUT is still the namespace that was looked up, or its
\* resourceVersion has moved on.
LEMMA SnapshotStep ==
  ASSUME CleanupTypeOK, SnapshotHonest, [Next]_vars
  PROVE  SnapshotHonest'
  <1>1. cfg' = cfg
    BY ConfigurationFixed
  <1>2. spaces \in [Namespace -> [phase : Phase, fin : BOOLEAN, rev : Nat]]
        /\ cur \in Namespace /\ snap.rev \in Nat
    BY DEF CleanupTypeOK, ClusterTypeOK
  <1>3. CASE Relookup
    BY <1>2, <1>3 DEF Relookup, SnapshotHonest, clusterVars, Exists
  <1>4. CASE EnvironmentStep
    <2>1. PICK n \in Namespace : ClusterStep(n)
      BY <1>4 DEF EnvironmentStep
    <2>2. /\ spaces[cur].rev <= spaces'[cur].rev
          /\ spaces'[cur].rev = spaces[cur].rev =>
               spaces'[cur].phase \in {spaces[cur].phase, "Absent"}
      BY <1>2, <2>1, RevisionsTell DEF CleanupTypeOK
    <2>3. UNCHANGED <<cfg, pc, cur, snap>>
      BY <1>4 DEF EnvironmentStep, roleVars, flowVars
    <2>4. spaces' \in [Namespace -> [phase : Phase, fin : BOOLEAN, rev : Nat]]
      BY StepKeepsTypes DEF CleanupTypeOK, ClusterTypeOK
    <2>5. /\ spaces[cur].rev \in Nat /\ spaces'[cur].rev \in Nat
          /\ pc = "finalize" =>
               /\ cfg.finalize
               /\ cfg.onlyTerminating => snap.phase = "Terminating"
               /\ snap.rev <= spaces[cur].rev
               /\ snap.rev = spaces[cur].rev =>
                    spaces[cur].phase \in {snap.phase, "Absent"}
      BY <1>2, <2>4 DEF SnapshotHonest
    <2>6. pc = "finalize" =>
            /\ snap.rev <= spaces'[cur].rev
            /\ snap.rev = spaces'[cur].rev =>
                 spaces'[cur].phase \in {snap.phase, "Absent"}
      BY <1>2, <2>2, <2>5
    <2>7. QED BY <2>3, <2>5, <2>6 DEF SnapshotHonest
  <1>5. CASE UNCHANGED vars
    BY <1>5 DEF vars, roleVars, flowVars, clusterVars, SnapshotHonest
  <1>6. CASE CleanupStep /\ ~Relookup
    <2>1. pc' # "finalize"
      BY <1>6 DEF CleanupStep, Gate, Lookup, NamespacesDone, List, Select, Delete,
         Strip, LoopDone, PutFinalize, WaitGone, Verify
    <2>2. QED BY <2>1 DEF SnapshotHonest
  <1>7. QED
    BY <1>3, <1>4, <1>5, <1>6 DEF Next, Stopped

\* The inductive invariant.
LEMMA ScopeInvariant == Spec => [](CleanupTypeOK /\ Scope)
  <1>1. Init => CleanupTypeOK /\ Scope
    <2> SUFFICES ASSUME Init PROVE Scope
      BY InitialTypes
    <2>1. QED
      BY DEF Init, CleanupInit, Nothing, Scope, TargetInScope, SelectionInScope,
         HistoryInScope, SnapshotHonest, RefusalIsClean, RemovalsAuthorized,
         FinalizesOnlyTerminating, Working, Destructive
  <1>2. CleanupTypeOK /\ Scope /\ [Next]_vars => CleanupTypeOK' /\ Scope'
    BY StepKeepsTypes, TargetStep, SelectionStep, HistoryStep, SnapshotStep
       DEF Scope
  <1>3. QED BY <1>1, <1>2, PTL DEF Spec

\* Whatever the cluster does between the listing and the deleting, every
\* object a run deletes is in a requested, unprotected namespace and within
\* what the authorize flags and name filters cover.
THEOREM RemovalsStayAuthorized == Spec => []RemovalsAuthorized
  <1>1. Scope => RemovalsAuthorized
    BY DEF Scope, HistoryInScope
  <1>2. QED BY <1>1, ScopeInvariant, PTL

\* A namespace that changed between the second lookup and the PUT is not
\* finalized: with the default guard only a Terminating one ever is.
THEOREM FinalizesOnlyWhileTerminating == Spec => []FinalizesOnlyTerminating
  <1>1. Scope => FinalizesOnlyTerminating
    BY DEF Scope, HistoryInScope
  <1>2. QED BY <1>1, ScopeInvariant, PTL

\* A refusal leaves nothing deleted and nothing finalized behind, and one
\* protected namespace in the list spares them all.
THEOREM RefusalsAreClean == Spec => []RefusalIsClean
  <1>1. Scope => RefusalIsClean
    BY DEF Scope, HistoryInScope
  <1>2. QED BY <1>1, ScopeInvariant, PTL

\* A run in check mode never writes to the cluster.
THEOREM CheckModeNeverWrites == Spec => CheckModeReadOnly
  <1>1. Scope /\ [Next]_vars =>
          [cfg.mode = "check" /\ roleVars' # roleVars => UNCHANGED clusterVars]_vars
    <2> SUFFICES ASSUME Scope, Next, cfg.mode = "check", roleVars' # roleVars
                 PROVE  UNCHANGED clusterVars
      BY DEF vars
    <2>1. pc \notin Destructive
      BY DEF Scope, TargetInScope
    <2>2. QED
      BY <2>1 DEF Destructive, Next, CleanupStep, EnvironmentStep, Stopped, vars,
         Gate, Lookup, NamespacesDone, List, Select, Delete, Strip, LoopDone,
         Relookup, PutFinalize, WaitGone, Verify, clusterVars
  <1>2. QED BY <1>1, ScopeInvariant, PTL DEF Spec, CheckModeReadOnly

-----------------------------------------------------------------------------
(* Deletes go by name: what stands under a selected name is what was       *)
(* selected.                                                               *)

\* Two InstallPlans of one namespace and name, or two sightings of one that
\* OLM is executing, name the same CSVs.
SamePlans(S, T) ==
  \A x \in S, y \in T :
    x.kind = "InstallPlan" /\ SameKey(x, y) => x.plan = y.plan

PlansStand ==
  /\ SamePlans(objects, objects)
  /\ SamePlans(objects, listed["InstallPlan"])
  /\ SamePlans(objects, sel["InstallPlan"])

\* What the selections hold: copies and mixed InstallPlans only as asked for.
SelectionPure ==
  /\ \A o \in sel["CSV"] : o.copy => cfg.copies
  /\ \A o \in sel["InstallPlan"] :
       /\ o.kind = "InstallPlan"
       /\ cfg.match # <<>> => \A x \in o.plan : csv_name_matches(x, cfg.match)

\* A list result holds objects of the kind it was asked for.
ListsPure == \A o \in listed["InstallPlan"] : o.kind = "InstallPlan"

\* The two loops run over selected objects of the namespace at hand.
LoopSelected ==
  /\ pc \in {"delete", "strip"} => \A o \in todo : o.ns = cur
  /\ pc = "delete" => todo \subseteq sel[kind]
  /\ pc = "strip" => kind = "CSV" /\ todo \subseteq sel["CSV"]

\* An InstallPlan that was deleted under a token named CSVs of that token alone.
PlansRemovedPure ==
  \A o \in removed : o.kind = "InstallPlan" /\ cfg.match # <<>> =>
    \A x \in o.plan : csv_name_matches(x, cfg.match)

Identity == /\ PlansStand /\ SelectionPure /\ ListsPure
            /\ LoopSelected /\ PlansRemovedPure

\* Every InstallPlan of T is, as to what it names, one of S.
Descends(S, T) ==
  \A y \in T : y.kind = "InstallPlan" =>
    \E x \in S : x.kind = "InstallPlan" /\ SameKey(x, y) /\ x.plan = y.plan

\* What stands in for older InstallPlans agrees with whatever those agree with.
LEMMA DescentKeepsPlans ==
  ASSUME NEW S, NEW T, NEW U, Descends(S, T), SamePlans(S, S), SamePlans(S, U)
  PROVE  SamePlans(T, T) /\ SamePlans(T, U)
  <1>1. ASSUME NEW x \in T, NEW y \in T, x.kind = "InstallPlan", SameKey(x, y)
        PROVE  x.plan = y.plan
    <2>1. PICK a \in S : a.kind = "InstallPlan" /\ SameKey(a, x) /\ a.plan = x.plan
      BY <1>1 DEF Descends
    <2>2. PICK b \in S : b.kind = "InstallPlan" /\ SameKey(b, y) /\ b.plan = y.plan
      BY <1>1 DEF Descends, SameKey
    <2>3. SameKey(a, b)
      BY <1>1, <2>1, <2>2 DEF SameKey
    <2>4. QED BY <2>1, <2>2, <2>3 DEF SamePlans
  <1>2. ASSUME NEW x \in T, NEW y \in U, x.kind = "InstallPlan", SameKey(x, y)
        PROVE  x.plan = y.plan
    <2>1. PICK a \in S : a.kind = "InstallPlan" /\ SameKey(a, x) /\ a.plan = x.plan
      BY <1>2 DEF Descends
    <2>2. SameKey(a, y)
      BY <1>2, <2>1 DEF SameKey
    <2>3. QED BY <2>1, <2>2 DEF SamePlans
  <1>3. QED BY <1>1, <1>2 DEF SamePlans

\* Marking and removing keep every object under its name, with its plan.
LEMMA DeletedKeepsKeys ==
  ASSUME objects \subseteq Object, NEW doomed, doomed \subseteq objects
  PROVE  /\ Descends(objects, Deleted(doomed))
         /\ \A o \in (objects \ Deleted(doomed)) \cup (Deleted(doomed) \ objects) :
              \E x \in doomed : SameKey(x, o)
  <1>1. \A o \in objects :
          LET m == [o EXCEPT !.deleting = TRUE]
          IN  SameKey(o, m) /\ o.plan = m.plan /\ o.kind = m.kind
    BY DEF Object, SameKey
  <1>2. \A o \in objects : SameKey(o, o)
    BY DEF SameKey
  <1>3. Descends(objects, Deleted(doomed))
    BY <1>1, <1>2 DEF Deleted, Descends
  <1>4. QED BY <1>1, <1>2, <1>3 DEF Deleted

\* So does stripping, which may also create a CSV of the stripped name.
LEMMA StrippedKeepsKeys ==
  ASSUME objects \subseteq Object, NEW n, NEW name
  PROVE  /\ Descends(objects, FinalizersStripped(n, name))
         /\ \A o \in (objects \ FinalizersStripped(n, name))
                    \cup (FinalizersStripped(n, name) \ objects) :
              o.kind = "CSV" /\ o.ns = n /\ o.name = name
  <1> DEFINE found == At("CSV", n, name)
  <1>1. \A o \in found : /\ o \in objects
                         /\ o.kind = "CSV" /\ o.ns = n /\ o.name = name
                         /\ [o EXCEPT !.fin = FALSE].kind = "CSV"
                         /\ [o EXCEPT !.fin = FALSE].ns = n
                         /\ [o EXCEPT !.fin = FALSE].name = name
    BY DEF At, Listed, Object
  <1>2. /\ Blank("CSV", n, name).kind = "CSV"
        /\ Blank("CSV", n, name).ns = n
        /\ Blank("CSV", n, name).name = name
    BY DEF Blank
  <1>3. \A o \in objects : SameKey(o, o)
    BY DEF SameKey
  <1> HIDE DEF found
  <1>4. \/ FinalizersStripped(n, name) = objects \cup {Blank("CSV", n, name)}
        \/ FinalizersStripped(n, name) =
             (objects \ found)
               \cup {[o EXCEPT !.fin = FALSE] : o \in {x \in found : ~x.deleting}}
    BY SMT DEF FinalizersStripped, found
  <1>5. \A o \in FinalizersStripped(n, name) :
          o \in objects \/ (o.kind = "CSV" /\ o.ns = n /\ o.name = name)
    <2> TAKE o \in FinalizersStripped(n, name)
    <2>1. \/ o \in objects
          \/ o = Blank("CSV", n, name)
          \/ \E x \in found : o = [x EXCEPT !.fin = FALSE]
      BY <1>4
    <2>2. QED BY <1>1, <1>2, <2>1
  <1>6. \A o \in objects \ FinalizersStripped(n, name) : o \in found
    BY <1>4
  <1>7. \A o \in FinalizersStripped(n, name) : o.kind = "InstallPlan" => o \in objects
    BY <1>5
  <1>8. Descends(objects, FinalizersStripped(n, name))
    BY <1>3, <1>7 DEF Descends
  <1>9. QED BY <1>1, <1>5, <1>6, <1>8

\* No controller renames an InstallPlan or changes what it names.
LEMMA ClusterKeepsPlans ==
  ASSUME objects \subseteq Object, NEW n \in Namespace, ClusterStep(n)
  PROVE  Descends(objects, objects')
  <1> USE DEF Descends, SameKey
  <1>1. CASE ControllerEmpties(n)
    <2>1. PICK o \in objects : objects' = Deleted({o})
      BY <1>1 DEF ControllerEmpties
    <2>2. QED BY <2>1, DeletedKeepsKeys
  <1>2. CASE OlmInstalls(n)
    <2>1. PICK ip \in Listed("InstallPlan", n) : \E name \in ip.left :
            objects' = (objects \ {ip})
                         \cup {[ip EXCEPT !.left = @ \ {name}]}
                         \cup IF At("CSV", n, name) = {}
                              THEN {Blank("CSV", n, name)} ELSE {}
      BY <1>2 DEF OlmInstalls
    <2>2. PICK name \in ip.left :
            objects' = (objects \ {ip})
                         \cup {[ip EXCEPT !.left = @ \ {name}]}
                         \cup IF At("CSV", n, name) = {}
                              THEN {Blank("CSV", n, name)} ELSE {}
      BY <2>1
    <2> DEFINE on == [ip EXCEPT !.left = @ \ {name}]
    <2>3. /\ ip \in objects /\ ip.kind = "InstallPlan"
          /\ SameKey(ip, on) /\ ip.plan = on.plan
      BY DEF Listed, Object
    <2>4. Blank("CSV", n, name).kind # "InstallPlan"
      BY DEF Blank
    <2>5. \A y \in objects' : y \in objects \/ y = on \/ y = Blank("CSV", n, name)
      BY <2>2
    <2> HIDE DEF on
    <2>6. QED BY <2>3, <2>4, <2>5
  <1>3. CASE OlmCopies(n)
    <2>1. PICK name \in GlobalCsv :
            objects' = objects \cup {[Blank("CSV", n, name) EXCEPT !.copy = TRUE]}
      BY <1>3 DEF OlmCopies
    <2>2. [Blank("CSV", n, name) EXCEPT !.copy = TRUE].kind # "InstallPlan"
      BY DEF Blank
    <2>3. QED BY <2>1, <2>2
  <1>4. CASE OlmDeploys(n) \/ ReplicaStarts(n)
    <2>1. PICK k \in {"Deployment", "Pod"}, o \in objects :
            objects' = objects \cup {Blank(k, n, o.name)}
      BY <1>4 DEF OlmDeploys, ReplicaStarts, Listed
    <2>2. Blank(k, n, o.name).kind # "InstallPlan"
      BY <2>1 DEF Blank
    <2>3. QED BY <2>1, <2>2
  <1>5. CASE objects' \subseteq objects
    BY <1>5
  <1>6. QED
    BY <1>1, <1>2, <1>3, <1>4, <1>5
       DEF ClusterStep, UserDeletesSpace, UserCreatesSpace, ControllerEnds,
           OlmReleases, PodCollected

\* No step of the run or of the cluster renames an InstallPlan or changes what
\* it names.
LEMMA StepKeepsPlans ==
  ASSUME CleanupTypeOK, [Next]_vars
  PROVE  Descends(objects, objects')
  <1>1. objects \subseteq Object
    BY DEF CleanupTypeOK, ClusterTypeOK
  <1>2. ASSUME objects' = objects PROVE Descends(objects, objects')
    BY <1>2 DEF Descends, SameKey
  <1>3. ASSUME NEW o \in todo, Delete(o) PROVE Descends(objects, objects')
    <2>1. At(kind, cur, o.name) \subseteq objects
      BY DEF At, Listed
    <2>2. objects' = Deleted(At(kind, cur, o.name)) \/ objects' = objects
      BY <1>3 DEF Delete
    <2>3. QED BY <1>1, <1>2, <2>1, <2>2, DeletedKeepsKeys
  <1>4. ASSUME NEW o \in todo, Strip(o) PROVE Descends(objects, objects')
    <2>1. objects' = FinalizersStripped(cur, o.name) \/ objects' = objects
      BY <1>4 DEF Strip
    <2>2. QED BY <1>1, <1>2, <2>1, StrippedKeepsKeys
  <1>5. CASE EnvironmentStep
    BY <1>1, <1>5, ClusterKeepsPlans DEF EnvironmentStep
  <1>6. CASE \/ Gate \/ NamespacesDone \/ List \/ Select \/ LoopDone \/ Relookup
             \/ PutFinalize \/ WaitGone \/ Verify \/ \E n \in Namespace : Lookup(n)
    BY <1>2, <1>6 DEF Gate, NamespacesDone, List, Select, LoopDone, Relookup,
       PutFinalize, WaitGone, Verify, Lookup, clusterVars
  <1>7. CASE UNCHANGED vars
    BY <1>2, <1>7 DEF vars, clusterVars
  <1>8. QED
    BY <1>3, <1>4, <1>5, <1>6, <1>7 DEF Next, CleanupStep, Stopped

\* The facts are filled from the cluster and from one another alone.
LEMMA FactsFollow ==
  ASSUME CleanupTypeOK, [Next]_vars
  PROVE  /\ listed'["InstallPlan"] \subseteq
              listed["InstallPlan"] \cup {o \in objects : o.kind = "InstallPlan"}
         /\ \/ sel' = sel
            \/ sel' = Nothing
            \/ Select /\ sel' = [k \in Kind |-> Selection(k)]
  <1>1. "InstallPlan" \in Kind /\ listed \in [Kind -> SUBSET Object] /\ kind \in Kind
    BY DEF CleanupTypeOK, Kind
  <1>2. ASSUME NEW n \in Namespace, Lookup(n)
        PROVE  listed'["InstallPlan"] = {} /\ sel' = Nothing
    BY <1>1, <1>2 DEF Lookup, Nothing
  <1>3. CASE List
    <2>1. \/ listed' = listed
          \/ listed' = [listed EXCEPT ![kind] = Listed(kind, cur)]
          \/ listed' = [listed EXCEPT ![kind] = {}]
      BY <1>3 DEF List
    <2>2. UNCHANGED sel
      BY <1>3 DEF List
    <2>3. QED BY <1>1, <2>1, <2>2 DEF Listed
  <1>4. CASE Select
    BY <1>4 DEF Select
  <1>5. CASE UNCHANGED factVars
    BY <1>5 DEF factVars
  <1>6. QED
    BY <1>2, <1>3, <1>4, <1>5
       DEF Next, CleanupStep, EnvironmentStep, Stopped, vars, roleVars, Gate,
           NamespacesDone, Delete, Strip, LoopDone, Relookup, PutFinalize,
           WaitGone, Verify

\* The InstallPlans that were listed and selected still name what they named.
LEMMA PlansStandStep ==
  ASSUME CleanupTypeOK, PlansStand, [Next]_vars
  PROVE  PlansStand'
  <1>1. Descends(objects, objects')
    BY StepKeepsPlans
  <1>2. /\ SamePlans(objects', objects')
        /\ SamePlans(objects', objects)
        /\ SamePlans(objects', listed["InstallPlan"])
        /\ SamePlans(objects', sel["InstallPlan"])
    BY <1>1, DescentKeepsPlans DEF PlansStand
  <1>3. SamePlans(objects', listed'["InstallPlan"])
    BY <1>2, FactsFollow DEF SamePlans
  <1>4. sel'["InstallPlan"] \subseteq sel["InstallPlan"] \cup listed["InstallPlan"]
    BY FactsFollow, SelectionTypes DEF Nothing, Kind
  <1>5. SamePlans(objects', sel'["InstallPlan"])
    BY <1>2, <1>4 DEF SamePlans
  <1>6. QED BY <1>2, <1>3, <1>5 DEF PlansStand

\* Copies are selected only when asked for, and under a token only the
\* InstallPlans that name nothing else.
LEMMA SelectionPureStep ==
  ASSUME CleanupTypeOK, SelectionPure, ListsPure, [Next]_vars
  PROVE  SelectionPure' /\ ListsPure'
  <1>1. cfg' = cfg
    BY ConfigurationFixed
  <1>2. ListsPure'
    BY FactsFollow DEF ListsPure
  <1>3. CASE Select /\ sel' = [k \in Kind |-> Selection(k)]
    <2>1. /\ sel'["CSV"] = Selection("CSV")
          /\ sel'["InstallPlan"] = Selection("InstallPlan")
      BY <1>3 DEF Kind
    <2>2. \A o \in Selection("CSV") : o.copy => cfg.copies
      BY DEF Selection, select_csvs
    <2>3. Selection("InstallPlan") \subseteq listed["InstallPlan"]
      BY SelectionTypes DEF Kind
    <2>4. \A o \in Selection("InstallPlan") :
            cfg.match # <<>> => \A x \in o.plan : csv_name_matches(x, cfg.match)
      BY DEF Selection, select_installplans
    <2>5. QED BY <1>1, <1>2, <2>1, <2>2, <2>3, <2>4 DEF SelectionPure, ListsPure
  <1>4. CASE sel' = sel \/ sel' = Nothing
    BY <1>1, <1>2, <1>4 DEF SelectionPure, Nothing, Kind
  <1>5. QED BY <1>3, <1>4, FactsFollow

\* A loop starts from the selection of its kind, in this namespace, and only
\* shrinks.
LEMMA LoopSelectedStep ==
  ASSUME CleanupTypeOK, SelectionInScope, LoopSelected, [Next]_vars
  PROVE  LoopSelected'
  <1>1. CASE Select
    <2>1. kind = "CSV" /\ sel'["CSV"] = Selection("CSV") /\ UNCHANGED <<cur, kind>>
      BY <1>1 DEF Select, SelectionInScope, Kind
    <2>2. \/ pc' = "delete" /\ todo' = LoopItems("CSV", Selection("CSV"))
          \/ pc' = "failed"
      BY <1>1 DEF Select
    <2>3. QED BY <2>1, <2>2 DEF LoopSelected, LoopItems
  <1>2. CASE LoopDone
    <2>1. UNCHANGED <<cur, sel>> /\ pc \in {"delete", "strip"}
      BY <1>2 DEF LoopDone, factVars
    <2>2. CASE pc = "delete" /\ kind = "CSV"
      BY <1>2, <2>1, <2>2 DEF LoopDone, LoopSelected, Strippable, LoopItems
    <2>3. CASE ~(pc = "delete" /\ kind = "CSV") /\ kind = "Pod"
      BY <1>2, <2>3 DEF LoopDone, LoopSelected
    <2>4. CASE ~(pc = "delete" /\ kind = "CSV") /\ kind # "Pod"
      <3>1. /\ kind' = NextKind(kind) /\ pc' = "delete"
            /\ todo' = LoopItems(NextKind(kind), sel[NextKind(kind)])
        BY <1>2, <2>4 DEF LoopDone
      <3>2. QED BY <2>1, <3>1 DEF LoopSelected, LoopItems
    <2>5. QED BY <2>2, <2>3, <2>4
  <1>3. ASSUME NEW o \in todo, Delete(o) \/ Strip(o) PROVE LoopSelected'
    BY <1>3 DEF Delete, Strip, factVars, LoopSelected
  <1>4. CASE \/ Gate \/ NamespacesDone \/ List \/ Relookup \/ PutFinalize
             \/ WaitGone \/ Verify \/ \E n \in Namespace : Lookup(n)
    BY <1>4 DEF Gate, NamespacesDone, List, Relookup, PutFinalize, WaitGone,
       Verify, Lookup, LoopSelected
  <1>5. CASE UNCHANGED roleVars
    BY <1>5 DEF roleVars, flowVars, factVars, LoopSelected
  <1>6. QED
    BY <1>1, <1>2, <1>3, <1>4, <1>5
       DEF Next, CleanupStep, EnvironmentStep, Stopped, vars

\* A deleted object stood under the name of a selected one of its kind.
LEMMA RemovedWasSelected ==
  ASSUME CleanupTypeOK, LoopSelected, [Next]_vars, NEW o \in removed' \ removed
  PROVE  /\ o \in objects
         /\ pc = "delete" /\ o.ns = cur
         /\ \E s \in sel[o.kind] : s.name = o.name /\ s.ns = o.ns
         /\ UNCHANGED <<sel, cfg>>
  <1>1. ASSUME NEW s \in todo, Delete(s)
        PROVE  /\ o \in objects
               /\ pc = "delete" /\ o.ns = cur
               /\ \E t \in sel[o.kind] : t.name = o.name /\ t.ns = o.ns
               /\ UNCHANGED <<sel, cfg>>
    <2>1. pc = "delete" /\ removed' \subseteq removed \cup At(kind, cur, s.name)
          /\ UNCHANGED <<sel, cfg>>
      BY <1>1 DEF Delete, factVars
    <2>2. o \in objects /\ o.kind = kind /\ o.ns = cur /\ o.name = s.name
      BY <2>1 DEF At, Listed
    <2>3. s \in sel[kind] /\ s.ns = cur
      BY <2>1 DEF LoopSelected
    <2>4. QED BY <2>1, <2>2, <2>3
  <1>2. CASE UNCHANGED removed
    BY <1>2
  <1>3. QED
    BY <1>1, <1>2
       DEF Next, CleanupStep, EnvironmentStep, Stopped, vars, roleVars, historyVars,
           Gate, Lookup, NamespacesDone, List, Select, Strip, LoopDone, Relookup,
           PutFinalize, WaitGone, Verify

\* Under a token, what is deleted of the InstallPlans names nothing else.
LEMMA PlansRemovedStep ==
  ASSUME CleanupTypeOK, Identity, [Next]_vars
  PROVE  PlansRemovedPure'
  <1>1. cfg' = cfg
    BY ConfigurationFixed
  <1>2. ASSUME NEW o \in removed' \ removed, o.kind = "InstallPlan", cfg.match # <<>>
        PROVE  \A x \in o.plan : csv_name_matches(x, cfg.match)
    <2>1. o \in objects /\ \E s \in sel["InstallPlan"] : s.name = o.name /\ s.ns = o.ns
      BY <1>2, RemovedWasSelected DEF Identity
    <2>2. PICK s \in sel["InstallPlan"] : s.name = o.name /\ s.ns = o.ns
      BY <2>1
    <2>3. s.kind = "InstallPlan"
          /\ \A x \in s.plan : csv_name_matches(x, cfg.match)
      BY <1>2, <2>2 DEF Identity, SelectionPure
    <2>4. o.plan = s.plan
      BY <1>2, <2>1, <2>2, <2>3 DEF Identity, PlansStand, SamePlans, SameKey
    <2>5. QED BY <2>3, <2>4
  <1>3. QED BY <1>1, <1>2 DEF Identity, PlansRemovedPure

\* Before a run has listed anything there is nothing to mix up.
LEMMA InitialIdentity ==
  ASSUME ClusterInit, CleanupInit
  PROVE  Identity
  <1>1. SamePlans(objects, objects)
    BY ClusterAssumption DEF ClusterAssumption, ClusterInit, SamePlans
  <1>2. listed["InstallPlan"] = {} /\ sel["InstallPlan"] = {} /\ sel["CSV"] = {}
    BY DEF CleanupInit, Nothing, Kind
  <1>3. QED
    BY <1>1, <1>2
       DEF CleanupInit, Identity, PlansStand, SamePlans, SelectionPure, ListsPure,
           LoopSelected, PlansRemovedPure

LEMMA IdentityStep ==
  ASSUME CleanupTypeOK, Scope, Identity, [Next]_vars
  PROVE  Identity'
  BY PlansStandStep, SelectionPureStep, LoopSelectedStep, PlansRemovedStep
     DEF Identity, Scope

\* The inductive invariant of the deletes by name.
LEMMA IdentityInvariant == Spec => [](CleanupTypeOK /\ Scope /\ Identity)
  <1>1. Init => Identity
    BY InitialIdentity DEF Init
  <1>2. CleanupTypeOK /\ Scope /\ Identity /\ [Next]_vars => Identity'
    BY IdentityStep
  <1>3. QED BY <1>1, <1>2, ScopeInvariant, PTL DEF Spec

\* Where the platform shares one namespace, a run deletes CSVs its token names
\* and InstallPlans of such CSVs alone, although OLM goes on executing and
\* replacing them under the names the run has listed.
THEOREM SharedOperatorsStayIntact == Spec => []SharedOperatorsIntact
  <1>1. CleanupTypeOK /\ Scope /\ Identity => SharedOperatorsIntact
    <2> SUFFICES ASSUME CleanupTypeOK, Scope, Identity,
                        NEW o \in removed, o.ns = SharedOperators
                 PROVE  /\ o.kind \in OlmKind
                        /\ o.kind = "CSV" => csv_name_matches(o.name, cfg.match)
                        /\ o.kind = "InstallPlan" =>
                             \A x \in o.plan : csv_name_matches(x, cfg.match)
      BY DEF SharedOperatorsIntact
    <2>1. cfg.mode = "cleanup" /\ Allowed(SharedOperators) /\ NameInScope(o)
      BY DEF Scope, HistoryInScope, RemovalsAuthorized
    <2>2. /\ ~cfg.sweepWork /\ ~cfg.authAnyCsv
          /\ cfg.sweepOlm => cfg.match # <<>>
      BY <2>1 DEF Allowed, cleanup_refused
    <2>3. o.kind \in Kind
      BY DEF CleanupTypeOK, Object
    <2>4. o.kind \in OlmKind
      BY <2>1, <2>2, <2>3 DEF NameInScope, Kind, OlmKind
    <2>5. o.kind = "CSV" => csv_name_matches(o.name, cfg.match)
      BY <2>1, <2>2 DEF NameInScope
    <2>6. o.kind = "InstallPlan" => cfg.match # <<>>
      BY <2>1, <2>2 DEF NameInScope
    <2>7. QED BY <2>4, <2>5, <2>6 DEF Identity, PlansRemovedPure
  <1>2. QED BY <1>1, IdentityInvariant, PTL

\* No run deletes a CSV that OLM copied into the namespace unless it was asked
\* to, short of a copy that took the name of a selected CSV of its own.
THEOREM CopiesStay == Spec => CopiesSurvive
  <1>1. CleanupTypeOK /\ Scope /\ Identity /\ [Next]_vars =>
          [\A o \in removed' \ removed :
             o.kind = "CSV" /\ o.copy =>
               \/ cfg.copies
               \/ \E s \in sel["CSV"] : s.name = o.name /\ ~s.copy]_vars
    <2> SUFFICES ASSUME CleanupTypeOK, Identity, Next,
                        NEW o \in removed' \ removed, o.kind = "CSV"
                 PROVE  cfg.copies \/ \E s \in sel["CSV"] : s.name = o.name /\ ~s.copy
      OBVIOUS
    <2>1. PICK s \in sel["CSV"] : s.name = o.name
      BY RemovedWasSelected DEF Identity
    <2>2. s.copy \in BOOLEAN
      BY DEF CleanupTypeOK, Kind, Object
    <2>3. QED BY <2>1, <2>2 DEF Identity, SelectionPure
  <1>2. QED BY <1>1, IdentityInvariant, PTL DEF Spec, CopiesSurvive

\* Deleting and stripping touch the selected names of this namespace alone,
\* whatever stands under them by then.
THEOREM OnlySelectedEverTouched == Spec => OnlySelectedTouched
  <1> DEFINE Named(o) == \E s \in sel[o.kind] : s.name = o.name /\ s.ns = o.ns
  <1>1. CleanupTypeOK /\ Scope /\ Identity /\ [Next]_vars =>
          [roleVars' # roleVars =>
             \A o \in (objects \ objects') \cup (objects' \ objects) :
               \E s \in sel[o.kind] : s.name = o.name /\ s.ns = o.ns]_vars
    <2> SUFFICES ASSUME CleanupTypeOK, Identity, Next, roleVars' # roleVars,
                        NEW o \in (objects \ objects') \cup (objects' \ objects)
                 PROVE  Named(o)
      OBVIOUS
    <2>1. objects \subseteq Object
      BY DEF CleanupTypeOK, ClusterTypeOK
    <2>2. ASSUME NEW s \in todo, Delete(s) PROVE Named(o)
      <3>1. pc = "delete" /\ objects' = Deleted(At(kind, cur, s.name))
        BY <2>2 DEF Delete
      <3>2. PICK x \in At(kind, cur, s.name) : SameKey(x, o)
        <4>1. At(kind, cur, s.name) \subseteq objects
          BY DEF At, Listed
        <4>2. QED BY <2>1, <3>1, <4>1, DeletedKeepsKeys
      <3>3. o.kind = kind /\ o.ns = cur /\ o.name = s.name
        BY <3>2 DEF At, Listed, SameKey
      <3>4. s \in sel[kind] /\ s.ns = cur
        BY <3>1 DEF Identity, LoopSelected
      <3>5. QED BY <3>3, <3>4
    <2>3. ASSUME NEW s \in todo, Strip(s) PROVE Named(o)
      <3>1. pc = "strip" /\ objects' = FinalizersStripped(cur, s.name)
        BY <2>3 DEF Strip
      <3>2. o.kind = "CSV" /\ o.ns = cur /\ o.name = s.name
        BY <2>1, <3>1, StrippedKeepsKeys
      <3>3. s \in sel["CSV"] /\ s.ns = cur
        BY <3>1 DEF Identity, LoopSelected
      <3>4. QED BY <3>2, <3>3
    <2>4. CASE UNCHANGED objects
      BY <2>4
    <2>5. QED
      BY <2>2, <2>3, <2>4
         DEF Next, CleanupStep, EnvironmentStep, Stopped, vars, clusterVars, Gate,
             Lookup, NamespacesDone, List, Select, LoopDone, Relookup, PutFinalize,
             WaitGone, Verify
  <1>2. QED BY <1>1, IdentityInvariant, PTL DEF Spec, OnlySelectedTouched

=============================================================================
