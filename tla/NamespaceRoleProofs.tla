-------------------------- MODULE NamespaceRoleProofs --------------------------
(***************************************************************************)
(* What the role ocp_namespace keeps to, whatever it is asked and whatever *)
(* other users do to the namespace meanwhile.  The included cleanup runs   *)
(* up to twice, so its own invariant cannot be cited whole: the parts that *)
(* do not speak of one pass alone (Guarded) are carried through both, and  *)
(* StageInScope ties the tasks around them to what was asked.              *)
(***************************************************************************)
EXTENDS NamespaceRole, AbsentCleanupProofs

\* The tasks of ocp_namespace itself, all but the included cleanup's.
OwnStep ==
  \/ CheckRequest \/ LookupExisting \/ AdvancedEnds
  \/ DeleteNamespace \/ VerifyDeleted \/ VerifyAdvanced
  \/ AwaitTerminating \/ ApplyNamespace \/ ConfirmCreated

AbsentStage == {"before", "delete", "verify", "after", "reverify"}
PresentStage == {"await", "apply", "confirm"}

\* Which tasks a request can reach, and what the included cleanup is given.
StageInScope ==
  /\ cfg = AdvancedConfig(request)
  /\ stage \notin {"before", "after"} => pc = "gate"
  /\ stage \in {"before", "after"} => request.advanced
  /\ stage \notin {"check", "failed"} => ~Refuse
  /\ stage \in AbsentStage => Absent
  /\ stage \in PresentStage => ~Absent

\* The parts of the cleanup's invariant that a second pass keeps.
Guarded ==
  /\ TargetInScope
  /\ SelectionInScope
  /\ SnapshotHonest
  /\ RemovalsAuthorized
  /\ FinalizesOnlyTerminating

\* Nothing is swept or finalized without an advanced absent request, and no
\* other Namespace is deleted.
WithinRequest ==
  /\ ~Absent \/ ~request.advanced => removed = {} /\ finalized = {}
  /\ deletes \subseteq
       (IF Absent /\ ~namespace_delete_blocked(Target) THEN {Target} ELSE {})

\* Every call so far was answered and nobody else may touch the target.
Undisturbed == faults = 0 /\ Target \notin Contested

\* Then a create that waited for the old Namespace finds none being deleted.
CreateUndisturbed ==
  /\ stage = "apply" /\ Undisturbed => spaces[Target].phase \in {"Absent", "Active"}
  /\ stage = "confirm" /\ Undisturbed => spaces[Target].phase = "Active"

RoleScope == StageInScope /\ Guarded /\ WithinRequest /\ CreateUndisturbed
-----------------------------------------------------------------------------
(* Types.                                                                  *)

\* What the included cleanup is given is a configuration.
LEMMA AdvancedConfigType ==
  ASSUME NEW r \in RequestType
  PROVE  AdvancedConfig(r) \in ConfigType
  BY DEF RequestType, ConfigType, AdvancedConfig, Mode

LEMMA NamespaceStepKeepsTypes ==
  ASSUME NamespaceTypeOK, [NamespaceNext]_namespaceVars
  PROVE  NamespaceTypeOK'
  <1> USE DEF NamespaceTypeOK, Stage
  <1>1. spaces \in [Namespace -> [phase : Phase, fin : BOOLEAN, rev : Nat]]
        /\ faults \in Nat /\ Target \in Namespace
    BY DEF CleanupTypeOK, ClusterTypeOK, RequestType, Target
  <1>2. CASE AdvancedStep
    <2>1. CleanupTypeOK'
      BY <1>2, StepKeepsTypes DEF AdvancedStep, Next
    <2>2. QED BY <1>2, <2>1 DEF AdvancedStep, stageVars
  <1>3. CASE ClusterMoves
    <2>1. CleanupTypeOK'
      BY <1>3, StepKeepsTypes DEF ClusterMoves, Next
    <2>2. QED BY <1>3, <2>1 DEF ClusterMoves, stageVars
  <1>4. ASSUME UNCHANGED <<objects, cfg, pending, cur, kind, todo, snap, tries,
                           listed, sel, removed, finalized>>,
               spaces' \in [Namespace -> [phase : Phase, fin : BOOLEAN, rev : Nat]],
               faults' \in Nat, pc' \in PC
        PROVE  CleanupTypeOK'
    BY <1>4 DEF CleanupTypeOK, ClusterTypeOK
  <1> USE DEF clusterVars, flowVars, factVars, historyVars, Succeeds, Fails
  <1>5. pc \in PC /\ "gate" \in PC
    BY DEF CleanupTypeOK, PC
  <1>6. CASE CheckRequest
    <2>1. CleanupTypeOK'
      BY <1>1, <1>4, <1>5, <1>6 DEF CheckRequest, vars, roleVars
    <2>2. QED BY <1>6, <2>1 DEF CheckRequest
  <1>7. CASE LookupExisting
    <2>1. CleanupTypeOK'
      BY <1>1, <1>4, <1>5, <1>7 DEF LookupExisting
    <2>2. QED BY <1>7, <2>1 DEF LookupExisting, Absent
  <1>8. CASE AdvancedEnds
    <2>1. CleanupTypeOK'
      BY <1>1, <1>4, <1>5, <1>8 DEF AdvancedEnds
    <2>2. QED BY <1>8, <2>1 DEF AdvancedEnds
  <1>9. CASE DeleteNamespace
    <2>1. SpaceDeleted(Target) \in [Namespace -> [phase : Phase, fin : BOOLEAN, rev : Nat]]
      BY <1>1 DEF SpaceDeleted, Phase
    <2>2. CleanupTypeOK'
      BY <1>1, <1>4, <1>5, <1>9, <2>1 DEF DeleteNamespace
    <2>3. QED BY <1>1, <1>9, <2>2 DEF DeleteNamespace
  <1>10. CASE VerifyDeleted \/ VerifyAdvanced
    <2>1. CleanupTypeOK'
      <3>1. CASE VerifyDeleted
        BY <1>1, <1>4, <1>5, <3>1 DEF VerifyDeleted, Outcome
      <3>2. CASE VerifyAdvanced
        BY <1>1, <1>4, <1>5, <3>2 DEF VerifyAdvanced, Outcome
      <3>3. QED BY <1>10, <3>1, <3>2
    <2>2. QED BY <1>10, <2>1 DEF VerifyDeleted, VerifyAdvanced, Outcome
  <1>11. CASE AwaitTerminating
    <2>1. CleanupTypeOK'
      BY <1>1, <1>4, <1>5, <1>11 DEF AwaitTerminating
    <2>2. Retries \in Nat
      BY CleanupAssumption DEF CleanupAssumption
    <2>3. stage' \in Stage
      BY <1>11, <2>2 DEF AwaitTerminating
    <2>4. QED BY <1>11, <2>1, <2>3 DEF AwaitTerminating
  <1>12. CASE ApplyNamespace
    <2>1. SpaceCreated(Target) \in [Namespace -> [phase : Phase, fin : BOOLEAN, rev : Nat]]
      BY <1>1 DEF SpaceCreated, Phase
    <2>2. CleanupTypeOK'
      BY <1>1, <1>4, <1>5, <1>12, <2>1 DEF ApplyNamespace
    <2>3. QED BY <1>12, <2>2 DEF ApplyNamespace
  <1>13. CASE ConfirmCreated
    <2>1. CleanupTypeOK'
      BY <1>1, <1>4, <1>5, <1>13 DEF ConfirmCreated
    <2>2. QED BY <1>13, <2>1 DEF ConfirmCreated
  <1>14. CASE UNCHANGED namespaceVars
    BY <1>14 DEF namespaceVars, vars, roleVars, stageVars, CleanupTypeOK, ClusterTypeOK
  <1>15. QED
    BY <1>2, <1>3, <1>6, <1>7, <1>8, <1>9, <1>10, <1>11, <1>12, <1>13, <1>14
       DEF NamespaceNext, NamespaceStep, NamespaceStops

LEMMA NamespaceInitialTypes ==
  ASSUME NamespaceRoleInit
  PROVE  NamespaceTypeOK
  <1>1. CleanupTypeOK
    BY InitialTypes DEF NamespaceRoleInit, NamespaceInit, Init
  <1>2. QED
    BY <1>1, RequestAssumption
       DEF RequestAssumption, NamespaceRoleInit, NamespaceInit, NamespaceTypeOK, Stage

\* Whatever it is asked, the role keeps its variables within their types.
THEOREM NamespaceTypeCorrect == NamespaceSpec => []NamespaceTypeOK
  <1>1. NamespaceRoleInit => NamespaceTypeOK
    BY NamespaceInitialTypes
  <1>2. NamespaceTypeOK /\ [NamespaceNext]_namespaceVars => NamespaceTypeOK'
    BY NamespaceStepKeepsTypes
  <1>3. QED BY <1>1, <1>2, PTL DEF NamespaceSpec

-----------------------------------------------------------------------------
(* The tasks around the cleanup.                                           *)

\* Outside the included cleanup, the role touches nothing of it but the point
\* it starts from, and at most the target's Namespace.
LEMMA OwnStepLocal ==
  ASSUME NamespaceTypeOK, StageInScope, OwnStep
  PROVE  /\ pc' = "gate"
         /\ UNCHANGED <<objects, cfg, pending, cur, kind, listed, sel, todo, snap,
                       removed, finalized, request>>
         /\ faults' \in {faults, faults + 1}
  <1> USE DEF factVars, historyVars, Succeeds, Fails
  <1>1. CASE AdvancedEnds
    BY <1>1 DEF AdvancedEnds, clusterVars
  <1>2. CASE CheckRequest
    BY <1>2 DEF CheckRequest, StageInScope, vars, roleVars, flowVars, clusterVars
  <1>3. CASE LookupExisting
    BY <1>3 DEF LookupExisting, StageInScope, flowVars, clusterVars
  <1>4. CASE DeleteNamespace
    BY <1>4 DEF DeleteNamespace, StageInScope, flowVars
  <1>5. CASE VerifyDeleted
    BY <1>5 DEF VerifyDeleted, Outcome, StageInScope, flowVars, clusterVars
  <1>6. CASE VerifyAdvanced
    BY <1>6 DEF VerifyAdvanced, Outcome, StageInScope, flowVars, clusterVars
  <1>7. CASE AwaitTerminating
    BY <1>7 DEF AwaitTerminating, StageInScope, flowVars, clusterVars
  <1>8. CASE ApplyNamespace
    BY <1>8 DEF ApplyNamespace, StageInScope, flowVars
  <1>9. CASE ConfirmCreated
    BY <1>9 DEF ConfirmCreated, StageInScope, flowVars, clusterVars
  <1>10. QED
    BY <1>1, <1>2, <1>3, <1>4, <1>5, <1>6, <1>7, <1>8, <1>9 DEF OwnStep

\* Every step is a task of the role, a step of the included cleanup, one of
\* somebody else, or none.
LEMMA NamespaceStepKinds ==
  ASSUME [NamespaceNext]_namespaceVars
  PROVE  \/ OwnStep
         \/ stage \in {"before", "after"} /\ CleanupStep /\ UNCHANGED stageVars
         \/ EnvironmentStep /\ UNCHANGED stageVars
         \/ UNCHANGED namespaceVars
  BY DEF NamespaceNext, NamespaceStep, NamespaceStops, OwnStep, AdvancedStep, ClusterMoves

\* The request decides the path through the tasks.
LEMMA StageStep ==
  ASSUME NamespaceTypeOK, StageInScope, [NamespaceNext]_namespaceVars
  PROVE  StageInScope'
  <1>1. ASSUME request' = request
        PROVE  /\ Absent' <=> Absent
               /\ Refuse' <=> Refuse
               /\ AdvancedConfig(request)' = AdvancedConfig(request)
    BY <1>1 DEF Absent, Refuse, AdvancedConfig, Target
  <1>2. CASE OwnStep
    <2>1. pc' = "gate" /\ cfg' = cfg /\ request' = request
      BY <1>2, OwnStepLocal
    <2>2. /\ stage' \in {"before", "after"} => request.advanced
          /\ stage' \notin {"check", "failed"} => ~Refuse
          /\ stage' \in AbsentStage => Absent
          /\ stage' \in PresentStage => ~Absent
      <3> USE DEF StageInScope, AbsentStage, PresentStage
      <3>1. CASE CheckRequest
        BY <3>1 DEF CheckRequest
      <3>2. CASE LookupExisting
        BY <3>2 DEF LookupExisting, AdvancedRequested
      <3>3. CASE AdvancedEnds
        BY <3>3 DEF AdvancedEnds
      <3>4. CASE DeleteNamespace
        BY <3>4 DEF DeleteNamespace
      <3>5. CASE VerifyDeleted
        BY <3>5 DEF VerifyDeleted, Outcome, AdvancedRequested
      <3>6. CASE VerifyAdvanced
        BY <3>6 DEF VerifyAdvanced, Outcome
      <3>7. CASE AwaitTerminating
        <4>1. polls \in Nat /\ Retries \in Nat
          BY CleanupAssumption DEF CleanupAssumption, NamespaceTypeOK
        <4>2. QED BY <3>7, <4>1 DEF AwaitTerminating
      <3>8. CASE ApplyNamespace
        BY <3>8 DEF ApplyNamespace
      <3>9. CASE ConfirmCreated
        BY <3>9 DEF ConfirmCreated
      <3>10. QED
        BY <1>2, <3>1, <3>2, <3>3, <3>4, <3>5, <3>6, <3>7, <3>8, <3>9 DEF OwnStep
    <2>3. QED BY <1>1, <2>1, <2>2 DEF StageInScope
  <1>3. CASE stage \in {"before", "after"} /\ CleanupStep /\ UNCHANGED stageVars
    <2>1. cfg' = cfg
      BY <1>3, ConfigurationFixed DEF Next
    <2>2. QED BY <1>1, <1>3, <2>1 DEF StageInScope, stageVars, AbsentStage, PresentStage
  <1>4. CASE UNCHANGED <<roleVars, stageVars>>
    BY <1>1, <1>4 DEF StageInScope, roleVars, flowVars, stageVars
  <1>5. QED
    BY <1>2, <1>3, <1>4, NamespaceStepKinds
       DEF EnvironmentStep, namespaceVars, vars

\* Both passes of the cleanup keep to what the first is given.
LEMMA GuardedStep ==
  ASSUME NamespaceTypeOK, StageInScope, Guarded, [NamespaceNext]_namespaceVars
  PROVE  Guarded'
  <1>1. ASSUME [Next]_vars PROVE Guarded'
    BY <1>1, TargetStep, SelectionStep, SnapshotStep, AuthorizationStep
       DEF Guarded, NamespaceTypeOK
  <1>2. CASE OwnStep
    <2>1. /\ pc' = "gate"
          /\ UNCHANGED <<cfg, pending, cur, kind, sel, todo, removed, finalized>>
      BY <1>2, OwnStepLocal
    <2>2. TargetInScope' /\ SnapshotHonest'
      BY <2>1, SameConfiguration
         DEF Guarded, TargetInScope, SnapshotHonest, Working, Destructive
    <2>3. SelectionInScope'
      BY <2>1, SameConfiguration DEF Guarded, SelectionInScope
    <2>4. RemovalsAuthorized' /\ FinalizesOnlyTerminating'
      <3> DEFINE Authorized(o) == /\ cfg.mode = "cleanup"
                                  /\ o.ns \in cfg.targets
                                  /\ Allowed(o.ns)
                                  /\ ScopeOf(o.kind, o.name)
      <3>1. \A o : Authorized(o)' <=> Authorized(o)
        BY <2>1, SameConfiguration
      <3>2. RemovalsAuthorized <=> \A o \in removed : Authorized(o)
        BY DEF RemovalsAuthorized, NameInScope, ScopeOf
      <3>3. RemovalsAuthorized' <=> \A o \in removed' : Authorized(o)
        BY <2>1, <3>1 DEF RemovalsAuthorized, NameInScope, ScopeOf
      <3> HIDE DEF Authorized
      <3>4. FinalizesOnlyTerminating'
        BY <2>1, SameConfiguration DEF Guarded, FinalizesOnlyTerminating
      <3>5. QED BY <2>1, <3>2, <3>3, <3>4 DEF Guarded
    <2>5. QED BY <2>2, <2>3, <2>4 DEF Guarded
  <1>3. CASE UNCHANGED namespaceVars
    BY <1>1, <1>3 DEF namespaceVars
  <1>4. QED
    BY <1>1, <1>2, <1>3, NamespaceStepKinds DEF Next

\* Only an advanced absent request reaches the cleanup, and only an absent
\* one of an unprotected Namespace the delete.
LEMMA WithinRequestStep ==
  ASSUME NamespaceTypeOK, StageInScope, WithinRequest, [NamespaceNext]_namespaceVars
  PROVE  WithinRequest'
  <1>1. ASSUME request' = request
        PROVE  (Absent' <=> Absent) /\ Target' = Target
    BY <1>1 DEF Absent, Target
  <1>2. CASE OwnStep
    <2>1. UNCHANGED <<removed, finalized, request>>
      BY <1>2, OwnStepLocal
    <2>2. deletes' \subseteq
            (IF Absent /\ ~namespace_delete_blocked(Target) THEN {Target} ELSE {})
      <3>1. CASE DeleteNamespace
        <4>1. Absent /\ ~namespace_delete_blocked(Target)
          BY <3>1 DEF DeleteNamespace, StageInScope, AbsentStage, Refuse
        <4>2. QED BY <3>1, <4>1 DEF DeleteNamespace, WithinRequest
      <3>2. CASE UNCHANGED deletes
        BY <3>2 DEF WithinRequest
      <3>3. QED
        BY <1>2, <3>1, <3>2
           DEF OwnStep, CheckRequest, LookupExisting, AdvancedEnds, VerifyDeleted,
               VerifyAdvanced, AwaitTerminating, ApplyNamespace, ConfirmCreated
    <2>3. QED BY <1>1, <2>1, <2>2 DEF WithinRequest, namespace_delete_blocked
  <1>3. CASE stage \in {"before", "after"} /\ CleanupStep /\ UNCHANGED stageVars
    <2>1. Absent /\ request.advanced
      BY <1>3 DEF StageInScope, AbsentStage
    <2>2. UNCHANGED <<request, deletes>>
      BY <1>3 DEF stageVars
    <2>3. QED BY <1>1, <2>1, <2>2 DEF WithinRequest, namespace_delete_blocked
  <1>4. CASE UNCHANGED <<roleVars, stageVars>>
    BY <1>1, <1>4
       DEF roleVars, historyVars, stageVars, WithinRequest, namespace_delete_blocked
  <1>5. QED
    BY <1>2, <1>3, <1>4, NamespaceStepKinds
       DEF EnvironmentStep, namespaceVars, vars

\* While nobody else touches it, a Namespace that is not being deleted stays as
\* it is.
LEMMA QuietNamespaceStays ==
  ASSUME ClusterTypeOK, NEW n \in Namespace, ClusterStep(n),
         NEW m \in Namespace \ Contested, spaces[m].phase # "Terminating"
  PROVE  spaces'[m] = spaces[m]
  <1>1. spaces \in [Namespace -> [phase : Phase, fin : BOOLEAN, rev : Nat]]
    BY DEF ClusterTypeOK
  <1>2. CASE UserDeletesSpace(n)
    BY <1>1, <1>2 DEF UserDeletesSpace, SpaceDeleted
  <1>3. CASE UserCreatesSpace(n)
    BY <1>1, <1>3 DEF UserCreatesSpace, SpaceCreated
  <1>4. CASE ControllerEnds(n)
    BY <1>1, <1>4 DEF ControllerEnds
  <1>5. CASE UNCHANGED spaces
    BY <1>5
  <1>6. QED
    BY <1>2, <1>3, <1>4, <1>5
       DEF ClusterStep, ControllerEmpties, OlmInstalls, OlmCopies, OlmReleases,
           OlmDeploys, ReplicaStarts, PodCollected

\* The create comes after the wait for a Namespace that is being deleted.
LEMMA CreateStep ==
  ASSUME NamespaceTypeOK, StageInScope, CreateUndisturbed,
         [NamespaceNext]_namespaceVars
  PROVE  CreateUndisturbed'
  <1>1. /\ spaces \in [Namespace -> [phase : Phase, fin : BOOLEAN, rev : Nat]]
        /\ faults \in Nat /\ Target \in Namespace
    BY DEF NamespaceTypeOK, CleanupTypeOK, ClusterTypeOK, RequestType, Target
  <1>2. ASSUME request' = request PROVE Target' = Target
    BY <1>2 DEF Target
  <1>3. CASE OwnStep
    <2>1. Target' = Target /\ faults' \in {faults, faults + 1}
      BY <1>2, <1>3, OwnStepLocal
    <2>2. SUFFICES ASSUME stage' \in {"apply", "confirm"}, faults' = 0,
                          Target \notin Contested
                   PROVE  /\ stage' = "apply" =>
                               spaces'[Target].phase \in {"Absent", "Active"}
                          /\ stage' = "confirm" => spaces'[Target].phase = "Active"
      BY <2>1 DEF CreateUndisturbed, Undisturbed
    <2>3. faults = 0 /\ ~Fails /\ Undisturbed
      BY <1>1, <2>1, <2>2 DEF Fails, Undisturbed
    <2>4. CASE LookupExisting
      <3>1. stage' = "apply" /\ spaces[Target].phase # "Terminating"
        BY <2>2, <2>3, <2>4 DEF LookupExisting
      <3>2. UNCHANGED spaces
        BY <2>4 DEF LookupExisting, clusterVars
      <3>3. QED BY <1>1, <3>1, <3>2 DEF Phase
    <2>5. CASE AwaitTerminating
      <3>1. CASE Exists(Target) /\ polls < Retries
        BY <2>2, <2>3, <2>5, <3>1 DEF AwaitTerminating
      <3>2. CASE Exists(Target) /\ polls >= Retries
        <4>1. polls \in Nat /\ Retries \in Nat
          BY CleanupAssumption DEF CleanupAssumption, NamespaceTypeOK
        <4>2. stage' = "failed"
          BY <2>3, <2>5, <3>2, <4>1 DEF AwaitTerminating
        <4>3. QED BY <2>2, <4>2
      <3>3. CASE ~Exists(Target)
        <4>1. stage' = "apply" /\ UNCHANGED spaces
          BY <2>3, <2>5, <3>3 DEF AwaitTerminating, clusterVars
        <4>2. QED BY <3>3, <4>1 DEF Exists
      <3>4. polls \in Nat /\ Retries \in Nat
        BY CleanupAssumption DEF CleanupAssumption, NamespaceTypeOK
      <3>5. QED BY <3>1, <3>2, <3>3, <3>4
    <2>6. CASE ApplyNamespace
      <3>1. spaces' = SpaceCreated(Target) /\ stage' = "confirm"
        BY <2>3, <2>6 DEF ApplyNamespace
      <3>2. spaces[Target].phase \in {"Absent", "Active"}
        BY <2>3, <2>6 DEF ApplyNamespace, CreateUndisturbed
      <3>3. QED BY <1>1, <3>1, <3>2 DEF SpaceCreated, Exists
    <2>7. CASE \/ CheckRequest \/ AdvancedEnds \/ DeleteNamespace \/ VerifyDeleted
               \/ VerifyAdvanced \/ ConfirmCreated
      BY <2>2, <2>7
         DEF CheckRequest, AdvancedEnds, DeleteNamespace, VerifyDeleted,
             VerifyAdvanced, ConfirmCreated, Outcome
    <2>8. QED BY <1>3, <2>4, <2>5, <2>6, <2>7 DEF OwnStep
  <1>4. CASE stage \in {"before", "after"} /\ CleanupStep /\ UNCHANGED stageVars
    BY <1>4 DEF stageVars, CreateUndisturbed
  <1>5. CASE EnvironmentStep /\ UNCHANGED stageVars
    <2>1. PICK n \in Namespace : ClusterStep(n)
      BY <1>5 DEF EnvironmentStep
    <2>2. Target' = Target /\ faults' = faults /\ stage' = stage
      BY <1>2, <1>5 DEF EnvironmentStep, stageVars, roleVars
    <2>3. ASSUME Target \notin Contested, spaces[Target].phase # "Terminating"
          PROVE  spaces'[Target] = spaces[Target]
      BY <1>1, <2>1, <2>3, QuietNamespaceStays DEF NamespaceTypeOK, CleanupTypeOK
    <2>4. QED BY <2>2, <2>3 DEF CreateUndisturbed, Undisturbed
  <1>6. CASE UNCHANGED namespaceVars
    BY <1>2, <1>6
       DEF namespaceVars, vars, roleVars, clusterVars, stageVars, CreateUndisturbed,
           Undisturbed
  <1>7. QED BY <1>3, <1>4, <1>5, <1>6, NamespaceStepKinds

\* The inductive invariant of the role.
LEMMA RoleScopeInvariant == NamespaceSpec => [](NamespaceTypeOK /\ RoleScope)
  <1>1. NamespaceRoleInit => RoleScope
    BY DEF NamespaceRoleInit, NamespaceInit, CleanupInit, Nothing, RoleScope,
       StageInScope, AbsentStage, PresentStage, Guarded, TargetInScope,
       SelectionInScope, SnapshotHonest, RemovalsAuthorized,
       FinalizesOnlyTerminating, Working, Destructive, WithinRequest,
       CreateUndisturbed
  <1>2. NamespaceTypeOK /\ RoleScope /\ [NamespaceNext]_namespaceVars => RoleScope'
    BY StageStep, GuardedStep, WithinRequestStep, CreateStep DEF RoleScope
  <1>3. QED BY <1>1, <1>2, NamespaceTypeCorrect, PTL DEF NamespaceSpec

\* The role sweeps, finalizes and deletes nothing it was not asked for, and
\* finalizes the target alone, never while it is live: both passes included.
THEOREM NamespaceActsWithinRequest == NamespaceSpec => []ActsWithinRequest
  <1>1. NamespaceTypeOK /\ RoleScope => ActsWithinRequest
    <2> SUFFICES ASSUME NamespaceTypeOK, RoleScope PROVE ActsWithinRequest
      OBVIOUS
    <2>1. request.flags \in ConfigType
      BY DEF NamespaceTypeOK, RequestType
    <2>2. cfg.targets = {Target} /\ cfg.onlyTerminating
      BY <2>1 DEF RoleScope, StageInScope, AdvancedConfig, ConfigType, Target
    <2>3. \A f \in finalized : f.ns = Target /\ f.phase = "Terminating"
      BY <2>2 DEF RoleScope, Guarded, FinalizesOnlyTerminating
    <2>4. QED BY <2>3 DEF RoleScope, WithinRequest, ActsWithinRequest
  <1>2. QED BY <1>1, RoleScopeInvariant, PTL

\* What the two passes of the included cleanup delete stays within its flags
\* and in the requested namespace, as it does in a run of its own.
THEOREM NamespaceRemovalsAuthorized == NamespaceSpec => []RemovalsAuthorized
  <1>1. RoleScope => RemovalsAuthorized
    BY DEF RoleScope, Guarded
  <1>2. QED BY <1>1, RoleScopeInvariant, PTL

\* When the role says "done" with every call answered, an absent request that
\* checks has seen the Namespace gone, and a present one leaves it Active.
THEOREM NamespaceSuccessTellsTruth == NamespaceSpec => SuccessTellsTruth
  <1>1. NamespaceTypeOK /\ RoleScope /\ [NamespaceNext]_namespaceVars =>
          [stage' = "done" /\ stage # "done" =>
             /\ Absent /\ request.failIfPresent /\ faults' = 0 => ~Exists(Target)
             /\ ~Absent => spaces[Target].phase # "Terminating"
             /\ ~Absent /\ faults' = 0 /\ Target \notin Contested
                  => spaces[Target].phase = "Active"]_namespaceVars
    <2> SUFFICES ASSUME NamespaceTypeOK, RoleScope, NamespaceNext,
                        stage' = "done", stage # "done"
                 PROVE  /\ Absent /\ request.failIfPresent /\ faults' = 0
                             => ~Exists(Target)
                        /\ ~Absent => spaces[Target].phase # "Terminating"
                        /\ ~Absent /\ faults' = 0 /\ Target \notin Contested
                             => spaces[Target].phase = "Active"
      OBVIOUS
    <2>1. faults \in Nat
      BY DEF NamespaceTypeOK, CleanupTypeOK
    <2>2. CASE VerifyDeleted \/ VerifyAdvanced
      <3>1. Absent
        BY <2>2 DEF VerifyDeleted, VerifyAdvanced, RoleScope, StageInScope, AbsentStage
      <3>2. request.failIfPresent /\ faults' = 0 => ~Exists(Target)
        BY <2>1, <2>2 DEF VerifyDeleted, VerifyAdvanced, Outcome, Succeeds, Fails
      <3>3. QED BY <3>1, <3>2
    <2>3. CASE ConfirmCreated
      <3>1. ~Absent /\ spaces[Target].phase # "Terminating" /\ faults' = faults
            /\ stage = "confirm"
        BY <2>3 DEF ConfirmCreated, RoleScope, StageInScope, PresentStage, Succeeds
      <3>2. QED BY <3>1 DEF RoleScope, CreateUndisturbed, Undisturbed
    <2>4. stage' # "done" \/ VerifyDeleted \/ VerifyAdvanced \/ ConfirmCreated
      <3>1. polls \in Nat /\ Retries \in Nat
        BY CleanupAssumption DEF CleanupAssumption, NamespaceTypeOK
      <3>2. AwaitTerminating => stage' # "done"
        BY <3>1 DEF AwaitTerminating
      <3>3. LookupExisting => stage' # "done"
        BY DEF LookupExisting
      <3>4. QED
        BY <3>2, <3>3
           DEF NamespaceNext, NamespaceStep, NamespaceStops, ClusterMoves, CheckRequest,
               AdvancedStep, AdvancedEnds, DeleteNamespace, ApplyNamespace, stageVars,
               namespaceVars
    <2>5. QED BY <2>2, <2>3, <2>4
  <1>2. QED BY <1>1, RoleScopeInvariant, PTL DEF NamespaceSpec, SuccessTellsTruth
=============================================================================
