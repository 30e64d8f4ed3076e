------------------------ MODULE OperatorUninstallProofs ------------------------
(***************************************************************************)
(* What an uninstall keeps to and leaves behind, however OLM runs between  *)
(* its calls and however often the play is repeated.  The included gate is *)
(* a run of ocp_absent_cleanup, whose lemmas carry over; PlayInScope ties  *)
(* the tasks before it to the same selection, and says why no InstallPlan  *)
(* can change its meaning under a listed name: once anything is listed the *)
(* Subscription is gone, and OLM resolves no more.                         *)
(***************************************************************************)
EXTENDS OperatorUninstall, AbsentCleanupProofs

UninstallTypeOK ==
  /\ CleanupTypeOK
  /\ request \in [ns : Namespace, match : Token \ {<<>>}, sweep : BOOLEAN]
  /\ stage \in Stage
  /\ subscribed \in BOOLEAN
  /\ doomed \subseteq Object
  /\ runs \in Nat

\* What the two delete loops before the gate run over.
DoomedInScope ==
  /\ stage = "deleteCsvs" => \A o \in doomed : o.kind = "CSV" /\ Confirmed(o)
  /\ stage = "deletePlans" =>
       \A o \in doomed :
         /\ o.kind = "InstallPlan" /\ o.ns = request.ns
         /\ \A x \in o.plan : csv_name_matches(x, request.match)
  /\ SamePlans(objects, doomed)

PlayInScope ==
  /\ cfg = OwnSelection(request)
  /\ stage = "done" => pc = "done"
  /\ subscribed => /\ stage \in {"unsubscribe", "failed"}
                   /\ listed = Nothing /\ sel = Nothing /\ doomed = {}
  /\ DoomedInScope

GateInScope == TargetInScope /\ SelectionInScope /\ Identity

UninstallScope == PlayInScope /\ GateInScope /\ UninstallSparesOthers

\* The tasks of uninstall_operator.yml around the gate.
OwnStep ==
  \/ Unsubscribe \/ ListCsvs \/ ListPlans
  \/ \E o \in doomed : DeleteCsv(o) \/ DeletePlan(o)
  \/ EnterGate \/ LeaveGate \/ Rerun
-----------------------------------------------------------------------------
(* Types.                                                                  *)

\* OLM's new InstallPlan is an object.
LEMMA NewPlanType ==
  ASSUME NEW n \in Namespace, NEW name \in Name, NEW names \in SUBSET Name
  PROVE  [Blank("InstallPlan", n, name) EXCEPT !.plan = names, !.left = names] \in Object
  BY DEF Blank, Object, Kind

LEMMA UninstallStepKeepsTypes ==
  ASSUME UninstallTypeOK, [UninstallNext]_uninstallVars
  PROVE  UninstallTypeOK'
  <1> USE DEF UninstallTypeOK, Stage
  <1>1. /\ objects \subseteq Object /\ removed \subseteq Object
        /\ faults \in Nat /\ pc \in PC /\ request.ns \in Namespace
    BY DEF CleanupTypeOK, ClusterTypeOK
  <1>2. ASSUME [Next]_vars, UNCHANGED stageVars PROVE UninstallTypeOK'
    BY <1>2, StepKeepsTypes DEF stageVars
  <1>3. ASSUME objects' \subseteq Object, removed' \subseteq Object,
               faults' \in Nat, pc' \in PC,
               UNCHANGED <<spaces, cfg, pending, cur, kind, todo, snap, tries,
                           listed, sel, finalized>>
        PROVE  CleanupTypeOK'
    BY <1>3 DEF CleanupTypeOK, ClusterTypeOK
  <1> USE DEF clusterVars, flowVars, factVars, historyVars, Succeeds, Fails
  <1>4. CASE Unsubscribe
    <2>1. CleanupTypeOK'
      BY <1>1, <1>3, <1>4 DEF Unsubscribe
    <2>2. QED BY <1>4, <2>1 DEF Unsubscribe
  <1>5. CASE ListCsvs
    <2>1. CleanupTypeOK'
      BY <1>1, <1>3, <1>5 DEF ListCsvs
    <2>2. doomed' \subseteq Object
      BY <1>1, <1>5 DEF ListCsvs, select_csvs, InNamespace, Listed
    <2>3. QED BY <1>5, <2>1, <2>2 DEF ListCsvs
  <1>6. CASE ListPlans
    <2>1. CleanupTypeOK'
      BY <1>1, <1>3, <1>6 DEF ListPlans
    <2>2. doomed' \subseteq Object
      BY <1>1, <1>6 DEF ListPlans, select_installplans, InNamespace, Listed
    <2>3. QED BY <1>6, <2>1, <2>2 DEF ListPlans
  <1>7. ASSUME NEW o \in doomed, NEW k \in Kind
        PROVE  /\ At(k, request.ns, o.name) \subseteq Object
               /\ Deleted(At(k, request.ns, o.name)) \subseteq Object
    <2>1. o.name \in Name
      BY DEF Object
    <2>2. QED BY <1>1, <2>1, ObjectTypes
  <1>8. ASSUME NEW o \in doomed, DeleteCsv(o) PROVE UninstallTypeOK'
    <2>1. CleanupTypeOK'
      BY <1>1, <1>3, <1>7, <1>8 DEF DeleteCsv, Kind
    <2>2. QED BY <1>8, <2>1 DEF DeleteCsv
  <1>9. ASSUME NEW o \in doomed, DeletePlan(o) PROVE UninstallTypeOK'
    <2>1. CleanupTypeOK'
      BY <1>1, <1>3, <1>7, <1>9 DEF DeletePlan, Kind
    <2>2. QED BY <1>9, <2>1 DEF DeletePlan
  <1>10. CASE EnterGate
    <2>1. CleanupTypeOK'
      BY <1>1, <1>3, <1>10 DEF EnterGate, PC
    <2>2. QED BY <1>10, <2>1 DEF EnterGate
  <1>11. CASE LeaveGate \/ Rerun
    <2>1. CleanupTypeOK'
      BY <1>1, <1>3, <1>11 DEF LeaveGate, Rerun, vars, roleVars
    <2>2. QED BY <1>11, <2>1 DEF LeaveGate, Rerun
  <1>12. CASE OlmResolves
    <2>1. PICK names \in PlanSets, n \in PlanNames :
            objects' = objects \cup {[Blank("InstallPlan", request.ns, n) EXCEPT
                                        !.plan = names, !.left = names]}
      BY <1>12 DEF OlmResolves
    <2>2. names \in SUBSET Name /\ n \in Name
      BY UninstallAssumption DEF UninstallAssumption
    <2>3. [Blank("InstallPlan", request.ns, n) EXCEPT !.plan = names, !.left = names]
            \in Object
      BY <1>1, <2>2, NewPlanType
    <2>4. objects' \subseteq Object
      BY <1>1, <2>1, <2>3
    <2>5. CleanupTypeOK'
      BY <1>1, <1>3, <1>12, <2>4 DEF OlmResolves, roleVars
    <2>6. QED BY <1>12, <2>5 DEF OlmResolves, stageVars
  <1>13. CASE GateStep \/ ClusterMoves
    BY <1>2, <1>13 DEF GateStep, ClusterMoves, Next
  <1>14. CASE UNCHANGED uninstallVars
    BY <1>2, <1>14 DEF uninstallVars
  <1>15. QED
    BY <1>4, <1>5, <1>6, <1>8, <1>9, <1>10, <1>11, <1>12, <1>13, <1>14
       DEF UninstallNext, UninstallStep, UninstallStops

\* Whatever is uninstalled, the play keeps its variables within their types.
THEOREM UninstallTypeCorrect == UninstallSpec => []UninstallTypeOK
  <1>1. UninstallRoleInit => UninstallTypeOK
    <2> SUFFICES ASSUME UninstallRoleInit PROVE UninstallTypeOK
      OBVIOUS
    <2>1. CleanupTypeOK
      BY InitialTypes DEF UninstallRoleInit, UninstallInit, Init
    <2>2. QED
      BY <2>1, UninstallAssumption
         DEF UninstallAssumption, UninstallRoleInit, UninstallInit, UninstallTypeOK, Stage
  <1>2. UninstallTypeOK /\ [UninstallNext]_uninstallVars => UninstallTypeOK'
    BY UninstallStepKeepsTypes
  <1>3. QED BY <1>1, <1>2, PTL DEF UninstallSpec

-----------------------------------------------------------------------------
(* The tasks before the gate, the gate and OLM, step by step.              *)

\* Every step is a task around the gate, a step of the gate, one of OLM's
\* resolver or of another controller, or none.
LEMMA UninstallStepKinds ==
  ASSUME [UninstallNext]_uninstallVars
  PROVE  \/ OwnStep
         \/ GateStep
         \/ OlmResolves
         \/ EnvironmentStep /\ UNCHANGED stageVars
         \/ UNCHANGED uninstallVars
  BY DEF UninstallNext, UninstallStep, UninstallStops, OwnStep, ClusterMoves

\* A task around the gate deletes at most the objects under one doomed name,
\* and moves the gate nowhere but to its start.
LEMMA OwnStepLocal ==
  ASSUME UninstallTypeOK, OwnStep
  PROVE  /\ pc' \in {"gate", pc}
         /\ UNCHANGED <<spaces, cfg, pending, cur, kind, listed, sel, todo, snap,
                       finalized, request>>
         /\ subscribed' => subscribed
         /\ \/ UNCHANGED <<objects, removed>>
            \/ \E o \in doomed, k \in OlmKind :
                 /\ stage = IF k = "CSV" THEN "deleteCsvs" ELSE "deletePlans"
                 /\ objects' = Deleted(At(k, request.ns, o.name))
                 /\ removed' = removed \cup At(k, request.ns, o.name)
  <1> USE DEF clusterVars, flowVars, factVars, historyVars
  <1>1. CASE Unsubscribe
    BY <1>1 DEF Unsubscribe
  <1>2. CASE ListCsvs
    BY <1>2 DEF ListCsvs
  <1>3. CASE ListPlans
    BY <1>3 DEF ListPlans
  <1>4. ASSUME NEW o \in doomed, DeleteCsv(o)
        PROVE  /\ pc' = pc
               /\ UNCHANGED <<spaces, cfg, pending, cur, kind, listed, sel, todo,
                             snap, finalized, request, subscribed>>
               /\ stage = "deleteCsvs"
               /\ \/ UNCHANGED <<objects, removed>>
                  \/ /\ objects' = Deleted(At("CSV", request.ns, o.name))
                     /\ removed' = removed \cup At("CSV", request.ns, o.name)
    BY <1>4 DEF DeleteCsv
  <1>5. ASSUME NEW o \in doomed, DeletePlan(o)
        PROVE  /\ pc' = pc
               /\ UNCHANGED <<spaces, cfg, pending, cur, kind, listed, sel, todo,
                             snap, finalized, request, subscribed>>
               /\ stage = "deletePlans"
               /\ \/ UNCHANGED <<objects, removed>>
                  \/ /\ objects' = Deleted(At("InstallPlan", request.ns, o.name))
                     /\ removed' = removed \cup At("InstallPlan", request.ns, o.name)
    BY <1>5 DEF DeletePlan
  <1>6. CASE EnterGate
    BY <1>6 DEF EnterGate
  <1>7. CASE LeaveGate \/ Rerun
    BY <1>7 DEF LeaveGate, Rerun, vars, roleVars
  <1>8. "CSV" \in OlmKind /\ "InstallPlan" \in OlmKind
    BY DEF OlmKind
  <1>9. QED
    BY <1>1, <1>2, <1>3, <1>4, <1>5, <1>6, <1>7, <1>8 DEF OwnStep

\* A task around the gate keeps the InstallPlans what they are.
LEMMA OwnStepKeepsPlans ==
  ASSUME UninstallTypeOK, OwnStep
  PROVE  Descends(objects, objects')
  <1>1. objects \subseteq Object
    BY DEF UninstallTypeOK, CleanupTypeOK, ClusterTypeOK
  <1>2. \A k, n, name : At(k, n, name) \subseteq objects
    BY DEF At, Listed
  <1>3. CASE UNCHANGED objects
    BY <1>3 DEF Descends, SameKey
  <1>4. QED BY <1>1, <1>2, <1>3, OwnStepLocal, DeletedKeepsKeys

\* OLM resolves only under a name no InstallPlan of the namespace has.
LEMMA NewPlanHasNoNamesake ==
  ASSUME UninstallTypeOK, SamePlans(objects, objects), OlmResolves
  PROVE  SamePlans(objects', objects')
  <1>1. PICK names \in PlanSets, n \in PlanNames :
          /\ At("InstallPlan", request.ns, n) = {}
          /\ objects' = objects \cup {[Blank("InstallPlan", request.ns, n) EXCEPT
                                      !.plan = names, !.left = names]}
    BY DEF OlmResolves
  <1> DEFINE new == [Blank("InstallPlan", request.ns, n) EXCEPT
                       !.plan = names, !.left = names]
  <1>2. new.kind = "InstallPlan" /\ new.ns = request.ns /\ new.name = n
    BY DEF Blank
  <1>3. \A o \in objects : ~SameKey(o, new) /\ ~SameKey(new, o)
    BY <1>1, <1>2 DEF SameKey, At, Listed
  <1>4. \A o \in objects' : o \in objects \/ o = new
    BY <1>1
  <1> HIDE DEF new
  <1>5. QED BY <1>3, <1>4 DEF SamePlans

\* Before the gate the play deletes what its selection names; nothing is
\* listed while OLM may still resolve the Subscription.
LEMMA PlayStep ==
  ASSUME UninstallTypeOK, UninstallScope, [UninstallNext]_uninstallVars
  PROVE  PlayInScope'
  <1>1. \A r : request' = r => OwnSelection(request)' = OwnSelection(r)
    BY DEF OwnSelection
  <1>2. ASSUME request' = request, doomed' \subseteq doomed, stage' = stage,
               Descends(objects, objects')
        PROVE  DoomedInScope'
    <2>1. SamePlans(objects', doomed)
      BY <1>2, DescentKeepsPlans
         DEF UninstallScope, PlayInScope, DoomedInScope, GateInScope, Identity, PlansStand
    <2>2. SamePlans(objects', doomed')
      BY <1>2, <2>1 DEF SamePlans
    <2>3. QED BY <1>2, <2>2 DEF UninstallScope, PlayInScope, DoomedInScope, Confirmed
  <1>3. ASSUME doomed' = {} PROVE DoomedInScope'
    BY <1>3 DEF DoomedInScope, SamePlans
  <1>4. CASE OwnStep
    <2>1. cfg' = cfg /\ request' = request /\ UNCHANGED <<listed, sel>>
          /\ (subscribed' => subscribed)
      BY <1>4, OwnStepLocal
    <2>2. Descends(objects, objects')
      BY <1>4, OwnStepKeepsPlans
    <2>3. cfg' = OwnSelection(request)'
      BY <1>1, <2>1 DEF UninstallScope, PlayInScope
    <2>4. SamePlans(objects', objects')
      BY <2>2, DescentKeepsPlans DEF UninstallScope, GateInScope, Identity, PlansStand
    <2>5. CASE Unsubscribe
      <3>1. \/ stage' = "listCsvs" /\ ~subscribed'
            \/ stage' = "failed" /\ UNCHANGED subscribed
        BY <2>5 DEF Unsubscribe
      <3>2. UNCHANGED doomed
        BY <2>5 DEF Unsubscribe
      <3>3. DoomedInScope'
        BY <2>1, <2>2, <3>1, <3>2, DescentKeepsPlans
           DEF DoomedInScope, UninstallScope, PlayInScope, GateInScope, Identity, PlansStand
      <3>4. QED BY <2>1, <2>3, <3>1, <3>2, <3>3 DEF UninstallScope, PlayInScope
    <2>6. CASE ListCsvs
      <3>1. /\ stage = "listCsvs" /\ UNCHANGED <<objects, subscribed>>
            /\ doomed' \subseteq {o \in objects : o.kind = "CSV"}
            /\ stage' \in {"deleteCsvs", "failed"}
            /\ stage' = "deleteCsvs" => \A o \in doomed' : Confirmed(o)
        BY <2>6 DEF ListCsvs, select_csvs, InNamespace, Listed, clusterVars
      <3>2. \A o : Confirmed(o)' <=> Confirmed(o)
        BY <2>1 DEF Confirmed
      <3>3. SamePlans(objects', doomed')
        BY <2>4, <3>1 DEF SamePlans
      <3>4. DoomedInScope'
        BY <3>1, <3>2, <3>3 DEF DoomedInScope
      <3>5. QED BY <2>1, <2>3, <3>1, <3>4 DEF UninstallScope, PlayInScope
    <2>7. CASE ListPlans
      <3>1. stage = "deleteCsvs" /\ stage' = "deletePlans" /\ UNCHANGED <<objects, subscribed>>
        BY <2>7 DEF ListPlans, clusterVars
      <3>2. cfg.match = request.match /\ cfg.match # <<>>
        BY DEF UninstallScope, PlayInScope, OwnSelection, UninstallTypeOK
      <3>3. \A o \in doomed' : /\ o \in objects /\ o.kind = "InstallPlan"
                              /\ o.ns = request.ns
                              /\ \A x \in o.plan : csv_name_matches(x, request.match)
        BY <2>7, <3>2 DEF ListPlans, select_installplans, InNamespace, Listed
      <3>4. SamePlans(objects', doomed')
        BY <2>4, <3>1, <3>3 DEF SamePlans
      <3>5. DoomedInScope'
        BY <2>1, <3>1, <3>3, <3>4 DEF DoomedInScope
      <3>6. QED BY <2>1, <2>3, <3>1, <3>5 DEF UninstallScope, PlayInScope
    <2>8. ASSUME NEW o \in doomed, DeleteCsv(o) \/ DeletePlan(o) PROVE PlayInScope'
      <3>1. doomed' \subseteq doomed /\ UNCHANGED subscribed
            /\ (stage' = stage \/ stage' = "failed") /\ stage \in {"deleteCsvs", "deletePlans"}
        BY <2>8 DEF DeleteCsv, DeletePlan
      <3>2. DoomedInScope'
        <4>1. CASE stage' = stage
          BY <1>2, <2>1, <2>2, <3>1, <4>1
        <4>2. CASE stage' = "failed"
          <5>1. SamePlans(objects', doomed)
            BY <2>2, DescentKeepsPlans
               DEF UninstallScope, PlayInScope, DoomedInScope, GateInScope, Identity, PlansStand
          <5>2. QED BY <3>1, <4>2, <5>1 DEF DoomedInScope, SamePlans
        <4>3. QED BY <3>1, <4>1, <4>2
      <3>3. QED BY <2>1, <2>3, <3>1, <3>2 DEF UninstallScope, PlayInScope
    <2>9. CASE EnterGate \/ Rerun
      <3>1. doomed' = {} /\ UNCHANGED subscribed
            /\ (stage \in {"deletePlans"} \/ stage' = "unsubscribe")
            /\ stage' # "done"
        BY <2>9 DEF EnterGate, Rerun
      <3>2. QED BY <1>3, <2>1, <2>3, <3>1 DEF UninstallScope, PlayInScope
    <2>10. CASE LeaveGate
      <3>1. /\ stage = "gate" /\ UNCHANGED <<subscribed, doomed, objects, pc>>
            /\ stage' \in {"done", "failed"} /\ (stage' = "done" => pc = "done")
        BY <2>10 DEF LeaveGate, vars, roleVars, flowVars, clusterVars
      <3>2. DoomedInScope'
        BY <3>1 DEF UninstallScope, PlayInScope, DoomedInScope
      <3>3. QED BY <2>1, <2>3, <3>1, <3>2 DEF UninstallScope, PlayInScope
    <2>11. QED
      BY <1>4, <2>5, <2>6, <2>7, <2>8, <2>9, <2>10 DEF OwnStep
  <1>5. CASE GateStep
    <2>1. [Next]_vars /\ UNCHANGED stageVars /\ stage = "gate"
      BY <1>5 DEF GateStep, Next
    <2>2. cfg' = cfg
      BY <2>1, ConfigurationFixed
    <2>3. DoomedInScope'
      BY <1>2, <2>1, StepKeepsPlans DEF UninstallTypeOK, stageVars
    <2>4. QED
      BY <1>1, <2>1, <2>2, <2>3 DEF UninstallScope, PlayInScope, stageVars
  <1>6. CASE EnvironmentStep /\ UNCHANGED stageVars
    <2>1. [Next]_vars
      BY <1>6 DEF Next
    <2>2. DoomedInScope'
      BY <1>2, <1>6, <2>1, StepKeepsPlans DEF UninstallTypeOK, stageVars
    <2>3. QED
      BY <1>1, <1>6, <2>2
         DEF EnvironmentStep, roleVars, flowVars, factVars, stageVars,
             UninstallScope, PlayInScope
  <1>7. CASE OlmResolves
    <2>1. doomed' = {} /\ UNCHANGED <<roleVars, stageVars>>
      BY <1>7 DEF OlmResolves, stageVars, UninstallScope, PlayInScope
    <2>2. QED
      BY <1>1, <1>3, <2>1
         DEF roleVars, flowVars, factVars, stageVars, UninstallScope, PlayInScope
  <1>8. CASE UNCHANGED uninstallVars
    <2>1. Descends(objects, objects')
      BY <1>8 DEF uninstallVars, vars, clusterVars, Descends, SameKey
    <2>2. DoomedInScope'
      BY <1>2, <1>8, <2>1 DEF uninstallVars, stageVars
    <2>3. QED
      BY <1>1, <1>8, <2>2
         DEF uninstallVars, vars, roleVars, flowVars, factVars, stageVars,
             UninstallScope, PlayInScope
  <1>9. QED BY <1>4, <1>5, <1>6, <1>7, <1>8, UninstallStepKinds

\* What one object the uninstall deletes must be.
Spared(o) ==
  /\ o.ns = request.ns
  /\ o.kind = "CSV" => csv_name_matches(o.name, request.match)
  /\ o.kind = "InstallPlan" => \A x \in o.plan : csv_name_matches(x, request.match)
  /\ o.kind \notin OlmKind => request.sweep /\ request.ns # SharedOperators

\* Before the gate the play deletes what it listed, or its namesake.
LEMMA OwnStepSpares ==
  ASSUME UninstallTypeOK, UninstallScope, OwnStep, NEW o \in removed' \ removed
  PROVE  Spared(o) /\ o.kind \in OlmKind
  <1>1. PICK d \in doomed, k \in OlmKind :
          /\ stage = IF k = "CSV" THEN "deleteCsvs" ELSE "deletePlans"
          /\ removed' = removed \cup At(k, request.ns, d.name)
    BY OwnStepLocal
  <1>2. /\ o \in objects /\ o.kind = k /\ o.ns = request.ns /\ o.name = d.name
        /\ k \in {"CSV", "InstallPlan"}
    BY <1>1 DEF At, Listed, OlmKind
  <1>3. CASE k = "CSV"
    <2>1. csv_name_matches(d.name, request.match)
      BY <1>1, <1>3 DEF UninstallScope, PlayInScope, DoomedInScope, Confirmed
    <2>2. QED BY <1>2, <1>3, <2>1 DEF Spared, OlmKind
  <1>4. CASE k = "InstallPlan"
    <2>1. /\ d.kind = "InstallPlan" /\ d.ns = request.ns
          /\ \A x \in d.plan : csv_name_matches(x, request.match)
          /\ SamePlans(objects, doomed)
      BY <1>1, <1>4 DEF UninstallScope, PlayInScope, DoomedInScope
    <2>2. o.plan = d.plan
      BY <1>2, <1>4, <2>1 DEF SamePlans, SameKey
    <2>3. QED BY <1>2, <1>4, <2>1, <2>2 DEF Spared, OlmKind
  <1>5. QED BY <1>2, <1>3, <1>4

\* The gate deletes within the same selection.
LEMMA GateSpares ==
  ASSUME UninstallTypeOK, UninstallScope, [Next]_vars, NEW o \in removed' \ removed
  PROVE  Spared(o)
  <1>1. /\ cfg.match = request.match /\ cfg.match # <<>>
        /\ cfg.targets = {request.ns}
        /\ cfg.sweepWork = request.sweep /\ cfg.mode = "cleanup"
    BY DEF UninstallScope, PlayInScope, OwnSelection, UninstallTypeOK
  <1>2. /\ o \in objects /\ pc = "delete" /\ o.ns = cur
        /\ \E s \in sel[o.kind] : s.name = o.name /\ s.ns = o.ns
    BY RemovedWasSelected DEF UninstallScope, GateInScope, Identity, UninstallTypeOK
  <1>3. o.kind \in Kind
    BY <1>2 DEF UninstallTypeOK, CleanupTypeOK, ClusterTypeOK, Object
  <1>4. ScopeOf(o.kind, o.name)
    BY <1>2, <1>3 DEF UninstallScope, GateInScope, SelectionInScope
  <1>5. cur = request.ns /\ Allowed(cur)
    BY <1>1, <1>2 DEF UninstallScope, GateInScope, TargetInScope, Working
  <1>6. o.kind = "CSV" => csv_name_matches(o.name, request.match)
    BY <1>1, <1>4 DEF ScopeOf
  <1>7. o.kind = "InstallPlan" => \A x \in o.plan : csv_name_matches(x, request.match)
    <2>1. PlansRemovedPure'
      BY PlansRemovedStep DEF UninstallScope, GateInScope, UninstallTypeOK
    <2>2. QED BY <1>1, <2>1, ConfigurationFixed DEF PlansRemovedPure
  <1>8. o.kind \notin OlmKind => cfg.sweepWork
    BY <1>3, <1>4 DEF ScopeOf, Kind, OlmKind
  <1>9. cfg.sweepWork => request.ns # SharedOperators
    BY <1>1, <1>5 DEF Allowed, cleanup_refused
  <1>10. QED BY <1>1, <1>2, <1>5, <1>6, <1>7, <1>8, <1>9 DEF Spared

\* The gate's own invariant holds through the tasks around it.
LEMMA GateStepScope ==
  ASSUME UninstallTypeOK, UninstallScope, [UninstallNext]_uninstallVars
  PROVE  GateInScope'
  <1> USE DEF UninstallScope, GateInScope
  <1>1. ASSUME [Next]_vars PROVE GateInScope'
    BY <1>1, TargetStep, SelectionStep, PlansStandStep, SelectionPureStep,
       LoopSelectedStep, PlansRemovedStep DEF Identity, UninstallTypeOK
  <1>2. ASSUME pc' \in {"gate", pc},
               UNCHANGED <<cfg, pending, cur, kind, listed, sel, todo>>
        PROVE  TargetInScope' /\ SelectionInScope' /\ SelectionPure' /\ ListsPure'
               /\ LoopSelected'
    <2>1. TargetInScope'
      BY <1>2, SameConfiguration DEF TargetInScope, Working, Destructive
    <2>2. SelectionInScope'
      BY <1>2, SameConfiguration DEF SelectionInScope
    <2>3. SelectionPure' /\ ListsPure' /\ LoopSelected'
      BY <1>2 DEF Identity, SelectionPure, ListsPure, LoopSelected
    <2>4. QED BY <2>1, <2>2, <2>3
  <1>3. CASE OwnStep
    <2>1. /\ pc' \in {"gate", pc}
          /\ UNCHANGED <<cfg, pending, cur, kind, listed, sel, todo>>
      BY <1>3, OwnStepLocal
    <2>2. PlansStand'
      BY <1>3, <2>1, OwnStepKeepsPlans, DescentKeepsPlans DEF Identity, PlansStand
    <2>3. PlansRemovedPure'
      <3>1. cfg.match = request.match
        BY DEF PlayInScope, OwnSelection
      <3>2. \A o \in removed' \ removed : Spared(o)
        BY <1>3, OwnStepSpares
      <3>3. QED BY <2>1, <3>1, <3>2 DEF Identity, PlansRemovedPure, Spared
    <2>4. QED BY <1>2, <2>1, <2>2, <2>3 DEF Identity
  <1>4. CASE OlmResolves
    <2>1. UNCHANGED roleVars /\ listed = Nothing /\ sel = Nothing
      BY <1>4 DEF OlmResolves, PlayInScope
    <2>2. UNCHANGED <<pc, cfg, pending, cur, kind, listed, sel, todo, removed>>
      BY <2>1 DEF roleVars, flowVars, factVars, historyVars
    <2>3. SamePlans(objects', objects')
      BY <1>4, NewPlanHasNoNamesake DEF Identity, PlansStand
    <2>4. listed'["InstallPlan"] = {} /\ sel'["InstallPlan"] = {}
      BY <2>1, <2>2 DEF Nothing, Kind
    <2>5. PlansStand'
      BY <2>3, <2>4 DEF PlansStand, SamePlans
    <2>6. PlansRemovedPure'
      BY <2>2 DEF Identity, PlansRemovedPure
    <2>7. QED BY <1>2, <2>2, <2>5, <2>6 DEF Identity
  <1>5. QED
    BY <1>1, <1>3, <1>4, UninstallStepKinds DEF GateStep, Next, uninstallVars

LEMMA SparesStep ==
  ASSUME UninstallTypeOK, UninstallScope, [UninstallNext]_uninstallVars
  PROVE  UninstallSparesOthers'
  <1>1. UninstallSparesOthers <=> \A o \in removed : Spared(o)
    BY DEF UninstallSparesOthers, Spared
  <1>2. request' = request =>
          (UninstallSparesOthers' <=> \A o \in removed' : Spared(o))
    BY DEF UninstallSparesOthers, Spared
  <1>3. CASE OwnStep
    BY <1>1, <1>2, <1>3, OwnStepLocal, OwnStepSpares DEF UninstallScope
  <1>4. CASE [Next]_vars /\ UNCHANGED stageVars
    BY <1>1, <1>2, <1>4, GateSpares DEF UninstallScope, stageVars
  <1>5. CASE OlmResolves
    BY <1>1, <1>2, <1>5
       DEF OlmResolves, roleVars, historyVars, stageVars, UninstallScope
  <1>6. QED
    BY <1>3, <1>4, <1>5, UninstallStepKinds DEF GateStep, Next, uninstallVars

\* The inductive invariant of the uninstall.
LEMMA UninstallScopeInvariant == UninstallSpec => [](UninstallTypeOK /\ UninstallScope)
  <1>1. UninstallRoleInit => UninstallScope
    <2> SUFFICES ASSUME UninstallRoleInit PROVE UninstallScope
      OBVIOUS
    <2>1. Identity
      BY InitialIdentity DEF UninstallRoleInit, UninstallInit
    <2>2. TargetInScope /\ SelectionInScope
      BY DEF UninstallRoleInit, UninstallInit, CleanupInit, Nothing, TargetInScope,
         SelectionInScope, Working, Destructive
    <2>3. PlayInScope /\ UninstallSparesOthers
      BY DEF UninstallRoleInit, UninstallInit, CleanupInit, PlayInScope,
         DoomedInScope, SamePlans, UninstallSparesOthers
    <2>4. QED BY <2>1, <2>2, <2>3 DEF UninstallScope, GateInScope
  <1>2. UninstallTypeOK /\ UninstallScope /\ [UninstallNext]_uninstallVars
          => UninstallScope'
    BY PlayStep, GateStepScope, SparesStep DEF UninstallScope
  <1>3. QED BY <1>1, <1>2, UninstallTypeCorrect, PTL DEF UninstallSpec

\* Whatever OLM resolves, installs and replaces meanwhile, an uninstall deletes
\* only CSVs its prefix names and InstallPlans of such CSVs alone, in its own
\* namespace, and workloads only where it may and was asked to.
THEOREM UninstallSpares == UninstallSpec => []UninstallSparesOthers
  <1>1. UninstallScope => UninstallSparesOthers
    BY DEF UninstallScope
  <1>2. QED BY <1>1, UninstallScopeInvariant, PTL

-----------------------------------------------------------------------------
(* What is left when the play succeeds.                                    *)

\* A CSV of the operator that is there to stay, and an InstallPlan that can
\* still create one.
OwnLive(o) == OwnCsv(o) /\ ~o.deleting
LivePlan(p) ==
  /\ p.kind = "InstallPlan" /\ p.ns = request.ns
  /\ \E x \in p.left : csv_name_matches(x, request.match)

\* What an object of a cluster without finalized namespaces must be: in a
\* namespace, and, if it is an InstallPlan, on one side or done with this one.
Settled(o) ==
  /\ Exists(o.ns)
  /\ o.kind = "InstallPlan" =>
       ~o.fin /\ o.left \subseteq o.plan /\ OneSided(o.plan, o.left, request.match)

ClusterSettled ==
  /\ request \in Uninstall
  /\ \A n \in Namespace : spaces[n].fin
  /\ \A o \in objects : Settled(o)

\* Every call so far was answered, and the guard admits the namespace.
Unhindered == faults = 0 /\ Allowed(request.ns)

\* The InstallPlans that could bring the operator back are doomed, then gone.
PlansGone ==
  Unhindered =>
    /\ stage = "deletePlans" =>
         \A p \in objects : LivePlan(p) => \E d \in doomed : d.name = p.name
    /\ stage \in {"gate", "done"} => \A p \in objects : ~LivePlan(p)

\* The points of the gate after which no CSV of the operator is left.
PastCsvs ==
  \/ pc \in {"strip", "settle", "finalize", "wait", "verify", "done"}
  \/ pc = "delete" /\ kind # "CSV"
  \/ pc = "next" /\ request.ns \notin pending

\* In the gate those CSVs are listed, then in the loop, then gone.
CsvsGone ==
  Unhindered /\ stage \in {"gate", "done"} =>
    /\ (pc = "list" /\ kind # "CSV") \/ pc = "select" =>
         \A o \in objects : OwnLive(o) =>
           \E l \in listed["CSV"] : l.name = o.name /\ l.ns = o.ns /\ ~l.copy
    /\ pc = "delete" /\ kind = "CSV" =>
         \A o \in objects : OwnLive(o) => \E t \in todo : t.name = o.name
    /\ PastCsvs => \A o \in objects : ~OwnLive(o)

Clearing == ClusterSettled /\ PlansGone /\ CsvsGone

\* y is x, or what became of it.
Derived(x, y) ==
  /\ SameKey(x, y) /\ y.copy = x.copy /\ y.plan = x.plan
  /\ y.left \subseteq x.left
  /\ y.fin => x.fin
  /\ x.deleting => y.deleting

\* y is a new object: an InstallPlan only while the Subscription exists, an own
\* CSV only for an InstallPlan that has still to create it.
Created(y) ==
  /\ spaces[y.ns].phase = "Active" /\ UNCHANGED spaces
  /\ y.kind = "InstallPlan" =>
       subscribed /\ ~y.fin /\ y.left = y.plan /\ y.plan \in PlanSets
  /\ y.kind = "CSV" /\ ~y.copy =>
       \E p \in objects : /\ p.kind = "InstallPlan" /\ p.ns = y.ns
                          /\ y.name \in p.left

Accounted(y) == (\E x \in objects : Derived(x, y)) \/ Created(y)

\* An object is derived from itself.
LEMMA Itself == \A x : Derived(x, x)
  BY DEF Derived, SameKey

\* A delete leaves what it did not name, and marks what a finalizer holds.
LEMMA DeleteLeaves ==
  ASSUME objects \subseteq Object, NEW gone, gone \subseteq objects,
         NEW y \in Deleted(gone)
  PROVE  /\ Accounted(y)
         /\ \/ y \in objects \ gone
            \/ y.deleting /\ \E x \in gone : x.fin /\ SameKey(x, y)
  <1>1. CASE y \in objects \ gone
    BY <1>1, Itself DEF Accounted
  <1>2. CASE y \in {[o EXCEPT !.deleting = TRUE] : o \in {x \in gone : x.fin}}
    <2>1. PICK x \in gone : x.fin /\ y = [x EXCEPT !.deleting = TRUE]
      BY <1>2
    <2>2. x \in Object
      OBVIOUS
    <2>3. y.deleting /\ SameKey(x, y) /\ Derived(x, y)
      BY <2>1, <2>2 DEF Derived, SameKey, Object
    <2>4. QED BY <2>1, <2>3 DEF Accounted
  <1>3. QED BY <1>1, <1>2 DEF Deleted

\* Controllers change objects as Derived says and create them as Created does.
LEMMA ClusterAccounts ==
  ASSUME objects \subseteq Object, NEW n \in Namespace, ClusterStep(n)
  PROVE  \A y \in objects' : Accounted(y)
  <1>1. CASE ControllerEmpties(n)
    <2>1. PICK o \in objects : objects' = Deleted({o})
      BY <1>1 DEF ControllerEmpties
    <2>2. QED BY <2>1, DeleteLeaves
  <1>2. CASE OlmInstalls(n)
    <2>1. PICK ip \in Listed("InstallPlan", n) : \E name \in ip.left :
            objects' = (objects \ {ip})
                         \cup {[ip EXCEPT !.left = @ \ {name}]}
                         \cup IF At("CSV", n, name) = {}
                              THEN {Blank("CSV", n, name)} ELSE {}
      BY <1>2 DEF OlmInstalls
    <2>2. PICK name \in ip.left :
            objects' = (objects \ {ip})
                         \cup {[ip EXCEPT !.left = @ \ {name}]}
                         \cup IF At("CSV", n, name) = {}
                              THEN {Blank("CSV", n, name)} ELSE {}
      BY <2>1
    <2> DEFINE on == [ip EXCEPT !.left = @ \ {name}]
               csv == Blank("CSV", n, name)
    <2>3. /\ ip \in objects /\ ip.kind = "InstallPlan" /\ ip.ns = n
          /\ Derived(ip, on)
      BY DEF Listed, Object, Derived, SameKey
    <2>4. csv.kind = "CSV" /\ csv.ns = n /\ csv.name = name
      BY DEF Blank
    <2>5. \A y \in objects' : y \in objects \/ y = on \/ y = csv
      BY <2>2
    <2>6. spaces[n].phase = "Active" /\ UNCHANGED spaces
      BY <1>2 DEF OlmInstalls
    <2> HIDE DEF on, csv
    <2>7. Created(csv)
      BY <2>2, <2>3, <2>4, <2>6 DEF Created
    <2>8. QED BY <2>3, <2>5, <2>7, Itself DEF Accounted
  <1>3. CASE OlmCopies(n)
    <2>1. PICK name \in GlobalCsv :
            objects' = objects \cup {[Blank("CSV", n, name) EXCEPT !.copy = TRUE]}
      BY <1>3 DEF OlmCopies
    <2> DEFINE csv == [Blank("CSV", n, name) EXCEPT !.copy = TRUE]
    <2>2. csv.kind = "CSV" /\ csv.ns = n /\ csv.copy
      BY DEF Blank
    <2>3. spaces[n].phase = "Active" /\ UNCHANGED spaces
      BY <1>3 DEF OlmCopies
    <2>4. \A y \in objects' : y \in objects \/ y = csv
      BY <2>1
    <2> HIDE DEF csv
    <2>5. Created(csv)
      BY <2>2, <2>3 DEF Created
    <2>6. QED BY <2>4, <2>5, Itself DEF Accounted
  <1>4. CASE OlmDeploys(n) \/ ReplicaStarts(n)
    <2>1. PICK k \in {"Deployment", "Pod"}, o \in objects :
            objects' = objects \cup {Blank(k, n, o.name)}
      BY <1>4 DEF OlmDeploys, ReplicaStarts, Listed
    <2> DEFINE new == Blank(k, n, o.name)
    <2>2. new.kind = k /\ new.ns = n
      BY DEF Blank
    <2>3. spaces[n].phase = "Active" /\ UNCHANGED spaces
      BY <1>4 DEF OlmDeploys, ReplicaStarts
    <2>4. \A y \in objects' : y \in objects \/ y = new
      BY <2>1
    <2> HIDE DEF new
    <2>5. Created(new)
      BY <2>2, <2>3 DEF Created
    <2>6. QED BY <2>4, <2>5, Itself DEF Accounted
  <1>5. CASE objects' \subseteq objects
    BY <1>5, Itself DEF Accounted
  <1>6. QED
    BY <1>1, <1>2, <1>3, <1>4, <1>5
       DEF ClusterStep, UserDeletesSpace, UserCreatesSpace, ControllerEnds,
           OlmReleases, PodCollected

\* So does every step, as long as the API refuses a CSV that has only metadata.
LEMMA StepAccounts ==
  ASSUME UninstallTypeOK, ~PartialCsvAdmitted, [UninstallNext]_uninstallVars
  PROVE  \A y \in objects' : Accounted(y)
  <1>1. objects \subseteq Object
    BY DEF UninstallTypeOK, CleanupTypeOK, ClusterTypeOK
  <1>2. \A k, n, name : At(k, n, name) \subseteq objects
    BY DEF At, Listed
  <1>3. CASE UNCHANGED objects
    BY <1>3, Itself DEF Accounted
  <1>4. CASE OwnStep
    <2>1. \/ UNCHANGED objects
          \/ \E k, name : objects' = Deleted(At(k, request.ns, name))
      BY <1>4, OwnStepLocal
    <2>2. QED BY <1>1, <1>2, <1>3, <2>1, DeleteLeaves
  <1>5. CASE \E o \in todo : Delete(o)
    <2>1. \/ UNCHANGED objects
          \/ \E name : objects' = Deleted(At(kind, cur, name))
      BY <1>5 DEF Delete
    <2>2. QED BY <1>1, <1>2, <1>3, <2>1, DeleteLeaves
  <1>6. CASE EnvironmentStep
    BY <1>1, <1>6, ClusterAccounts DEF EnvironmentStep
  <1>7. CASE GateStep /\ ~(\E o \in todo : Delete(o))
    <2>1. UNCHANGED objects
      BY <1>7 DEF GateStep, CleanupStep, Gate, Lookup, NamespacesDone, List, Select,
         Strip, LoopDone, Relookup, PutFinalize, WaitGone, Verify, clusterVars
    <2>2. QED BY <1>3, <2>1
  <1>8. CASE OlmResolves
    <2>1. PICK names \in PlanSets, n \in PlanNames :
            objects' = objects \cup {[Blank("InstallPlan", request.ns, n) EXCEPT
                                        !.plan = names, !.left = names]}
      BY <1>8 DEF OlmResolves
    <2> DEFINE new == [Blank("InstallPlan", request.ns, n) EXCEPT
                         !.plan = names, !.left = names]
    <2>2. /\ new.kind = "InstallPlan" /\ new.ns = request.ns /\ ~new.fin
          /\ new.left = names /\ new.plan = names
      BY DEF Blank
    <2>3. subscribed /\ spaces[request.ns].phase = "Active" /\ UNCHANGED spaces
      BY <1>8 DEF OlmResolves
    <2>4. \A y \in objects' : y \in objects \/ y = new
      BY <2>1
    <2> HIDE DEF new
    <2>5. Created(new)
      BY <2>2, <2>3 DEF Created
    <2>6. QED BY <2>4, <2>5, Itself DEF Accounted
  <1>9. QED
    BY <1>3, <1>4, <1>5, <1>6, <1>7, <1>8, UninstallStepKinds
       DEF uninstallVars, vars, clusterVars

\* The play's request and its configuration stand, and a call that failed is
\* never forgotten.
LEMMA PlayFixed ==
  ASSUME UninstallTypeOK, [UninstallNext]_uninstallVars
  PROVE  request' = request /\ cfg' = cfg /\ (faults' = 0 => faults = 0)
  <1>1. faults \in Nat
    BY DEF UninstallTypeOK, CleanupTypeOK
  <1> USE DEF Succeeds, Fails
  <1>2. CASE OwnStep
    <2>1. request' = request /\ cfg' = cfg
      BY <1>2, OwnStepLocal
    <2>2. faults' = faults \/ faults' = faults + 1
      BY <1>2 DEF OwnStep, Unsubscribe, ListCsvs, ListPlans, DeleteCsv, DeletePlan,
         EnterGate, LeaveGate, Rerun, vars, roleVars
    <2>3. QED BY <1>1, <2>1, <2>2
  <1>3. CASE [Next]_vars /\ UNCHANGED stageVars
    <2>1. faults' = faults \/ faults' = faults + 1
      BY <1>3 DEF Next, CleanupStep, EnvironmentStep, Stopped, vars, roleVars, Gate,
         Lookup, NamespacesDone, List, Select, Delete, Strip, LoopDone, Relookup,
         PutFinalize, WaitGone, Verify
    <2>2. QED BY <1>1, <1>3, <2>1, ConfigurationFixed DEF stageVars
  <1>4. CASE OlmResolves
    BY <1>4 DEF OlmResolves, roleVars, stageVars
  <1>5. QED
    BY <1>2, <1>3, <1>4, UninstallStepKinds DEF GateStep, Next, uninstallVars

\* Without finalize, a namespace goes only when its controller found it empty.
LEMMA SpacesStand ==
  ASSUME UninstallTypeOK, UninstallScope, ClusterSettled,
         [UninstallNext]_uninstallVars
  PROVE  /\ \A n \in Namespace : spaces'[n].fin
         /\ \A n \in Namespace : Exists(n) =>
              Exists(n)' \/ (UNCHANGED objects /\ \A o \in objects : o.ns # n)
  <1>1. spaces \in [Namespace -> [phase : Phase, fin : BOOLEAN, rev : Nat]]
    BY DEF UninstallTypeOK, CleanupTypeOK, ClusterTypeOK
  <1>2. \A n \in Namespace : spaces[n].fin
    BY DEF ClusterSettled
  <1>3. CASE UNCHANGED spaces
    BY <1>2, <1>3 DEF Exists
  <1>4. ASSUME NEW n \in Namespace, UserDeletesSpace(n) \/ UserCreatesSpace(n)
        PROVE  /\ \A m \in Namespace : spaces'[m].fin
               /\ \A m \in Namespace : Exists(m) => Exists(m)'
    BY <1>1, <1>2, <1>4
       DEF UserDeletesSpace, SpaceDeleted, UserCreatesSpace, SpaceCreated, Exists
  <1>5. ASSUME NEW n \in Namespace, ControllerEnds(n)
        PROVE  /\ \A m \in Namespace : spaces'[m].fin
               /\ \A m \in Namespace : Exists(m) =>
                    Exists(m)' \/ (UNCHANGED objects /\ \A o \in objects : o.ns # m)
    BY <1>1, <1>2, <1>5 DEF ControllerEnds, Exists
  <1>6. CASE EnvironmentStep
    BY <1>3, <1>4, <1>5, <1>6
       DEF EnvironmentStep, ClusterStep, ControllerEmpties, OlmInstalls, OlmCopies,
           OlmReleases, OlmDeploys, ReplicaStarts, PodCollected
  <1>7. CASE OwnStep
    BY <1>3, <1>7, OwnStepLocal
  <1>8. CASE GateStep
    <2>1. ~cfg.finalize
      BY DEF UninstallScope, PlayInScope, OwnSelection
    <2>2. UNCHANGED spaces
      BY <1>8, <2>1 DEF GateStep, CleanupStep, Gate, Lookup, NamespacesDone, List,
         Select, Delete, Strip, LoopDone, Relookup, PutFinalize, WaitGone, Verify,
         clusterVars
    <2>3. QED BY <1>3, <2>2
  <1>9. QED
    BY <1>3, <1>6, <1>7, <1>8, UninstallStepKinds
       DEF OlmResolves, uninstallVars, vars, clusterVars

\* Whatever the cluster makes of its objects, they stay settled.
LEMMA SettledStep ==
  ASSUME OwnPlansOnly, UninstallTypeOK, UninstallScope, ClusterSettled,
         [UninstallNext]_uninstallVars
  PROVE  ClusterSettled'
  <1>1. request' = request /\ request \in Uninstall
    BY PlayFixed DEF ClusterSettled
  <1>2. \A n \in Namespace : spaces'[n].fin
    BY SpacesStand
  <1>3. objects' \subseteq Object
    BY UninstallStepKeepsTypes DEF UninstallTypeOK, CleanupTypeOK, ClusterTypeOK
  <1>4. ASSUME NEW y \in objects' PROVE Settled(y)'
    <2>1. Accounted(y)
      BY StepAccounts DEF OwnPlansOnly
    <2>2. y.ns \in Namespace
      BY <1>3 DEF Object
    <2>3. CASE Created(y)
      <3>1. Exists(y.ns)'
        BY <2>3 DEF Created, Exists
      <3>2. y.kind = "InstallPlan" =>
              ~y.fin /\ y.left = y.plan /\ OneSided(y.plan, y.left, request.match)
        BY <1>1, <2>3 DEF Created, OwnPlansOnly
      <3>3. QED BY <1>1, <3>1, <3>2 DEF Settled, OneSided
    <2>4. ASSUME NEW x \in objects, Derived(x, y) PROVE Settled(y)'
      <3>1. Settled(x) /\ x.ns = y.ns /\ x.kind = y.kind
        BY <2>4 DEF ClusterSettled, Derived, SameKey
      <3>2. Exists(y.ns)'
        <4>1. Exists(y.ns)
          BY <3>1 DEF Settled
        <4>2. Exists(y.ns)' \/ (UNCHANGED objects /\ \A o \in objects : o.ns # y.ns)
          BY <2>2, <4>1, SpacesStand
        <4>3. QED BY <3>1, <4>2
      <3>3. y.kind = "InstallPlan" =>
              ~y.fin /\ y.left \subseteq y.plan /\ OneSided(y.plan, y.left, request.match)
        BY <2>4, <3>1 DEF Derived, Settled, OneSided
      <3>4. QED BY <1>1, <3>2, <3>3 DEF Settled, OneSided
    <2>5. QED BY <2>1, <2>3, <2>4 DEF Accounted
  <1>5. QED BY <1>1, <1>2, <1>4 DEF ClusterSettled

\* Nothing brings the operator back but the Subscription and the InstallPlans:
\* plans that could create its CSVs are there already, and so, when there is no
\* such plan, are its CSVs.
LEMMA NothingReturns ==
  ASSUME ~PartialCsvAdmitted, UninstallTypeOK, UninstallScope, ~subscribed,
         [UninstallNext]_uninstallVars
  PROVE  /\ \A y \in objects' : LivePlan(y) =>
              \E x \in objects : LivePlan(x) /\ x.name = y.name
         /\ (\A p \in objects : ~LivePlan(p)) =>
              \A y \in objects' : OwnLive(y) =>
                \E x \in objects : OwnLive(x) /\ x.name = y.name
  <1>1. \A y \in objects' : Accounted(y)
    BY StepAccounts
  <1>2. ASSUME NEW y \in objects', LivePlan(y)
        PROVE  \E x \in objects : LivePlan(x) /\ x.name = y.name
    <2>1. ~Created(y)
      BY <1>2 DEF Created, LivePlan
    <2>2. PICK x \in objects : Derived(x, y)
      BY <1>1, <2>1 DEF Accounted
    <2>3. LivePlan(x) /\ x.name = y.name
      BY <1>2, <2>2 DEF LivePlan, Derived, SameKey
    <2>4. QED BY <2>3
  <1>3. ASSUME \A p \in objects : ~LivePlan(p), NEW y \in objects', OwnLive(y)
        PROVE  \E x \in objects : OwnLive(x) /\ x.name = y.name
    <2>1. /\ y.kind = "CSV" /\ y.ns = request.ns /\ ~y.copy /\ ~y.deleting
          /\ csv_name_matches(y.name, request.match)
      BY <1>3 DEF OwnLive, OwnCsv
    <2>2. ~Created(y)
      BY <1>3, <2>1 DEF Created, LivePlan
    <2>3. PICK x \in objects : Derived(x, y)
      BY <1>1, <2>2 DEF Accounted
    <2>4. OwnLive(x) /\ x.name = y.name
      BY <2>1, <2>3 DEF OwnLive, OwnCsv, Derived, SameKey
    <2>5. QED BY <2>4
  <1>4. QED BY <1>2, <1>3

\* The meaning of both notions hangs on the request alone.
LEMMA SameRequest ==
  ASSUME request' = request
  PROVE  /\ \A o : OwnLive(o)' <=> OwnLive(o)
         /\ \A o : LivePlan(o)' <=> LivePlan(o)
  BY DEF OwnLive, OwnCsv, LivePlan

\* With every call answered, all plans that could bring the operator back are
\* selected, since each names its CSVs alone, and deleted one after the other.
LEMMA PlansGoneStep ==
  ASSUME OwnPlansOnly, UninstallTypeOK, UninstallScope, ClusterSettled, PlansGone,
         [UninstallNext]_uninstallVars
  PROVE  PlansGone'
  <1>1. request' = request /\ cfg' = cfg /\ (faults' = 0 => faults = 0)
    BY PlayFixed
  <1>2. Allowed(request.ns)' <=> Allowed(request.ns)
    BY <1>1 DEF Allowed, cleanup_refused
  <1>3. SUFFICES ASSUME faults' = 0, faults = 0, Allowed(request.ns)
                 PROVE  /\ stage' = "deletePlans" =>
                             \A p \in objects' : LivePlan(p) =>
                               \E d \in doomed' : d.name = p.name
                        /\ stage' \in {"gate", "done"} =>
                             \A p \in objects' : ~LivePlan(p)
    BY <1>1, <1>2, SameRequest DEF PlansGone, Unhindered
  <1>4. /\ stage = "deletePlans" =>
             \A p \in objects : LivePlan(p) => \E d \in doomed : d.name = p.name
        /\ stage \in {"gate", "done"} => \A p \in objects : ~LivePlan(p)
    BY <1>3 DEF PlansGone, Unhindered
  <1>5. stage \in {"deletePlans", "gate", "done"} =>
          \A y \in objects' : LivePlan(y) =>
            \E x \in objects : LivePlan(x) /\ x.name = y.name
    <2>1. stage \in {"deletePlans", "gate", "done"} => ~subscribed
      BY DEF UninstallScope, PlayInScope
    <2>2. QED BY <2>1, NothingReturns DEF OwnPlansOnly
  <1>6. CASE stage' = stage /\ doomed' = doomed
    BY <1>4, <1>5, <1>6
  <1>7. CASE ListPlans
    <2>1. stage' = "deletePlans" /\ UNCHANGED objects
          /\ doomed' = select_installplans(Listed("InstallPlan", request.ns),
                                           request.ns, cfg)
      BY <1>3, <1>7 DEF ListPlans, Fails, clusterVars
    <2>2. OlmDeleteAuthorized(request.ns, cfg) /\ cfg.match = request.match
      BY <1>3 DEF OlmDeleteAuthorized, Allowed, UninstallScope, PlayInScope,
         OwnSelection, UninstallTypeOK
    <2>3. ASSUME NEW p \in objects, LivePlan(p) PROVE p \in doomed'
      <3>1. Settled(p)
        BY DEF ClusterSettled
      <3>2. p.plan # {} /\ \A x \in p.plan : csv_name_matches(x, request.match)
        BY <2>3, <3>1 DEF Settled, LivePlan, OneSided
      <3>3. p \in InNamespace(Listed("InstallPlan", request.ns), request.ns)
        BY <2>3 DEF LivePlan, InNamespace, Listed
      <3>4. QED BY <2>1, <2>2, <3>2, <3>3 DEF select_installplans
    <2>4. QED BY <2>1, <2>3
  <1>8. ASSUME NEW o \in doomed, DeletePlan(o)
        PROVE  \A p \in objects' : LivePlan(p) => \E d \in doomed' : d.name = p.name
    <2> DEFINE gone == At("InstallPlan", request.ns, o.name)
    <2>1. /\ stage = "deletePlans" /\ doomed' = doomed \ {o}
          /\ objects' = Deleted(gone)
      BY <1>3, <1>8 DEF DeletePlan, Fails
    <2>2. gone \subseteq objects /\ \A x \in gone : ~x.fin
      BY DEF At, Listed, ClusterSettled, Settled
    <2>3. objects \subseteq Object
      BY DEF UninstallTypeOK, CleanupTypeOK, ClusterTypeOK
    <2>4. ASSUME NEW p \in objects', LivePlan(p)
          PROVE  \E d \in doomed' : d.name = p.name
      <3>1. p \in objects /\ p \notin gone
        BY <2>1, <2>2, <2>3, DeleteLeaves
      <3>2. p.name # o.name
        BY <2>4, <3>1 DEF At, Listed, LivePlan
      <3>3. PICK d \in doomed : d.name = p.name
        BY <1>4, <2>1, <2>4, <3>1
      <3>4. QED BY <2>1, <3>2, <3>3
    <2>5. QED BY <2>4
  <1>9. CASE EnterGate
    BY <1>4, <1>9 DEF EnterGate, clusterVars
  <1>10. CASE LeaveGate
    BY <1>4, <1>10 DEF LeaveGate, vars, clusterVars
  <1>11. CASE OwnStep
    <2>1. Unsubscribe => stage' \in {"listCsvs", "failed"}
      BY DEF Unsubscribe
    <2>2. ListCsvs => stage' \in {"deleteCsvs", "failed"}
      BY DEF ListCsvs
    <2>3. \A o \in doomed : DeleteCsv(o) => stage' \in {"deleteCsvs", "failed"}
      BY DEF DeleteCsv
    <2>4. \A o \in doomed : DeletePlan(o) => stage' = "deletePlans"
      BY DEF DeletePlan
    <2>5. Rerun => stage' = "unsubscribe"
      BY DEF Rerun
    <2>6. QED
      BY <1>7, <1>8, <1>9, <1>10, <1>11, <2>1, <2>2, <2>3, <2>4, <2>5 DEF OwnStep
  <1>12. QED
    BY <1>6, <1>11, UninstallStepKinds
       DEF GateStep, OlmResolves, stageVars, uninstallVars

\* With no such InstallPlan left, the gate lists, selects and deletes every CSV
\* of the operator, and none is created meanwhile.
LEMMA CsvsGoneStep ==
  ASSUME OwnPlansOnly, UninstallTypeOK, UninstallScope, Clearing,
         [UninstallNext]_uninstallVars
  PROVE  CsvsGone'
  <1> DEFINE Seen(l, o) == l.name = o.name /\ l.ns = o.ns /\ ~l.copy
             None == \A o \in objects : ~OwnLive(o)
  <1>1. request' = request /\ cfg' = cfg /\ (faults' = 0 => faults = 0)
    BY PlayFixed
  <1>2. Allowed(request.ns)' <=> Allowed(request.ns)
    BY <1>1 DEF Allowed, cleanup_refused
  <1>3. SUFFICES
          ASSUME faults' = 0, faults = 0, Allowed(request.ns),
                 stage' \in {"gate", "done"}
          PROVE  /\ (pc' = "list" /\ kind' # "CSV") \/ pc' = "select" =>
                      \A o \in objects' : OwnLive(o) =>
                        \E l \in listed'["CSV"] : Seen(l, o)
                 /\ pc' = "delete" /\ kind' = "CSV" =>
                      \A o \in objects' : OwnLive(o) => \E t \in todo' : t.name = o.name
                 /\ PastCsvs' => \A o \in objects' : ~OwnLive(o)
    BY <1>1, <1>2, SameRequest DEF CsvsGone, Unhindered, Seen
  <1>4. stage \in {"gate", "done"} =>
          /\ (pc = "list" /\ kind # "CSV") \/ pc = "select" =>
               \A o \in objects : OwnLive(o) => \E l \in listed["CSV"] : Seen(l, o)
          /\ pc = "delete" /\ kind = "CSV" =>
               \A o \in objects : OwnLive(o) => \E t \in todo : t.name = o.name
          /\ PastCsvs => None
    BY <1>3 DEF Clearing, CsvsGone, Unhindered, Seen
  <1>5. stage \in {"gate", "done"} =>
          \A y \in objects' : OwnLive(y) =>
            \E x \in objects : OwnLive(x) /\ x.name = y.name
    <2>1. stage \in {"gate", "done"} => ~subscribed /\ \A p \in objects : ~LivePlan(p)
      BY <1>3 DEF UninstallScope, PlayInScope, Clearing, PlansGone, Unhindered
    <2>2. QED BY <2>1, NothingReturns DEF OwnPlansOnly
  <1>6. \A o : OwnLive(o) => /\ o.kind = "CSV" /\ o.ns = request.ns /\ ~o.copy
                            /\ ~o.deleting /\ csv_name_matches(o.name, request.match)
    BY DEF OwnLive, OwnCsv
  <1>7. /\ cfg.targets = {request.ns} /\ cfg.mode = "cleanup"
        /\ cfg.sweepOlm /\ cfg.authCsv /\ cfg.match = request.match
        /\ ~cfg.finalize
    BY DEF UninstallScope, PlayInScope, OwnSelection, UninstallTypeOK
  <1>8. pc \in Working => cur = request.ns
    BY <1>7 DEF UninstallScope, GateInScope, TargetInScope
  <1>9. objects \subseteq Object
    BY DEF UninstallTypeOK, CleanupTypeOK, ClusterTypeOK
  <1>10. CASE stage \in {"gate", "done"} /\ PastCsvs
    BY <1>4, <1>5, <1>10
  <1>11. CASE /\ stage \in {"gate", "done"}
              /\ UNCHANGED <<pc, pending, kind, listed, todo>>
    <2>1. PastCsvs' <=> PastCsvs
      BY <1>1, <1>11 DEF PastCsvs
    <2>2. (pc = "list" /\ kind # "CSV") \/ pc = "select" =>
            \A o \in objects' : OwnLive(o) => \E l \in listed["CSV"] : Seen(l, o)
      <3> SUFFICES ASSUME (pc = "list" /\ kind # "CSV") \/ pc = "select",
                          NEW o \in objects', OwnLive(o)
                   PROVE  \E l \in listed["CSV"] : Seen(l, o)
        OBVIOUS
      <3>1. PICK x \in objects : OwnLive(x) /\ x.name = o.name
        BY <1>5, <1>11
      <3>2. PICK l \in listed["CSV"] : Seen(l, x)
        BY <1>4, <1>11, <3>1
      <3>3. QED BY <1>6, <3>1, <3>2
    <2>3. QED BY <1>4, <1>5, <1>11, <2>1, <2>2
  <1>12. CASE OwnStep
    <2>1. CASE EnterGate
      <3>1. pc' = "gate"
        BY <2>1 DEF EnterGate
      <3>2. QED BY <3>1 DEF PastCsvs
    <2>2. CASE LeaveGate
      BY <1>11, <2>2 DEF LeaveGate, vars, roleVars, flowVars, factVars
    <2>3. CASE ~EnterGate /\ ~LeaveGate
      BY <1>3, <1>12, <2>3
         DEF OwnStep, Unsubscribe, ListCsvs, ListPlans, DeleteCsv, DeletePlan, Rerun
    <2>4. QED BY <2>1, <2>2, <2>3
  <1>13. CASE GateStep
    <2>1. stage = "gate"
      BY <1>13 DEF GateStep
    <2>2. CASE Gate
      <3>1. pc' \in {"next", "refused"} /\ (pc' = "next" => pending' = cfg.targets)
        BY <2>2 DEF Gate
      <3>2. QED BY <1>1, <1>7, <3>1 DEF PastCsvs
    <2>3. ASSUME NEW n \in Namespace, Lookup(n)
          PROVE  /\ ~((pc' = "list" /\ kind' # "CSV") \/ pc' = "select")
                 /\ pc' # "delete"
                 /\ PastCsvs' => \A o \in objects' : ~OwnLive(o)
      <3>1. /\ kind' = "CSV" /\ pc' \in {"failed", "next", "refused", "list"}
            /\ UNCHANGED objects /\ n \in pending
            /\ pc' = "next" => ~Exists(n)
        BY <1>3, <2>3 DEF Lookup, Fails, clusterVars
      <3>2. n = request.ns
        BY <1>7, <3>1 DEF UninstallScope, GateInScope, TargetInScope
      <3>3. pc' = "next" => \A o \in objects' : o.ns # request.ns
        BY <3>1, <3>2 DEF Clearing, ClusterSettled, Settled
      <3>4. QED BY <1>6, <3>1, <3>3 DEF PastCsvs
    <2>4. CASE NamespacesDone
      BY <1>10, <2>1, <2>4 DEF NamespacesDone, PastCsvs
    <2>5. CASE List
      <3>1. pc = "list" /\ UNCHANGED objects /\ pc' \in {"list", "select"}
        BY <1>7, <2>5 DEF List, clusterVars
      <3>2. CASE kind = "CSV"
        <4>1. listed' = [listed EXCEPT !["CSV"] = Listed("CSV", cur)]
          BY <1>3, <1>7, <2>5, <3>2 DEF List, Fails, Sweeping, OlmKind
        <4>2. listed'["CSV"] = Listed("CSV", request.ns)
          BY <1>8, <3>1, <4>1 DEF Working, UninstallTypeOK, CleanupTypeOK, Kind
        <4>3. QED BY <1>6, <3>1, <4>2 DEF Listed, PastCsvs
      <3>3. CASE kind # "CSV"
        <4>1. listed'["CSV"] = listed["CSV"]
          BY <2>5, <3>3 DEF List, UninstallTypeOK, CleanupTypeOK, Kind
        <4>2. QED BY <1>4, <2>1, <3>1, <3>3, <4>1 DEF PastCsvs
      <3>4. QED BY <3>2, <3>3
    <2>6. CASE Select
      <3>1. /\ pc = "select" /\ kind = "CSV" /\ UNCHANGED <<objects, kind>>
            /\ \/ pc' = "delete" /\ todo' = LoopItems("CSV", Selection("CSV"))
               \/ pc' = "failed"
        BY <2>6 DEF Select, clusterVars, UninstallScope, GateInScope, SelectionInScope
      <3>2. ASSUME NEW o \in objects, OwnLive(o)
            PROVE  \E t \in LoopItems("CSV", Selection("CSV")) : t.name = o.name
        <4>1. PICK l \in listed["CSV"] : Seen(l, o)
          BY <1>4, <2>1, <3>1, <3>2
        <4>2. cur = request.ns /\ l.ns = cur
          BY <1>6, <1>8, <3>1, <3>2, <4>1 DEF Working
        <4>3. OlmDeleteAuthorized(cur, cfg)
          BY <1>3, <1>7, <4>2 DEF OlmDeleteAuthorized, Allowed, UninstallTypeOK
        <4>4. l \in select_csvs(listed["CSV"], cur, cfg)
          BY <1>6, <1>7, <3>2, <4>1, <4>2, <4>3 DEF select_csvs, InNamespace
        <4>5. l \in LoopItems("CSV", Selection("CSV"))
          BY <1>7, <4>2, <4>4 DEF LoopItems, Selection, Sweeping, OlmKind
        <4>6. QED BY <4>1, <4>5
      <3>3. QED BY <3>1, <3>2 DEF PastCsvs
    <2>7. ASSUME NEW o \in todo, Delete(o), kind = "CSV"
          PROVE  /\ pc' = "delete" /\ kind' = "CSV"
                 /\ \A y \in objects' : OwnLive(y) => \E t \in todo' : t.name = y.name
      <3> DEFINE gone == At("CSV", request.ns, o.name)
      <3>1. /\ pc = "delete" /\ todo' = todo \ {o} /\ UNCHANGED <<pc, kind>>
            /\ objects' = Deleted(gone)
        BY <1>3, <1>8, <2>7 DEF Delete, Fails, Working
      <3>2. gone \subseteq objects
        BY DEF At, Listed
      <3>3. ASSUME NEW y \in objects', OwnLive(y)
            PROVE  \E t \in todo' : t.name = y.name
        <4>1. y \in objects /\ y \notin gone
          BY <1>6, <1>9, <3>1, <3>2, <3>3, DeleteLeaves
        <4>2. y.name # o.name
          BY <1>6, <3>3, <4>1 DEF At, Listed
        <4>3. PICK t \in todo : t.name = y.name
          BY <1>4, <2>1, <2>7, <3>1, <3>3, <4>1
        <4>4. QED BY <3>1, <4>2, <4>3
      <3>4. QED BY <2>7, <3>1, <3>3
    <2>8. ASSUME NEW o \in todo, Delete(o), kind # "CSV" PROVE PastCsvs
      BY <2>8 DEF Delete, PastCsvs
    <2>9. CASE LoopDone /\ pc = "delete" /\ kind = "CSV"
      <3>1. todo = {} /\ UNCHANGED objects /\ pc' = "strip"
        BY <2>9 DEF LoopDone, clusterVars
      <3>2. QED BY <1>4, <2>1, <2>9, <3>1
    <2>10. CASE \/ LoopDone /\ ~(pc = "delete" /\ kind = "CSV")
                \/ \E o \in todo : Strip(o)
                \/ Relookup \/ PutFinalize \/ WaitGone \/ Verify
      <3>1. pc \in {"strip", "settle", "finalize", "wait", "verify"}
            \/ (pc = "delete" /\ kind # "CSV")
        BY <2>10 DEF LoopDone, Strip, Relookup, PutFinalize, WaitGone, Verify
      <3>2. PastCsvs
        BY <3>1 DEF PastCsvs
      <3>3. QED BY <1>10, <2>1, <3>2
    <2>11. QED
      BY <1>10, <1>13, <2>1, <2>2, <2>3, <2>4, <2>5, <2>6, <2>7, <2>8, <2>9, <2>10
         DEF GateStep, CleanupStep, PastCsvs
  <1>14. CASE \/ EnvironmentStep /\ UNCHANGED stageVars
              \/ UNCHANGED uninstallVars
    BY <1>3, <1>11, <1>14
       DEF EnvironmentStep, uninstallVars, vars, stageVars, roleVars, flowVars, factVars
  <1>15. CASE OlmResolves
    BY <1>3, <1>15 DEF OlmResolves, stageVars, UninstallScope, PlayInScope
  <1>16. QED BY <1>12, <1>13, <1>14, <1>15, UninstallStepKinds

\* Where no InstallPlan that has yet to create the operator's CSV serves another
\* one, none is held by a finalizer and the API refuses a bare CSV, an uninstall
\* that succeeds with every call answered has removed the operator for good: OLM,
\* which executed its InstallPlans between any two calls, has nothing left to
\* bring it back from.
THEOREM UninstallIsFinal ==
  ASSUME OwnPlansOnly
  PROVE  UninstallSpec => []UninstallFinal
  <1>1. UninstallRoleInit => Clearing
    <2> SUFFICES ASSUME UninstallRoleInit PROVE Clearing
      OBVIOUS
    <2>1. PICK phases \in InitialPhases :
            spaces = [n \in Namespace |-> [phase |-> phases[n], fin |-> TRUE, rev |-> 0]]
      BY DEF UninstallRoleInit, ClusterInit
    <2>2. objects \in Population /\ objects \subseteq Object /\ request \in Uninstall
      BY ClusterAssumption
         DEF ClusterAssumption, UninstallRoleInit, ClusterInit, UninstallInit
    <2>3. \A o \in objects : o.ns \in Namespace /\ spaces[o.ns].phase = phases[o.ns]
      BY <2>1, <2>2 DEF Object
    <2>4. \A o \in objects : Settled(o)
      BY <2>2, <2>3 DEF OwnPlansOnly, Settled, Exists
    <2>5. ClusterSettled
      BY <2>1, <2>2, <2>4 DEF ClusterSettled
    <2>6. PlansGone /\ CsvsGone
      BY DEF UninstallRoleInit, UninstallInit, PlansGone, CsvsGone
    <2>7. QED BY <2>5, <2>6 DEF Clearing
  <1>2. UninstallTypeOK /\ UninstallScope /\ Clearing /\ [UninstallNext]_uninstallVars
          => Clearing'
    BY SettledStep, PlansGoneStep, CsvsGoneStep DEF Clearing
  <1>3. UninstallScope /\ Clearing => UninstallFinal
    <2> SUFFICES ASSUME UninstallScope, Clearing, stage = "done", faults = 0
                 PROVE  \A o \in objects : ~OwnLive(o)
      BY DEF UninstallFinal, OwnLive
    <2>1. pc = "done" /\ request.ns \in cfg.targets
      BY DEF UninstallScope, PlayInScope, OwnSelection
    <2>2. Unhindered
      BY <2>1 DEF UninstallScope, GateInScope, TargetInScope, Unhindered
    <2>3. PastCsvs
      BY <2>1 DEF PastCsvs
    <2>4. QED BY <2>2, <2>3 DEF Clearing, CsvsGone
  <1>4. QED BY <1>1, <1>2, <1>3, UninstallScopeInvariant, PTL DEF UninstallSpec
=============================================================================
