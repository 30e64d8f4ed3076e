---------------------------- MODULE AbsentCleanup ----------------------------
(***************************************************************************)
(* One run of the role ocp_absent_cleanup over a list of namespaces, in a  *)
(* cluster that changes under it.  Every API call is one step, so another  *)
(* actor may act between any two of them.  Most calls carry                *)
(* "failed_when: false": a failed list or lookup is an empty one, a failed *)
(* write is no write, and the run goes on.                                 *)
(***************************************************************************)
EXTENDS Cluster

CONSTANTS
  Config,   \* the role variables a run may be given
  Retries,  \* ocp_absent_cleanup_terminating_retries
  MaxFaults \* bound on API calls that fail during a run

ASSUME CleanupAssumption ==
  /\ Config \subseteq ConfigType
  /\ Retries \in Nat
  /\ MaxFaults \in Nat

VARIABLES
  cfg,      \* role variables of this run
  pc,       \* the task the role is at
  pending,  \* namespaces still to be processed
  cur,      \* loop variable ocp_absent_cleanup_ns
  kind,     \* the kind being listed or deleted
  listed,   \* registered results of the four list tasks
  sel,      \* the four ..._to_delete facts
  todo,     \* items left in the current loop
  snap,     \* ocp_absent_cleanup_ns_before_finalize
  tries,    \* polls made of a finalized namespace
  faults,   \* API calls that failed so far
  removed,  \* history: objects this run deleted
  finalized \* history: namespaces this run finalized, with their phase

flowVars == <<pc, pending, cur, kind, todo, snap, tries>>
factVars == <<listed, sel>>
historyVars == <<removed, finalized>>
roleVars == <<cfg, flowVars, factVars, faults, historyVars>>
vars == <<clusterVars, roleVars>>

PC == {"gate", "next", "list", "select", "delete", "strip", "settle",
       "finalize", "wait", "verify", "done", "refused", "failed"}
Ended == {"done", "refused", "failed"}

CleanupTypeOK ==
  /\ ClusterTypeOK
  /\ cfg \in ConfigType
  /\ pc \in PC
  /\ pending \subseteq Namespace
  /\ cur \in Namespace
  /\ kind \in Kind
  /\ listed \in [Kind -> SUBSET Object]
  /\ sel \in [Kind -> SUBSET Object]
  /\ todo \subseteq Object
  /\ snap \in [phase : Phase, fin : BOOLEAN, rev : Nat]
  /\ tries \in Nat
  /\ faults \in Nat
  /\ removed \subseteq Object
  /\ finalized \subseteq [ns : Namespace, phase : Phase]

Nothing == [k \in Kind |-> {}]

CleanupInit ==
  /\ cfg \in Config
  /\ pc = "gate"
  /\ pending = {}
  /\ cur = SharedOperators
  /\ kind = "CSV"
  /\ listed = Nothing
  /\ sel = Nothing
  /\ todo = {}
  /\ snap = [phase |-> "Absent", fin |-> FALSE, rev |-> 0]
  /\ tries = 0
  /\ faults = 0
  /\ removed = {}
  /\ finalized = {}

-----------------------------------------------------------------------------
(* The role.                                                               *)

Allowed(n) == namespace_name_valid(n) /\ ~cleanup_refused(n, cfg)
Sweeping(k) == IF k \in OlmKind THEN cfg.sweepOlm ELSE cfg.sweepWork

NextKind(k) == CASE k = "CSV" -> "InstallPlan"
                 [] k = "InstallPlan" -> "Deployment"
                 [] k = "Deployment" -> "Pod"
                 [] k = "Pod" -> "CSV"

\* An API call succeeds, or is one of the bounded number that fail.
Succeeds == faults' = faults
Fails == faults < MaxFaults /\ faults' = faults + 1

\* Mutation of Gate: each namespace is checked only when its turn comes.
GateLate ==
  /\ pc = "gate"
  /\ IF cfg.targets # {} /\ cfg.mode \in {"check", "cleanup"}
     THEN pc' = "next" /\ pending' = cfg.targets
     ELSE pc' = "refused" /\ UNCHANGED pending
  /\ UNCHANGED <<clusterVars, cfg, cur, kind, todo, snap, tries, factVars,
                 faults, historyVars>>

\* tasks/main.yml: every check of every namespace precedes the first one.
Gate ==
  /\ pc = "gate"
  /\ IF /\ cfg.targets # {}
        /\ \A n \in cfg.targets : Allowed(n)
        /\ cfg.mode \in {"check", "cleanup"}
     THEN pc' = "next" /\ pending' = cfg.targets
     ELSE pc' = "refused" /\ UNCHANGED pending
  /\ UNCHANGED <<clusterVars, cfg, cur, kind, todo, snap, tries, factVars,
                 faults, historyVars>>

\* The three "Refuse ..." tasks, which need a namespace that is present.
RefusedForPresent ==
  /\ cfg.mode = "cleanup"
  /\ \/ /\ cfg.sweepOlm
        /\ ~cfg.authCsv \/ (cfg.match = <<>> /\ ~cfg.authAnyCsv)
     \/ /\ cfg.sweepWork
        /\ cfg.deploys = {} /\ ~cfg.authAnyWork

\* Confirm the target, clear the selections, look the namespace up.
Lookup(n) ==
  /\ pc = "next"
  /\ n \in pending
  /\ pending' = pending \ {n}
  /\ cur' = n
  /\ listed' = Nothing
  /\ sel' = Nothing
  /\ todo' = {}
  /\ kind' = "CSV"
  /\ IF ~Allowed(n) THEN pc' = "failed" /\ UNCHANGED faults
     ELSE \/ /\ Succeeds
             /\ pc' = IF ~Exists(n) THEN "next"
                      ELSE IF RefusedForPresent THEN "refused" ELSE "list"
          \/ Fails /\ pc' = "next"
  /\ UNCHANGED <<clusterVars, cfg, snap, tries, removed, finalized>>

NamespacesDone ==
  /\ pc = "next"
  /\ pending = {}
  /\ pc' = "done"
  /\ UNCHANGED <<clusterVars, cfg, pending, cur, kind, todo, snap, tries,
                 factVars, faults, historyVars>>

\* The four list tasks; a list that is not wanted, or fails, is empty.
List ==
  /\ pc = "list"
  /\ IF Sweeping(kind) \/ cfg.mode = "check"
     THEN \/ Succeeds /\ listed' = [listed EXCEPT ![kind] = Listed(kind, cur)]
          \/ Fails /\ listed' = [listed EXCEPT ![kind] = {}]
     ELSE UNCHANGED <<listed, faults>>
  /\ kind' = NextKind(kind)
  /\ pc' = IF kind # "Pod" THEN "list"
           ELSE IF cfg.mode = "check" THEN "verify" ELSE "select"
  /\ UNCHANGED <<clusterVars, cfg, pending, cur, sel, todo, snap, tries,
                 historyVars>>

Selection(k) ==
  IF ~Sweeping(k) THEN {}
  ELSE CASE k = "CSV" -> select_csvs(listed[k], cur, cfg)
         [] k = "InstallPlan" -> select_installplans(listed[k], cur, cfg)
         [] k = "Deployment" ->
              select_workloads(listed[k], cur, cfg.deploys, cfg.authAnyWork)
         [] k = "Pod" -> select_workloads(listed[k], cur, {}, cfg.authAnyWork)

\* The "when" of the four delete loops: the items the loop does not skip.
LoopItems(k, items) ==
  {o \in items : /\ Sweeping(k)
                 /\ k \in OlmKind => cfg.authCsv
                 /\ k = "Pod" => cfg.authAnyWork
                 /\ o.ns = cur}

\* The four select tasks and the assertion on what they selected.
Select ==
  /\ pc = "select"
  /\ sel' = [k \in Kind |-> Selection(k)]
  /\ IF \A k \in Kind : \A o \in Selection(k) : o.ns = cur
     THEN pc' = "delete" /\ todo' = LoopItems("CSV", Selection("CSV"))
     ELSE pc' = "failed" /\ UNCHANGED todo
  /\ UNCHANGED <<clusterVars, cfg, pending, cur, kind, listed, snap, tries,
                 faults, historyVars>>

\* One item of the delete loop of the current kind; the call names it by
\* kind, namespace and name.
Delete(o) ==
  /\ pc = "delete"
  /\ o \in todo
  /\ todo' = todo \ {o}
  /\ \/ /\ Succeeds
        /\ objects' = Deleted(At(kind, cur, o.name))
        /\ removed' = removed \cup At(kind, cur, o.name)
     \/ Fails /\ UNCHANGED <<objects, removed>>
  /\ UNCHANGED <<spaces, cfg, pc, pending, cur, kind, snap, tries, factVars,
                 finalized>>

\* Mutation of Strippable: every listed CSV, selected or not.
StrippableListed == {o \in listed["CSV"] : cfg.strip /\ o.fin}

\* The CSVs the strip loop does not skip: the list showed a finalizer.
Strippable ==
  {o \in LoopItems("CSV", sel["CSV"]) : cfg.strip /\ o.fin}

\* Mutation of LoopDone: a delete loop runs over the previous loop's items.
LoopDoneStale ==
  /\ pc \in {"delete", "strip"}
  /\ todo = {}
  /\ IF pc = "delete" /\ kind = "CSV"
     THEN pc' = "strip" /\ todo' = Strippable /\ UNCHANGED kind
     ELSE /\ kind' = NextKind(kind)
          /\ IF kind = "Pod"
             THEN pc' = "settle" /\ UNCHANGED todo
             ELSE pc' = "delete" /\ todo' = LoopItems(kind, sel[kind])
  /\ UNCHANGED <<clusterVars, cfg, pending, cur, snap, tries, factVars,
                 faults, historyVars>>

\* A loop is over: the strip loop follows the CSVs', then the other kinds'.
LoopDone ==
  /\ pc \in {"delete", "strip"}
  /\ todo = {}
  /\ IF pc = "delete" /\ kind = "CSV"
     THEN pc' = "strip" /\ todo' = Strippable /\ UNCHANGED kind
     ELSE /\ kind' = NextKind(kind)
          /\ IF kind = "Pod"
             THEN pc' = "settle" /\ UNCHANGED todo
             ELSE pc' = "delete" /\ todo' = LoopItems(NextKind(kind), sel[NextKind(kind)])
  /\ UNCHANGED <<clusterVars, cfg, pending, cur, snap, tries, factVars,
                 faults, historyVars>>

\* One item of the strip loop.  The API may also refuse the bare CSV.
Strip(o) ==
  /\ pc = "strip"
  /\ o \in todo
  /\ todo' = todo \ {o}
  /\ \/ /\ Succeeds
        /\ objects' = IF PartialCsvAdmitted
                      THEN FinalizersStripped(cur, o.name) ELSE objects
     \/ Fails /\ UNCHANGED objects
  /\ UNCHANGED <<spaces, cfg, pc, pending, cur, kind, snap, tries, factVars,
                 historyVars>>

\* Look the namespace up again and decide whether to finalize it.
Relookup ==
  /\ pc = "settle"
  /\ IF ~cfg.finalize
     THEN pc' = "verify" /\ UNCHANGED <<snap, faults>>
     ELSE \/ /\ Succeeds
             /\ snap' = spaces[cur]
             /\ pc' = IF /\ Exists(cur)
                         /\ cfg.onlyTerminating =>
                              spaces[cur].phase = "Terminating"
                      THEN "finalize" ELSE "verify"
          \/ Fails /\ pc' = "verify" /\ UNCHANGED snap
  /\ UNCHANGED <<clusterVars, cfg, pending, cur, kind, todo, tries, factVars,
                 historyVars>>

\* tasks/finalize_namespace.yml: guard once more, then PUT the looked-up body.
PutFinalize ==
  /\ pc = "finalize"
  /\ tries' = 0
  /\ IF ~(Allowed(cur) /\ cfg.finalize)
     THEN pc' = "failed" /\ UNCHANGED <<spaces, finalized, faults>>
     ELSE /\ pc' = "wait"
          /\ \/ /\ Succeeds
                /\ spaces' = Finalized(cur, snap.rev)
                /\ finalized' = IF spaces' = spaces THEN finalized
                                ELSE finalized \cup
                                  {[ns |-> cur, phase |-> spaces[cur].phase]}
             \/ Fails /\ UNCHANGED <<spaces, finalized>>
  /\ UNCHANGED <<objects, cfg, pending, cur, kind, todo, snap, factVars,
                 removed>>

\* Mutation of WaitGone: the polls are not counted.
WaitGoneUncounted ==
  /\ pc = "wait"
  /\ \/ /\ Succeeds
        /\ pc' = IF Exists(cur) /\ tries < Retries THEN "wait" ELSE "verify"
     \/ Fails /\ pc' = "verify"
  /\ UNCHANGED <<clusterVars, cfg, pending, cur, kind, todo, snap, tries,
                 factVars, historyVars>>

\* Poll until the namespace is gone, the polls run out, or a poll fails.
WaitGone ==
  /\ pc = "wait"
  /\ \/ /\ Succeeds
        /\ tries' = tries + 1
        /\ pc' = IF Exists(cur) /\ tries < Retries THEN "wait" ELSE "verify"
     \/ Fails /\ pc' = "verify" /\ UNCHANGED tries
  /\ UNCHANGED <<clusterVars, cfg, pending, cur, kind, todo, snap, factVars,
                 historyVars>>

\* Verify the namespace is gone, where that was asked for.
Verify ==
  /\ pc = "verify"
  /\ IF ~(cfg.finalize /\ cfg.failIfPresent /\ cfg.mode = "cleanup")
     THEN pc' = "next" /\ UNCHANGED faults
     ELSE \/ Succeeds /\ pc' = IF Exists(cur) THEN "failed" ELSE "next"
          \/ Fails /\ pc' = "next"
  /\ UNCHANGED <<clusterVars, cfg, pending, cur, kind, todo, snap, tries,
                 factVars, historyVars>>

CleanupStep ==
  \/ Gate
  \/ \E n \in Namespace : Lookup(n)
  \/ NamespacesDone
  \/ List
  \/ Select
  \/ \E o \in todo : Delete(o) \/ Strip(o)
  \/ LoopDone
  \/ Relookup
  \/ PutFinalize
  \/ WaitGone
  \/ Verify

EnvironmentStep == (\E n \in Namespace : ClusterStep(n)) /\ UNCHANGED roleVars

Stopped == pc \in Ended /\ UNCHANGED vars

Init == ClusterInit /\ CleanupInit
Next == CleanupStep \/ EnvironmentStep \/ Stopped
Spec == Init /\ [][Next]_vars

\* ansible-playbook keeps executing the tasks of a play it has started.
FairSpec == Spec /\ WF_vars(CleanupStep)

-----------------------------------------------------------------------------
(* Properties.                                                             *)

NameInScope(o) ==
  CASE o.kind = "CSV" -> /\ cfg.sweepOlm /\ cfg.authCsv
                         /\ IF cfg.match = <<>> THEN cfg.authAnyCsv
                            ELSE csv_name_matches(o.name, cfg.match)
    [] o.kind = "InstallPlan" -> /\ cfg.sweepOlm /\ cfg.authCsv
                                 /\ cfg.match # <<>> \/ cfg.authAnyCsv
    [] o.kind = "Deployment" -> /\ cfg.sweepWork
                                /\ IF cfg.deploys = {} THEN cfg.authAnyWork
                                   ELSE o.name \in cfg.deploys
    [] o.kind = "Pod" -> cfg.sweepWork /\ cfg.authAnyWork

\* Whatever the cluster does during the run, an object the run deletes is in
\* a requested, unprotected namespace and in the scope its flags authorize.
RemovalsAuthorized ==
  \A o \in removed : /\ cfg.mode = "cleanup"
                     /\ o.ns \in cfg.targets
                     /\ Allowed(o.ns)
                     /\ NameInScope(o)

\* In openshift-operators a run deletes only the CSVs the token names and
\* InstallPlans of such CSVs alone, never a workload (tasks/main.yml, README).
SharedOperatorsIntact ==
  \A o \in removed :
    o.ns = SharedOperators =>
      /\ o.kind \in OlmKind
      /\ o.kind = "CSV" => csv_name_matches(o.name, cfg.match)
      /\ o.kind = "InstallPlan" =>
           \A x \in o.plan : csv_name_matches(x, cfg.match)

\* An OLM copy stays in place unless delete_copied_csvs is set.  The delete
\* goes by name, so the one exception is a copy that took the name of an own
\* CSV after the run listed it.
CopiesSurvive ==
  [][\A o \in removed' \ removed :
       o.kind = "CSV" /\ o.copy =>
         \/ cfg.copies
         \/ \E s \in sel["CSV"] : s.name = o.name /\ ~s.copy]_vars

\* No step of the run removes, marks, strips or (stripping a CSV that has just
\* vanished) creates an object the selections of this namespace do not name.
OnlySelectedTouched ==
  [][roleVars' # roleVars =>
       \A o \in (objects \ objects') \cup (objects' \ objects) :
         \E s \in sel[o.kind] : s.name = o.name /\ s.ns = o.ns]_vars

\* A refusal is clean: one protected namespace in the list spares them all, and
\* a run that refuses, even at a later namespace, has deleted and finalized
\* nothing ("No CSVs or InstallPlans were deleted").
RefusalIsClean ==
  removed # {} \/ finalized # {} =>
    pc # "refused" /\ \A n \in cfg.targets : Allowed(n)

\* Check mode leaves the cluster alone.
CheckModeReadOnly ==
  [][cfg.mode = "check" /\ roleVars' # roleVars => UNCHANGED clusterVars]_vars

\* A namespace is finalized only when asked for, and, unless that guard is
\* lifted, only while it is Terminating, however it changed since the lookup.
FinalizesOnlyTerminating ==
  \A f \in finalized :
    /\ cfg.finalize /\ f.ns \in cfg.targets /\ Allowed(f.ns)
    /\ cfg.onlyTerminating => f.phase = "Terminating"

\* In the scope of a sweep: its name is, an OLM copy only with
\* delete_copied_csvs, an InstallPlan only if all its CSVs match the token.
Wanted(o) ==
  /\ NameInScope(o)
  /\ o.kind = "CSV" /\ o.copy => cfg.copies
  /\ o.kind = "InstallPlan" /\ cfg.match # <<>> =>
       o.plan # {} /\ \A x \in o.plan : csv_name_matches(x, cfg.match)

\* The strip loop has created this CSV anew: the delete had gone through before
\* the strip of the finalizers the list showed.
BroughtBack(o) ==
  /\ o.kind = "CSV" /\ cfg.strip
  /\ \E s \in sel["CSV"] : s.name = o.name /\ s.fin

\* A sweep leaves nothing in scope.  Where nobody creates objects meanwhile and
\* every call is answered, what lists, filters, authorizations and loop
\* conditions of the four kinds let through is all that should go: once the
\* loops over a namespace are over, an object in scope is there only if a
\* finalizer nobody strips still holds it, or if the strip brought it back.
SweepIsComplete ==
  /\ cfg.mode = "cleanup" /\ faults = 0
  /\ pc \in {"settle", "finalize", "wait", "verify"}
  => \A o \in objects :
       o.ns = cur /\ Wanted(o) =>
         \/ o.deleting /\ ~(o.kind = "CSV" /\ cfg.strip)
         \/ BroughtBack(o)

\* Every run ends, however often calls fail and namespaces come back.
Terminates == <>(pc \in Ended)

\* "Matched CSV cleanup inside it is still allowed; namespace deletion is
\* not" (plugins/filter/ocp_absent_cleanup.py:67).
SharedOperatorsKept == \A f \in finalized : f.ns # SharedOperators
=============================================================================
