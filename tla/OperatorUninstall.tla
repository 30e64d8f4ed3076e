-------------------------- MODULE OperatorUninstall --------------------------
(***************************************************************************)
(* ocp_operator_subscription with state=absent: delete the Subscription,   *)
(* the operator's CSVs and its InstallPlans, then run ocp_absent_cleanup   *)
(* as a gate (module AbsentCleanup, while stage = "gate").  OLM goes on    *)
(* resolving the Subscription and executing InstallPlans meanwhile, and a  *)
(* play that failed may be started again.                                  *)
(***************************************************************************)
EXTENDS AbsentCleanup

CONSTANTS
  Uninstall, \* the role variables: [ns, match, sweep]
  PlanSets,  \* the CSV sets OLM may resolve for the operator
  PlanNames, \* names for the InstallPlans it creates
  MaxRuns    \* bound on the runs of the play

ASSUME UninstallAssumption ==
  /\ Uninstall \subseteq [ns : Namespace, match : Token \ {<<>>}, sweep : BOOLEAN]
  /\ PlanSets \subseteq SUBSET Name
  /\ PlanNames \subseteq Name
  /\ MaxRuns \in Nat \ {0}

VARIABLES
  request,    \* role variables of this play
  stage,      \* the task of uninstall_operator.yml the play is at
  subscribed, \* does the Subscription exist?
  doomed,     \* items left of the CSVs, then InstallPlans, to delete
  runs        \* runs of the play so far

stageVars == <<request, stage, subscribed, doomed, runs>>
uninstallVars == <<vars, stageVars>>

Stage == {"unsubscribe", "listCsvs", "deleteCsvs", "listPlans", "deletePlans",
          "gate", "done", "failed"}

\* The arguments of the select filters: the name match is the authorization.
OwnSelection(r) ==
  [targets |-> {r.ns}, mode |-> "cleanup", sweepOlm |-> TRUE,
   authCsv |-> r.match # <<>>, authAnyCsv |-> FALSE, match |-> r.match,
   copies |-> FALSE, strip |-> TRUE, sweepWork |-> r.sweep, deploys |-> {},
   authAnyWork |-> r.sweep, finalize |-> FALSE, onlyTerminating |-> TRUE,
   failIfPresent |-> FALSE]

UninstallInit ==
  /\ request \in Uninstall
  /\ stage = "unsubscribe"
  /\ subscribed = TRUE
  /\ doomed = {}
  /\ runs = 1
  /\ CleanupInit
  /\ cfg = OwnSelection(request)

-----------------------------------------------------------------------------

\* Mutation of Unsubscribe: a Subscription already gone is an error.
UnsubscribeOnce ==
  /\ stage = "unsubscribe"
  /\ \/ Succeeds /\ subscribed' = FALSE
                 /\ stage' = IF subscribed THEN "listCsvs" ELSE "failed"
     \/ Fails /\ stage' = "failed" /\ UNCHANGED subscribed
  /\ UNCHANGED <<clusterVars, cfg, flowVars, factVars, historyVars, request,
                 doomed, runs>>

\* A failed delete of the Subscription ends the play.
Unsubscribe ==
  /\ stage = "unsubscribe"
  /\ \/ Succeeds /\ subscribed' = FALSE /\ stage' = "listCsvs"
     \/ Fails /\ stage' = "failed" /\ UNCHANGED subscribed
  /\ UNCHANGED <<clusterVars, cfg, flowVars, factVars, historyVars, request,
                 doomed, runs>>

\* Each selected CSV must match, be no copy, and be in this namespace.
Confirmed(o) ==
  /\ csv_name_matches(o.name, request.match)
  /\ ~o.copy
  /\ o.ns = request.ns

ListCsvs ==
  /\ stage = "listCsvs"
  /\ \/ /\ Succeeds
        /\ doomed' = select_csvs(Listed("CSV", request.ns), request.ns, cfg)
     \/ Fails /\ doomed' = {}
  /\ stage' = IF \A o \in doomed' : Confirmed(o) THEN "deleteCsvs" ELSE "failed"
  /\ UNCHANGED <<clusterVars, cfg, flowVars, factVars, historyVars, request,
                 subscribed, runs>>

\* A failed delete of a CSV ends the play.
DeleteCsv(o) ==
  /\ stage = "deleteCsvs"
  /\ o \in doomed
  /\ doomed' = doomed \ {o}
  /\ \/ /\ Succeeds
        /\ objects' = Deleted(At("CSV", request.ns, o.name))
        /\ removed' = removed \cup At("CSV", request.ns, o.name)
        /\ UNCHANGED stage
     \/ Fails /\ stage' = "failed" /\ UNCHANGED <<objects, removed>>
  /\ UNCHANGED <<spaces, cfg, flowVars, factVars, finalized, request,
                 subscribed, runs>>

\* Mutation of ListPlans: the InstallPlans are left to the gate.
PlansLeft ==
  /\ stage = "deleteCsvs"
  /\ doomed = {}
  /\ doomed' = {}
  /\ stage' = "deletePlans"
  /\ UNCHANGED <<vars, request, subscribed, runs>>

ListPlans ==
  /\ stage = "deleteCsvs"
  /\ doomed = {}
  /\ \/ /\ Succeeds
        /\ doomed' = select_installplans(Listed("InstallPlan", request.ns),
                                         request.ns, cfg)
     \/ Fails /\ doomed' = {}
  /\ stage' = "deletePlans"
  /\ UNCHANGED <<clusterVars, cfg, flowVars, factVars, historyVars, request,
                 subscribed, runs>>

\* A failed delete of an InstallPlan is ignored.
DeletePlan(o) ==
  /\ stage = "deletePlans"
  /\ o \in doomed
  /\ doomed' = doomed \ {o}
  /\ \/ /\ Succeeds
        /\ objects' = Deleted(At("InstallPlan", request.ns, o.name))
        /\ removed' = removed \cup At("InstallPlan", request.ns, o.name)
     \/ Fails /\ UNCHANGED <<objects, removed>>
  /\ UNCHANGED <<spaces, cfg, flowVars, factVars, finalized, request,
                 stage, subscribed, runs>>

EnterGate ==
  /\ stage = "deletePlans"
  /\ doomed = {}
  /\ stage' = "gate"
  /\ pc' = "gate"
  /\ UNCHANGED <<clusterVars, cfg, pending, cur, kind, todo, snap, tries,
                 factVars, faults, historyVars, request, subscribed, doomed,
                 runs>>

GateStep == stage = "gate" /\ CleanupStep /\ UNCHANGED stageVars

LeaveGate ==
  /\ stage = "gate"
  /\ pc \in Ended
  /\ stage' = IF pc = "done" THEN "done" ELSE "failed"
  /\ UNCHANGED <<vars, request, subscribed, doomed, runs>>

\* The user starts a failed play again.
Rerun ==
  /\ stage = "failed"
  /\ runs < MaxRuns
  /\ runs' = runs + 1
  /\ stage' = "unsubscribe"
  /\ doomed' = {}
  /\ UNCHANGED <<vars, request, subscribed>>

UninstallStep ==
  \/ Unsubscribe \/ ListCsvs \/ ListPlans
  \/ \E o \in doomed : DeleteCsv(o) \/ DeletePlan(o)
  \/ EnterGate \/ GateStep \/ LeaveGate \/ Rerun

\* OLM resolves a Subscription whose operator has no CSV and no InstallPlan.
\* A plan may install other operators of the namespace along with it.
OlmResolves ==
  /\ subscribed
  /\ spaces[request.ns].phase = "Active"
  /\ \A o \in Listed("CSV", request.ns) :
       o.copy \/ ~csv_name_matches(o.name, request.match)
  /\ \A o \in Listed("InstallPlan", request.ns) : o.left = {}
  /\ \E names \in PlanSets, n \in PlanNames :
       /\ At("InstallPlan", request.ns, n) = {}
       /\ objects' = objects \cup
            {[Blank("InstallPlan", request.ns, n) EXCEPT
                !.plan = names, !.left = names]}
  /\ UNCHANGED <<spaces, roleVars, stageVars>>

ClusterMoves == EnvironmentStep /\ UNCHANGED stageVars
Finished == stage = "done" \/ (stage = "failed" /\ runs = MaxRuns)
UninstallStops == Finished /\ UNCHANGED uninstallVars

UninstallNext ==
  UninstallStep \/ OlmResolves \/ ClusterMoves \/ UninstallStops
UninstallRoleInit == ClusterInit /\ UninstallInit
UninstallSpec == UninstallRoleInit /\ [][UninstallNext]_uninstallVars

\* The play executes, and the user repeats it after a failure.
UninstallFairSpec == UninstallSpec /\ WF_uninstallVars(UninstallStep)

-----------------------------------------------------------------------------
(* Properties.                                                             *)

OwnCsv(o) ==
  /\ o.kind = "CSV" /\ o.ns = request.ns /\ ~o.copy
  /\ csv_name_matches(o.name, request.match)

\* An uninstall deletes only CSVs the prefix names, InstallPlans that install
\* nothing else, and workloads only where the sweep was asked for, whatever
\* OLM does meanwhile and however often the play is repeated.
UninstallSparesOthers ==
  \A o \in removed :
    /\ o.ns = request.ns
    /\ o.kind = "CSV" => csv_name_matches(o.name, request.match)
    /\ o.kind = "InstallPlan" =>
         \A x \in o.plan : csv_name_matches(x, request.match)
    /\ o.kind \notin OlmKind => request.sweep /\ request.ns # SharedOperators

\* An InstallPlan of the CSVs names, of which left are to be created, installs
\* this operator alone, or has nothing of it to create any more.
OneSided(names, left, token) ==
  \/ \A x \in names : csv_name_matches(x, token)
  \/ \A x \in left : ~csv_name_matches(x, token)

\* The clusters UninstallFinal speaks of.  An InstallPlan that also installs
\* other operators is left alone, and one that is still executing goes on
\* creating this one's CSV; so does one a finalizer holds, and a strip that the
\* API admits creates it as well.
OwnPlansOnly ==
  /\ ~PartialCsvAdmitted
  /\ \A r \in Uninstall, names \in PlanSets : OneSided(names, names, r.match)
  /\ \A found \in Population, phases \in InitialPhases : \A o \in found :
       /\ phases[o.ns] # "Absent"
       /\ o.kind = "InstallPlan" =>
            /\ ~o.fin
            /\ o.left \subseteq o.plan
            /\ \A r \in Uninstall : OneSided(o.plan, o.left, r.match)

\* An uninstall that succeeds, with no call failed, leaves no CSV of the
\* operator but one being deleted, and none appears afterwards: an
\* InstallPlan in flight cannot bring the operator back.
UninstallFinal ==
  stage = "done" /\ faults = 0 =>
    \A o \in objects : OwnCsv(o) => o.deleting

\* An uninstall the namespace guard admits succeeds once no call fails any
\* more, from whatever half-done state earlier runs left.
UninstallConverges ==
  (Allowed(request.ns) /\ MaxRuns > MaxFaults) ~> stage = "done"
=============================================================================
