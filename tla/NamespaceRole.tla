---------------------------- MODULE NamespaceRole ----------------------------
(***************************************************************************)
(* The role ocp_namespace: create or delete one Namespace.  With           *)
(* ocp_namespace_advanced_cleanup it includes ocp_absent_cleanup, whose    *)
(* steps (module AbsentCleanup) run while stage is "before" or "after".    *)
(***************************************************************************)
EXTENDS AbsentCleanup

CONSTANT Request \* the role variables of ocp_namespace

RequestType ==
  [target : Namespace, state : {"present", "absent"}, advanced : BOOLEAN,
   failIfPresent : BOOLEAN, flags : ConfigType]

ASSUME RequestAssumption == Request \subseteq RequestType

VARIABLES
  request, \* the role variables of this run
  stage,   \* the task of ocp_namespace the run is at
  applied, \* did the create call succeed?
  polls,   \* polls made of a Terminating namespace
  deletes  \* history: namespaces this run sent a delete for

stageVars == <<request, stage, applied, polls, deletes>>
namespaceVars == <<vars, stageVars>>

Stage == {"check", "lookup", "before", "delete", "verify", "after",
          "reverify", "await", "apply", "confirm", "done", "failed"}

NamespaceTypeOK ==
  /\ CleanupTypeOK
  /\ request \in RequestType
  /\ stage \in Stage
  /\ applied \in BOOLEAN
  /\ polls \in Nat
  /\ deletes \subseteq Namespace

Target == request.target
Absent == request.state = "absent"

\* Mutation of AdvancedRequested: the sweep flags alone ask for the cleanup.
FlagsRequest ==
  request.flags.sweepOlm \/ request.flags.sweepWork \/ request.flags.finalize

\* ocp_namespace_advanced_cleanup_requested
AdvancedRequested ==
  /\ request.advanced
  /\ request.flags.sweepOlm \/ request.flags.sweepWork \/ request.flags.finalize

\* tasks/advanced_cleanup.yml: what ocp_absent_cleanup is given.
AdvancedConfig(r) ==
  [r.flags EXCEPT !.targets = {r.target}, !.mode = "cleanup",
                  !.onlyTerminating = TRUE, !.failIfPresent = FALSE]

\* The facts of this and of earlier plays do not matter: every one is set or
\* registered before it is read.
NamespaceInit ==
  /\ request \in Request
  /\ stage = "check"
  /\ applied = FALSE
  /\ polls = 0
  /\ deletes = {}
  /\ CleanupInit
  /\ cfg = AdvancedConfig(request)

-----------------------------------------------------------------------------

Refuse ==
  \/ ~namespace_name_valid(Target)
  \/ (Absent \/ request.advanced) /\ namespace_delete_blocked(Target)

CheckRequest ==
  /\ stage = "check"
  /\ stage' = IF Refuse THEN "failed" ELSE "lookup"
  /\ UNCHANGED <<vars, request, applied, polls, deletes>>

\* Mutation of LookupExisting: a create does not wait for a Terminating namespace.
LookupWithoutWait ==
  /\ stage = "lookup"
  /\ \/ /\ Succeeds
        /\ stage' = CASE Absent /\ Exists(Target) /\ AdvancedRequested -> "before"
                      [] Absent /\ ~(Exists(Target) /\ AdvancedRequested) -> "delete"
                      [] ~Absent -> "apply"
     \/ /\ Fails
        /\ stage' = IF Absent THEN "delete" ELSE "apply"
  /\ UNCHANGED <<clusterVars, cfg, flowVars, factVars, historyVars, request,
                 applied, polls, deletes>>

\* "Lookup existing namespace"; a failed lookup is an empty one.
LookupExisting ==
  /\ stage = "lookup"
  /\ \/ /\ Succeeds
        /\ stage' = CASE Absent /\ Exists(Target) /\ AdvancedRequested -> "before"
                      [] Absent /\ ~(Exists(Target) /\ AdvancedRequested) -> "delete"
                      [] ~Absent /\ spaces[Target].phase = "Terminating" -> "await"
                      [] ~Absent /\ spaces[Target].phase # "Terminating" -> "apply"
     \/ /\ Fails
        /\ stage' = IF Absent THEN "delete" ELSE "apply"
  /\ UNCHANGED <<clusterVars, cfg, flowVars, factVars, historyVars, request,
                 applied, polls, deletes>>

\* A step of the included ocp_absent_cleanup.
AdvancedStep ==
  /\ stage \in {"before", "after"}
  /\ CleanupStep
  /\ UNCHANGED stageVars

\* The included role has ended: a failed task ends the play.
AdvancedEnds ==
  /\ stage \in {"before", "after"}
  /\ pc \in Ended
  /\ stage' = CASE pc # "done" -> "failed"
                [] pc = "done" /\ stage = "before" -> "delete"
                [] pc = "done" /\ stage = "after" -> "reverify"
  /\ pc' = "gate"
  /\ UNCHANGED <<clusterVars, cfg, pending, cur, kind, todo, snap, tries,
                 factVars, faults, historyVars, request, applied, polls, deletes>>

\* Delete the Namespace object; a failure is ignored.  The call's own wait is
\* time in which other actors run.
DeleteNamespace ==
  /\ stage = "delete"
  /\ stage' = "verify"
  /\ \/ /\ Succeeds
        /\ spaces' = SpaceDeleted(Target)
        /\ deletes' = deletes \cup {Target}
     \/ Fails /\ UNCHANGED <<spaces, deletes>>
  /\ UNCHANGED <<objects, cfg, flowVars, factVars, historyVars, request,
                 applied, polls>>

\* What is left decides the outcome.
Outcome(remains) == IF remains /\ request.failIfPresent THEN "failed" ELSE "done"

\* Mutation of VerifyDeleted: no second cleanup pass.
VerifyDeletedOnce ==
  /\ stage = "verify"
  /\ \/ Succeeds /\ stage' = Outcome(Exists(Target))
     \/ Fails /\ stage' = Outcome(FALSE)
  /\ UNCHANGED <<clusterVars, cfg, flowVars, factVars, historyVars, request,
                 applied, polls, deletes>>

\* "Lookup namespace after delete attempt"
VerifyDeleted ==
  /\ stage = "verify"
  /\ \/ /\ Succeeds
        /\ stage' = IF Exists(Target) /\ AdvancedRequested THEN "after"
                    ELSE Outcome(Exists(Target))
     \/ Fails /\ stage' = Outcome(FALSE)
  /\ UNCHANGED <<clusterVars, cfg, flowVars, factVars, historyVars, request,
                 applied, polls, deletes>>

\* "Lookup namespace after advanced cleanup"
VerifyAdvanced ==
  /\ stage = "reverify"
  /\ \/ Succeeds /\ stage' = Outcome(Exists(Target))
     \/ Fails /\ stage' = Outcome(FALSE)
  /\ UNCHANGED <<clusterVars, cfg, flowVars, factVars, historyVars, request,
                 applied, polls, deletes>>

\* Mutation of AwaitTerminating: the polls are counted down from zero.
AwaitBackwards ==
  /\ stage = "await"
  /\ \/ /\ Succeeds
        /\ polls' = polls - 1
        /\ stage' = CASE ~Exists(Target) -> "apply"
                      [] Exists(Target) /\ polls < Retries -> "await"
                      [] Exists(Target) /\ polls >= Retries -> "failed"
     \/ Fails /\ stage' = "apply" /\ UNCHANGED polls
  /\ UNCHANGED <<clusterVars, cfg, flowVars, factVars, historyVars, request,
                 applied, deletes>>

\* "Wait for Terminating namespace to finish deleting before create"
AwaitTerminating ==
  /\ stage = "await"
  /\ \/ /\ Succeeds
        /\ polls' = polls + 1
        /\ stage' = CASE ~Exists(Target) -> "apply"
                      [] Exists(Target) /\ polls < Retries -> "await"
                      [] Exists(Target) /\ polls >= Retries -> "failed"
     \/ Fails /\ stage' = "apply" /\ UNCHANGED polls
  /\ UNCHANGED <<clusterVars, cfg, flowVars, factVars, historyVars, request,
                 applied, deletes>>

\* state: present; patching an existing Namespace changes labels only.
ApplyNamespace ==
  /\ stage = "apply"
  /\ stage' = "confirm"
  /\ \/ Succeeds /\ spaces' = SpaceCreated(Target) /\ applied' = TRUE
     \/ Fails /\ applied' = FALSE /\ UNCHANGED spaces
  /\ UNCHANGED <<objects, cfg, flowVars, factVars, historyVars, request, polls,
                 deletes>>

\* "Confirm namespace is Active after create": this lookup may not fail.
ConfirmCreated ==
  /\ stage = "confirm"
  /\ \/ /\ Succeeds
        /\ stage' = IF spaces[Target].phase = "Terminating" \/ ~applied
                    THEN "failed" ELSE "done"
     \/ Fails /\ stage' = "failed"
  /\ UNCHANGED <<clusterVars, cfg, flowVars, factVars, historyVars, request,
                 applied, polls, deletes>>

NamespaceStep ==
  \/ CheckRequest \/ LookupExisting
  \/ AdvancedStep \/ AdvancedEnds
  \/ DeleteNamespace \/ VerifyDeleted \/ VerifyAdvanced
  \/ AwaitTerminating \/ ApplyNamespace \/ ConfirmCreated

ClusterMoves == EnvironmentStep /\ UNCHANGED stageVars
Finished == stage \in {"done", "failed"}
NamespaceStops == Finished /\ UNCHANGED namespaceVars

NamespaceRoleInit == ClusterInit /\ NamespaceInit
NamespaceNext == NamespaceStep \/ ClusterMoves \/ NamespaceStops
NamespaceSpec == NamespaceRoleInit /\ [][NamespaceNext]_namespaceVars

\* The play keeps executing, and the namespace controller keeps working.
NamespaceFairSpec ==
  /\ NamespaceSpec
  /\ WF_namespaceVars(NamespaceStep)
  /\ \A n \in Namespace :
       /\ WF_namespaceVars(ControllerEmpties(n) /\ UNCHANGED <<roleVars, stageVars>>)
       /\ WF_namespaceVars(ControllerEnds(n) /\ UNCHANGED <<roleVars, stageVars>>)

-----------------------------------------------------------------------------
(* Properties.                                                             *)

\* state=present, and state=absent without advanced cleanup, sweep nothing,
\* strip nothing and finalize nothing; only the requested, unprotected
\* Namespace is deleted, and only by state=absent (tasks/main.yml:5); and the
\* advanced cleanup finalizes the target alone, and only while Terminating, so
\* never before the Namespace has been deleted by somebody.
ActsWithinRequest ==
  /\ ~Absent \/ ~request.advanced => removed = {} /\ finalized = {}
  /\ deletes \subseteq
       (IF Absent /\ ~namespace_delete_blocked(Target) THEN {Target} ELSE {})
  /\ \A f \in finalized : f.ns = Target /\ f.phase = "Terminating"

\* What a successful run says is so: state=absent with fail_if_present, every
\* call answered, saw the namespace gone; state=present is never satisfied with
\* a namespace that is still being deleted, and leaves an Active one when every
\* call is answered and nobody else touches it, having waited for the old one.
SuccessTellsTruth ==
  [][stage' = "done" /\ stage # "done" =>
       /\ Absent /\ request.failIfPresent /\ faults' = 0 => ~Exists(Target)
       /\ ~Absent => spaces[Target].phase # "Terminating"
       /\ ~Absent /\ faults' = 0 /\ Target \notin Contested
            => spaces[Target].phase = "Active"]_namespaceVars

\* Every run of the role ends.  If every call is answered and nobody else
\* interferes, an advanced absent run with finalize removes a namespace whose
\* contents hold it forever: the pass before the delete finds it Active, the one
\* after it finalizes.
StuckNamespaceCleared ==
  /\ <>Finished
  /\ [](faults = 0) =>
       (/\ stage = "lookup" /\ Absent /\ request.advanced /\ request.flags.finalize
        /\ ~RefusedForPresent /\ Target \notin Contested)
         ~> (stage = "done" /\ ~Exists(Target))
=============================================================================
