------------------------------ MODULE ProjectSync ------------------------------
(***************************************************************************)
(* Controller projects before job templates exist: roles/                  *)
(* bootstrap_controller, sync_controller_projects_before_templates.yml and *)
(* the files it includes.  Each project is applied, then aligned, then     *)
(* brought to one complete update.  A play that ended may be run again.    *)
(* The Controller runs the updates of a project one by one; its other      *)
(* users may launch updates at any time.                                   *)
(***************************************************************************)
EXTENDS Naturals, Sequences, FiniteSets

CONSTANTS
  Project,   \* project names
  Projects,  \* controller_projects, in order
  Scm,       \* the projects with an scm_type
  Source,    \* an SCM URL with its branch
  Desired,   \* the source controller_projects asks for
  None,      \* no source: the project does not exist, or has no content
  Tries,     \* bootstrap_controller_project_retries
  MaxOthers, \* bound on the updates of other users
  MaxFaults, \* bound on the requests that fail
  MaxRuns    \* bound on the runs of the play

ASSUME ProjectSyncAssumption ==
  /\ Projects \in Seq(Project) /\ Projects # <<>>
  /\ \A i, j \in 1..Len(Projects) : Projects[i] = Projects[j] => i = j
  /\ Scm \subseteq Project
  /\ Desired \in Source /\ None \notin Source
  /\ Tries \in Nat \ {0} /\ MaxOthers \in Nat /\ MaxFaults \in Nat
  /\ MaxRuns \in Nat \ {0}

VARIABLES
  source,   \* the source of each project, None before it exists
  updates,  \* its project updates, oldest first; the source is captured at launch
  content,  \* what its playbooks come from
  phase,    \* the task the play is at
  pos,      \* the loop index in Projects
  try,      \* the attempt at this project
  ok,       \* bootstrap_controller_project_ok
  broken,   \* an item of the align loop has failed
  current,  \* the update looked up (0: none) or launched
  existing, \* status of bootstrap_controller_sync_existing_result
  results,  \* bootstrap_controller_project_sync_result
  used,     \* history: the update each result is about
  finished, \* history: how many updates were over at lookup
  others, faults, runs

controllerVars == <<source, updates, content>>
syncVars == <<current, existing, results, used, finished>>
playVars == <<phase, pos, try, ok, broken, syncVars, runs>>
vars == <<controllerVars, playVars, others, faults>>

Status == {"active", "successful", "failed"}
Answer == Status \cup {"none", "error"}
Update == [src : Source, status : Status]
Phase == {"apply", "align", "lookup", "wait", "start", "await", "passed", "failed"}
Ended == {"passed", "failed"}

ProjectSyncTypeOK ==
  /\ source \in [Project -> Source \cup {None}]
  /\ updates \in [Project -> Seq(Update)]
  /\ content \in [Project -> Source \cup {None}]
  /\ phase \in Phase
  /\ pos \in 1..Len(Projects)
  /\ try \in 1..(Tries + 1)
  /\ ok \in BOOLEAN /\ broken \in BOOLEAN
  /\ current \in 0..Len(updates[Projects[pos]])
  /\ existing \in Answer
  /\ results \in [Project -> Answer]
  /\ used \in [Project -> Nat] /\ finished \in [Project -> Nat]
  /\ \A p \in Project : used[p] <= Len(updates[p]) /\ finished[p] <= Len(updates[p])
  /\ others \in 0..MaxOthers /\ faults \in 0..MaxFaults /\ runs \in 1..MaxRuns

\* What an earlier play or a user left: no project, one never updated, one
\* whose update is running, one that is up to date with its source.
Left(p) ==
  \/ source[p] = None /\ updates[p] = <<>> /\ content[p] = None
  \/ source[p] # None /\ updates[p] = <<>> /\ content[p] = None
  \/ p \in Scm /\ source[p] # None /\ content[p] = None
     /\ updates[p] = <<[src |-> source[p], status |-> "active"]>>
  \/ p \in Scm /\ source[p] # None /\ content[p] = source[p]
     /\ updates[p] = <<[src |-> source[p], status |-> "successful"]>>

Histories ==
  {<<>>} \cup {<<[src |-> s, status |-> st]>> : s \in Source, st \in {"active", "successful"}}

Init ==
  /\ source \in [Project -> Source \cup {None}]
  /\ updates \in [Project -> Histories]
  /\ content \in [Project -> Source \cup {None}]
  /\ \A p \in Project : Left(p)
  /\ phase = "apply" /\ pos = 1 /\ try = 1 /\ ok = FALSE /\ broken = FALSE
  /\ current = 0 /\ existing = "none"
  /\ results = [p \in Project |-> "none"]
  /\ used = [p \in Project |-> 0]
  /\ finished = [p \in Project |-> 0]
  /\ others = 0 /\ faults = 0 /\ runs = 1

Succeeds == UNCHANGED faults
Fails == faults < MaxFaults /\ faults' = faults + 1

cur == Projects[pos]
Last == pos = Len(Projects)
Active(p) == {i \in 1..Len(updates[p]) : updates[p][i].status = "active"}
Over(p) == {i \in 1..Len(updates[p]) : updates[p][i].status # "active"}

Launched(p, s) ==
  updates' = [updates EXCEPT ![p] = Append(@, [src |-> s, status |-> "active"])]

\* The Controller takes the desired source; a change may start an update,
\* update_project: false or not.
Configured(p) ==
  /\ source' = [source EXCEPT ![p] = Desired]
  /\ \/ UNCHANGED updates
     \/ source[p] # Desired /\ p \in Scm /\ Launched(p, Desired)
  /\ UNCHANGED content

-----------------------------------------------------------------------------
(* ensure_controller_project.yml, once for each project.                   *)

\* All tries of a project are included before the first of them runs, so a
\* success does not keep the later ones from running.
NextTry ==
  IF try < Tries
  THEN try' = try + 1 /\ UNCHANGED <<phase, pos>>
  ELSE /\ try' = 1
       /\ pos' = (IF Last THEN 1 ELSE pos + 1)
       /\ phase' = (IF Last THEN "align" ELSE "apply")

\* apply_one_controller_project.yml.  A request may fail although the
\* Controller has acted on it, as with a gateway time-out.
Apply ==
  /\ phase = "apply"
  /\ \/ /\ Succeeds
        /\ \/ Configured(cur)
           \/ source[cur] # None /\ UNCHANGED controllerVars
        /\ NextTry
        /\ ok' = (Last \/ try < Tries) \* reset for the next project
     \/ /\ Fails
        /\ Configured(cur) \/ UNCHANGED controllerVars
        /\ IF try < Tries
           THEN NextTry /\ UNCHANGED ok
           ELSE phase' = "failed" /\ UNCHANGED <<pos, try, ok>>
  /\ UNCHANGED <<broken, syncVars, runs, others>>

-----------------------------------------------------------------------------
(* The align task: a loop with retries, failed items do not stop it.       *)

NextItem(failing) ==
  /\ try' = 1
  /\ broken' = (broken \/ failing)
  /\ IF Last
     THEN /\ phase' = (IF broken' THEN "failed" ELSE "lookup")
          /\ pos' = (IF broken' THEN pos ELSE 1)
     ELSE pos' = pos + 1 /\ UNCHANGED phase

Align ==
  /\ phase = "align"
  /\ \/ cur \notin Scm /\ NextItem(FALSE) /\ UNCHANGED <<controllerVars, faults>>
     \/ cur \in Scm /\ Succeeds /\ Configured(cur) /\ NextItem(FALSE)
     \/ /\ cur \in Scm /\ Fails
        /\ Configured(cur) \/ UNCHANGED controllerVars
        /\ IF try <= Tries
           THEN try' = try + 1 /\ UNCHANGED <<phase, pos, broken>>
           ELSE NextItem(TRUE)
  /\ UNCHANGED <<ok, syncVars, runs, others>>

-----------------------------------------------------------------------------
(* sync_one_controller_project.yml, once for each project with an scm_type. *)

\* The next project, or the verdict over the results.
Advance ==
  /\ current' = 0 /\ existing' = "none"
  /\ IF Last
     THEN /\ phase' = (IF \A i \in 1..Len(Projects) :
                            Projects[i] \in Scm => results'[Projects[i]] = "successful"
                       THEN "passed" ELSE "failed")
          /\ UNCHANGED pos
     ELSE phase' = "lookup" /\ pos' = pos + 1

\* "Record the exact update result".
Record(answer, u) ==
  /\ results' = [results EXCEPT ![cur] = answer]
  /\ used' = [used EXCEPT ![cur] = u]
  /\ UNCHANGED finished
  /\ Advance

Skip ==
  /\ phase = "lookup" /\ cur \notin Scm
  /\ UNCHANGED <<controllerVars, try, ok, broken, results, used, finished, runs, others, faults>>
  /\ Advance

\* Look up the project and inspect its current update, one that is active.
Lookup ==
  /\ phase = "lookup" /\ cur \in Scm
  /\ \/ /\ Succeeds /\ source[cur] # None
        /\ IF Active(cur) = {} THEN current' = 0 ELSE current' \in Active(cur)
        /\ finished' = [finished EXCEPT ![cur] = Cardinality(Over(cur))]
        /\ phase' = (IF current' = 0 THEN "start" ELSE "wait")
     \/ Fails /\ phase' = "failed" /\ UNCHANGED <<current, finished>>
  /\ UNCHANGED <<controllerVars, pos, try, ok, broken, existing, results, used, runs, others>>

\* job_wait, or the wait of project_update: it sees the end of the update,
\* times out while it is active, or fails.
Waited(u, answer) ==
  \/ Succeeds /\ answer = updates[cur][u].status
  \/ Fails /\ answer = "error"

Wait ==
  /\ phase = "wait"
  /\ \E answer \in Answer : Waited(current, answer) /\ existing' = answer
  /\ phase' = "start"
  /\ UNCHANGED <<controllerVars, pos, try, ok, broken, current, results, used,
                 finished, runs, others>>

\* Mutation of Reuse: whatever the source.
ReuseAny == current # 0

\* bootstrap_controller_sync_reuse
Reuse == current # 0 /\ updates[cur][current].src = Desired

\* Mutation of MayStart: a time-out does not matter.
MayStartAnyway == ~Reuse

\* The "when" of the task that starts an update.
MayStart == ~Reuse /\ (current = 0 \/ existing \in {"successful", "failed"})

Start ==
  /\ phase = "start"
  /\ \/ ~MayStart /\ Record(existing, current) /\ UNCHANGED <<controllerVars, faults>>
     \/ /\ MayStart /\ Succeeds /\ Launched(cur, source[cur])
        /\ current' = Len(updates[cur]) + 1
        /\ phase' = "await"
        /\ UNCHANGED <<source, content, pos, existing, results, used, finished>>
     \/ /\ MayStart /\ Fails /\ Record("error", 0)
        /\ Launched(cur, source[cur]) \/ UNCHANGED updates
        /\ UNCHANGED <<source, content>>
  /\ UNCHANGED <<try, ok, broken, runs, others>>

\* Mutation of Await: no time-out.
AwaitForever ==
  /\ phase = "await"
  /\ \E answer \in Answer \ {"active"} : Waited(current, answer) /\ Record(answer, current)
  /\ UNCHANGED <<controllerVars, try, ok, broken, runs, others>>

Await ==
  /\ phase = "await"
  /\ \E answer \in Answer : Waited(current, answer) /\ Record(answer, current)
  /\ UNCHANGED <<controllerVars, try, ok, broken, runs, others>>

Play == Apply \/ Align \/ Skip \/ Lookup \/ Wait \/ Start \/ Await

\* Bootstrap is run again.
Rerun ==
  /\ phase \in Ended /\ runs < MaxRuns
  /\ phase' = "apply" /\ pos' = 1 /\ try' = 1 /\ ok' = FALSE /\ broken' = FALSE
  /\ current' = 0 /\ existing' = "none"
  /\ results' = [p \in Project |-> "none"]
  /\ used' = [p \in Project |-> 0]
  /\ finished' = [p \in Project |-> 0]
  /\ runs' = runs + 1
  /\ UNCHANGED <<controllerVars, others, faults>>

-----------------------------------------------------------------------------
(* The Controller and its other users (external).                          *)

\* Updates of one project run in the order of their launch.
Oldest(p, i) == i \in Active(p) /\ \A j \in Active(p) : i <= j

UpdateSucceeds(p) ==
  \E i \in Active(p) :
    /\ Oldest(p, i)
    /\ updates' = [updates EXCEPT ![p][i].status = "successful"]
    /\ content' = [content EXCEPT ![p] = updates[p][i].src]
    /\ UNCHANGED <<source, playVars, others, faults>>

\* It may fail before or after the checkout, as when collections do not install.
UpdateFails(p) ==
  \E i \in Active(p) :
    /\ Oldest(p, i)
    /\ updates' = [updates EXCEPT ![p][i].status = "failed"]
    /\ \/ UNCHANGED content
       \/ content' = [content EXCEPT ![p] = updates[p][i].src]
    /\ UNCHANGED <<source, playVars, others, faults>>

OtherLaunch(p) ==
  /\ p \in Scm /\ source[p] # None
  /\ others < MaxOthers /\ others' = others + 1
  /\ Launched(p, source[p])
  /\ UNCHANGED <<source, content, playVars, faults>>

ControllerStep(p) == UpdateSucceeds(p) \/ UpdateFails(p) \/ OtherLaunch(p)

Stopped == phase \in Ended /\ runs = MaxRuns /\ UNCHANGED vars

Next == Play \/ Rerun \/ (\E p \in Project : ControllerStep(p)) \/ Stopped
Spec == Init /\ [][Next]_vars

\* The play keeps executing its tasks; the Controller need not finish an update.
FairSpec == Spec /\ WF_vars(Play)

-----------------------------------------------------------------------------
(* Properties.                                                             *)

\* "Fail with actionable project sync guidance": a play that goes on to the
\* job templates leaves every project with playbooks of the desired source,
\* whatever updates were running, failed or were launched by others.
PassedMeansSynced ==
  phase = "passed" =>
    \A i \in 1..Len(Projects) : Projects[i] \in Scm => content[Projects[i]] = Desired

\* README of the role: "an older successful revision does not override the
\* failure".  The success recorded for a project is that of an update of the
\* desired source that was not over when the project was looked up.
SuccessIsFresh ==
  \A p \in Project :
    results[p] = "successful" =>
      /\ used[p] > finished[p]
      /\ updates[p][used[p]].src = Desired
      /\ updates[p][used[p]].status = "successful"

\* "Wait for the current update instead of queuing another": the play launches
\* none while the update it found is active, not even after a time-out.
NoPileUp ==
  [][phase = "start" /\ phase' = "await" =>
       current = 0 \/ updates[cur][current].status # "active"]_vars

\* Each run ends, though updates may hang: every wait has a time-out.
SyncEnds == []<>(phase \in Ended)

\* "Project was not applied after 4 attempts": the play does not give up on a
\* project that an attempt of this loop has applied.
ExhaustedMeansNotApplied ==
  [][phase = "apply" /\ phase' = "failed" => ~ok]_vars
=============================================================================
