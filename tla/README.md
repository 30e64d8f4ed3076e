# Verification of infra.automation_development_office

This directory holds TLA+ models of the parts of the collection where the order
of steps, other actors or an earlier run decide what comes out: Ansible runs
against the Kubernetes API, the Operator Lifecycle Manager (OLM), EC2 and the
Automation Controller; the script that writes the files of an environment again
and again; the vulnerability dashboard and its viewer. TLC checks the models on
small instances, TLAPS proves the central results for all values of the
constants. `PROJECT.json` lists components, runs, mutants (changes of the
model that a run must notice), the map from definitions to source lines,
findings, hazards and theorems.

To repeat a run: `tlc -workers 2 -config CleanupRaces.cfg MCAbsentCleanup.tla`.
To check proofs: `tlapm AbsentCleanupProofs.tla`, and likewise
`NamespaceRoleProofs`, `OperatorUninstallProofs`, `OperatorRolloutProofs`,
`AmiCopyProofs`, `ProjectSyncProofs`, `EnvOverlayProofs` and `PostureProofs` (the
last two take some minutes).

## 1. Inventory

Paths are relative to `src/`. Most of the repository is roles that apply
manifests or generate files one after the other. State that somebody else can
change in between, or that a later run starts from, and decisions based on it,
are found in these components.

### 1.1 Modelled

**Selection filters** (`plugins/filter/ocp_absent_cleanup.py`). Pure functions:
is a namespace name valid, is acting on it refused, does a CSV name match a
token, which CSVs, InstallPlans, Deployments and Pods may be deleted. No state.
Called by the three roles below. Hard: the flags interact (half protected
`openshift-operators`, authorization with and without a name). Correct if every
object selected is in the namespace, named or covered by an explicit flag.

**`ocp_absent_cleanup`**. Deletes leftovers of operators and namespaces. State:
Ansible facts and registered results (`listed`, `sel`, `todo`, `snap`). For each
namespace: look up, refuse, list, select, delete by name, strip finalizers,
settle, finalize, wait, verify. It runs against a cluster that OLM, the
workload controllers and users change at will. Hard: deletes go by name after a
list; a finalize carries a stale body; failed calls read as empty answers; facts
outlive an item of the loop. Correct if it never acts outside what its flags
authorize, refuses before it has touched anything, writes nothing in check mode,
and ends.

**`ocp_namespace`**. Creates or deletes one namespace, waiting for a Terminating
one, with an optional advanced cleanup (the role above) before and after the
delete. Hard: the namespace may begin to terminate, disappear or return between
any two calls; the first advanced pass meets an Active namespace and can do
nothing. Correct if outcomes are truthful and a stuck namespace is cleared.

**`ocp_operator_subscription`**. `present`: remove stale Subscriptions, create an
OperatorGroup if none is there, subscribe. `absent`: delete the Subscription, the
operator's CSVs and its InstallPlans, then run `ocp_absent_cleanup`. Shares the
cluster with OLM, which resolves and installs meanwhile. Hard: an InstallPlan in
flight re-creates what was deleted; a play that stops half-way is repeated.

**`ocp_wait_operator`**. Three bounded waits: a CSV in phase Succeeded, a
Deployment, a ready replica. State: facts that live as long as the play. Hard:
the facts of one component are still set when the next one is awaited.

**`plugins/modules/ec2_ami_copy.py`**. Adopts an AMI with the given tags or copies
one, and may wait for it. State: none between runs but EC2's images. Hard: the
answer to CopyImage may be lost, the wait may time out, and the task is then run
again. Correct if there are never two copies and the report is true.

**Project synchronization of `bootstrap_controller`**
(`sync_controller_projects_before_templates.yml` and the three files it
includes). Applies each project with retries, aligns its source, and completes
one project update. State: facts, and in the Controller the projects with their
queues of updates. Hard: a source change starts an update by itself; the update
found may be of the old source; waits time out; others launch updates. Correct
if a bootstrap that goes on has the desired playbooks in place.

**Environment files** (`bootstrap_generate_env_vars`, with
`files/overlay_preflight_component_values.py`). The role removes the files of
components no longer chosen, writes a template where there is no file, runs the
script, and encrypts the vaults when asked to. The script merges the forms of a
preflight file into `vars_*.yml` and `vault_*.yml`: the cluster, the jobs with
files of their own, each component, and Quay's key in the end. State: the files,
and which vaults are encrypted; all of it is input to the next run. Hard: a run
may stop between the vars and the vault of a component; forms come with blank
fields, or with options switched off; jobs and components rewrite one another's
variables; an encrypted vault reads as an empty one. Correct if a repeated run
ends where an undisturbed one does, if secrets are neither lost nor readable,
and if nothing stays of an option that was switched off.

**Vulnerability posture** (`cve_analyzer`: `rhacs_report_analytics.py`,
`build_rhacs_vuln_dashboard.py`, `tasks/publish_rhacs_posture.yml`). A report of
RHACS becomes gauges for Prometheus and a Grafana dashboard whose panels filter
prepared slices by the viewer's dropdowns. State: the last report, the gauges,
the board in Grafana, the viewer's choice. Hard: sums are stored beside what they
sum; unique CVEs cannot be added up and are looked up under a key made of the
choice; tables are cut at a limit; a link must set every dropdown; Grafana may
reject a board whose gauges are already scraped. Correct if what is shown for any
choice is what the findings of the report say.

### 1.2 Not modelled

| Part | Why, or when |
|---|---|
| `bootstrap_controller`: publishing collections to Automation Hub, gateway sign-on | planned: skip-if-present, upload retries, token issue |
| `bootstrap_controller`: order of applying controller objects | planned: organizations, credentials, projects, templates |
| `bootstrap_flatten_vars`, `bootstrap_resolve_component`, `bootstrap_framework_defaults` | renaming and defaults of variables; no state survives the play |
| `bootstrap_generate_env_vars`: the tasks that collect the preflight file, contents of templates other than secrets, the copies under `components_env` and `component_config` | text without decisions that a later step reads |
| `cve_analyzer`: parsing of reports, HTML reports, operator and image update checks, tags of installed images; `acs_report` | text in, text out, or calls to registries whose answers are only printed |
| component roles (`ocp_acm`, `ocp_acs`, `ocp_quay`, `ocp_networking`, ...) | they call the modelled roles with constants; `ocp_networking` is an instance of OperatorRollout |
| cert-manager uninstall playbook | planned: uninstall, cleanup of two namespaces, their deletion |
| `rhel_patching`, `install_aap`, host roles | package and service tasks on one host, no second actor |
| `keycloak_login_events_exporter` | planned: poll thread with a cached token, threaded HTTP server |
| `devworkspace_status_exporter` | one thread, nothing kept between requests |
| scripts, CI, docs, dashboards | tooling and static content |

`roles/ocp_namespace/tasks/finalize_namespace.yml` is included by no task.

## 2. Modules

    CleanupSelection      the filters, as operators
      Cluster             namespaces and objects; API calls; other actors (external)
        AbsentCleanup     ocp_absent_cleanup as a process over Cluster
          NamespaceRole       ocp_namespace; uses AbsentCleanup as a subroutine
          OperatorUninstall   uninstall_operator.yml; uses AbsentCleanup likewise
          AbsentCleanupProofs
            NamespaceRoleProofs
            OperatorUninstallProofs
    OperatorRollout       install_operator.yml and ocp_wait_operator, many plays
      OperatorRolloutProofs
    AmiPromise            what tag_equality promises
      AmiCopy             ec2_ami_copy.py, refines AmiPromise
        AmiCopyProofs
    ProjectSync           project synchronization of bootstrap_controller
      ProjectSyncProofs
    OverlayRules          what the overlay script does with one field, as rules
      OverlayApps ... OverlayPlatforms ... OverlayServices ... OverlaySatellite
                          the rules of each component, one module after the other
        OverlayOpenShift  the cluster and the jobs with files of their own
          OverlayMerge    merge_component around the rules; host names
            EnvOverlay    the runs of the role, with stops, reruns, encryption
              EnvOverlayProofs
    PostureRows           findings, their classification, every rollup
      PostureBoard        dropdowns, filters, cards, trends
        PostureTables     tables, links, Detail, the layout
          Posture         report, build, publish or reject, a viewer
            PostureProofs
    MC*                   instances for TLC

**CleanupSelection.** `select_csvs`, `cleanup_refused`, ... have the names of the
Python functions. A CSV name is a sequence of parts (`<<"acm", "v1">>`), so
that `csv_name_matches` can tell a package from one that merely starts alike. Of
the mode the modules use only whether it is check, cleanup or neither (`Mode`).
The deny lists are the set `HardBlocked`, names the regular expression rejects
the set `MalformedName`.

**Cluster** (external). `spaces[n]` is a namespace's phase, finalizer and
resourceVersion; `objects` the set of CSVs, InstallPlans, Deployments and Pods,
one for each kind, namespace and name (`SameKey`; `ClusterAssumption` says it of
the populations a run starts from).
Actions exist for users who delete and create namespaces, the namespace
controller, OLM (create, copy, release, deploy), ReplicaSets and the garbage
collector. `Actor` selects who acts in a run, `Contested` which namespaces users
touch.

**AbsentCleanup.** `pc` is the task at hand, one action per API call: `Gate`,
`Lookup`, `List`, `Select`, `Delete`, `Strip`, `Relookup` (settle), `PutFinalize`,
`WaitGone`, `Verify`. Between any two another actor may step. Tasks with
`failed_when: false` have a failing alternative that goes on with an empty
answer. `removed`, `finalized` and `missed` are history. A `Finalized` PUT with
a stale resourceVersion is a conflict and changes nothing.

**NamespaceRole** and **OperatorUninstall** extend AbsentCleanup: while `stage` is
at the included role its actions run, with the variables the caller passes
(`AdvancedConfig`, `OwnSelection`). In OperatorUninstall a failed play may be run
again, and OLM resolves the Subscription as long as it exists.

**OperatorRollout.** Each play walks through its components; per component the
tasks of the two roles. `substring[p]` and `picked[p]` are facts of the play and
keep their values. OLM installs a subscribed component only with exactly one
OperatorGroup in the namespace.

**AmiCopy.** `Search`, `Describe`, `Copy`, `Poll` are the four API calls of
`copy_image`. A call that fails may have had its effect (CopyImage). `Rerun`
starts the task again with the same tags and possibly other options. One run at
a time, as the repository uses it, and EC2's answers are taken to be current.

**ProjectSync.** `Apply`, `Align`, `Lookup`, `Wait`, `Start`, `Await` are the tasks
with a request; a failing request may have had its effect (the source mentions
gateway 504s). Loop items whose `when` is false are skipped. Updates of one
project run in order of launch, each with the source captured at launch; the
current update of a project is one that is active. Users may launch updates but
do not change sources during a run.

**The overlay.** The script decides field by field, some five hundred times, in a
handful of ways: the first of several form fields that has a value, under one or
more names; a flag; a default; a secret into the vault and a reference to it into
the vars; a name dropped. `OverlayRules` has one constructor for each (`Copy`,
`Flag`, `Default`, `Stash`, `Consume`, `Keep`, `Drop`, ...), and `RunRules`
applies a sequence of them to the two files in hand, in order. `StashQuietly` is a
`Stash` where the code forgets `vault_data_changed`. The operators of the modules
above it (`Grafana`, `Rhbk`, `AapLicense`, `SatelliteOidc`, ...) are the branches of
`merge_component` as sequences of rules. A value is a pair: `<<"text", v>>` stands
as it is, `<<"ref", k>>` is the reference to vault entry `k`. Form values are named
after their field, so that every value in a file tells where it came from: a secret
is a value of that name (`Secrets`), wherever a rule takes it. What is asked before
AAP is installed has names with `pre_`. `f ++ g` is `f` with the entries of `g` put
over it, the script's assignment to a key.

**EnvOverlay.** `RemoveStale` and `WriteTemplates` are the role before the script;
`WriteVars`, `WriteVault` and `WriteSecrets` the writes of one component or job, in
the order of `Work`; `Refuse` is the script's `SystemExit`; `Encrypt` the end of the
role. Where the script saves the files of one task in several writes (sign-on and the
users' vaults beside the cluster's, 4925-4960, 5264-5273, 5340, 5399-5444), these are
one step: the next run writes all of them again from the same form. `Stop` may come
between any two steps, `Rerun` starts over with the same preflight file, `Ask` with
another one. `goal` is what an undisturbed run would have left
(`Generated`), `base` the files before it; `blind` remembers that a run read an
encrypted vault as an empty one, `torn` that a stopped run was never repeated.
`RequestAssumption` says where a preflight file holds its secrets: in fields whose
name `is_secret_key` recognizes, in the three whose name it does not (`Unmarked`:
AAP's SSH key, OpenShift's kubeconfig and its list of users), among what is asked
for AAP, in six of the other sections, and inside the blocks of Grafana's form and of
MinIO's (`Blocks`: `email.password`, `oidc.client_secret`, ...), of whose names
`is_secret_key` sees the block's only. It also says that no component one selects
has a name under which Admin HTPasswd keeps the users (`admin_htpasswd`, which the
role adds itself if the cluster's option is on and OpenShift is selected, `ClusterJob`,
and the vault `htpass_admin`), and that a form of Keycloak has no field of the names
its host and the issuer are derived under. `Sends(r, c)` says that the request has a
form the merge takes variables from: a component that is selected and has none is
skipped. `Open(f)` are the secrets the code does write to the
vars: Satellite's activation key (`KeyNames`), and what the blocks of a form hold.

**Posture.** A finding is a record. It has two ages: `age`, the AgeDays of the report
or else what `finalize_ages` makes of it (`Aged`), by which Detail and the dropdown
go; and `seen`, the days from its discovery to the date of the report, by which the
tables of CVEs by age do (`Oldest`). The rows of zeros the analytics add for a source
without findings are left out, as nothing sums or lists them. A rollup
(`OwnershipRollup`, `FamilyRollup`, `UniqueRollup`, ...) is the set of rows the
analytics store for it. `Card`, `UniqueCard`, `Cells`, `Detail` and `Trend` are what
Grafana shows of them for a board and a choice; a choice gives each dropdown the set
of options picked, the empty set being All. `Follow` is a click on a link. `Pull`,
`Build`, `Refuse`, `Publish`, `Reject` are the job, `Choose` and `Leave` the viewer.
`Reserved` are the two words the builder keeps for itself, All and unknown: it drops
them where a report uses them as names, and `ReportsAreNamed` assumes reports without
them. `RolledUp` is a table before it is cut, `Content` what is published of it.
`FamiliesAssumption` says of the file of families that OpenShift comes first and that
there are three owners (`image_families.yaml`), `AlphabetAssumption` that names are
not empty, `LimitsAssumption` that limits are numbers.

Abstracted everywhere: names, messages, manifests, credentials, the length of
pauses and delays. Polls and retries are counted.

## 3. Runs

| Run | What it asks, and what the bounds make happen |
|---|---|
| `cleanup_guards` | Combinations of the sweep, authorization and finalize flags over lists of an ordinary, the shared, a protected and a malformed namespace, one of them deleted and re-created by users (2 revisions), one failing call, 2 polls: a refusal has touched nothing, shared operators stay, only a Terminating namespace is finalized, a sweep leaves nothing it should take, every run ends. |
| `cleanup_races` | Four calls real callers make, OLM, copies and controllers acting anywhere, one failing call: nothing but the selection is touched, copies survive, deletions stay authorized. |
| `cleanup_shared_finalize` | Violation: a finalize run over `openshift-operators` (finding 1). |
| `namespace_races` | Create and delete on a contested namespace in every phase, on a quiet one, on `openshift-operators` and a malformed name, with and without advanced cleanup, one failing call: a run acts within its request, success tells the truth, a stuck namespace is cleared. |
| `uninstall_races` | Uninstall with OLM between any two calls, in an ordinary and in the shared namespace, one failing call, the play run twice; beside the operator's InstallPlan one of an operator whose name begins alike, or of both, executed or with only the other one's CSV left to create: others spared, the operator stays away, repetition converges. |
| `rollout_plays` | Two plays at once, one with two operators, one with a third, all in one namespace and each with an OperatorGroup of its own, with or without OLM's; any task may fail, each play runs at most twice: each adds one group at most and none beside OLM's, no wait passes early, every play ends and OLM is kept from installing only where both have brought a group. |
| `rollout_stale_fact` | Violation: two operators in one play (finding 2). |
| `ami_reruns` | Three runs with every combination of options, one failing call, waits of one and two attempts, four image ids, a foreign image with a tag too many or too few: truthful report, runs end, AmiPromise is implemented. |
| `sync_sources` | Two bootstraps over a git and a manual project, from every state an earlier play may leave, two tries, two failing requests, two updates by others. |
| `sync_retry` | Violation: success on the first try, failure on the fourth (finding 3). |
| `env_overlay` | 27 environments: each component alone with the fields its rules read, Quay with MinIO, the cluster with all its options, sign-on with Keycloak. Two preflight files one after the other, three for Quay; options on and off, blank, short, public-only and host-less forms, and for what also installs outside OpenShift forms that say only what that needs; one stop anywhere; Grafana and Quay also encrypted. Grafana's and MinIO's blocks hold secrets. |
| `posture` | Six reports (two clusters with shared CVEs and ages on both sides of every bound, one finding with its two ages on either side of one; missing cells; the data.json fallback; no namespace anywhere; one CVE from both sources; none), four launches (production for one cluster, hybrid, lite, a custom uid), published or rejected, up to two options in up to two dropdowns; limits of 2 to 6 rows so that tables are cut. |

Why the bounds suffice. The models treat namespaces, images and projects alike, and
each property speaks of one or of a pair. Two namespaces (one contested) show what one
item of a loop leaves for the next; two revisions allow a namespace to vanish and come
back once during a finalize; one fault, combined with a second run, reaches each
half-done state. Two failing requests with two tries exhaust the retries of a project.
A failed AMI run followed by a timed-out wait takes three runs. For the files of an
environment what counts is the pair of an earlier and a later preflight file; one stop
falls between any two steps of either, and a third file only tells more where the
second run was never repeated (Quay). Components share nothing but what is named in
`other`, so each is an environment of its own, and those that do share are put
together. The rows of a dashboard are filtered one by one, each dropdown for itself;
two dropdowns show what one pick does to another, two options the pipes and keys.
Where a bound might hide something (any number of configurations, objects, reruns,
faults), the theorems of section 5 hold without it.

Symmetry is not used; the runs are small enough. Deadlock is checked in every
run but `env_overlay`, which stops when the last preflight file is done; elsewhere
a `Stopped` step stands for a run that is over.

What the properties leave out, and why, is said in the modules by name: `BroughtBack`
(a CSV the strip loop creates anew after its deletion); `ForgottenSecrets` and
`NotKept` (secrets the code does lose, section 6), `SharedByPlatforms` (variables of
Grafana, GitLab and Keycloak that a standalone and an OpenShift install both use, each
with the field of the form that gives it its value on OpenShift: left unsaid, the
variable keeps what it had), `Certificate`, `Settled` (one variable that follows one
run later), `blind` and `torn`; `Open` (secrets that are in the vars, section 6);
`Unplaced` and `Astray` (findings without a namespace, or with ages in two buckets,
section 6); `Raced` (OperatorGroups of two plays); `Whole` (tables that are not cut),
`PicksAreClear` and `Placeable` (section 6). The "Namespace matches" box stays at
`.*`.

## 4. Fairness

Weak fairness of the modelled process only: Ansible goes on with its next task
(`FairSpec`, `NamespaceFairSpec`, `UninstallFairSpec`). Every wait has a bound, so
runs end though the cluster, EC2 or the Controller never finishes anything:
`Terminates`, `RunsEnd` and `SyncEnds` use nothing else. Two properties say that
something gets done, and need the environment:
`StuckNamespaceCleared` assumes a namespace controller that keeps working,
`SubscribedInstalls` an OLM that does (`OlmFairSpec`). `UninstallConverges` counts
on more runs than faults. No strong fairness is used. EnvOverlay and Posture state
no fairness: a run that stopped need not be repeated, a viewer need not come, and
their properties are about every state that is reached.

## 5. Proofs

**AbsentCleanupProofs** (assumes the named assumptions of CleanupSelection,
Cluster and AbsentCleanup). `TypeCorrect` first. The safety properties are not
inductive: that an object deleted is in scope depends on what was selected,
which depends on refusals and checks passed earlier. `Scope` says this for each
`pc`:

- `TargetInScope`: past the gate every requested namespace is allowed, past the
  refusals the flags of this run are consistent, destructive tasks are reached
  in cleanup mode only;
- `SelectionInScope`: by kind and *name*, the selections are covered by the flags.
  Names, because deletes go by name and the object deleted may not be the one
  listed;
- `HistoryInScope`: the properties themselves;
- `SnapshotHonest`: between the second lookup and the finalize PUT, an unchanged
  resourceVersion means that the phase is the one seen (or the namespace is
  gone). Without it nothing rules out finalizing a namespace re-created since.

From it: `RemovalsStayAuthorized`, `FinalizesOnlyWhileTerminating`,
`RefusalsAreClean`, and `CheckModeNeverWrites` as an action property.

What an object deleted under a listed name *is* needs a second invariant,
`Identity`: an InstallPlan found under a listed or selected key names the CSVs that
the listed one named (`PlansStand`, which rests on one object per key, and on a play
that lists only when OLM makes no more plans); lists and selections hold what the
flags ask for (`ListsPure`, `SelectionPure`); what the loop is about to delete was
selected (`LoopSelected`); and the plans deleted named CSVs of the token alone
(`PlansRemovedPure`). Hence `SharedOperatorsStayIntact`
and the action properties `CopiesStay` and `OnlySelectedEverTouched`.

**NamespaceRoleProofs**. The included cleanup runs up to twice, and its history is
of the whole role, so `Scope` cannot be cited: a refusal of the second pass comes
after the deletions of the first. `Guarded` is what a pass may take over from the
one before. `RoleScope` adds `StageInScope`, which task a request can reach and that
the cleanup is given the flags `main.yml` passes; `WithinRequest`; and
`CreateUndisturbed`, what a create knows of its namespace when nobody else touches
it. Hence `NamespaceTypeCorrect`, `NamespaceActsWithinRequest`,
`NamespaceRemovalsAuthorized`, and `NamespaceSuccessTellsTruth` as an action property.

**OperatorUninstallProofs**. `UninstallScope` is the invariant of the cleanup's gate
carried through a play that may fail and start again (`GateInScope`), with what
`doomed` holds in between (`PlayInScope`); it gives `UninstallSpares`.
`UninstallIsFinal`, that the operator is gone for good, follows the order of the play
in `Clearing`. `ClusterSettled`: every object is in a namespace nobody has finalized,
and an InstallPlan of this operator is of no other, or has nothing of it left to
create. `PlansGone`: with the Subscription gone and all calls answered, each plan that
could still bring a CSV is listed, selected and deleted. `CsvsGone`: from then on no
CSV of the operator is created, so that the list of the gate has them all. It assumes
`OwnPlansOnly`, the clusters the property speaks of: no InstallPlan that has yet to
create this operator's CSV serves another one or is held by a finalizer, and the API
refuses a CSV of metadata alone (see section 6 for what happens otherwise). The
instance of `uninstall_races` is one of them, which MCOperatorUninstall assumes for
TLC to evaluate.

**AmiCopyProofs** (assumes `AmiAssumption`). `Promised` adds to types and
`NoSecondCopy`: `Tagged`, every image of the caller bears the tags searched for
(CopyImage carries them, reruns keep them); `Cleared`, from a search that found
nothing until CopyImage no copy lives; `Accounted`, what a run has to report at
each step. Hence `AmiTypeCorrect`, `NeverTwoCopies`, `ReportsTruly`, and
`ImplementsPromise`: every step of AmiCopy is a step of AmiPromise or a stutter.

**ProjectSyncProofs** (assumes `ProjectSyncAssumption`; it says that
`controller_projects` names no project twice, as the results are kept by name).
The properties speak of what the play recorded, and become true or false through
updates that run while it is elsewhere. `Synced` therefore joins two halves:

- `Queues`, of every project at any time: updates end in the order of launch; once
  one is of the desired source, the project and all later ones are; and once one
  of the desired source has succeeded, nothing takes the content away again. This
  uses that nobody changes a source during a run but the play;
- the books of the play: `Aligned`, which sources are the desired ones after each
  loop item; `Positions`, the update at hand was not over at the lookup, and an
  end that was seen is what became of it; `Unrecorded` and `Recorded`, what the
  results already tell; `Verdict`.

Environment steps only extend queues (`Grows`), and `RestKeeps` shows once and for
all that the books survive that. Hence `SyncTypeCorrect`, `PassedIsSynced`,
`SuccessesAreFresh`, and `NeverPilesUp` as an action property.

**OperatorRolloutProofs** (assumes `RolloutAssumption`). `RolloutTypeCorrect` and
`GroupsAreBounded` hold for any plays, the last theorem for what the repository
guarantees:

- `GroupsAreBounded`: any number of plays may install into one namespace at once, each
  acting on a list that may be out of date. Not inductive as it stands, since what a
  play will create was decided a step before. `Racers(n)` are the plays that hold an
  empty list and are about to create; once there is a group nobody joins them, and who
  creates leaves. `Bounded`: groups and racers together are no more than the plays that
  install into the namespace, and where OLM has brought its own there is no racer. That
  a namespace of one play has one group at most, however often it fails and is
  repeated, is the corollary `OneGroupPerPlay`.
- `WaitsPassInTime` assumes `NamesApart`: no operator's name is part of another's.
  Then what a wait looks for can only be its first component's CSV: `FirstKept`
  says that the substring kept in the facts is the first component's, `PickKept`
  that the CSV picked was Succeeded when it was picked and its Deployment is that
  one's.

**PostureProofs** (assumes `ReportsAreNamed`, `BoardsHaveUids` and what is said of
families, alphabet and limits). A cluster or namespace called All or unknown would be
taken for the dropdown's All: the builder drops these words itself
(`build_rhacs_vuln_dashboard.py:1352`, `1362`, `1408`). Each board has a uid, without
which the role stops (`publish_rhacs_posture.yml:61`).

- `PostureScope` is inductive, and little more than where things come from: a
  board, built or published, was made of one report and for clusters it knows
  (`MadeOfReport`); gauges are those of some report; a viewer has picked what this
  board offers, and nothing while there is a new one. The properties are then
  facts about operators, for any board and choice of that kind.
- `UniqueCardExact`. The card looks a count up under a key made of the choice. For
  each form of key the analytics store, the findings counted under it are those
  meant by the choice (`Matching`): All is the union of what the builder stores for
  each cluster, one option stands for itself, and the rest is n/a.
- `CardsExact`. A card adds up the values of the rows that pass the dropdowns. The
  rows of `OwnershipRollup` that are shown stand for disjoint groups of findings,
  one per cluster, namespace, age and owner, and each finding picked belongs to the
  group of one row shown. So it shows how many there are: a sum of counts of the
  fibres of a function (`SumOfFibres`). The analytics store rows for All beside
  those for one owner, and the proof shows that no card adds both.
- `PostureTypeCorrect` and `TrendMatchesCards`: the same of the gauges. What Grafana
  selects of the gauges of the whole report are the fibres of the clusters and
  namespaces picked, the rest is for neither.
- `TablesExact` says the same of tables, for every one that was not cut (`Whole`).
  The rows of a table are made before anyone picks, of the findings it is about, one
  for each value of its columns (`MadeBy`, `SummaryRows`). Findings with the same
  columns pass the same filters and come into the same cell (`MatesPass`), for
  `PassesMeant` says of a row what `PassedBy` says of its findings. So a cell adds up
  the counts of disjoint groups that together are the findings picked (`TableCounts`,
  again by `SumOfFibres`). That each rollup has such rows is shown one by one
  (`RollupsAreSummaries`), as is what each table filters and groups by (`TablesAre`).
  Tables of CVEs count each CVE once per row. A cell that adds up rows of several
  groups shows no fewer CVEs than there are (`SumOfImages`), and one of Simple view
  is a single row if one source is picked (`OneRow`). The component picked is found
  although it is matched as a pattern (`PickMatches`); that the pattern finds no
  other name is what `PicksAreClear` supposes.
- `ClicksExact`. What a link sets are values its findings have (`ClickOpens`, table by
  table), and the dropdowns it does not set are at All then (`LinkOpens`). Detail
  shows the finding or the first line of the report with its key, which is as serious
  and in the same bucket of ages, and whose owner is the same since the owner depends
  on image and namespace only (`FirstIsKept`, `SameOwner`). Of the tables of CVEs by
  age, each CVE of the bucket clicked has an oldest finding, and that one is listed
  (`AgeClickLists`). That finding is the oldest by the day it was discovered, and
  Detail goes by the other age; `Unplaced` and `Astray` are the findings for which the
  two do not lead to the same row, and the theorem says that there are no others.
- `PanelsNeverOverlap` is about every board, reachable or not: the panels at fixed
  places fill bands, one under the other (`Box`, `Stacked`), and the rest is put under
  the lowest of those there, which exists because they are finitely many
  (`GreatestNumber`).

The module begins with sums. `SumFunctionOnSet` is a fold over the subsets of a set;
that the recursion has a solution (`SumsUnfold`) and what it adds up to
(`SumOfFibres`) are proved by induction on the size of the subset. The theorems of the
library for that have an operator as a parameter; `SetInduction` has a set of numbers
instead, and follows from the order of the naturals being well-founded.

**EnvOverlayProofs** (assumes `RequestAssumption` and `BoundsAssumption`, that the
bounds on stops and requests are numbers). `SecretsStay` is about all environments,
all files sent for them and everything five hundred rules may do with them, in four
steps:

- Reading. A value is `Fine` if it is no secret, a file `Clean` if all its values are.
  `Shown` says from where a rule may copy into the vars: from a form's field that is
  not `Unmarked`, as `Public` refuses the marked ones; from names asked for that are
  no secrets; from the vars themselves. `LookIsFine` is the only place that uses what
  a form may hold (`Fits`). A block passes whole, so secrets are counted file by file:
  a vars file may show what the blocks of its own component's form hold (`Open`), and
  nothing else (`Hides`). `Veiled` are the fields of secrets nothing in the name tells
  of, which no rule may copy.
- Rules. A `Safe` rule takes what it writes to the vars from such places. Whatever
  vault and form, applying one keeps the vars clean (`ApplyIsClean`, kind by kind),
  and so does running a sequence (`RunRulesIsClean`): `RunRules` is a recursion over
  the positions of the sequence, which the proof unfolds first (`AfterUnfolds`).
- That the rules are safe. One lemma for each component and job (`RhbkIsSafe`,
  `AapIsSafe`, `OpenShiftIsSafe`, ...) goes through its branches. `RulesAreSafe` and
  `JobRulesAreSafe` collect them; only the rules of Satellite may show the key, and
  only those of Grafana and MinIO what their blocks hold.
- The run. `OverlayInv`: the files at rest show no secret (`GoodFiles`); files in
  hand are there only between the two writes of a step, and they show none that the
  step has not (`GoodHand`), although the script has read them before the write of
  another file; `request` is one of those sent. Each action keeps it, the writes by
  what was said of rules, `RemoveStale` and the templates as they write no value of a
  form. Stops come anywhere between, and so need nothing of their own.

`TypeCorrect` follows from the same invariant. `OneListForAll` is about a sequence of
writes, and about what comes first in it:

- The order. `Work` has the cluster's step first, and only if OpenShift is selected;
  the rest of it are tasks with other vaults (`WorkIsOfTasks`, `MergedAreMerges`).
- The list. Among the rules of OpenShift one stores the list of users or drops it
  (`UsersRuleIsLast`), and those after it leave vaults alone. So the vault in hand
  has a list if and only if the option is on, whatever the rules before did
  (`LastWordStays`, `ListInHand`). `WriteVars` puts the same list into the two other
  vaults before `WriteVault` writes this one.
- Nothing else. No other step writes the three vaults, no template brings users, and
  `RemoveStale` drops the two vaults of an option that is gone (`StaleUsersGone`).
- The run. `UsersInv`: while it works, the vaults agree or the cluster's step is still
  at hand; between the writes of that step the files in hand hold the list the other
  vaults have already. A stop in between leaves them apart, which the property allows:
  it is about runs that end, and the next run starts with the cluster's step again.

`IssuerForAll` is about two of Keycloak's vars, the host (`Host`) and the issuer
(`Iss`), and about which of several rules is the last to write either:

- What holds of the two. `Told`: the host is never blank, and where there is none
  there is no issuer. `Agree`: they are the same. With `Told` alone a copy of the host
  to the issuer makes them agree (`RuleTells`), also where there is no host and
  the copy does nothing.
- Rules. Those of a list that `AllTell`s keep `Told`; one that `Settles` has the copy,
  and after it only rules that write neither var or both (`Keeps`), so that the two
  agree in the end whatever the vars were (`RunRulesTells`). The rules of Keycloak on
  OpenShift settle (`RhbkSettles`), the standalone ones tell, those of OpenShift's
  sign-on, which write both the same, keep (`OauthRhbkKeeps`).
- Nothing else writes them: a step writes the vars of its own task, or of Keycloak if
  it is the sign-on's, and Keycloak's step is among the `Work` if its form is sent
  (`RhbkIsAtWork`).
- The run. `IssuerInv`: `Told` always, also after stops and standalone runs; while it
  works the two agree or Keycloak's step is still to come, and when it is done they
  agree.

`NothingLeftForAll` is about where what only a standalone install is told (`Away`) may
be, of Grafana, GitLab and Keycloak (`Movers`), and about the rules that take it away:

- The places. `Carriers` are the variables of a component that may hold it or refer to
  it, `Keys` the entries of its vault that may. A file is `PlainFile` if no other
  variable and no other entry does. A rule is `Tame` if it takes what is told to no
  others, whatever it finds (`ApplyIsApart`, kind by kind); all the rules of the three
  are, on either platform (`GrafanaStands`, `GitlabStands`, `RhbkStands`).
- The rules that move it. A form of OpenShift drops most of the places or writes them
  from its own fields. `Leads` says of a sequence of rules that it takes a file plain
  outside some places to one plain outside others; `LeadsJoin` puts sequences
  together. From all places the rules lead to `LeftNames` and `LeftKeys`
  (`GrafanaMoves`, `GitlabMoves`, `RhbkMoves`): the certificate, the issuer, and the
  host, administrator and password the form says nothing of. A copy clears its
  variables only if its first source is given (`CopyMoves`), which is why a field left
  unsaid keeps what was there. That the password's entry is no place any more needs the
  merge to have marked the vault as changed, as it is not written otherwise (`Apart`).
- The rest of a run. The sign-on's merge is of Keycloak's files and stays within either
  set of places (`OauthIsTame`); the second half, `RemoveStale` and the templates write
  no value of a standalone form (`SecondHalfIsPlain`, `CleanedIsPlain`,
  `TemplatedIsPlain`).
- The run. `LeftInv`: the files are always plain outside `Carriers` and `Keys`, in the
  middle of a run and after stops too. Unless an encrypted file was read as an empty
  one (`blind`), for each component whose OpenShift form is sent: its step is still to
  come, or the files are plain outside what that form leaves. Between the two writes
  of its step the vars are already, the vault in hand is, and the vault at rest is if
  the merge did not change it (`LeftRead`).
- The issuer is a place no rule of the component clears, since the sign-on may write it
  last. That it is the host then is `IssuerForAll`, and the host's place is cleared
  if the form says it (`LeftImplies`).

Some theorems state what no run repeats, since they hold for all constants:
`CheckModeReadOnly`, `NoSecondCopy`, `SuccessIsFresh`, `PostureScope`, that
`RemovalsAuthorized` holds of ocp_namespace too, and the types of AbsentCleanup,
OperatorUninstall, AmiCopy, ProjectSync and OperatorRollout.

Model-checked only:

- liveness, which is out of the prover's reach: `Terminates`, `RunsEnd`, `SyncEnds`,
  `StuckNamespaceCleared`, `UninstallConverges`, `SubscribedInstalls`;
- of EnvOverlay what relates the outcomes of two sequences of rules, or the vars and
  the vault one leaves: that they converge (`RerunConverges`,
  `SendingAgainChangesNothing`), and that a reference written by one rule finds the
  entry another one stored (`RefsBacked`, `SecretsSurvive`).

## 6. Findings

Each is a run TLC finds violated.

1. `cleanup_shared_finalize`. The filter's comment says of `openshift-operators`
   that matched CSV cleanup is allowed and namespace deletion is not
   (`plugins/filter/ocp_absent_cleanup.py:67`). `cleanup_refused` does not look at
   `finalize`: a run with `finalize` alone passes, and completes the deletion of
   the namespace if somebody has started it.
2. `rollout_stale_fact`. `ocp_wait_operator` stores its resolved substring in the
   fact it reads as first input. In `ocp_networking` the wait for the second
   operator looks for the first one's name and passes on OLM's copy of its CSV.
3. `sync_retry`. "Apply one project until it succeeds" is a looped
   `include_tasks` whose `when` is evaluated for all items before the first file
   runs. A project applied on the first try is applied three times more, and
   if the last one fails bootstrap ends with "Project was not applied".

Smaller disagreements, seen while reading, without a run of their own:

- A lookup that fails reads as absence (`failed_when: false`,
  `cleanup_one_namespace.yml:36` and 405): `fail_if_present` is to "fail when a targeted
  namespace still exists after cleanup" (`ocp_absent_cleanup/defaults/main.yml:32`), and a
  run passes over one whose lookup failed; `ocp_namespace` can report one as gone that
  exists. The properties on outcomes therefore assume `faults = 0`; those on what is
  touched hold with failing calls.
- The overlay writes secrets to readable vars files where they are inside a block of a
  form. `is_secret_key` looks at the names of the form's own fields
  (`overlay_preflight_component_values.py:232`); a block like Grafana's `email`,
  `database` or `oidc`, its list of `datasources`, or MinIO's `oidc` is copied to the
  vars with the password, client secret or token inside (1183, 1198, 1374-1391,
  2317-2320; the data sources' token also moves to the vault in the list made of them,
  1340, while the form's own list stays beside it). A task is called "Ignore plaintext
  preflight secrets" (`bootstrap_generate_playbook_repo/tasks/main.yml:441`), and a
  test wants none in vars files (`test_cve_analyzer_bootstrap_wiring.py:179`).
  `SecretsStayInVaults` is about all other secrets, and about these in the files of
  other components.
- "Confirm namespace is Active after create" (`ocp_namespace/tasks/main.yml:112`)
  also accepts a namespace that has disappeared; that success means Active is
  asked of namespaces nobody else touches.
- `uninstall_operator.yml:3` wants Installed Operators to clear. An InstallPlan that
  names another operator too is rightly not deleted; if it is still executing it
  creates the CSV after the uninstall has succeeded. `UninstallFinal` is checked without
  such plans.
- "OLM allows only one OperatorGroup per namespace ... create only when none exist"
  (`install_operator.yml:29`): listing and creating are two calls, and the group is named
  after the operator. Two plays that install into one namespace at once may both create
  one, with which OLM installs neither. `GroupsByPlays` says that this is all that can
  happen.
- `ocp_absent_cleanup/defaults/main.yml:18` speaks of a substring; the filter wants
  the token to be the whole name, or to be followed by a dot.
- `ec2_ami_copy` documents tags that match exactly; the filters admit images with
  more tags. `wait_timeout` gives one attempt per 15 s, the first at once, so the
  wait lasts up to 15 s less, and below 30 s there is no wait at all.
- The overlay script (`overlay_preflight_component_values.py`) forgets to mark the
  vault as changed for dev_hub's GitLab token and MinIO's client secret (2009-2090,
  2342-2345): unless another secret comes along the vars refer to nothing.
- A blank administrator password replaces AAP's stored one, and a form of Quay
  without passwords replaces the stored ones by the lab's default.
- The bind credential of LDAP sign-on is lost with the file the role takes for a
  stale one, and comes back only with the form.
- `tls_crt` and `tls_key` of a manual TLS mode stay when another mode is chosen.
- "OpenShift installs must not carry RHEL/standalone install fields" (380): of an
  install that moves from a host of its own to OpenShift, with a form that gives no
  host name, password or (Keycloak) user, the host name and the reference to the
  password stay those of the standalone install, and Keycloak's user is read from
  `standalone_admin_user` whatever the platform (2544-2557; Grafana asks first,
  1626-1640).
- An encrypted vault is read as an empty one (`load_yaml`, 253): what the new form
  does not hold is gone. The role decrypts nothing before.
- On a board whose findings all lack a namespace, the cards count none under All
  namespaces (`OrUnknown`, a strict filter) and the tables list every one
  (`namespace_filter`, 716; `FILTER_ALL`, 1412).
- Simple view adds up one row per source: with both sources picked, a CVE that both
  report for an image counts twice.
- Several components picked are matched as `^first|...|last$`, without brackets
  (`build_rhacs_vuln_dashboard.py:888`): names that begin like the first or end like
  the last are shown too.
- The namespace dropdown also offers names of clusters (3563), and All leaves out
  findings without a namespace (1403).
- The tables of CVEs by age count findings of OpenShift's images that have no
  namespace (1596), but a click on them opens Detail under All namespaces, which
  leaves those out. `ClickListsCounted` compares the counts but for them.
- A finding has two ages. The tables of CVEs by age go by the days from `discovered` to
  the date of the report (`rhacs_report_analytics.py:1611`), Detail and the dropdown by
  AgeDays, which the parser computed when it ran and rounded
  (`rhacs_report_parser.py:1149`), or took from the day of publication. Where the two fall
  on either side of a bound, a click on a row does not list a CVE the row counts.
  `ClickListsCounted` leaves out such findings (`Astray`).
- A hybrid board for some clusters goes back to the history of all of them when
  nothing is picked (1511).
- The card of unique CVEs reads n/a for All clusters when a source has no findings
  in one of them.
- On tables of images the Component filter is compared with repositories, while the
  dropdown offers labels.
- Detail keeps one row of a CVE for each age bucket; buckets end at 14 days, the
  first option of Finding age at 15.

## 7. Plan

Order of importance; done:

1. Cleanup: CleanupSelection, Cluster, AbsentCleanup, its proofs.
2. Its callers: NamespaceRole, OperatorUninstall.
3. Installation: OperatorRollout and its proofs.
4. AmiPromise, AmiCopy with its refinement and proofs; ProjectSync and its proofs.
5. Environment files: the rules of every component, EnvOverlay.
6. Vulnerability posture: PostureRows to Posture.
   Proofs of 2 (NamespaceRoleProofs, OperatorUninstallProofs), of every property of 6
   (PostureProofs), and of 5 what no file may show, the list of users, the issuer of the
   cluster's sign-on and what is left of a standalone install (EnvOverlayProofs).

Left:

7. Hub publishing (upload, skip, retry, token) and the order of controller objects;
   the cert-manager uninstall playbook as a composition of OperatorUninstall,
   AbsentCleanup and NamespaceRole; the login events exporter (poll thread, token
   cache, readers) against "the last complete poll".
8. Abstract specifications: cleanup as one atomic sweep per namespace; project
   sync as "content becomes desired, then passes".
9. Proofs: of EnvOverlay that references are backed (`RefsBacked`), with the entries a
   sequence of rules stores beside the references it writes; that a run sent again
   changes nothing needs the same of pairs of files, and stays with TLC until then.
