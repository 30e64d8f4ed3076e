--------------------------- MODULE OperatorRollout ---------------------------
(***************************************************************************)
(* Installing operators: plays that, component by component, run           *)
(* ocp_operator_subscription with state=present and then                   *)
(* ocp_wait_operator.  Several plays may run at once (job templates of the *)
(* controller) against one OLM.  set_fact values outlive the role that     *)
(* made them: they belong to the play.                                     *)
(***************************************************************************)
EXTENDS Naturals, Sequences, FiniteSets

CONSTANTS
  Component,     \* operators; a component stands for its package and its CSV
  Space,         \* namespaces
  Play,          \* ansible-playbook processes
  Order,         \* Order[p]: the components play p installs, in sequence
  SpaceOf,       \* SpaceOf[c]: operator_subscription_namespace
  Grouped,       \* components whose caller names an OperatorGroup
  Stale,         \* Stale[c]: Subscriptions listed as operator_subscription_remove_stale
  Mentions,      \* Mentions[c]: CSVs and Deployments whose name contains c's package
  Patterned,     \* components whose caller sets operator_deployment_pattern
  AllNamespaces, \* components OLM copies into every namespace
  Polls,         \* retries of each of the three waits
  MaxRuns,       \* bound on the runs of one play
  None           \* no component: an unset fact, or OLM's own OperatorGroup

ASSUME RolloutAssumption ==
  /\ IsFiniteSet(Component)
  /\ IsFiniteSet(Play)
  /\ Order \in [Play -> Seq(Component)]
  /\ SpaceOf \in [Component -> Space]
  /\ Grouped \subseteq Component
  /\ Stale \in [Component -> SUBSET Component]
  /\ Mentions \in [Component -> SUBSET Component]
  /\ Patterned \subseteq Component
  /\ AllNamespaces \subseteq Component
  /\ Polls \in Nat
  /\ MaxRuns \in Nat \ {0}
  /\ None \notin Component

VARIABLES
  subs,      \* Subscriptions
  groups,    \* groups[n]: OperatorGroups of namespace n, by their creator
  csv,       \* csv[c]: phase of c's own CSV
  deployed,  \* operators whose Deployment exists
  available, \* operators whose Deployment has an available replica
  at,        \* at[p]: position of play p in Order[p]
  stage,     \* stage[p]: the task it is at
  found,     \* found[p]: ocp_operator_subscription_existing_ogs
  substring, \* substring[p]: the fact ocp_wait_operator_name_substring
  picked,    \* picked[p]: ocp_wait_operator__operator_deployment
  tries,     \* tries[p]: polls made in the current wait
  runs       \* runs[p]: times the play was started

clusterVars == <<subs, groups, csv, deployed, available>>
playVars == <<at, stage, found, substring, picked, tries, runs>>
vars == <<clusterVars, playVars>>

Stage == {"stale", "listGroups", "createGroup", "subscribe", "resolve",
          "awaitCsv", "awaitDeployment", "awaitReady", "done", "failed"}

RolloutTypeOK ==
  /\ subs \subseteq Component
  /\ groups \in [Space -> SUBSET (Component \cup {None})]
  /\ csv \in [Component -> {"none", "Installing", "Succeeded"}]
  /\ deployed \subseteq Component
  /\ available \subseteq deployed
  /\ at \in [Play -> Nat]
  /\ \A p \in Play : at[p] \in 1..Len(Order[p]) + 1
  /\ stage \in [Play -> Stage]
  /\ found \in [Play -> SUBSET (Component \cup {None})]
  /\ substring \in [Play -> Component \cup {None}]
  /\ picked \in [Play -> Component \cup {None}]
  /\ tries \in [Play -> 0..Polls]
  /\ runs \in [Play -> 1..MaxRuns]

Init ==
  /\ subs \in {{}, UNION {Stale[c] : c \in Component}}
  /\ groups \in [Space -> {{}, {None}}]
  /\ csv = [c \in Component |-> "none"]
  /\ deployed = {}
  /\ available = {}
  /\ at = [p \in Play |-> 1]
  /\ stage = [p \in Play |-> IF Order[p] = <<>> THEN "done" ELSE "stale"]
  /\ found = [p \in Play |-> {}]
  /\ substring = [p \in Play |-> None]
  /\ picked = [p \in Play |-> None]
  /\ tries = [p \in Play |-> 0]
  /\ runs = [p \in Play |-> 1]

Current(p) == Order[p][at[p]]
Goto(p, s) == stage' = [stage EXCEPT ![p] = s]

-----------------------------------------------------------------------------
(* ocp_operator_subscription, state=present (install_operator.yml).        *)

\* Mutation of RemoveStale: the incompatible Subscriptions stay.
StaleKept(p) ==
  /\ stage[p] = "stale"
  /\ Goto(p, IF Current(p) \in Grouped THEN "listGroups" ELSE "subscribe")
  /\ UNCHANGED <<clusterVars, at, found, substring, picked, tries, runs>>

\* Delete the Subscriptions of packages this one replaces, and make sure the
\* namespace is there: a namespace of this model always is.
RemoveStale(p) ==
  /\ stage[p] = "stale"
  /\ subs' = subs \ Stale[Current(p)]
  /\ Goto(p, IF Current(p) \in Grouped THEN "listGroups" ELSE "subscribe")
  /\ UNCHANGED <<groups, csv, deployed, available, at, found, substring,
                 picked, tries, runs>>

\* Mutation of ListGroups: only the first component of a play lists.
ListGroupsOnce(p) ==
  /\ stage[p] = "listGroups"
  /\ found' = IF at[p] = 1
              THEN [found EXCEPT ![p] = groups[SpaceOf[Current(p)]]] ELSE found
  /\ Goto(p, "createGroup")
  /\ UNCHANGED <<clusterVars, at, substring, picked, tries, runs>>

\* The OperatorGroups there are in the component's namespace.
ListGroups(p) ==
  /\ stage[p] = "listGroups"
  /\ found' = [found EXCEPT ![p] = groups[SpaceOf[Current(p)]]]
  /\ Goto(p, "createGroup")
  /\ UNCHANGED <<clusterVars, at, substring, picked, tries, runs>>

\* Create an OperatorGroup only when the list showed none.
CreateGroup(p) ==
  /\ stage[p] = "createGroup"
  /\ groups' = IF found[p] = {}
               THEN [groups EXCEPT ![SpaceOf[Current(p)]] = @ \cup {Current(p)}]
               ELSE groups
  /\ Goto(p, "subscribe")
  /\ UNCHANGED <<subs, csv, deployed, available, at, found, substring, picked,
                 tries, runs>>

Subscribe(p) ==
  /\ stage[p] = "subscribe"
  /\ subs' = subs \cup {Current(p)}
  /\ Goto(p, "resolve")
  /\ UNCHANGED <<groups, csv, deployed, available, at, found, substring,
                 picked, tries, runs>>

\* None of these tasks tolerates a failed call: it ends the play.
TaskFails(p) ==
  /\ stage[p] \in {"stale", "listGroups", "createGroup", "subscribe"}
  /\ Goto(p, "failed")
  /\ UNCHANGED <<clusterVars, at, found, substring, picked, tries, runs>>

\* A failed play is started again from its first component, with no facts.
Restart(p) ==
  /\ stage[p] = "failed"
  /\ runs[p] < MaxRuns
  /\ runs' = [runs EXCEPT ![p] = @ + 1]
  /\ at' = [at EXCEPT ![p] = 1]
  /\ Goto(p, "stale")
  /\ found' = [found EXCEPT ![p] = {}]
  /\ substring' = [substring EXCEPT ![p] = None]
  /\ picked' = [picked EXCEPT ![p] = None]
  /\ tries' = [tries EXCEPT ![p] = 0]
  /\ UNCHANGED clusterVars

-----------------------------------------------------------------------------
(* ocp_wait_operator.                                                      *)

\* The substring defaults to the package name, but the fact it is stored in
\* comes first: one that is already set stays.
ResolveSubstring(p) ==
  /\ stage[p] = "resolve"
  /\ substring' =
       [substring EXCEPT ![p] = IF @ = None THEN Current(p) ELSE @]
  /\ tries' = [tries EXCEPT ![p] = 0]
  /\ Goto(p, "awaitCsv")
  /\ UNCHANGED <<clusterVars, at, found, picked, runs>>

\* The CSVs a list of c's namespace returns: own ones and OLM's copies.
VisibleCsvs(n) == {c \in Component : csv[c] # "none" /\
                     (SpaceOf[c] = n \/ (c \in AllNamespaces /\ csv[c] = "Succeeded"))}

\* Polls run out, or there is another.  A failed call is a poll in vain.
PollAgain(p) ==
  IF tries[p] < Polls
  THEN tries' = [tries EXCEPT ![p] = @ + 1] /\ UNCHANGED stage
  ELSE Goto(p, "failed") /\ UNCHANGED tries

AwaitCsv(p) ==
  /\ stage[p] = "awaitCsv"
  /\ \/ /\ \E c \in VisibleCsvs(SpaceOf[Current(p)]) :
             csv[c] = "Succeeded" /\ c \in Mentions[substring[p]]
        /\ Goto(p, "awaitDeployment")
        /\ tries' = [tries EXCEPT ![p] = 0]
     \/ PollAgain(p)
  /\ UNCHANGED <<clusterVars, at, found, substring, picked, runs>>

\* The pattern is the caller's, else the substring, with the package name
\* without hyphens as the alternative.
DeploymentMatches(p) ==
  {d \in deployed : /\ SpaceOf[d] = SpaceOf[Current(p)]
                    /\ \/ d \in Mentions[Current(p)]
                       \/ /\ Current(p) \notin Patterned
                          /\ d \in Mentions[substring[p]]}

AwaitDeployment(p) ==
  /\ stage[p] = "awaitDeployment"
  /\ \/ \E d \in DeploymentMatches(p) :
          /\ picked' = [picked EXCEPT ![p] = d]
          /\ Goto(p, "awaitReady")
          /\ tries' = [tries EXCEPT ![p] = 0]
     \/ PollAgain(p) /\ UNCHANGED picked
  /\ UNCHANGED <<clusterVars, at, found, substring, runs>>

\* Mutation of AwaitReady: the Deployment need only exist.
AwaitDeployed(p) ==
  /\ stage[p] = "awaitReady"
  /\ \/ /\ picked[p] \in deployed
        /\ at' = [at EXCEPT ![p] = @ + 1]
        /\ Goto(p, IF at[p] = Len(Order[p]) THEN "done" ELSE "stale")
        /\ UNCHANGED tries
     \/ PollAgain(p) /\ UNCHANGED at
  /\ UNCHANGED <<clusterVars, found, substring, picked, runs>>

\* The wait is over: the play goes on with its next component.
AwaitReady(p) ==
  /\ stage[p] = "awaitReady"
  /\ \/ /\ picked[p] \in available
        /\ at' = [at EXCEPT ![p] = @ + 1]
        /\ Goto(p, IF at[p] = Len(Order[p]) THEN "done" ELSE "stale")
        /\ UNCHANGED tries
     \/ PollAgain(p) /\ UNCHANGED at
  /\ UNCHANGED <<clusterVars, found, substring, picked, runs>>

-----------------------------------------------------------------------------
(* OLM and the kubelets (external).                                        *)

\* OLM installs only where exactly one OperatorGroup exists, and while no
\* Subscription in the way keeps the namespace in ResolutionFailed.
OlmStarts(c) ==
  /\ c \in subs
  /\ Stale[c] \cap subs = {}
  /\ csv[c] = "none"
  /\ Cardinality(groups[SpaceOf[c]]) = 1
  /\ csv' = [csv EXCEPT ![c] = "Installing"]
  /\ UNCHANGED <<subs, groups, deployed, available, playVars>>

OlmDeploys(c) ==
  /\ csv[c] = "Installing"
  /\ c \notin deployed
  /\ deployed' = deployed \cup {c}
  /\ UNCHANGED <<subs, groups, csv, available, playVars>>

DeploymentReady(c) ==
  /\ c \in deployed \ available
  /\ available' = available \cup {c}
  /\ UNCHANGED <<subs, groups, csv, deployed, playVars>>

OlmSucceeds(c) ==
  /\ csv[c] = "Installing"
  /\ c \in available
  /\ csv' = [csv EXCEPT ![c] = "Succeeded"]
  /\ UNCHANGED <<subs, groups, deployed, available, playVars>>

-----------------------------------------------------------------------------

PlayStep(p) ==
  \/ RemoveStale(p) \/ ListGroups(p) \/ CreateGroup(p) \/ Subscribe(p)
  \/ ResolveSubstring(p)
  \/ AwaitCsv(p) \/ AwaitDeployment(p) \/ AwaitReady(p)
  \/ TaskFails(p) \/ Restart(p)

OlmStep(c) ==
  OlmStarts(c) \/ OlmDeploys(c) \/ DeploymentReady(c) \/ OlmSucceeds(c)

Ended(p) == stage[p] = "done" \/ (stage[p] = "failed" /\ runs[p] = MaxRuns)
Stopped == (\A p \in Play : Ended(p)) /\ UNCHANGED vars

Next == (\E p \in Play : PlayStep(p)) \/ (\E c \in Component : OlmStep(c)) \/ Stopped
Spec == Init /\ [][Next]_vars

\* Each play is a process of its own that keeps executing.
FairSpec == Spec /\ \A p \in Play : WF_vars(PlayStep(p))

\* OLM and the kubelets do their work in the end.
OlmFairSpec == FairSpec /\ \A c \in Component : WF_vars(OlmStep(c))

-----------------------------------------------------------------------------
(* Properties.                                                             *)

\* The components play p has left behind as installed.
Passed(p) == {Order[p][i] : i \in 1..at[p] - 1}

\* "Wait succeeds only when status.phase is Succeeded" for the CSV whose name
\* has the component's operator_name (roles/ocp_wait_operator/README.md:23).
PassedOperatorsInstalled ==
  \A p \in Play : \A c \in Passed(p) : csv[c] = "Succeeded"

\* No wait passes early, whatever facts earlier components left: the first
\* component of a play is passed only once its own CSV has succeeded, and one
\* whose caller names its Deployment only once that Deployment is available.
WaitsDoNotPassEarly ==
  \A p \in Play : /\ at[p] > 1 => csv[Order[p][1]] = "Succeeded"
                  /\ Passed(p) \cap Patterned \subseteq available

\* "OLM allows only one OperatorGroup per namespace ... create only when none
\* exist" (roles/ocp_operator_subscription/tasks/install_operator.yml:29).
OneOperatorGroup == \A n \in Space : Cardinality(groups[n]) <= 1

\* The plays that may create an OperatorGroup in a namespace.
Into(n) ==
  {p \in Play : \E i \in 1..Len(Order[p]) :
     Order[p][i] \in Grouped /\ SpaceOf[Order[p][i]] = n}

\* Listing first and creating when none exist is not one step, so plays that
\* install into one namespace at once may each create a group.  But each of
\* them creates at most one, for all its components and all its repetitions,
\* and none where OLM has brought its own.
GroupsByPlays ==
  \A n \in Space :
    /\ None \in groups[n] => groups[n] = {None}
    /\ None \notin groups[n] => Cardinality(groups[n]) <= Cardinality(Into(n))

\* Several plays have each brought a group, since each found none.
Raced(n) == Cardinality(groups[n]) > 1 /\ Cardinality(Into(n)) > 1

\* Every play ends, as no wait is endless.  In the end every component a play
\* has subscribed, with an OperatorGroup of its own or one it found, is
\* installed and stays so, even if the play failed half-way and was repeated:
\* nothing it leaves behind keeps OLM from resolving the Subscription, but for
\* groups that several plays have brought at once.
SubscribedInstalls ==
  <>[] /\ \A p \in Play : Ended(p)
       /\ \A c \in Grouped \cap subs : csv[c] = "Succeeded" \/ Raced(SpaceOf[c])
=============================================================================
