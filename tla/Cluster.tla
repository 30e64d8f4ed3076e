------------------------------- MODULE Cluster -------------------------------
(***************************************************************************)
(* The OpenShift cluster as the roles use it: the Kubernetes API, the      *)
(* namespace controller, OLM and the workload controllers.  None of this   *)
(* is code of the repository; it is the environment the roles race with.   *)
(* Actor names the controllers that run in a given model.                  *)
(***************************************************************************)
EXTENDS CleanupSelection, Naturals, FiniteSets

CONSTANTS
  Actor,              \* the environment actors present in the model
  Population,         \* the sets of objects a run may find
  InitialPhases,      \* the phases its namespaces may have at that time
  Contested,          \* the namespaces other users delete and create
  GlobalCsv,          \* CSVs OLM copies into every namespace
  PartialCsvAdmitted, \* does the API accept a CSV that has only metadata?
  MaxRevision         \* bound on the namespace changes by other users

\* The API server holds one object per kind, namespace and name.
SameKey(x, y) == x.kind = y.kind /\ x.ns = y.ns /\ x.name = y.name

ASSUME ClusterAssumption ==
  /\ Population \subseteq SUBSET Object
  /\ \A found \in Population : \A x, y \in found : SameKey(x, y) => x = y
  /\ InitialPhases \subseteq [Namespace -> {"Absent", "Active", "Terminating"}]
  /\ Contested \subseteq Namespace
  /\ GlobalCsv \subseteq Name
  /\ PartialCsvAdmitted \in BOOLEAN
  /\ MaxRevision \in Nat

VARIABLES
  objects,  \* the namespaced API objects
  spaces    \* Namespace objects: phase, spec.finalizers, resourceVersion

clusterVars == <<objects, spaces>>

Phase == {"Absent", "Active", "Terminating"}

ClusterTypeOK ==
  /\ objects \subseteq Object
  /\ spaces \in [Namespace -> [phase : Phase, fin : BOOLEAN, rev : Nat]]

ClusterInit ==
  /\ objects \in Population
  /\ \E phases \in InitialPhases :
       spaces = [n \in Namespace |-> [phase |-> phases[n], fin |-> TRUE, rev |-> 0]]

-----------------------------------------------------------------------------
(* Reads and writes of the API server.                                     *)

Listed(kind, n) == {o \in objects : o.kind = kind /\ o.ns = n}
At(kind, n, name) == {o \in Listed(kind, n) : o.name = name}
Exists(n) == spaces[n].phase # "Absent"

Blank(kind, n, name) ==
  [kind |-> kind, ns |-> n, name |-> name, copy |-> FALSE, fin |-> FALSE,
   deleting |-> FALSE, plan |-> {}, left |-> {}]

\* A delete removes the object, or marks it when a finalizer holds it.
Deleted(doomed) ==
  (objects \ doomed) \cup {[o EXCEPT !.deleting = TRUE] : o \in {x \in doomed : x.fin}}

\* state=present force=true with finalizers: []: replace the named CSV, or
\* create it when it is gone; a deleting CSV without finalizers disappears.
FinalizersStripped(n, name) ==
  LET found == At("CSV", n, name) IN
  IF found = {}
  THEN objects \cup {Blank("CSV", n, name)}
  ELSE (objects \ found)
         \cup {[o EXCEPT !.fin = FALSE] : o \in {x \in found : ~x.deleting}}

\* Mutation of Finalized: the PUT carries no resourceVersion.
FinalizedBlindly(n, rev) ==
  IF Exists(n)
  THEN [spaces EXCEPT ![n] =
          [phase |-> IF @.phase = "Terminating" THEN "Absent" ELSE @.phase,
           fin |-> FALSE, rev |-> @.rev + 1]]
  ELSE spaces

\* PUT .../finalize with the looked-up body: the body's resourceVersion makes
\* it conditional (409 otherwise), and emptying spec.finalizers ends a
\* Terminating namespace.
Finalized(n, rev) ==
  IF Exists(n) /\ spaces[n].rev = rev
  THEN [spaces EXCEPT ![n] =
          [phase |-> IF @.phase = "Terminating" THEN "Absent" ELSE @.phase,
           fin |-> FALSE, rev |-> @.rev + 1]]
  ELSE spaces

\* Deletion of a Namespace; one without spec.finalizers goes at once.
SpaceDeleted(n) ==
  IF spaces[n].phase = "Active"
  THEN [spaces EXCEPT ![n] =
          [phase |-> IF @.fin THEN "Terminating" ELSE "Absent",
           fin |-> @.fin, rev |-> @.rev + 1]]
  ELSE spaces

SpaceCreated(n) ==
  IF Exists(n)
  THEN spaces
  ELSE [spaces EXCEPT ![n] =
          [phase |-> "Active", fin |-> TRUE, rev |-> @.rev + 1]]

-----------------------------------------------------------------------------
(* Controllers and other users of the cluster.                             *)

UserDeletesSpace(n) ==
  /\ n \in Contested
  /\ spaces[n].rev < MaxRevision
  /\ spaces[n].phase = "Active"
  /\ spaces' = SpaceDeleted(n)
  /\ UNCHANGED objects

UserCreatesSpace(n) ==
  /\ n \in Contested
  /\ spaces[n].rev < MaxRevision
  /\ ~Exists(n)
  /\ spaces' = SpaceCreated(n)
  /\ UNCHANGED objects

\* The namespace controller empties a Terminating namespace ...
ControllerEmpties(n) ==
  /\ "namespaces" \in Actor
  /\ spaces[n].phase = "Terminating"
  /\ \E o \in objects : /\ o.ns = n /\ ~o.deleting
                        /\ objects' = Deleted({o})
  /\ UNCHANGED spaces

\* ... and lets it go when nothing is left in it.
ControllerEnds(n) ==
  /\ "namespaces" \in Actor
  /\ spaces[n].phase = "Terminating"
  /\ \A o \in objects : o.ns # n
  /\ spaces' = [spaces EXCEPT ![n].phase = "Absent"]
  /\ UNCHANGED objects

\* OLM creates the next CSV of an InstallPlan that is still executing.
OlmInstalls(n) ==
  /\ "olm" \in Actor
  /\ spaces[n].phase = "Active"
  /\ \E ip \in Listed("InstallPlan", n) : \E name \in ip.left :
       objects' = (objects \ {ip})
                    \cup {[ip EXCEPT !.left = @ \ {name}]}
                    \cup IF At("CSV", n, name) = {}
                         THEN {Blank("CSV", n, name)} ELSE {}
  /\ UNCHANGED spaces

\* OLM copies an all-namespaces CSV into a namespace that has none by its name.
OlmCopies(n) ==
  /\ "copies" \in Actor
  /\ spaces[n].phase = "Active"
  /\ \E name \in GlobalCsv :
       /\ At("CSV", n, name) = {}
       /\ objects' = objects \cup {[Blank("CSV", n, name) EXCEPT !.copy = TRUE]}
  /\ UNCHANGED spaces

\* OLM finishes the cleanup a finalizer stands for.
OlmReleases(n) ==
  /\ "release" \in Actor
  /\ \E o \in Listed("CSV", n) : /\ o.deleting
                                 /\ objects' = objects \ {o}
  /\ UNCHANGED spaces

\* OLM keeps the Deployment of a live CSV in place; it carries its name.
OlmDeploys(n) ==
  /\ "workloads" \in Actor
  /\ spaces[n].phase = "Active"
  /\ \E o \in Listed("CSV", n) :
       /\ ~o.copy /\ ~o.deleting
       /\ At("Deployment", n, o.name) = {}
       /\ objects' = objects \cup {Blank("Deployment", n, o.name)}
  /\ UNCHANGED spaces

\* The ReplicaSet controller replaces a missing Pod of a Deployment.
ReplicaStarts(n) ==
  /\ "workloads" \in Actor
  /\ spaces[n].phase = "Active"
  /\ \E o \in Listed("Deployment", n) :
       /\ At("Pod", n, o.name) = {}
       /\ objects' = objects \cup {Blank("Pod", n, o.name)}
  /\ UNCHANGED spaces

\* The garbage collector removes a Pod whose Deployment is gone.
PodCollected(n) ==
  /\ "workloads" \in Actor
  /\ \E o \in Listed("Pod", n) : /\ At("Deployment", n, o.name) = {}
                                 /\ objects' = objects \ {o}
  /\ UNCHANGED spaces

ClusterStep(n) ==
  \/ UserDeletesSpace(n) \/ UserCreatesSpace(n)
  \/ ControllerEmpties(n) \/ ControllerEnds(n)
  \/ OlmInstalls(n) \/ OlmCopies(n) \/ OlmReleases(n)
  \/ OlmDeploys(n) \/ ReplicaStarts(n) \/ PodCollected(n)
=============================================================================
