-------------------------- MODULE CleanupSelection --------------------------
(***************************************************************************)
(* The pure selection rules of plugins/filter/ocp_absent_cleanup.py, which *)
(* ocp_namespace, ocp_absent_cleanup and ocp_operator_subscription share.  *)
(*                                                                         *)
(* A namespace is an element of Namespace; the regular expression and the  *)
(* deny lists are abstracted to the sets they define (MalformedName,       *)
(* HardBlocked).  An object name is the sequence of its dot-separated      *)
(* parts, so that "exact, or <token>." is "the token is a prefix".         *)
(***************************************************************************)
EXTENDS Sequences, SequencesExt

CONSTANTS
  Namespace,        \* every string a caller may pass as a namespace
  MalformedName,    \* those that are not one DNS-1123 label
  HardBlocked,      \* platform, kube- and caller-supplied denied names
  SharedOperators,  \* the namespace openshift-operators
  Name,             \* object names: non-empty sequences of parts
  Token             \* values of csv_name_match: <<>> when it is unset

ASSUME NamespaceAssumption ==
  /\ MalformedName \subseteq Namespace
  /\ HardBlocked \subseteq Namespace
  /\ SharedOperators \in Namespace \ (MalformedName \cup HardBlocked)

Kind == {"CSV", "InstallPlan", "Deployment", "Pod"}
OlmKind == {"CSV", "InstallPlan"}

(***************************************************************************)
(* An API object.  copy: the CSV carries olm.copiedFrom, or an             *)
(* olm.operatorNamespace other than its own.  fin: it has a finalizer.     *)
(* deleting: it has a deletionTimestamp.  plan: the CSVs an InstallPlan    *)
(* names; left: those it has still to create.                              *)
(***************************************************************************)
Object == [kind : Kind, ns : Namespace, name : Name, copy : BOOLEAN,
           fin : BOOLEAN, deleting : BOOLEAN,
           plan : SUBSET Name, left : SUBSET Name]

\* ocp_absent_cleanup_mode: the two it knows, and what it refuses.
Mode == {"check", "cleanup", "unknown"}

(***************************************************************************)
(* The role variables of one ocp_absent_cleanup run.  match is the CSV     *)
(* token, empty when unset; targets is the normalised namespace list.      *)
(***************************************************************************)
ConfigType ==
  [targets : SUBSET Namespace, mode : Mode,
   sweepOlm : BOOLEAN, authCsv : BOOLEAN, authAnyCsv : BOOLEAN,
   match : Token, copies : BOOLEAN, strip : BOOLEAN,
   sweepWork : BOOLEAN, deploys : SUBSET Name, authAnyWork : BOOLEAN,
   finalize : BOOLEAN, onlyTerminating : BOOLEAN, failIfPresent : BOOLEAN]

namespace_name_valid(n) == n \notin MalformedName

\* ocp_namespace refuses the shared operators namespace outright.
namespace_delete_blocked(n) ==
  ~namespace_name_valid(n) \/ n \in HardBlocked \/ n = SharedOperators

\* Mutation of cleanup_refused: the shared operators namespace is like any other.
SharedAdmitted(n, c) == n \in HardBlocked

\* ocp_absent_cleanup admits it for a name-matched CSV cleanup only.
cleanup_refused(n, c) ==
  \/ n \in HardBlocked
  \/ /\ n = SharedOperators
     /\ c.mode # "check"
     /\ \/ c.sweepWork
        \/ c.authAnyWork
        \/ c.authAnyCsv
        \/ c.copies
        \/ c.sweepOlm /\ c.match = <<>>

csv_name_matches(name, token) == token # <<>> /\ IsPrefix(token, name)

\* The objects a namespaced list returned, narrowed by _in_namespace.
InNamespace(items, n) == {o \in items : o.ns = n}

\* The guard select_csvs and select_installplans share.
OlmDeleteAuthorized(n, c) ==
  /\ namespace_name_valid(n)
  /\ c.authCsv
  /\ c.match # <<>> \/ c.authAnyCsv

\* Mutation of select_csvs: OLM copies are not told apart.
CsvsWithCopies(items, n, c) ==
  {o \in InNamespace(items, n) :
     /\ OlmDeleteAuthorized(n, c)
     /\ c.match # <<>> => csv_name_matches(o.name, c.match)}

select_csvs(items, n, c) ==
  {o \in InNamespace(items, n) :
     /\ OlmDeleteAuthorized(n, c)
     /\ c.match # <<>> => csv_name_matches(o.name, c.match)
     /\ o.copy => c.copies}

\* Mutation of select_installplans: one matching CSV is enough.
PlansWithOthers(items, n, c) ==
  {o \in InNamespace(items, n) :
     /\ OlmDeleteAuthorized(n, c)
     /\ c.match # <<>> => \E x \in o.plan : csv_name_matches(x, c.match)}

select_installplans(items, n, c) ==
  {o \in InNamespace(items, n) :
     /\ OlmDeleteAuthorized(n, c)
     /\ c.match # <<>> =>
          /\ o.plan # {}
          /\ \A x \in o.plan : csv_name_matches(x, c.match)}

select_workloads(items, n, names, authorized) ==
  {o \in InNamespace(items, n) :
     /\ namespace_name_valid(n)
     /\ names # {} \/ authorized
     /\ names # {} => o.name \in names}
=============================================================================
