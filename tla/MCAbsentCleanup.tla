--------------------------- MODULE MCAbsentCleanup ---------------------------
(* Instances of AbsentCleanup for TLC. *)
EXTENDS AbsentCleanup

CONSTANTS App, Infra, Shared, Wild, Old \* namespaces

MCNamespace == {App, Infra, Shared, Wild}
WithOld == MCNamespace \union {Old}
TwoNamespaces == {App, Shared}

\* An operator's CSV, one whose package merely starts alike, and a Deployment.
Acm == <<"acm", "v1">>
AcmExtra == <<"acm-extra", "v1">>
Web == <<"web">>
MCName == {Acm, AcmExtra, Web}
MCToken == {<<>>, <<"acm">>, Acm}

CsvAt(n, name) == Blank("CSV", n, name)
Held(o) == [o EXCEPT !.fin = TRUE]
Copy(o) == [o EXCEPT !.copy = TRUE]
PlanAt(n, name, names, left) ==
  [Blank("InstallPlan", n, name) EXCEPT !.plan = names, !.left = left]

\* Two namespaces that hold own, foreign and copied CSVs, InstallPlans for
\* one and for both operators, and Deployments with their Pods.
Furnished ==
  {Held(CsvAt(App, Acm)), CsvAt(App, AcmExtra),
   PlanAt(App, Acm, {Acm}, {}), PlanAt(App, AcmExtra, {Acm, AcmExtra}, {}),
   Blank("Deployment", App, Web), Blank("Pod", App, Web),
   CsvAt(Shared, Acm), Copy(CsvAt(Shared, AcmExtra)),
   Blank("Deployment", Shared, Acm)}

\* One operator with its workload, an InstallPlan still executing, and a copy
\* of another operator that a finalizer protects.
Busy ==
  {Held(Copy(CsvAt(App, AcmExtra))),
   Held(CsvAt(App, Acm)), PlanAt(App, Acm, {Acm}, {Acm}),
   Blank("Deployment", App, Acm)}

Stuck == {Held(CsvAt(App, Acm))}

AcmOnly == {Acm}
\* Beside them a namespace with a CSV that a finalizer holds.
FurnishedAndStuck == {Furnished \union {Held(CsvAt(Old, Acm))}}
BusyOnly == {Busy}
StuckOnly == {Stuck}

Cautious ==
  [targets |-> {App}, mode |-> "cleanup", sweepOlm |-> FALSE,
   authCsv |-> FALSE, authAnyCsv |-> FALSE, match |-> <<>>, copies |-> FALSE,
   strip |-> FALSE, sweepWork |-> FALSE, deploys |-> {},
   authAnyWork |-> FALSE, finalize |-> FALSE, onlyTerminating |-> TRUE,
   failIfPresent |-> TRUE]

\* Every combination of the sweep flags over several namespace lists.
FlagConfig ==
  {[Cautious EXCEPT !.targets = ts, !.mode = m, !.sweepOlm = so,
      !.authCsv = ac, !.authAnyCsv = aa, !.match = t, !.copies = cp,
      !.strip = ac, !.sweepWork = sw, !.deploys = ds, !.authAnyWork = aw] :
     ts \in {{}, {App}, {Shared}, {App, Shared}, {App, Infra}, {Wild}},
     m \in Mode,
     so \in BOOLEAN, ac \in BOOLEAN, aa \in BOOLEAN, t \in MCToken \ {Acm},
     cp \in BOOLEAN, sw \in BOOLEAN, ds \in {{}, {Web}}, aw \in BOOLEAN}

\* What callers pass: uninstall_operator.yml, the cert-manager playbook, and
\* an unfiltered sweep.
CallerConfig ==
  {[Cautious EXCEPT !.sweepOlm = TRUE, !.authCsv = TRUE, !.match = <<"acm">>,
      !.strip = TRUE],
   [Cautious EXCEPT !.sweepOlm = TRUE, !.authCsv = TRUE, !.match = <<"acm">>,
      !.strip = TRUE, !.sweepWork = TRUE, !.deploys = {Acm}],
   [Cautious EXCEPT !.sweepOlm = TRUE, !.authCsv = TRUE, !.authAnyCsv = TRUE,
      !.sweepWork = TRUE, !.authAnyWork = TRUE],
   [Cautious EXCEPT !.mode = "check", !.sweepOlm = TRUE, !.authCsv = TRUE,
      !.match = <<"acm">>, !.sweepWork = TRUE, !.authAnyWork = TRUE]}

\* Namespace finalization under each of its guards.
FinalizeConfig ==
  {[Cautious EXCEPT !.targets = ts, !.finalize = f, !.onlyTerminating = ot,
      !.failIfPresent = fp, !.sweepOlm = so, !.authCsv = TRUE,
      !.match = <<"acm">>, !.mode = m] :
     ts \in {{App}, {App, Shared}}, f \in BOOLEAN, ot \in BOOLEAN,
     fp \in BOOLEAN, so \in BOOLEAN, m \in {"cleanup"}}

\* The same of a namespace that users delete and create again.
FinalizeOld ==
  {[c EXCEPT !.targets = {IF n = App THEN Old ELSE n : n \in @}] : c \in FinalizeConfig}
GuardConfig == FlagConfig \union FinalizeOld

\* A finalize of the shared operators namespace.
SharedFinalizeConfig ==
  {[Cautious EXCEPT !.targets = {Shared}, !.finalize = TRUE]}

\* A namespace is there or is being deleted; the others are Active.
AllActive == {[n \in Namespace |-> "Active"]}
Present(ns) ==
  {[n \in Namespace |-> IF n = ns THEN p ELSE "Active"] : p \in Phase \ {"Absent"}}
AppPresent == Present(App)
OldPresent == Present(Old)
=============================================================================
