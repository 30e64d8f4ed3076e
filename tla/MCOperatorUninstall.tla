------------------------- MODULE MCOperatorUninstall -------------------------
(* Instances of OperatorUninstall for TLC. *)
EXTENDS OperatorUninstall

CONSTANTS App, Shared

MCNamespace == {App, Shared}

\* The operator being removed, one that shares its namespace, and one whose
\* name begins alike.
Acm == <<"acm", "v1">>
Other == <<"other", "v1">>
Longer == <<"acm-extra", "v1">>
Plan1 == <<"install-1">>
Plan2 == <<"install-2">>
MCName == {Acm, Other, Longer, Plan1, Plan2}
MCToken == {<<>>, <<"acm">>}

InstallPlanAt(n, name, names, left) ==
  [Blank("InstallPlan", n, name) EXCEPT !.plan = names, !.left = left]

\* The operator is installed, or its InstallPlan has yet to create the CSV.
Installed(n) ==
  {[Blank("CSV", n, Acm) EXCEPT !.fin = TRUE], Blank("CSV", n, Other),
   InstallPlanAt(n, Plan1, {Acm}, {}), Blank("Deployment", n, Acm)}
Installing(n) == {Blank("CSV", n, Other), InstallPlanAt(n, Plan1, {Acm}, {Acm})}

InOneOf == {f[n] : f \in {[n \in {App, Shared} |-> Installed(n)],
                          [n \in {App, Shared} |-> Installing(n)]},
                   n \in {App, Shared}}

MCUninstall ==
  [ns : {App, Shared}, match : {<<"acm">>}, sweep : BOOLEAN]

\* Beside it, an InstallPlan of another operator, or one that serves both and
\* has nothing, or only the other one, left to create.
Beside(n, names, left) ==
  (Installed(n) \ {Blank("CSV", n, Other)}) \union {InstallPlanAt(n, Plan2, names, left)}
Neighbours ==
  {Beside(n, names, left) :
     n \in {App, Shared}, names \in {{Longer}, {Acm, Longer}}, left \in {{}, {Longer}}}
MCPopulation == InOneOf \union Neighbours

AllActive == {[n \in Namespace |-> "Active"]}
AloneInPlan == {{Acm}}
MCPlanNames == {Plan1, Plan2}
MCConfig == {OwnSelection(r) : r \in MCUninstall}

\* The instance is one UninstallFinal speaks of.
ASSUME OwnPlansOnly
=============================================================================
