---------------------------- MODULE MCNamespaceRole ----------------------------
(* Instances of NamespaceRole for TLC. *)
EXTENDS NamespaceRole

CONSTANTS App, Quiet, Shared, Wild

MCNamespace == {App, Quiet, Shared, Wild}
MCName == {<<"acm", "v1">>}
MCToken == {<<>>, <<"acm">>}

\* Namespaces kept alive by a CSV whose finalizer nobody removes, and empty
\* ones.
Held(n) == [Blank("CSV", n, <<"acm", "v1">>) EXCEPT !.fin = TRUE]
MCPopulation == {{Held(App)}, {Held(Quiet)}, {}}

Flags ==
  [targets |-> {}, mode |-> "cleanup", sweepOlm |-> FALSE, authCsv |-> FALSE,
   authAnyCsv |-> FALSE, match |-> <<>>, copies |-> FALSE, strip |-> FALSE,
   sweepWork |-> FALSE, deploys |-> {}, authAnyWork |-> FALSE,
   finalize |-> FALSE, onlyTerminating |-> TRUE, failIfPresent |-> FALSE]

\* The README's two examples, an OLM sweep with and without authorization,
\* on every namespace, present and absent.
MCRequest ==
  {[target |-> n, state |-> s, advanced |-> a, failIfPresent |-> fp, flags |-> f] :
     n \in MCNamespace, s \in {"present", "absent"}, a \in BOOLEAN,
     fp \in BOOLEAN,
     f \in {[Flags EXCEPT !.finalize = TRUE],
            [Flags EXCEPT !.sweepOlm = TRUE],
            [Flags EXCEPT !.sweepOlm = TRUE, !.authCsv = TRUE,
                          !.match = <<"acm">>, !.finalize = TRUE]}}

MCConfig == {AdvancedConfig(r) : r \in MCRequest}

\* App, which others use, and Quiet, which nobody else touches, in every phase.
MCPhases ==
  {[n \in Namespace |-> IF n = App THEN p ELSE IF n = Quiet THEN q ELSE "Active"] :
     p \in Phase, q \in Phase}
=============================================================================
