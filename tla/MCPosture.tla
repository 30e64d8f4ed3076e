------------------------------ MODULE MCPosture ------------------------------
(***************************************************************************)
(* Posture for TLC: two clusters, CVEs that several findings share, ages   *)
(* on both sides of the bounds, a finding whose two ages are so, an image  *)
(* whose name begins like another's.                                       *)
(***************************************************************************)
EXTENDS Posture

Payloads == <<"ocp">>
App == <<"registry", "app">>
Sidecar == <<"registry", "app", "sidecar">>
Roe == <<"registry", "roe">>

MCFamilies ==
    <<[name |-> <<"OpenShift">>, ownership |-> "sre_managed", remedy |-> "ocp_upgrade",
       repositories |-> {Payloads}, namespaces |-> {}],
      [name |-> <<"ACM">>, ownership |-> "redhat_component", remedy |-> "operator_update",
       repositories |-> {}, namespaces |-> {"acm"}],
      [name |-> <<"ROE">>, ownership |-> "non_redhat", remedy |-> "custom_rebuild",
       repositories |-> {Roe}, namespaces |-> {}]>>

MCAlphabet ==
    <<<<"ACM">>, ImageLabel(App), ImageLabel(Sidecar), ImageLabel(Payloads),
      <<"OpenShift">>, App, Sidecar, Roe, <<"ROE">>, ImageLabel(Roe)>>

Line(n, cve, severity, cluster, namespace, repository, age, redhat, fixable) ==
    [line |-> n, cve |-> cve, severity |-> severity, cluster |-> cluster,
     namespace |-> namespace, repository |-> repository, age |-> age, seen |-> age,
     redhat |-> redhat, fixable |-> fixable]

\* A line that was discovered so many days before the report, or has no such day
\* (its AgeDays is then of the day the CVE was published).
Seen(line, days) == [line EXCEPT !.seen = days]

\* Two clusters, every severity and owner, the same CVE in both clusters, in two
\* namespaces, from both sources and at two ages.
TwoClusters ==
    [readable |-> TRUE, items |-> {}, lines |->
      {Line(1, "v1", "Critical", "a", "acm", Payloads, 40, TRUE, TRUE),
       Seen(Line(2, "v1", "Critical", "b", "web", Payloads, 10, TRUE, FALSE), NoAge),
       Line(3, "v1", "Important", "a", "acm", App, 70, FALSE, TRUE),
       Line(4, "v2", "Moderate", "a", "web", App, 14, FALSE, FALSE),
       Line(5, "v2", "Moderate", "a", "web", App, 15, TRUE, FALSE),
       Line(6, "v3", "Critical", "b", "web", Sidecar, 100, TRUE, TRUE),
       Line(7, "v3", "Critical", "b", "acm", Roe, 29, FALSE, TRUE),
       Line(8, "", "Low", "a", "web", App, 5, FALSE, FALSE)}]

\* Cells are missing, a severity is unknown, and cluster b has nothing of Red Hat.
\* The parser rounded 59.998 days up to 60.
Ragged ==
    [readable |-> TRUE, items |-> {}, lines |->
      {Line(1, "v1", "Important", "a", "", App, NoAge, FALSE, TRUE),
       Seen(Line(2, "v1", "Critical", "a", "web", Payloads, 60, TRUE, TRUE), 59),
       Line(5, "v3", "Critical", "a", "", Payloads, 20, TRUE, FALSE),
       Line(3, "v2", "Low", "b", "web", App, 60, FALSE, FALSE),
       Seen(Line(4, "v2", "Unknown", "", "web", Roe, NoAge, TRUE, FALSE), 30)}]

\* The CSV cannot be read; data.json can.
Fallback ==
    [readable |-> FALSE, lines |-> {}, items |->
      {[line |-> 1, cve |-> "v1", severity |-> "Critical", cluster |-> "a",
        namespaces |-> <<"acm", "web">>, repository |-> Payloads, seen |-> NoAge,
        redhat |-> TRUE, fixable |-> TRUE],
       [line |-> 2, cve |-> "v2", severity |-> "Low", cluster |-> "", namespaces |-> <<>>,
        repository |-> App, seen |-> NoAge, redhat |-> FALSE, fixable |-> FALSE]}]

\* No finding has a namespace.
Nowhere ==
    [readable |-> TRUE, items |-> {}, lines |->
      {Line(1, "v1", "Important", "a", "", App, NoAge, FALSE, TRUE),
       Line(2, "v2", "Low", "b", "", App, 60, FALSE, FALSE)}]

\* Both sources report a CVE of the same image, of one age.
Twice ==
    [readable |-> TRUE, items |-> {}, lines |->
      {Line(1, "v1", "Important", "a", "web", App, 10, FALSE, TRUE),
       Line(2, "v1", "Important", "a", "web", App, 10, TRUE, TRUE)}]

Clean == [readable |-> TRUE, items |-> {}, lines |-> {}]

MCReports == {TwoClusters, Ragged, Fallback, Nowhere, Twice, Clean}

Launch(uid, lite, intel, subscriptions, clusters) ==
    [uid |-> uid, lite |-> lite, intel |-> intel, subscriptions |-> subscriptions,
     clusters |-> clusters]
MCBuilds ==
    {Launch(Production, FALSE, TRUE, TRUE, {"b"}),
     Launch("ado-rhacs-vuln-posture-phase0", FALSE, TRUE, FALSE, {}),
     Launch("ado-lite", TRUE, TRUE, TRUE, {"a"}),
     Launch("team-board", FALSE, FALSE, TRUE, {"a"})}
=============================================================================
