---------------------------- MODULE PostureBoard ----------------------------
(***************************************************************************)
(* roles/cve_analyzer/files/build_rhacs_vuln_dashboard.py: the dashboard   *)
(* made of a report's findings, and what Grafana shows of it for the       *)
(* choices a viewer makes.                                                 *)
(*                                                                         *)
(* A board b is what the builder was given: the findings of the whole      *)
(* report, the names of the clusters to keep, the uid of the dashboard and *)
(* its options.  A choice c gives each dropdown the set of its options     *)
(* picked; the empty set is All.  The text box "Namespace matches" stays   *)
(* at .*, which matches everything.                                        *)
(***************************************************************************)
EXTENDS PostureRows

CONSTANT Alphabet   \* the names of components, in the order of their dropdown

ASSUME AlphabetAssumption ==
    /\ Alphabet \in Seq(ToSet(Alphabet))
    /\ \A i \in DOMAIN Alphabet : Alphabet[i] \in Seq(ToSet(Alphabet[i])) \ {<<>>}

Rows(b) == InScope(b.findings, b.names)

(***************************************************************************)
(* Which dashboard it is.                                                  *)
(***************************************************************************)
Production == "ado-rhacs-vuln-posture"
FeatureUids == {"ado-rhacs-vuln-posture-phase0", "ado-lite", "ado-dev"}
HybridUids == {"ado-rhacs-vuln-posture-phase0", "ado-lite"}

FilterableTrend(uid) == uid \in FeatureUids \cup {Production}
HybridTrend(uid) == uid \in HybridUids
IntelPanels(b) == b.intel /\ b.uid \in FeatureUids

(***************************************************************************)
(* Dropdowns: their options, and what All stands for in a filter.          *)
(***************************************************************************)
ScopeClusters(b) ==
    LET board == Clusters(Rows(b)) \ {All, "unknown"}
        asked == IF b.names = {} THEN Clusters(b.findings) ELSE b.names
        scoped == asked \ {All, "unknown"}
    IN  CASE scoped \cap board # {} -> scoped \cap board
          [] board # {} -> board
          [] OTHER -> scoped

RedHat(S) == {r \in S : r.redhat}

\* The clusters of the bars come to be among the namespaces: the builder takes
\* the first field of a bar for its namespace.
NamespaceOptions(b) ==
    {OrUnknown(r.namespace) : r \in Rows(b)}
      \cup {p[1] : p \in BarPlaces(Rows(b)) \cup BarPlaces(RedHat(Rows(b)))}

\* Images are offered by a label with their tag, which no row has: of the
\* images nobody but the owner updates, one of each family; of others, each.
ImageLabel(repository) == <<"label">> \o repository
LabelledImages(S) ==
    {r.repository : r \in {r \in S : \/ r.ownership # "non_redhat"
                                     \/ r.line = FirstLine({q \in S : q.family = r.family})}}
ComponentOptions(b) ==
    {r.family : r \in Rows(b)} \cup {ImageLabel(i) : i \in LabelledImages(Rows(b))}

Sources == {"All sources", "Red Hat sources", "Non-Red Hat sources"}

Options(b, v) ==
    CASE v = "cluster" -> Clusters(Rows(b))
      [] v = "namespace" -> NamespaceOptions(b)
      [] v = "finding_age" -> FindingAges
      [] v = "source" -> Sources \ {"All sources"}
      [] v = "sre" -> Ownerships
      [] v = "component" -> ComponentOptions(b)

ClusterAll(b) == ScopeClusters(b) \cup {All}
NamespaceAll(b) == (NamespaceOptions(b) \ {"Unknown", "unknown"}) \cup {All}
AllValue(b, v) ==
    CASE v = "cluster" -> ClusterAll(b)
      [] v = "namespace" -> NamespaceAll(b)
      [] v = "source" -> {"All sources"}
      [] OTHER -> {All}

Expanded(b, c, v) == IF c[v] = {} THEN AllValue(b, v) ELSE c[v]

(***************************************************************************)
(* Filters.  Tables carry a column that always says __ALL__, for a         *)
(* dropdown whose All is that word; the cards do without it.               *)
(***************************************************************************)
StrictlyIn(b, c, v, value) == value \in Expanded(b, c, v)
In(b, c, v, value) == StrictlyIn(b, c, v, value) \/ Expanded(b, c, v) = {All}

\* ^first|...|last$, without brackets: the first name is matched at the
\* beginning, the last at the end, and those between anywhere.
Within(name, other) ==
    \E i \in 1..Len(other) : IsPrefix(name, SubSeq(other, i, Len(other)))
PipeMatch(picks, name) ==
    LET picked == {i \in DOMAIN Alphabet : Alphabet[i] \in picks}
        first == Min(picked)
        last == Max(picked)
    IN  \/ picks = {}
        \/ Cardinality(picked) = 1 /\ name = Alphabet[first]
        \/ Cardinality(picked) > 1
             /\ \/ IsPrefix(Alphabet[first], name)
                \/ IsSuffix(Alphabet[last], name)
                \/ \E i \in picked \ {first, last} : Within(Alphabet[i], name)

\* Mutation of PassesFilter: Finding age no longer filters tables.
PassesAnyAge(b, c, filter, row) ==
    CASE filter = "cluster" -> In(b, c, "cluster", row.cluster)
      [] filter = "namespace" -> In(b, c, "namespace", row.namespace)
      [] filter = "sre" -> In(b, c, "sre", row.ownership)
      [] filter = "component" -> PipeMatch(c.component, row.component)
      [] OTHER -> TRUE
PassesFilter(b, c, filter, row) ==
    CASE filter = "cluster" -> In(b, c, "cluster", row.cluster)
      [] filter = "namespace" -> In(b, c, "namespace", row.namespace)
      [] filter = "finding_age" -> In(b, c, "finding_age", row.age)
      [] filter = "sre" -> In(b, c, "sre", row.ownership)
      [] filter = "component" -> PipeMatch(c.component, row.component)
Passes(b, c, filters, row) == \A f \in filters : PassesFilter(b, c, f, row)

\* Every rollup is made three times, from all findings and by source.
OfSource(S, source) ==
    CASE source = "All sources" -> S
      [] source = "Red Hat sources" -> RedHat(S)
      [] source = "Non-Red Hat sources" -> S \ RedHat(S)
Shown(b, c, Rollup(_)) ==
    UNION {{Joined(row, [source |-> s]) : row \in Rollup(OfSource(Rows(b), s))} :
             s \in Sources \cap Expanded(b, c, "source")}

(***************************************************************************)
(* The cards.                                                              *)
(***************************************************************************)
Metrics == {"findings", "fixable", "critical", "important", "moderate", "low"}

SumOf(rows, metric) == SumFunction([row \in rows |-> row[metric]])

\* A card has the slices of each age, and their sums under the age __ALL__.
Totals(rows, metric) ==
    {[cluster |-> row.cluster, namespace |-> row.namespace, age |-> All,
      ownership |-> row.ownership,
      value |-> SumOf({q \in rows : /\ q.cluster = row.cluster
                                    /\ q.namespace = row.namespace
                                    /\ q.ownership = row.ownership}, metric)] : row \in rows}
Slices(rows, metric) ==
    {[cluster |-> row.cluster, namespace |-> row.namespace, age |-> row.age,
      ownership |-> row.ownership, value |-> row[metric]] : row \in rows}
\* Mutation of CardRows: rows over all namespaces of a cluster are there too.
CardRowsNested(S, metric) ==
    LET rows == Slices(OwnershipRollup(S), metric) \cup Totals(OwnershipRollup(S), metric)
    IN  rows \cup {[row EXCEPT !.namespace = All] : row \in rows}
CardRows(S, metric) ==
    Slices(OwnershipRollup(S), metric) \cup Totals(OwnershipRollup(S), metric)

Card(b, c, metric) ==
    LET rows == Shown(b, c, LAMBDA S : CardRows(S, metric))
    IN  SumOf({row \in rows : /\ \A v \in {"cluster", "namespace"} :
                                     StrictlyIn(b, c, v, row[v])
                              /\ StrictlyIn(b, c, "finding_age", row.age)
                              /\ In(b, c, "sre", row.ownership)}, "value")

\* Both sources picked are the whole population.
UniqueSource(b, c) ==
    IF Cardinality(c.source) = 1 THEN CHOOSE s \in c.source : TRUE ELSE "All sources"
NotAvailable == -1
UniqueCard(b, c) ==
    LET counts == UniqueRollup(OfSource(Rows(b), UniqueSource(b, c)))
        key == <<Expanded(b, c, "cluster"), Expanded(b, c, "sre"),
                 Expanded(b, c, "finding_age")>>
    IN  IF StrictlyIn(b, c, "namespace", All) /\ key \in DOMAIN counts
        THEN counts[key] ELSE NotAvailable

(***************************************************************************)
(* Findings over time.  What is drawn for a severity, given the gauges     *)
(* that were scraped.                                                      *)
(***************************************************************************)
ByCluster(b, c, gauges, severity) ==
    SumFunction([k \in DOMAIN gauges.cluster \cap Expanded(b, c, "cluster") |->
                   gauges.cluster[k][severity]])
ByNamespace(b, c, gauges, severity) ==
    LET shown == {k \in DOMAIN gauges.namespace :
                    StrictlyIn(b, c, "cluster", k[1]) /\ StrictlyIn(b, c, "namespace", k[2])}
    IN  SumFunction([k \in shown |-> gauges.namespace[k][severity]])

\* Mutation of Trend: every filterable board may use the all-cluster history.
TrendLegacy(b, c, gauges, severity) ==
    CASE ~ FilterableTrend(b.uid) -> gauges.legacy[severity]
      [] FilterableTrend(b.uid) /\ c.namespace # {} -> ByNamespace(b, c, gauges, severity)
      [] FilterableTrend(b.uid) /\ c.namespace = {} /\ c.cluster = {} -> gauges.legacy[severity]
      [] OTHER -> ByCluster(b, c, gauges, severity)
Trend(b, c, gauges, severity) ==
    CASE ~ FilterableTrend(b.uid) -> gauges.legacy[severity]
      [] FilterableTrend(b.uid) /\ c.namespace # {} -> ByNamespace(b, c, gauges, severity)
      [] HybridTrend(b.uid) /\ c.namespace = {} /\ c.cluster = {} -> gauges.legacy[severity]
      [] OTHER -> ByCluster(b, c, gauges, severity)
=============================================================================
