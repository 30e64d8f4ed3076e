------------------------------- MODULE Posture -------------------------------
(***************************************************************************)
(* The vulnerability posture dashboard from report to viewer.  A report of *)
(* RHACS is pulled; the builder turns it into gauges and a dashboard; the  *)
(* role publishes the dashboard, or Grafana rejects it and the previous    *)
(* one stays; a viewer picks values in the dropdowns.                      *)
(*                                                                         *)
(* Code: roles/cve_analyzer/files/rhacs_report_analytics.py,               *)
(*       roles/cve_analyzer/files/build_rhacs_vuln_dashboard.py,           *)
(*       roles/cve_analyzer/tasks/publish_rhacs_posture.yml.               *)
(***************************************************************************)
EXTENDS PostureTables

CONSTANTS
    Reports,    \* the reports there may be
    Builds,     \* how the job may be launched: clusters, uid and options
    MaxPicked,  \* dropdowns the viewer moves off All, at most
    MaxPicks    \* options picked in one of them, at most

\* The words the builder drops where they are the name of a cluster or namespace.
Reserved == {All, "unknown"}

\* A report is finite, and no cluster or namespace in it is called like those
\* words; a cell may be empty.  age_days is never below 0.  The dropdown of
\* components has its families and its images.
ReportAssumption ==
    \A r \in Reports :
      /\ IsFiniteSet(r.lines)
      /\ IsFiniteSet(r.items)
      /\ \A l \in r.lines :
           /\ DOMAIN l = {"line", "cve", "severity", "cluster", "namespace",
                          "repository", "age", "seen", "redhat", "fixable"}
           /\ l.line \in Nat
           /\ {l.age, l.seen} \subseteq Nat \cup {NoAge}
           /\ l.cluster \notin Reserved
           /\ l.namespace \notin Reserved
      /\ \A i \in r.items :
           /\ i.line \in Nat
           /\ i.seen \in Nat \cup {NoAge}
           /\ i.cluster \notin Reserved
           /\ IsFiniteSet(DOMAIN i.namespaces) /\ DOMAIN i.namespaces \subseteq Nat
           /\ \A n \in DOMAIN i.namespaces : i.namespaces[n] \notin Reserved
      /\ \A f \in Findings(r) :
           {f.family, ImageLabel(f.repository)} \subseteq ToSet(Alphabet)

ASSUME ReportsAreNamed == ReportAssumption
ASSUME BoardsHaveUids == \A o \in Builds : o.uid # ""

VARIABLES
    report,     \* the report in the data directory
    outcome,    \* of the last step of the job
    built,      \* the dashboard the builder wrote
    gauges,     \* the gauges it wrote, which Prometheus scrapes
    board,      \* the dashboard in Grafana
    choice      \* what the viewer has picked

vars == <<report, outcome, built, gauges, board, choice>>

NoBoard == [findings |-> {}, names |-> {}, uid |-> "", lite |-> FALSE, intel |-> FALSE,
            subscriptions |-> FALSE]
Untouched == [v \in Variables |-> IF v = "picked" THEN {"none"} ELSE {}]

Init ==
    /\ report \in Reports
    /\ outcome = "pulled"
    /\ built = NoBoard
    /\ gauges = Gauges({})
    /\ board = NoBoard
    /\ choice = Untouched

Pull(r) ==
    /\ outcome # "built"
    /\ choice = Untouched
    /\ report' = r
    /\ outcome' = "pulled"
    /\ UNCHANGED <<built, gauges, board, choice>>

MadeOf(r, o) ==
    [findings |-> Findings(r), names |-> o.clusters, uid |-> o.uid, lite |-> o.lite,
     intel |-> o.intel, subscriptions |-> o.subscriptions]

\* The gauges are of the whole report, whatever clusters the board is for.
Build(o) ==
    /\ outcome = "pulled"
    /\ UnknownNames(Findings(report), o.clusters) = {}
    /\ gauges' = Gauges(Findings(report))
    /\ built' = MadeOf(report, o)
    /\ outcome' = "built"
    /\ UNCHANGED <<report, board, choice>>

\* A cluster the report does not know ends the job before anything is written.
Refuse(o) ==
    /\ outcome = "pulled"
    /\ UnknownNames(Findings(report), o.clusters) # {}
    /\ outcome' = "refused"
    /\ UNCHANGED <<report, built, gauges, board, choice>>

Publish ==
    /\ outcome = "built"
    /\ board' = built
    /\ built' = NoBoard
    /\ outcome' = "published"
    /\ UNCHANGED <<report, gauges, choice>>

\* Too large, or Grafana is away: the gauges are new and the board is not.
Reject ==
    /\ outcome = "built"
    /\ built' = NoBoard
    /\ outcome' = "rejected"
    /\ UNCHANGED <<report, gauges, board, choice>>

Choose(v, picks) ==
    /\ outcome = "published"
    /\ choice[v] = {}
    /\ Cardinality({u \in Dropdowns : choice[u] # {}}) < MaxPicked
    /\ picks \subseteq Options(board, v)
    /\ choice' = [choice EXCEPT ![v] = picks]
    /\ UNCHANGED <<report, outcome, built, gauges, board>>

Leave ==
    /\ choice # Untouched
    /\ choice' = Untouched
    /\ UNCHANGED <<report, outcome, built, gauges, board>>

Next ==
    \/ \E r \in Reports : Pull(r)
    \/ \E o \in Builds : Build(o) \/ Refuse(o)
    \/ Publish
    \/ Reject
    \/ \E v \in Dropdowns :
         \E picks \in UNION {kSubset(n, Options(board, v)) : n \in 1..MaxPicks} :
           Choose(v, picks)
    \/ Leave

Spec == Init /\ [][Next]_vars

-----------------------------------------------------------------------------
(***************************************************************************)
(* What the viewer means.                                                  *)
(***************************************************************************)
Means(v, r) ==
    CASE v = "cluster" -> r.cluster
      [] v = "namespace" -> OrUnknown(r.namespace)
      [] v = "finding_age" -> FindingAge(r.age)
      [] v = "source" -> SourceName(r)
      [] v = "sre" -> r.ownership

Matching(c, dropdowns) ==
    {r \in board.findings :
       /\ board.names = {} \/ r.cluster \in board.names
       /\ \A v \in dropdowns : c[v] = {} \/ Means(v, r) \in c[v]}

\* A finding whose namespace the report does not give is not among All.
HasNamespace(r) == OrUnknown(r.namespace) # "Unknown"
Placeable(c, S) == IF c.namespace = {} THEN {r \in S : HasNamespace(r)} ELSE S

CardDropdowns == {"cluster", "namespace", "finding_age", "source", "sre"}

\* The state is one of the job's, and the viewer has picked what was offered;
\* the three families of gauges count the same findings.
PostureTypeOK ==
    /\ report \in Reports
    /\ outcome \in {"pulled", "built", "refused", "published", "rejected"}
    /\ outcome = "built" <=> built # NoBoard
    /\ DOMAIN choice = Variables
    /\ \A v \in Dropdowns : choice[v] \subseteq Options(board, v)
    /\ \A s \in Severities \cup {"Total"} :
         /\ gauges.legacy[s]
              = SumFunction([k \in DOMAIN gauges.cluster |-> gauges.cluster[k][s]])
         /\ gauges.legacy[s]
              = SumFunction([k \in DOMAIN gauges.namespace |-> gauges.namespace[k][s]])

\* The cards of counts (Total, Fixable and one for each severity) show, for
\* whatever is picked in the dropdowns, how many findings of the report there
\* are for it: _stat_metric_rows makes them of slices and their sums, and none
\* is added twice and none is left out.  A finding without a namespace is not
\* counted under All namespaces.
CardsCountFindings ==
    LET matching == Placeable(choice, Matching(choice, CardDropdowns))
    IN  \A m \in Metrics : Card(board, choice, m) = Summary(matching)[m]

\* The card of unique CVEs (unique_cves_kpi_filterable) never shows anything but
\* the number of different CVEs: a CVE two clusters, two sources, two owners or
\* two ages have in common is one.  It may show n/a, but not when there is one
\* namespace dropdown left at All and the clusters picked, or all, have findings
\* of the source picked.
UniqueIsExact ==
    LET matching == Matching(choice, CardDropdowns)
        known == Clusters(OfSource(Rows(board), UniqueSource(board, choice)))
        answered == /\ choice.namespace = {}
                    /\ \/ Cardinality(choice.cluster) = 1 /\ choice.cluster \subseteq known
                       \/ choice.cluster = {} /\ known = Clusters(Rows(board))
        shown == UniqueCard(board, choice)
    IN  shown = Cardinality(Cves(matching)) \/ (~ answered /\ shown = NotAvailable)

(***************************************************************************)
(* Tables.                                                                 *)
(***************************************************************************)
ImageTables == {"All images", "Non-Red Hat images"}
ByNamespaceBars == "Critical findings by namespace"
AgeTables == {"Critical CVEs by age", "Important CVEs by age"}
\* The tables whose rows count findings, and those whose rows count CVEs.
CountTables ==
    {"Findings by namespace", "All components", "All images", "Finding ownership",
     "Red Hat SRE Managed Services", "Red Hat Components", "Non-Red Hat images",
     "Remediation Paths", ByNamespaceBars, "SRE-managed OpenShift images"}
CveTables == {"Unique CVEs older than 30 days", "Simple view"}

\* What a table is about.
About(title, r) ==
    CASE title \in {"Findings by namespace", "All components"} -> r.family \in FamilyNames
      [] title = "All images" -> r.ownership # "non_redhat"
      [] title = "Red Hat SRE Managed Services" -> r.ownership = "sre_managed"
      [] title = "Red Hat Components" -> r.ownership = "redhat_component"
      [] title = "Non-Red Hat images" -> r.ownership = "non_redhat"
      [] title = ByNamespaceBars -> r.severity = "Critical"
      [] title = "SRE-managed OpenShift images" -> r.repository = PayloadRepository
      [] title = "Unique CVEs older than 30 days" ->
           r.age >= 30 /\ r.severity \in {"Critical", "Important"}
      [] title = "Simple view" -> r.fixable /\ r.severity \in {"Critical", "Important"}
      [] OTHER -> TRUE

Component(title, r) == IF title \in ImageTables THEN r.repository ELSE r.family
Column(t, col, r) ==
    CASE col = "component" -> Component(t.title, r)
      [] col = "ownership" -> r.ownership
      [] col = "remedy" -> r.remedy
      [] col = "repository" -> r.repository
      [] col = "age" -> FindingAge(r.age)
      [] OTHER -> Means(col, r)
CellFor(t, r) == [col \in t.by |-> Column(t, col, r)]

\* The findings picked in the dropdowns that filter a table, and in Source.  Where
\* no finding of the board has a namespace, tables list all of them under All.
Counted(c, t) ==
    LET matching == Matching(c, (t.filters \ {"component"}) \cup {"source"})
        placed == IF "namespace" \in t.filters /\ NamespaceAll(board) # {All}
                    THEN Placeable(c, matching)
                    ELSE matching
    IN  {r \in placed :
           /\ About(t.title, r)
           /\ "component" \in t.filters /\ c.component # {}
                => Component(t.title, r) \in c.component}

\* Two components picked may match a third, whose name begins or ends like them.
PicksAreClear(c) ==
    \A n \in {r.family : r \in Rows(board)} \cup {r.repository : r \in Rows(board)} :
      PipeMatch(c.component, n) => c.component = {} \/ n \in c.component

\* Nothing was left out of the table for its length.
Fits(S, title) ==
    CASE title \in ComponentTables -> Cardinality(RolledUp(S, title)) <= TableLimit
      [] title = "Simple view" -> Cardinality(SimpleRows(S)) <= SimpleLimit
      [] title = ByNamespaceBars ->
           Cardinality({Place(r) : r \in Having(S, "Critical")}) <= BarLimit
      [] OTHER -> TRUE
Whole(t) == \A s \in Sources : Fits(OfSource(Rows(board), s), t.title)

\* Each row of a table of findings counts the findings picked that belong to
\* it, and each such finding has a row, unless the table was cut at its limit
\* (filterable_component_rows, rollup_after_namespace).  A row of Simple view, or of
\* the unique CVEs older than 30 days, counts CVEs: never fewer than there are, and
\* in Simple view exactly as many, unless a row there is the sum of both sources'.
TablesCountFindings ==
    PicksAreClear(choice) =>
      \A t \in {t \in Tables(board) \cup {SimpleView(board)} :
                  t.title \in CountTables \cup CveTables /\ Whole(t)} :
        LET counted == Counted(choice, t)
            Of(cell) == {r \in counted : CellFor(t, r) = cell}
            shown == Cells(board, choice, t)
        IN  /\ t.title # "Unique CVEs older than 30 days"
                 => DOMAIN shown = {CellFor(t, r) : r \in counted}
            /\ {CellFor(t, r) : r \in counted} \subseteq DOMAIN shown
            /\ \A cell \in DOMAIN shown :
                 CASE t.title \in CountTables -> shown[cell] = Cardinality(Of(cell))
                   [] t.title = "Simple view" /\ Cardinality(choice.source) <= 1 ->
                        shown[cell] = Cardinality(Cves(Of(cell)))
                   [] OTHER -> shown[cell] >= Cardinality(Cves(Of(cell)))

LinkedTables ==
    (CountTables \cup {"Unique CVEs older than 30 days"})
      \ {"Remediation Paths", ByNamespaceBars, "SRE-managed OpenShift images"}

Listed(r, rows) ==
    \E d \in rows :
      /\ d.cve = r.cve /\ d.severity = r.severity
      /\ d.cluster = r.cluster /\ d.namespace = OrUnknown(r.namespace)
      /\ d.repository = r.repository

\* The CVEs a click on a row of a table of CVEs by age lists, and those that
\* findings of S have in that row's cluster.
CvesOpened(t, row, S) ==
    Cves({r \in Detail(board, Follow(choice, t.link, CellOf(row, t))) \cup S :
            r.cluster = row.cluster})

\* The findings of a bucket that have no namespace, and those that are in it by
\* the day they were discovered and not by the age they have.
Unplaced(bucket) ==
    {r \in Payload(Rows(board)) :
       bucket \in {AgeBucket(r.age), AgeBucket(r.seen)} /\ ~ HasNamespace(r)}
Astray(bucket) ==
    {r \in Payload(Rows(board)) :
       r.seen # NoAge /\ AgeBucket(r.seen) = bucket /\ AgeBucket(r.age) # bucket}

\* A click on a row opens Detail (drill_link), and there every Critical or
\* Important finding the row counted is listed, whatever the dropdowns were at;
\* a click on a row of CVEs by age lists no fewer CVEs than the row counted, but
\* for those that findings without a namespace have, and those whose findings
\* are of one age by AgeDays and of another by the date they were discovered.
ClickListsCounted ==
    ~ board.lite /\ PicksAreClear(choice) =>
      /\ \A t \in {t \in Tables(board) : t.title \in LinkedTables} :
           LET counted == {r \in Counted(choice, t) : Rank(r.severity) <= 1 /\ HasNamespace(r)}
           IN  \A cell \in {CellFor(t, r) : r \in counted} \cap DOMAIN Cells(board, choice, t) :
                 LET opened == Detail(board, Follow(choice, t.link, cell))
                 IN  \A r \in counted : CellFor(t, r) = cell => Listed(r, opened)
      /\ \A t \in {t \in Tables(board) : t.title \in AgeTables} :
           \A row \in Passing(board, choice, t) :
             row.findings > 0 =>
               row.findings
                 <= Cardinality(CvesOpened(t, row, Unplaced(row.bucket) \cup Astray(row.bucket)))

\* The trend, drawn from gauges of the whole report, and the Total card, made of
\* a board that may be for some clusters only, agree on the findings of the
\* clusters and namespaces picked.  A hybrid board goes back to the history of
\* all clusters when nothing is picked, and is then for all of them.
TrendAgreesWithCards ==
    LET comparable ==
          /\ FilterableTrend(board.uid)
          /\ gauges = Gauges(board.findings)
          /\ \A v \in {"finding_age", "source", "sre"} : choice[v] = {}
          /\ \A r \in Rows(board) : HasNamespace(r)
          /\ HybridTrend(board.uid) => board.names = {}
    IN  comparable => /\ Trend(board, choice, gauges, "Total") = Card(board, choice, "findings")
                      /\ Trend(board, choice, gauges, "Critical") = Card(board, choice, "critical")

\* No two panels overlap, with either trend, with and without subscriptions,
\* intelligence and Detail; none is wider than the board; and Detail, where
\* there is one, is below everything else.
PanelsApart ==
    LET panels == Board(board)
        Apart(p, q) == \/ p.x + p.w <= q.x \/ q.x + q.w <= p.x
                       \/ p.y + p.h <= q.y \/ q.y + q.h <= p.y
    IN  /\ \A p, q \in panels : p = q \/ Apart(p, q)
        /\ \A p \in panels : p.x + p.w <= 24
        /\ ~ board.lite => \A p, q \in panels : p.title = "Detail" => q.y <= p.y
=============================================================================
