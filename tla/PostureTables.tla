---------------------------- MODULE PostureTables ----------------------------
(***************************************************************************)
(* The panels build_dashboard puts on the board: where each one is, what   *)
(* rollup a table is made of, which dropdowns filter it, what its rows are *)
(* gathered by, and where a click on a row leads.                          *)
(***************************************************************************)
EXTENDS PostureBoard

Panel(title, x, y, w, h) == [title |-> title, x |-> x, y |-> y, w |-> w, h |-> h]

\* A board with both trends is longer by the height of the second.
Lower(b) == IF FilterableTrend(b.uid) THEN 8 ELSE 0

(***************************************************************************)
(* Links.  Following one opens Detail with the clicked cell in one         *)
(* dropdown, fixed values in some, and All in the others.                  *)
(***************************************************************************)
Dropdowns == {"cluster", "namespace", "finding_age", "component", "sre", "source"}
HiddenVariables == {"image", "age", "severity", "over30", "payload", "picked"}
Variables == Dropdowns \cup HiddenVariables

NoLink == [variable |-> "none"]
Link(variable, column, rowCluster, fixed) ==
    [variable |-> variable, column |-> column, rowCluster |-> rowCluster, fixed |-> fixed]
Nothing == [v \in {} |-> {}]

\* Mutation of Follow: a link leaves the dropdowns it does not name as they were.
FollowKeeping(c, link, cell) ==
    [v \in Variables |->
       CASE v = link.variable -> {cell[link.column]}
         [] v = "picked" -> {"yes"}
         [] v # link.variable /\ v \in DOMAIN link.fixed -> link.fixed[v]
         [] v = "cluster" /\ link.variable # v /\ link.rowCluster -> {cell.cluster}
         [] OTHER -> c[v]]
Follow(c, link, cell) ==
    [v \in Variables |->
       CASE v = link.variable -> {cell[link.column]}
         [] v = "picked" -> {"yes"}
         [] v # link.variable /\ v \in DOMAIN link.fixed -> link.fixed[v]
         [] v = "cluster" /\ link.variable # v /\ link.rowCluster -> {cell.cluster}
         [] OTHER -> {}]

(***************************************************************************)
(* Tables.                                                                 *)
(***************************************************************************)
PlaceFilters == {"cluster", "namespace", "finding_age"}
VulnFilters == PlaceFilters \cup {"sre", "component"}

Table(panel, filters, by, link) ==
    Joined(panel, [filters |-> filters, by |-> by, link |-> link])

FindingsByNamespace(b) ==
    Table(Panel("Findings by namespace", 0, 56 + Lower(b), 24, 14),
          VulnFilters, {"cluster", "namespace"},
          Link("namespace", "namespace", TRUE, Nothing))
AllComponents(b) ==
    Table(Panel("All components", 12, 70 + Lower(b), 12, 12),
          VulnFilters, {"cluster", "component"},
          Link("component", "component", TRUE, Nothing))
CriticalCvesByAge(b) ==
    Table(Panel("Critical CVEs by age", 0, 35 + Lower(b), 12, 9),
          {"cluster"}, {"bucket"},
          Link("age", "bucket", FALSE, [severity |-> {"Critical"}, payload |-> {TRUE},
                                        sre |-> {"sre_managed"}]))
ImportantCvesByAge(b) ==
    Table(Panel("Important CVEs by age", 12, 35 + Lower(b), 12, 9),
          {"cluster"}, {"bucket"},
          Link("age", "bucket", FALSE, [severity |-> {"Important"}, payload |-> {TRUE},
                                        sre |-> {"sre_managed"}]))
AllImages(b) ==
    Table(Panel("All images", 0, 82 + Lower(b), 24, 12),
          VulnFilters, {"cluster", "component"},
          Link("image", "component", TRUE, Nothing))
OverThirty(b) ==
    Table(Panel("Unique CVEs older than 30 days", 0, 44 + Lower(b), 12, 12),
          PlaceFilters, {"cluster", "namespace"},
          Link("namespace", "namespace", TRUE, [over30 |-> {TRUE},
                                                severity |-> {"Critical", "Important"}]))
FindingOwnership(b) ==
    Table(Panel("Finding ownership", 0, 106 + Lower(b), 9, 10),
          PlaceFilters \cup {"sre"}, {"ownership"},
          Link("sre", "ownership", FALSE, Nothing))
SreManaged(b) ==
    Table(Panel("Red Hat SRE Managed Services", 9, 106 + Lower(b), 15, 10),
          VulnFilters, {"cluster", "component"},
          Link("component", "component", TRUE, [sre |-> {"sre_managed"}]))
RedHatComponents(b) ==
    Table(Panel("Red Hat Components", 0, 70 + Lower(b), 12, 12),
          VulnFilters, {"cluster", "component"},
          Link("component", "component", TRUE, [sre |-> {"redhat_component"}]))
NonRedHatImages(b) ==
    Table(Panel("Non-Red Hat images", 0, 94 + Lower(b), 24, 12),
          VulnFilters, {"cluster", "component"},
          Link("image", "component", TRUE, [sre |-> {"non_redhat"}]))
RemediationPaths(b) ==
    Table(Panel("Remediation Paths", 12, 44 + Lower(b), 12, 12),
          PlaceFilters \cup {"sre"}, {"remedy"}, NoLink)
CriticalByNamespace(b) ==
    Table(Panel("Critical findings by namespace", 0, 15 + Lower(b), 24, 10),
          PlaceFilters, {"namespace"}, NoLink)
PayloadImages(b) ==
    Table(Panel("SRE-managed OpenShift images", 0, 25 + Lower(b), 24, 10),
          {"cluster", "sre"}, {}, NoLink)

Tables(b) ==
    {FindingsByNamespace(b), AllComponents(b), CriticalCvesByAge(b), ImportantCvesByAge(b),
     AllImages(b), OverThirty(b), FindingOwnership(b), SreManaged(b), RedHatComponents(b),
     NonRedHatImages(b), RemediationPaths(b), CriticalByNamespace(b), PayloadImages(b)}

\* The rollup under each table, of the findings of one source.
RolledUp(S, title) ==
    CASE title \in {"Findings by namespace", "All components"} -> FamilyRollup(Named(S))
      [] title = "Red Hat SRE Managed Services" -> FamilyRollup(OwnedBy(S, "sre_managed"))
      [] title = "Red Hat Components" -> FamilyRollup(OwnedBy(S, "redhat_component"))
      [] title = "Non-Red Hat images" -> ImageRollup(OwnedBy(S, "non_redhat"))
      [] title = "All images" ->
           ImageRollup(OwnedBy(S, "redhat_component")) \cup ImageRollup(OwnedBy(S, "sre_managed"))
      [] title = "Finding ownership" -> OwnershipRollup(S)
      [] title = "Remediation Paths" -> RemediationRollup(S)
      [] title = "Unique CVEs older than 30 days" -> OverThirtyRollup(S)
      [] title = "Critical findings by namespace" -> BarRollup(S)
      [] title = "SRE-managed OpenShift images" -> PayloadRollup(S)
      [] title = "Simple view" -> SimpleRows(S)
      [] title = "Critical CVEs by age" -> Aging(S, "Critical")
      [] title = "Important CVEs by age" -> Aging(S, "Important")

\* What is published of it: the tables of components are cut, and Simple view.
ComponentTables ==
    {"Findings by namespace", "All components", "All images",
     "Red Hat SRE Managed Services", "Red Hat Components", "Non-Red Hat images"}
Published(rows) == Largest(rows, TableLimit, LAMBDA p, q : p.findings > q.findings)
Content(S, title) ==
    CASE title \in ComponentTables -> Published(RolledUp(S, title))
      [] title = "Simple view" -> SimpleRollup(S)
      [] OTHER -> RolledUp(S, title)

\* The slices that pass the filters of a table, and its rows made of them.
Passing(b, c, t) ==
    {row \in Shown(b, c, LAMBDA S : Content(S, t.title)) : Passes(b, c, t.filters, row)}
CellOf(row, t) == [col \in t.by |-> row[col]]
\* A table: what it shows of each cell.
Cells(b, c, t) ==
    LET rows == Passing(b, c, t)
    IN  [cell \in {CellOf(row, t) : row \in rows} |->
           SumOf({row \in rows : CellOf(row, t) = cell}, "findings")]

(***************************************************************************)
(* Detail.                                                                 *)
(***************************************************************************)
Picked(c, v, value) == c[v] = {} \/ value \in c[v]
SourceName(row) == IF row.redhat THEN "Red Hat sources" ELSE "Non-Red Hat sources"

Detail(b, c) ==
    {row \in Drilldown(Rows(b)) :
       /\ ~ b.lite
       /\ c.picked = {"yes"}
       /\ Picked(c, "source", SourceName(row))
       /\ Passes(b, c, VulnFilters, row)
       /\ Picked(c, "image", row.repository)
       /\ Picked(c, "age", row.bucket)
       /\ row.severity \in (IF c.severity = {} THEN Severities ELSE c.severity)
       /\ Picked(c, "over30", row.over30)
       /\ Picked(c, "payload", row.payload)}

(***************************************************************************)
(* The board.                                                              *)
(***************************************************************************)
Header == {Panel("Posture", 0, 0, 14, 3), Panel("OpenShift version", 14, 0, 10, 1),
           Panel("Operators with updates", 14, 1, 10, 2)}
Cards ==
    {Panel("Total", 0, 3, 4, 4), Panel("Unique CVEs", 4, 3, 4, 4),
     Panel("Fixable findings", 8, 3, 4, 4), Panel("Critical", 12, 3, 3, 4),
     Panel("Important", 15, 3, 3, 4), Panel("Moderate", 18, 3, 3, 4), Panel("Low", 21, 3, 3, 4)}
Trends(b) ==
    {Panel("Findings over time", 0, 7, 24, 8)}
      \cup (IF FilterableTrend(b.uid) THEN {Panel("Findings over time, legacy", 0, 15, 24, 8)}
            ELSE {})

Placed(b) ==
    Header \cup Cards \cup Trends(b)
      \cup {Panel(t.title, t.x, t.y, t.w, t.h) : t \in Tables(b)}

Bottom(panels) == Max({p.y + p.h : p \in panels})
Under(panels, title, h) == panels \cup {Panel(title, 0, Bottom(panels), 24, h)}

WithSubscriptions(b) ==
    IF b.subscriptions THEN Under(Placed(b), "Operator subscriptions", 16) ELSE Placed(b)
SimpleView(b) ==
    Table(Panel("Simple view", 0, Bottom(WithSubscriptions(b)), 24, 14),
          PlaceFilters, {"cluster", "namespace", "repository", "age"}, NoLink)
WithSimpleView(b) == Under(WithSubscriptions(b), "Simple view", 14)
WithDetail(b) == Under(WithSimpleView(b), "Detail", IF b.lite THEN 4 ELSE 14)

\* The report of CVE intelligence goes above Detail, and Detail below it.  On a
\* lite board there is no Detail to look for, and the report goes to the end.
IntelHeight == 26
\* Mutation of Board: Detail stays where the report now is.
BoardOverlaid(b) ==
    IF IntelPanels(b) /\ ~ b.lite
    THEN WithDetail(b) \cup {Panel("Recent reports", 0, Bottom(WithSimpleView(b)), 24, IntelHeight)}
    ELSE WithDetail(b)
Board(b) ==
    CASE ~ IntelPanels(b) -> WithDetail(b)
      [] IntelPanels(b) /\ b.lite -> Under(WithDetail(b), "Recent reports", IntelHeight)
      [] OTHER ->
           Under(Under(WithSimpleView(b), "Recent reports", IntelHeight), "Detail", 14)
=============================================================================
