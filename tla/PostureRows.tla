----------------------------- MODULE PostureRows -----------------------------
(***************************************************************************)
(* roles/cve_analyzer/files/rhacs_report_analytics.py: how the lines of an *)
(* RHACS vulnerability report become findings, and how findings are rolled *)
(* up before the dashboard gets them.                                      *)
(*                                                                         *)
(* A finding is a record with its line in the report, its cve, severity,   *)
(* cluster, namespace, repository, age in days, whether it is fixable and  *)
(* whether Red Hat is the source of the advisory; classification adds the  *)
(* family, the ownership and the remedy.  "" is an empty cell.             *)
(*                                                                         *)
(* A line may give two ages.  age is the cell AgeDays, which the parser of *)
(* the report filled in when it ran; seen counts the days from the day the *)
(* finding was discovered to the date of the report.  They need not be the *)
(* same, and each is NoAge where the line has nothing to tell it by.       *)
(*                                                                         *)
(* A rollup is a set of records, each with the values it is keyed by and a *)
(* Summary of the findings that have them.                                 *)
(* Names of families and repositories are sequences of words, because one  *)
(* filter of the dashboard matches the beginnings and ends of names.       *)
(***************************************************************************)
EXTENDS Integers, FiniteSetsExt, SequencesExt

CONSTANTS
    Families,           \* image_families.yaml: a sequence, the first match wins
    PayloadRepository,  \* the repository of the OpenShift release images
    DetailLimit,        \* rows of Detail before Moderate and Low are left out
    TableLimit,         \* slices a table of components is published with
    SimpleLimit,        \* rows of Simple view
    BarLimit            \* namespaces with a bar

\* A record with the fields of two (@@ of TLC is not for the prover).
Joined(f, g) ==
    [k \in DOMAIN f \cup DOMAIN g |-> IF k \in DOMAIN f THEN f[k] ELSE g[k]]

NoAge == -1
All == "__ALL__"

Severities == {"Critical", "Important", "Moderate", "Low"}
Ownerships == {"sre_managed", "redhat_component", "non_redhat"}

AgeBuckets == {"Under 14 days", "14-30 days", "30-60 days", "60-90 days",
               "90-180 days", "Over 180 days", "Unknown"}
AgeBucket(days) ==
    CASE days = NoAge -> "Unknown"
      [] days \in 0..13 -> "Under 14 days"
      [] days \in 14..29 -> "14-30 days"
      [] days \in 30..59 -> "30-60 days"
      [] days \in 60..89 -> "60-90 days"
      [] days \in 90..179 -> "90-180 days"
      [] OTHER -> "Over 180 days"

FindingAges == {"0-15 days", "15-30 days", "30-60 days", "Over 60 days", "Unknown"}
FindingAge(days) ==
    CASE days = NoAge -> "Unknown"
      [] days \in 0..14 -> "0-15 days"
      [] days \in 15..29 -> "15-30 days"
      [] days \in 30..59 -> "30-60 days"
      [] OTHER -> "Over 60 days"

ASSUME LimitsAssumption ==
    {DetailLimit, TableLimit, SimpleLimit, BarLimit} \subseteq Nat

\* The file of families has these three owners, and begins with OpenShift.
ASSUME FamiliesAssumption ==
    /\ Families \in Seq(ToSet(Families)) \ {<<>>}
    /\ \A i \in DOMAIN Families : Families[i].ownership \in Ownerships
    /\ PayloadRepository \in Families[1].repositories
    /\ Families[1].ownership = "sre_managed"

(***************************************************************************)
(* From the report to findings.                                            *)
(***************************************************************************)

\* An image no family matches is a family of its own, nobody's but the owner's.
Unmatched(repository) ==
    [name |-> repository, ownership |-> "non_redhat", remedy |-> "review"]

FamilyOf(repository, namespace) ==
    LET hits == {i \in DOMAIN Families : \/ repository \in Families[i].repositories
                                         \/ namespace \in Families[i].namespaces}
    IN  IF hits = {} THEN Unmatched(repository) ELSE Families[Min(hits)]
Family(r) == FamilyOf(r.repository, r.namespace)

Classified(r) ==
    Joined(r, [family |-> Family(r).name, ownership |-> Family(r).ownership,
               remedy |-> Family(r).remedy])

OrUnknown(name) == IF name = "" THEN "Unknown" ELSE name

\* A finding is as old as its line says, or else as its discovery makes it.
Aged(l) == [l EXCEPT !.age = IF @ = NoAge THEN l.seen ELSE @]

\* A line of the scrubbed CSV without a CVE is no finding.
CsvFindings(lines) ==
    {Classified(Aged([l EXCEPT !.cluster = OrUnknown(@)])) : l \in {l \in lines : l.cve # ""}}

\* The fallback: data.json has one item for a CVE of an image, with the
\* namespaces it is in, and no AgeDays.
ItemNamespaces(i) == IF i.namespaces = <<>> THEN <<"Unknown">> ELSE i.namespaces
ItemFinding(i, n) ==
    [line |-> 10 * i.line + n, cve |-> i.cve, severity |-> i.severity,
     cluster |-> OrUnknown(i.cluster), namespace |-> ItemNamespaces(i)[n],
     repository |-> i.repository, age |-> i.seen, seen |-> i.seen, redhat |-> i.redhat,
     fixable |-> i.fixable]
JsonFindings(items) ==
    UNION {{Classified(ItemFinding(i, n)) : n \in DOMAIN ItemNamespaces(i)} :
             i \in {i \in items : i.cve # ""}}

Findings(report) ==
    IF report.readable THEN CsvFindings(report.lines) ELSE JsonFindings(report.items)

Clusters(S) == {r.cluster : r \in S}

\* cve_analyzer_clusters: no names mean every cluster.
InScope(S, names) == IF names = {} THEN S ELSE {r \in S : r.cluster \in names}
UnknownNames(S, names) == names \ Clusters(S)

(***************************************************************************)
(* Gauges.  They are computed before the clusters are chosen.              *)
(***************************************************************************)
Counts(S) ==
    [s \in Severities \cup {"Total"} |->
       Cardinality(IF s = "Total" THEN S ELSE {r \in S : r.severity = s})]

NamespaceLabel(r) == IF r.namespace = "" THEN "unknown" ELSE r.namespace

\* Mutation of NamespaceGauges: no gauge for findings without a namespace.
NamespaceGaugesNamed(S) ==
    [k \in {<<r.cluster, r.namespace>> : r \in {r \in S : r.namespace # ""}} |->
       Counts({r \in S : <<r.cluster, r.namespace>> = k})]

ClusterGauges(S) == [c \in Clusters(S) |-> Counts({r \in S : r.cluster = c})]
NamespaceGauges(S) ==
    [k \in {<<r.cluster, NamespaceLabel(r)>> : r \in S} |->
       Counts({r \in S : <<r.cluster, NamespaceLabel(r)>> = k})]

Gauges(S) ==
    [legacy |-> Counts(S), cluster |-> ClusterGauges(S), namespace |-> NamespaceGauges(S)]

(***************************************************************************)
(* Rollups.                                                                *)
(***************************************************************************)
Cves(S) == {r.cve : r \in S}
Having(S, severity) == {r \in S : r.severity = severity}

Summary(S) ==
    [findings |-> Cardinality(S),
     critical |-> Cardinality(Having(S, "Critical")),
     important |-> Cardinality(Having(S, "Important")),
     moderate |-> Cardinality(Having(S, "Moderate")),
     low |-> Cardinality(Having(S, "Low")),
     fixable |-> Cardinality({r \in S : r.fixable})]

\* One record for each key some finding of S has.
GroupBy(S, Key(_), Of(_)) ==
    {Joined(Key(r), Of({q \in S : Key(q) = Key(r)})) : r \in S}

Slice(r) ==
    [cluster |-> r.cluster, namespace |-> OrUnknown(r.namespace), age |-> FindingAge(r.age)]
Owned(r) == Joined(Slice(r), [ownership |-> r.ownership])

OwnershipRollup(S) == GroupBy(S, Owned, Summary)

RemediationRollup(S) ==
    GroupBy(S, LAMBDA r : Joined(Owned(r), [remedy |-> r.remedy]), Summary)

\* By family or, for the tables of images, by repository.
FamilyRollup(S) ==
    GroupBy(S, LAMBDA r : Joined(Owned(r), [component |-> r.family]), Summary)
ImageRollup(S) ==
    GroupBy(S, LAMBDA r : Joined(Owned(r), [component |-> r.repository]), Summary)

OwnedBy(S, owner) == {r \in S : r.ownership = owner}
FamilyNames == {f.name : f \in ToSet(Families)}
Named(S) == {r \in S : r.family \in FamilyNames}

\* What is left of a sorted table when its end is cut off.
Largest(rows, limit, Before(_, _)) ==
    IF Cardinality(rows) <= limit THEN rows
    ELSE ToSet(SubSeq(SetToSortSeq(rows, Before), 1, limit))

\* Unique CVEs older than 30 days, by namespace.
Old(S) == {r \in S : r.age >= 30}
UniqueSummary(S) ==
    [critical |-> Cardinality(Cves(Having(S, "Critical"))),
     important |-> Cardinality(Cves(Having(S, "Important"))),
     findings |-> Cardinality(Cves(Having(S, "Critical") \cup Having(S, "Important")))]
OverThirtyRollup(S) == GroupBy(Old(S), Slice, UniqueSummary)

\* Simple view: what can be fixed now, image by image.
Fixable(S) == {r \in S : r.fixable /\ r.severity \in {"Critical", "Important"}}
SimpleRows(S) ==
    GroupBy(Fixable(S), LAMBDA r : Joined(Slice(r), [repository |-> r.repository]),
            UniqueSummary)
SimpleRollup(S) ==
    Largest(SimpleRows(S), SimpleLimit,
            LAMBDA a, b : \/ a.critical > b.critical
                          \/ a.critical = b.critical /\ a.important > b.important)

\* The namespaces with the most Critical findings; the one first met wins a tie.
Place(r) == <<r.cluster, OrUnknown(r.namespace)>>
FirstLine(S) == CHOOSE n \in {r.line : r \in S} : \A r \in S : n <= r.line
BarPlaces(S) ==
    LET crit == Having(S, "Critical")
        At(p) == {r \in crit : Place(r) = p}
        Ahead(p, q) == \/ Cardinality(At(p)) > Cardinality(At(q))
                       \/ /\ Cardinality(At(p)) = Cardinality(At(q))
                          /\ FirstLine(At(p)) < FirstLine(At(q))
        places == {Place(r) : r \in crit}
    IN  {p \in places : Cardinality({q \in places : Ahead(q, p)}) < BarLimit}
BarRollup(S) ==
    GroupBy({r \in Having(S, "Critical") : Place(r) \in BarPlaces(S)}, Slice, Summary)

(***************************************************************************)
(* The OpenShift release images: every CVE has one age, from the day it    *)
(* was first seen, or where no finding of it has one, from its first line. *)
(***************************************************************************)
Payload(S) == {r \in S : r.repository = PayloadRepository}
Oldest(S, cve) ==
    LET of == {r \in S : r.cve = cve}
        dated == {r \in of : r.seen # NoAge}
        first == CHOOSE r \in of : r.line = FirstLine(of)
    IN  IF dated # {} THEN Max({r.seen : r \in dated}) ELSE first.age
Aging(S, severity) ==
    {[cluster |-> c, bucket |-> b,
      findings |-> Cardinality(
        {v \in Cves(Having({r \in Payload(S) : r.cluster = c}, severity)) :
           AgeBucket(Oldest(Having({r \in Payload(S) : r.cluster = c}, severity), v)) = b})] :
       c \in Clusters(Payload(S)), b \in AgeBuckets}

\* A source without such images has a row of zero under the cluster Unknown,
\* here and in Aging; it adds nothing to any count and is not written down.
PayloadRollup(S) ==
    {[cluster |-> c, ownership |-> "sre_managed",
      findings |-> Cardinality({r \in Payload(S) : r.cluster = c})] :
       c \in Clusters(Payload(S))}

(***************************************************************************)
(* The card of unique CVEs.  A dropdown's selection, joined by "|", is a   *)
(* key: here the set of what is joined.  Each key has its own count, and a *)
(* selection that is no key has none.                                      *)
(***************************************************************************)
ClusterAllKey(S) == Clusters(S) \cup {All}
ClusterKeys(S) ==
    {ClusterAllKey(S)} \cup {{c} : c \in Clusters(S)}
      \cup (IF Cardinality(Clusters(S)) > 1 THEN {Clusters(S)} ELSE {})
AgeKeys == {{All}} \cup ((SUBSET FindingAges) \ {{}})
SreKeys == {{All}} \cup ((SUBSET Ownerships) \ {{}})

\* The CVEs of one cluster or of all, one owner or all, one age or all.
BaseCves(S, cluster, owner, age) ==
    Cves({r \in S : /\ cluster \in {r.cluster, All}
                    /\ owner \in {r.ownership, All}
                    /\ age \in {FindingAge(r.age), All}})

\* Mutation of KeyCount: the counts of the ages are added up.
KeyCountSum(S, cluster, owners, ages) ==
    SumFunction([a \in ages |-> Cardinality(UNION {BaseCves(S, cluster, o, a) : o \in owners})])
KeyCount(S, cluster, owners, ages) ==
    Cardinality(UNION {BaseCves(S, cluster, o, a) : o \in owners, a \in ages})

LookupCluster(S, key) == IF key \in {{c} : c \in Clusters(S)} THEN CHOOSE c \in key : TRUE ELSE All
UniqueRollup(S) ==
    [k \in ClusterKeys(S) \X SreKeys \X AgeKeys |->
       KeyCount(S, LookupCluster(S, k[1]), k[2], k[3])]

(***************************************************************************)
(* Detail: one row for each namespace, family, image and CVE.              *)
(***************************************************************************)
Rank(severity) ==
    CASE severity = "Critical" -> 0 [] severity = "Important" -> 1
      [] severity = "Moderate" -> 2 [] severity = "Low" -> 3 [] OTHER -> 9
Precedes(q, r) ==
    \/ Rank(q.severity) < Rank(r.severity)
    \/ Rank(q.severity) = Rank(r.severity) /\ q.line < r.line

DetailKey(r) ==
    <<r.cluster, OrUnknown(r.namespace), r.family, r.repository, r.cve, r.severity,
      AgeBucket(r.age)>>
Firsts(S) == {r \in S : ~ \E q \in S : DetailKey(q) = DetailKey(r) /\ Precedes(q, r)}

DetailRow(r) ==
    [cluster |-> r.cluster, namespace |-> OrUnknown(r.namespace),
     ownership |-> r.ownership, component |-> r.family, repository |-> r.repository,
     cve |-> r.cve, severity |-> r.severity, age |-> FindingAge(r.age),
     bucket |-> AgeBucket(r.age), over30 |-> r.age >= 30,
     payload |-> r.repository = PayloadRepository, redhat |-> r.redhat]
Drilldown(S) ==
    LET firsts == Firsts(S)
        kept == {r \in firsts : \/ Rank(r.severity) <= 1
                                \/ Cardinality({q \in firsts : Precedes(q, r)}) < DetailLimit}
    IN  {DetailRow(r) : r \in kept}
=============================================================================
