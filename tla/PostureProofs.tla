----------------------------- MODULE PostureProofs -----------------------------
(***************************************************************************)
(* What the dashboard shows, for every report, launch and viewer.  The     *)
(* card of unique CVEs shows a count looked up under a key made of the     *)
(* viewer's choices: whenever there is a count under that key, the CVEs it *)
(* counted are those of the findings the viewer means.  The other cards,   *)
(* the trend and the tables show sums: what is summed splits those         *)
(* findings.  A click on a table finds again what it counted.  And no      *)
(* panel hides another.                                                    *)
(***************************************************************************)
EXTENDS Posture, FiniteSetTheorems, WellFoundedInduction, TLAPS

-----------------------------------------------------------------------------
(***************************************************************************)
(* Sums over finite sets.  SumFunctionOnSet is a fold, a function defined  *)
(* by recursion over the subsets of a set; that there is such a function,  *)
(* and what it is, is proved by induction on the size of the subsets.  The *)
(* induction is over a set of numbers, and rests on the order of the       *)
(* naturals being well-founded.  So does it that a finite set of numbers   *)
(* has a greatest one.                                                     *)
(***************************************************************************)
\* A set of numbers that is not empty has a least one.
LEMMA LeastNumber ==
    ASSUME NEW T \in SUBSET Nat, T # {}
    PROVE  \E x \in T : \A y \in T : x <= y
<1> DEFINE R == {p \in Nat \X Nat : p[1] < p[2]}
<1>1. IsWellFoundedOn(R, Nat)
  BY NatLessThanWellFounded DEF OpToRel
<1>2. \A x, y \in Nat : <<x, y>> \in R <=> x < y
  OBVIOUS
<1> HIDE DEF R
<1>3. PICK x \in T : \A y \in T : ~ (<<y, x>> \in R)
  BY <1>1, WFMin
<1>4. \A y \in T : ~ (y < x)
  BY <1>2, <1>3
<1>5. \A y \in T : x <= y
  BY <1>4
<1>6. QED
  BY <1>5

\* Induction: a set with 0, and with n + 1 where it has n, has every number.
LEMMA SetInduction ==
    ASSUME NEW S, 0 \in S, \A n \in Nat : n \in S => n + 1 \in S
    PROVE  \A n \in Nat : n \in S
<1> DEFINE T == Nat \ S
<1>1. SUFFICES ASSUME T # {}
               PROVE  FALSE
  OBVIOUS
<1>2. PICK x \in T : \A y \in T : x <= y
  BY <1>1, LeastNumber
<1>3. x \in Nat /\ x # 0
  BY <1>2
<1>4. x - 1 \in Nat /\ x - 1 \notin T /\ (x - 1) + 1 = x
  BY <1>2, <1>3
<1>5. QED
  BY <1>2, <1>4

\* A finite set of numbers that is not empty has a greatest one.
LEMMA GreatestNumber ==
    ASSUME NEW T \in SUBSET Nat, IsFiniteSet(T), T # {}
    PROVE  \E x \in T : \A y \in T : y <= x
<1> DEFINE Bounded(s) == \E b \in Nat : \A y \in s : y <= b
           P == {n \in Nat : \A s \in SUBSET T : Cardinality(s) = n => Bounded(s)}
<1>1. 0 \in P
  <2> SUFFICES ASSUME NEW s \in SUBSET T, Cardinality(s) = 0
               PROVE  Bounded(s)
    OBVIOUS
  <2>1. s = {}
    BY FS_Subset, FS_EmptySet
  <2>2. QED
    BY <2>1
<1>2. ASSUME NEW n \in Nat, n \in P
      PROVE  n + 1 \in P
  <2> HIDE DEF Bounded
  <2> SUFFICES ASSUME NEW s \in SUBSET T, Cardinality(s) = n + 1
               PROVE  Bounded(s)
    OBVIOUS
  <2>1. IsFiniteSet(s)
    BY FS_Subset
  <2>2. s # {}
    BY FS_EmptySet
  <2>3. PICK x \in s : TRUE
    BY <2>2
  <2>4. Cardinality(s \ {x}) = n
    <3>1. Cardinality(s \ {x}) = IF x \in s THEN Cardinality(s) - 1 ELSE Cardinality(s)
      BY <2>1, FS_RemoveElement
    <3>2. QED
      BY <2>3, <3>1
  <2>5. PICK b \in Nat : \A y \in s \ {x} : y <= b
    BY <1>2, <2>4 DEF Bounded
  <2>6. \A y \in s : y <= b + x
    BY <2>5
  <2>7. b + x \in Nat
    OBVIOUS
  <2>8. QED
    BY <2>6, <2>7 DEF Bounded
<1>3. \A n \in Nat : n \in P
  <2> HIDE DEF P
  <2>1. QED
    BY <1>1, <1>2, SetInduction
<1>4. \E b \in Nat : \A y \in T : y <= b
  BY <1>3, FS_CardinalityType
<1> DEFINE B == {b \in Nat : \A y \in T : y <= b}
<1>5. PICK x \in B : \A b \in B : x <= b
  BY <1>4, LeastNumber
<1>6. x \in T
  <2>1. SUFFICES ASSUME x \notin T
                 PROVE  FALSE
    OBVIOUS
  <2>2. \A y \in T : y \in Nat /\ x \in Nat /\ y <= x /\ y # x
    BY <1>5, <2>1
  <2>3. x # 0 /\ x \in Nat
    <3>1. PICK y \in T : TRUE
      OBVIOUS
    <3>2. y \in Nat /\ x \in Nat /\ y <= x /\ y # x
      BY <2>2
    <3>3. QED
      BY <3>2
  <2>4. x - 1 \in Nat /\ \A y \in T : y <= x - 1
    BY <2>2, <2>3
  <2>5. x - 1 \in B
    BY <2>4
  <2>6. QED
    BY <1>5, <2>3, <2>5
<1>7. QED
  BY <1>5, <1>6

-----------------------------------------------------------------------------
(***************************************************************************)
(* The recursion.  Sums(f, S) is the function the fold applies to S.       *)
(***************************************************************************)
Some(s) == CHOOSE x \in s : TRUE
Unfolded(f, g, s) == IF s = {} THEN 0 ELSE f[Some(s)] + g[s \ {Some(s)}]
Sums(f, S) == CHOOSE g : g = [s \in SUBSET S |-> Unfolded(f, g, s)]

LEMMA SumIsSums ==
    ASSUME NEW f, NEW S
    PROVE  SumFunctionOnSet(f, S) = Sums(f, S)[S]
BY DEF SumFunctionOnSet, FoldFunctionOnSet, MapThenFoldSet, Sums, Unfolded, Some

\* A subset without one of its elements is smaller.
LEMMA WithoutSome ==
    ASSUME NEW s, IsFiniteSet(s), s # {}
    PROVE  /\ Some(s) \in s
           /\ IsFiniteSet(s \ {Some(s)})
           /\ Cardinality(s) \in Nat
           /\ Cardinality(s \ {Some(s)}) = Cardinality(s) - 1
           /\ Cardinality(s) # 0
<1>1. Some(s) \in s
  BY DEF Some
<1> DEFINE x == Some(s)
<1> HIDE DEF x
<1>2. x \in s
  BY <1>1 DEF x
<1>3. /\ IsFiniteSet(s \ {x})
      /\ Cardinality(s \ {x}) = IF x \in s THEN Cardinality(s) - 1 ELSE Cardinality(s)
  BY FS_RemoveElement
<1>4. Cardinality(s) \in Nat /\ Cardinality(s) # 0
  BY FS_CardinalityType, FS_EmptySet
<1>5. QED
  BY <1>2, <1>3, <1>4 DEF x

LEMMA SumsUnfold ==
    ASSUME NEW f, NEW S, IsFiniteSet(S)
    PROVE  \A s \in SUBSET S : Sums(f, S)[s] = Unfolded(f, Sums(f, S), s)
<1> DEFINE Small(n) == {s \in SUBSET S : Cardinality(s) <= n}
           SumsOver(g, n) == g = [s \in Small(n) |-> Unfolded(f, g, s)]
           P == {n \in Nat : \E g : SumsOver(g, n)}
<1>0. \A s \in SUBSET S : IsFiniteSet(s) /\ Cardinality(s) \in Nat
  BY FS_Subset, FS_CardinalityType
<1>1. 0 \in P
  <2> DEFINE g == [s \in Small(0) |-> 0]
  <2>1. \A s \in Small(0) : s = {}
    BY <1>0, FS_EmptySet
  <2>2. \A s \in Small(0) : Unfolded(f, g, s) = 0
    BY <2>1 DEF Unfolded
  <2>3. g = [s \in Small(0) |-> Unfolded(f, g, s)]
    BY <2>2
  <2> HIDE DEF g, Small
  <2>4. QED
    BY <2>3
<1>2. ASSUME NEW n \in Nat, n \in P
      PROVE  n + 1 \in P
  <2>1. PICK g : SumsOver(g, n)
    BY <1>2
  <2> DEFINE h == [s \in Small(n + 1) |-> Unfolded(f, g, s)]
  <2>2. Small(n) \subseteq Small(n + 1)
    BY <1>0
  <2>3. \A s \in Small(n) : h[s] = g[s]
    <3>1. \A s \in Small(n) : g[s] = Unfolded(f, g, s)
      <4> HIDE DEF Small
      <4>1. QED
        BY <2>1
    <3> HIDE DEF Small
    <3>2. QED
      BY <2>2, <3>1
  <2>4. ASSUME NEW s \in Small(n + 1)
        PROVE  Unfolded(f, g, s) = Unfolded(f, h, s)
    <3>1. CASE s = {}
      BY <3>1 DEF Unfolded
    <3>2. CASE s # {}
      <4>1. IsFiniteSet(s) /\ s \in SUBSET S /\ Cardinality(s) <= n + 1
        BY <1>0
      <4>2. s \ {Some(s)} \in Small(n)
        BY <3>2, <4>1, WithoutSome
      <4> HIDE DEF h, Small
      <4>3. QED
        BY <2>3, <3>2, <4>2 DEF Unfolded
    <3>3. QED
      BY <3>1, <3>2
  <2>5. h = [s \in Small(n + 1) |-> Unfolded(f, h, s)]
    <3> DEFINE D == Small(n + 1)
               k == [s \in D |-> Unfolded(f, h, s)]
    <3>1. \A s \in D : h[s] = k[s]
      BY <2>4
    <3>2. DOMAIN h = D /\ DOMAIN k = D
      OBVIOUS
    <3>3. QED
      BY <2>4
  <2>6. SumsOver(h, n + 1)
    BY <2>5
  <2> HIDE DEF SumsOver, h
  <2>7. QED
    BY <2>6
<1>3. \A n \in Nat : n \in P
  <2> HIDE DEF P
  <2>1. QED
    BY <1>1, <1>2, SetInduction
<1>4. Cardinality(S) \in Nat
  BY FS_CardinalityType
<1>5. Small(Cardinality(S)) = SUBSET S
  BY FS_Subset
<1>6. PICK g : g = [s \in SUBSET S |-> Unfolded(f, g, s)]
  <2>1. \E g : SumsOver(g, Cardinality(S))
    BY <1>3, <1>4
  <2>2. QED
    BY <1>5, <2>1
<1> DEFINE T == Sums(f, S)
<1>7. T = [s \in SUBSET S |-> Unfolded(f, T, s)]
  BY <1>6 DEF Sums
<1> HIDE DEF T
<1>8. \A s \in SUBSET S : T[s] = Unfolded(f, T, s)
  BY <1>7
<1>9. QED
  BY <1>8 DEF T

-----------------------------------------------------------------------------
(***************************************************************************)
(* Counting: where f[k] is how many elements of Q have the key k, the sum  *)
(* of f is how many elements Q has.                                        *)
(***************************************************************************)
LEMMA DisjointCount ==
    ASSUME NEW A, NEW B, IsFiniteSet(A), IsFiniteSet(B), A \cap B = {}
    PROVE  Cardinality(A \cup B) = Cardinality(A) + Cardinality(B)
<1>1. Cardinality(A) \in Nat /\ Cardinality(B) \in Nat
  BY FS_CardinalityType
<1>2. Cardinality(A \cap B) = 0
  BY FS_EmptySet
<1>3. Cardinality(A \cup B) = Cardinality(A) + Cardinality(B) - Cardinality(A \cap B)
  BY FS_Union
<1>4. QED
  BY <1>1, <1>2, <1>3

Fibre(Q, key, k) == {q \in Q : key[q] = k}

LEMMA SumOfFibres ==
    ASSUME NEW K, IsFiniteSet(K), NEW Q, IsFiniteSet(Q), NEW f, NEW key,
           \A q \in Q : key[q] \in K,
           \A k \in K : f[k] = Cardinality(Fibre(Q, key, k))
    PROVE  SumFunctionOnSet(f, K) = Cardinality(Q)
<1> DEFINE T == Sums(f, K)
           AllIn(s) == {q \in Q : key[q] \in s}
           P == {n \in Nat : \A s \in SUBSET K : Cardinality(s) = n => T[s] = Cardinality(AllIn(s))}
<1>0. \A s \in SUBSET K : IsFiniteSet(s) /\ Cardinality(s) \in Nat
  BY FS_Subset, FS_CardinalityType
<1>1. \A s \in SUBSET K : T[s] = Unfolded(f, T, s)
  BY SumsUnfold
<1>2. 0 \in P
  <2> SUFFICES ASSUME NEW s \in SUBSET K, Cardinality(s) = 0
               PROVE  T[s] = Cardinality(AllIn(s))
    OBVIOUS
  <2>1. s = {}
    BY <1>0, FS_EmptySet
  <2>2. AllIn(s) = {}
    BY <2>1
  <2> HIDE DEF T, AllIn
  <2>3. QED
    BY <1>1, <2>1, <2>2, FS_EmptySet DEF Unfolded
<1>3. ASSUME NEW n \in Nat, n \in P
      PROVE  n + 1 \in P
  <2> SUFFICES ASSUME NEW s \in SUBSET K, Cardinality(s) = n + 1
               PROVE  T[s] = Cardinality(AllIn(s))
    OBVIOUS
  <2> DEFINE x == Some(s)
             rest == s \ {x}
             fibre == Fibre(Q, key, x)
  <2>1. s # {}
    BY FS_EmptySet
  <2>2. x \in s /\ rest \in SUBSET K /\ Cardinality(rest) = n
    BY <1>0, <2>1, WithoutSome
  <2>3. T[rest] = Cardinality(AllIn(rest))
    BY <1>3, <2>2
  <2>4. T[s] = f[x] + T[rest]
    <3> HIDE DEF T
    <3>1. QED
      BY <1>1, <2>1 DEF Unfolded
  <2>5. f[x] = Cardinality(fibre)
    BY <2>2
  <2>6. IsFiniteSet(fibre) /\ IsFiniteSet(AllIn(rest))
    BY FS_Subset DEF Fibre
  <2>7. fibre \cap AllIn(rest) = {} /\ fibre \cup AllIn(rest) = AllIn(s)
    BY <2>2 DEF Fibre
  <2> HIDE DEF T, AllIn, fibre, rest, x
  <2>8. Cardinality(fibre \cup AllIn(rest)) = Cardinality(fibre) + Cardinality(AllIn(rest))
    BY <2>6, <2>7, DisjointCount
  <2>9. QED
    BY <2>3, <2>4, <2>5, <2>7, <2>8
<1>4. \A n \in Nat : n \in P
  <2> HIDE DEF P
  <2>1. QED
    BY <1>2, <1>3, SetInduction
<1>5. T[K] = Cardinality(AllIn(K))
  BY <1>0, <1>4
<1>6. AllIn(K) = Q
  OBVIOUS
<1>7. QED
  BY <1>5, <1>6, SumIsSums

-----------------------------------------------------------------------------

(***************************************************************************)
(* What is published was made of a report, for clusters that report knows; *)
(* and a viewer has picked what that board offers.                         *)
(***************************************************************************)
MadeOfReport(b) ==
    \/ b = NoBoard
    \/ \E r \in Reports : \E o \in Builds :
         /\ b = MadeOf(r, o)
         /\ UnknownNames(Findings(r), o.clusters) = {}

PostureScope ==
    /\ report \in Reports
    /\ outcome \in {"pulled", "built", "refused", "published", "rejected"}
    /\ outcome = "built" <=> built # NoBoard
    /\ MadeOfReport(built)
    /\ MadeOfReport(board)
    /\ \E S \in {{}} \cup {Findings(r) : r \in Reports} : gauges = Gauges(S)
    /\ DOMAIN choice = Variables
    /\ \A v \in Dropdowns : choice[v] \subseteq Options(board, v)
    /\ outcome # "published" => choice = Untouched

-----------------------------------------------------------------------------
(***************************************************************************)
(* Findings.                                                               *)
(***************************************************************************)
WellNamed(r) == r.cluster \notin Reserved /\ r.namespace \notin Reserved

\* Classification adds fields and changes none.
LEMMA ClassifiedKeeps ==
    ASSUME NEW r, {"cluster", "namespace"} \subseteq DOMAIN r
    PROVE  /\ Classified(r).cluster = r.cluster
           /\ Classified(r).namespace = r.namespace
BY DEF Classified, Joined

LEMMA OrUnknownNamed ==
    ASSUME NEW n, n \notin Reserved
    PROVE  OrUnknown(n) \notin Reserved
BY DEF OrUnknown, Reserved, All

LEMMA ItemNamespacesNamed ==
    ASSUME NEW i, IsFiniteSet(DOMAIN i.namespaces),
           \A n \in DOMAIN i.namespaces : i.namespaces[n] \notin Reserved
    PROVE  /\ IsFiniteSet(DOMAIN ItemNamespaces(i))
           /\ \A n \in DOMAIN ItemNamespaces(i) : ItemNamespaces(i)[n] \notin Reserved
<1>1. CASE i.namespaces = <<>>
  <2>1. ItemNamespaces(i) = <<"Unknown">>
    BY <1>1 DEF ItemNamespaces
  <2>2. DOMAIN <<"Unknown">> = {1} /\ <<"Unknown">>[1] \notin Reserved
    BY DEF Reserved, All
  <2>3. IsFiniteSet({1})
    BY FS_Singleton
  <2>4. QED
    BY <2>1, <2>2, <2>3
<1>2. CASE i.namespaces # <<>>
  BY <1>2 DEF ItemNamespaces
<1>3. QED
  BY <1>1, <1>2

\* No finding carries a name the builder keeps for itself.
LEMMA FindingsNamed ==
    ASSUME NEW rep \in Reports, NEW r \in Findings(rep)
    PROVE  WellNamed(r)
<1>1. CASE rep.readable
  <2>1. r \in CsvFindings(rep.lines)
    BY <1>1 DEF Findings
  <2>2. PICK l \in rep.lines : r = Classified(Aged([l EXCEPT !.cluster = OrUnknown(@)]))
    BY <2>1 DEF CsvFindings
  <2>3. /\ {"cluster", "namespace"} \subseteq DOMAIN l
        /\ l.cluster \notin Reserved
        /\ l.namespace \notin Reserved
    BY ReportsAreNamed DEF ReportAssumption
  <2> DEFINE m == Aged([l EXCEPT !.cluster = OrUnknown(@)])
  <2>4. /\ {"cluster", "namespace"} \subseteq DOMAIN m
        /\ m.cluster = OrUnknown(l.cluster)
        /\ m.namespace = l.namespace
    BY <2>3 DEF Aged
  <2>5. r = Classified(m)
    BY <2>2
  <2> HIDE DEF m
  <2>6. r.cluster = m.cluster /\ r.namespace = m.namespace
    BY <2>4, <2>5, ClassifiedKeeps
  <2>7. QED
    BY <2>3, <2>4, <2>6, OrUnknownNamed DEF WellNamed
<1>2. CASE ~ rep.readable
  <2>1. r \in JsonFindings(rep.items)
    BY <1>2 DEF Findings
  <2>2. PICK i \in rep.items : \E n \in DOMAIN ItemNamespaces(i) : r = Classified(ItemFinding(i, n))
    BY <2>1 DEF JsonFindings
  <2>3. PICK n \in DOMAIN ItemNamespaces(i) : r = Classified(ItemFinding(i, n))
    BY <2>2
  <2>4. /\ i.cluster \notin Reserved
        /\ IsFiniteSet(DOMAIN i.namespaces)
        /\ \A k \in DOMAIN i.namespaces : i.namespaces[k] \notin Reserved
    BY ReportsAreNamed DEF ReportAssumption
  <2> DEFINE m == ItemFinding(i, n)
  <2>5. /\ {"cluster", "namespace"} \subseteq DOMAIN m
        /\ m.cluster = OrUnknown(i.cluster)
        /\ m.namespace = ItemNamespaces(i)[n]
    BY DEF ItemFinding
  <2>6. ItemNamespaces(i)[n] \notin Reserved
    BY <2>4, ItemNamespacesNamed
  <2>7. r = Classified(m)
    BY <2>3
  <2> HIDE DEF m
  <2>8. r.cluster = m.cluster /\ r.namespace = m.namespace
    BY <2>5, <2>7, ClassifiedKeeps
  <2>9. QED
    BY <2>4, <2>5, <2>6, <2>8, OrUnknownNamed DEF WellNamed
<1>3. QED
  BY <1>1, <1>2

LEMMA FindingsFinite ==
    ASSUME NEW rep \in Reports
    PROVE  IsFiniteSet(Findings(rep))
<1>0. /\ IsFiniteSet(rep.lines)
      /\ IsFiniteSet(rep.items)
      /\ \A i \in rep.items :
           /\ IsFiniteSet(DOMAIN i.namespaces)
           /\ \A k \in DOMAIN i.namespaces : i.namespaces[k] \notin Reserved
  BY ReportsAreNamed DEF ReportAssumption
<1>1. IsFiniteSet(CsvFindings(rep.lines))
  <2> DEFINE S == {l \in rep.lines : l.cve # ""}
             F == [l \in S |-> Classified(Aged([l EXCEPT !.cluster = OrUnknown(@)]))]
             T == CsvFindings(rep.lines)
  <2>1. IsFiniteSet(S)
    BY <1>0, FS_Subset
  <2>2. F \in Surjection(S, T)
    BY DEF Surjection, CsvFindings
  <2> HIDE DEF S, F, T
  <2>3. IsFiniteSet(T)
    BY <2>1, <2>2, FS_Surjection
  <2>4. QED
    BY <2>3 DEF T
<1>2. IsFiniteSet(JsonFindings(rep.items))
  <2> DEFINE S == {i \in rep.items : i.cve # ""}
             Of(i) == {Classified(ItemFinding(i, n)) : n \in DOMAIN ItemNamespaces(i)}
             F == [i \in S |-> Of(i)]
             T == {Of(i) : i \in S}
  <2>1. IsFiniteSet(S)
    BY <1>0, FS_Subset
  <2>2. F \in Surjection(S, T)
    BY DEF Surjection
  <2>3. ASSUME NEW i \in S
        PROVE  IsFiniteSet(Of(i))
    <3> DEFINE D == DOMAIN ItemNamespaces(i)
               G == [n \in D |-> Classified(ItemFinding(i, n))]
               U == Of(i)
    <3>1. IsFiniteSet(D)
      BY <1>0, ItemNamespacesNamed
    <3>2. G \in Surjection(D, U)
      BY DEF Surjection
    <3> HIDE DEF D, G, U
    <3>3. IsFiniteSet(U)
      BY <3>1, <3>2, FS_Surjection
    <3>4. QED
      BY <3>3 DEF U
  <2>4. JsonFindings(rep.items) = UNION T
    BY DEF JsonFindings
  <2>5. \A t \in T : IsFiniteSet(t)
    BY <2>3
  <2> HIDE DEF S, F, T
  <2>6. IsFiniteSet(T)
    BY <2>1, <2>2, FS_Surjection
  <2>7. QED
    BY <2>4, <2>5, <2>6, FS_UNION
<1>3. QED
  BY <1>1, <1>2 DEF Findings

-----------------------------------------------------------------------------
(***************************************************************************)
(* Boards, and what their dropdowns offer.                                 *)
(***************************************************************************)
GoodBoard(b) ==
    /\ IsFiniteSet(b.findings)
    /\ \A r \in b.findings : WellNamed(r)
    /\ b.names \subseteq Clusters(b.findings)

LEMMA BoardsAreGood ==
    ASSUME NEW b, MadeOfReport(b)
    PROVE  GoodBoard(b)
<1>1. CASE b = NoBoard
  <2>1. b.findings = {} /\ b.names = {}
    BY <1>1 DEF NoBoard
  <2>2. IsFiniteSet({})
    BY FS_EmptySet
  <2>3. QED
    BY <2>1, <2>2 DEF GoodBoard
<1>2. ASSUME NEW r \in Reports, NEW o \in Builds, b = MadeOf(r, o),
             UnknownNames(Findings(r), o.clusters) = {}
      PROVE  GoodBoard(b)
  <2>1. b.findings = Findings(r) /\ b.names = o.clusters
    BY <1>2 DEF MadeOf
  <2>2. b.names \subseteq Clusters(b.findings)
    BY <1>2, <2>1 DEF UnknownNames
  <2>3. QED
    BY <2>1, <2>2, FindingsFinite, FindingsNamed DEF GoodBoard
<1>3. QED
  BY <1>1, <1>2 DEF MadeOfReport

LEMMA RowsAreGood ==
    ASSUME NEW b, GoodBoard(b)
    PROVE  /\ Rows(b) \subseteq b.findings
           /\ IsFiniteSet(Rows(b))
           /\ \A r \in Rows(b) : WellNamed(r)
           /\ IsFiniteSet(Clusters(Rows(b)))
           /\ \A c \in Clusters(Rows(b)) : c \notin Reserved
<1>1. Rows(b) \subseteq b.findings
  BY DEF Rows, InScope
<1>2. IsFiniteSet(Rows(b))
  BY <1>1, FS_Subset DEF GoodBoard
<1>3. \A r \in Rows(b) : WellNamed(r)
  BY <1>1 DEF GoodBoard
<1>4. IsFiniteSet(Clusters(Rows(b)))
  <2> DEFINE S == Rows(b)
             F == [r \in S |-> r.cluster]
             T == Clusters(S)
  <2>1. F \in Surjection(S, T)
    BY DEF Surjection, Clusters
  <2> HIDE DEF S, F, T
  <2>2. IsFiniteSet(T)
    BY <1>2, <2>1, FS_Surjection DEF S
  <2>3. QED
    BY <2>2 DEF S, T
<1>5. \A c \in Clusters(Rows(b)) : c \notin Reserved
  BY <1>3 DEF Clusters, WellNamed
<1>6. QED
  BY <1>1, <1>2, <1>3, <1>4, <1>5

\* All of the cluster dropdown stands for the clusters the board has, although
\* the builder takes them from what it was asked for.
LEMMA ScopeIsOfRows ==
    ASSUME NEW b, GoodBoard(b)
    PROVE  ScopeClusters(b) = Clusters(Rows(b))
<1> DEFINE has == Clusters(Rows(b))
           all == Clusters(b.findings)
<1>1. \A c \in all : c \notin Reserved
  BY DEF GoodBoard, WellNamed, Clusters
<1>2. b.names \subseteq all
  BY DEF GoodBoard
<1>3. b.names = {} => has = all
  BY DEF Rows, InScope
<1>4. b.names # {} => has = b.names
  BY <1>2 DEF Rows, InScope, Clusters
<1>5. has \ {All, "unknown"} = has /\ all \ {All, "unknown"} = all
  BY <1>1, <1>2, <1>3, <1>4 DEF Reserved
<1> DEFINE asked == IF b.names = {} THEN all ELSE b.names
<1>6. asked = has
  BY <1>3, <1>4
<1>7. ScopeClusters(b) =
        (CASE has \cap has # {} -> has \cap has
           [] has # {} -> has
           [] OTHER -> has)
  BY <1>5, <1>6 DEF ScopeClusters
<1> HIDE DEF has
<1>8. QED
  BY <1>7 DEF has

LEMMA NoNamespaceIsAll ==
    ASSUME NEW b, GoodBoard(b)
    PROVE  All \notin NamespaceOptions(b)
<1>1. \A r \in Rows(b) : r.cluster # All /\ OrUnknown(r.namespace) # All
  BY RowsAreGood, OrUnknownNamed DEF WellNamed, Reserved
<1>2. ASSUME NEW S \in SUBSET Rows(b), NEW p \in BarPlaces(S)
      PROVE  p[1] # All
  <2>1. \E r \in S : p = Place(r)
    BY DEF BarPlaces, Having
  <2>2. QED
    BY <1>1, <2>1 DEF Place
<1>3. RedHat(Rows(b)) \subseteq Rows(b)
  BY DEF RedHat
<1>4. QED
  BY <1>1, <1>2, <1>3 DEF NamespaceOptions

-----------------------------------------------------------------------------
(***************************************************************************)
(* What each dropdown selects is what the viewer means by it.              *)
(***************************************************************************)
Offered(b, c) == \A v \in Dropdowns : c[v] \subseteq Options(b, v)

LEMMA OfferedByDropdown ==
    ASSUME NEW b, NEW c, Offered(b, c)
    PROVE  /\ c.cluster \subseteq Clusters(Rows(b))
           /\ c.namespace \subseteq NamespaceOptions(b)
           /\ c.finding_age \subseteq FindingAges
           /\ c.source \subseteq {"Red Hat sources", "Non-Red Hat sources"}
           /\ c.sre \subseteq Ownerships
<1>1. /\ Options(b, "cluster") = Clusters(Rows(b))
      /\ Options(b, "namespace") = NamespaceOptions(b)
      /\ Options(b, "finding_age") = FindingAges
      /\ Options(b, "sre") = Ownerships
  BY DEF Options
<1>2. Options(b, "source") = {"Red Hat sources", "Non-Red Hat sources"}
  BY DEF Options, Sources
<1>3. {"cluster", "namespace", "finding_age", "source", "sre"} \subseteq Dropdowns
  BY DEF Dropdowns
<1>4. QED
  BY <1>1, <1>2, <1>3 DEF Offered

LEMMA ExpandedByDropdown ==
    ASSUME NEW b, NEW c
    PROVE  /\ Expanded(b, c, "cluster") = IF c.cluster = {} THEN ClusterAll(b) ELSE c.cluster
           /\ Expanded(b, c, "namespace")
                = IF c.namespace = {} THEN NamespaceAll(b) ELSE c.namespace
           /\ Expanded(b, c, "finding_age")
                = IF c.finding_age = {} THEN {All} ELSE c.finding_age
           /\ Expanded(b, c, "sre") = IF c.sre = {} THEN {All} ELSE c.sre
BY DEF Expanded, AllValue

LEMMA PairHasTwo ==
    ASSUME NEW x, NEW y, x # y
    PROVE  Cardinality({x, y}) = 2
<1> DEFINE X == {x}
<1>1. IsFiniteSet(X) /\ Cardinality(X) = 1
  BY FS_Singleton
<1>2. y \notin X
  OBVIOUS
<1>3. {x, y} = X \cup {y}
  OBVIOUS
<1> HIDE DEF X
<1>4. Cardinality(X \cup {y}) = Cardinality(X) + 1
  BY <1>1, <1>2, FS_AddElement
<1>5. QED
  BY <1>1, <1>3, <1>4

\* One source picked is that source; none and both are all of them.
LEMMA SourcePicked ==
    ASSUME NEW b, NEW c, Offered(b, c)
    PROVE  \/ /\ c.source \in {{}, {"Red Hat sources", "Non-Red Hat sources"}}
              /\ UniqueSource(b, c) = "All sources"
           \/ /\ c.source = {"Red Hat sources"}
              /\ UniqueSource(b, c) = "Red Hat sources"
           \/ /\ c.source = {"Non-Red Hat sources"}
              /\ UniqueSource(b, c) = "Non-Red Hat sources"
<1> DEFINE red == "Red Hat sources"
           other == "Non-Red Hat sources"
<1>1. \/ c.source = {} \/ c.source = {red} \/ c.source = {other} \/ c.source = {red, other}
  <2>1. c.source \subseteq {red, other}
    BY OfferedByDropdown
  <2>2. \A x, y, T : T \subseteq {x, y} => T = {} \/ T = {x} \/ T = {y} \/ T = {x, y}
    OBVIOUS
  <2>3. QED
    BY <2>1, <2>2
<1>2. CASE c.source = {}
  <2>1. Cardinality(c.source) # 1
    BY <1>2, FS_EmptySet
  <2>2. QED
    BY <1>2, <2>1 DEF UniqueSource
<1>3. ASSUME NEW s, c.source = {s}
      PROVE  UniqueSource(b, c) = s
  <2>1. Cardinality(c.source) = 1
    BY <1>3, FS_Singleton
  <2>2. QED
    BY <1>3, <2>1 DEF UniqueSource
<1>4. CASE c.source = {red, other}
  <2>1. red # other
    OBVIOUS
  <2>2. Cardinality(c.source) = 2
    BY <1>4, <2>1, PairHasTwo
  <2>3. Cardinality(c.source) # 1
    BY <2>2
  <2>4. UniqueSource(b, c) = "All sources"
    BY <2>3 DEF UniqueSource
  <2>5. QED
    BY <1>4, <2>4
<1>5. CASE c.source = {red}
  <2>1. UniqueSource(b, c) = red
    BY <1>3, <1>5
  <2>2. QED
    BY <1>5, <2>1
<1>6. CASE c.source = {other}
  <2>1. UniqueSource(b, c) = other
    BY <1>3, <1>6
  <2>2. QED
    BY <1>6, <2>1
<1>7. QED
  BY <1>1, <1>2, <1>4, <1>5, <1>6

LEMMA SourceMeant ==
    ASSUME NEW b, NEW c, Offered(b, c), NEW r
    PROVE  r \in OfSource(Rows(b), UniqueSource(b, c))
             <=> r \in Rows(b) /\ (c.source = {} \/ SourceName(r) \in c.source)
<1> DEFINE red == "Red Hat sources"
           other == "Non-Red Hat sources"
           R == Rows(b)
<1>1. SourceName(r) = IF r.redhat THEN red ELSE other
  BY DEF SourceName
<1>2. CASE c.source \in {{}, {red, other}} /\ UniqueSource(b, c) = "All sources"
  <2>1. OfSource(R, UniqueSource(b, c)) = R
    BY <1>2 DEF OfSource
  <2>2. QED
    BY <1>1, <1>2, <2>1
<1>3. CASE c.source = {red} /\ UniqueSource(b, c) = red
  <2>1. OfSource(R, UniqueSource(b, c)) = {q \in R : q.redhat}
    BY <1>3 DEF OfSource, RedHat
  <2>2. QED
    BY <1>1, <1>3, <2>1
<1>4. CASE c.source = {other} /\ UniqueSource(b, c) = other
  <2>1. OfSource(R, UniqueSource(b, c)) = R \ {q \in R : q.redhat}
    BY <1>4 DEF OfSource, RedHat
  <2>2. QED
    BY <1>1, <1>4, <2>1
<1>5. QED
  BY <1>2, <1>3, <1>4, SourcePicked

LEMMA ClusterMeant ==
    ASSUME NEW b, GoodBoard(b), NEW c, Offered(b, c),
           NEW S \in SUBSET Rows(b), NEW r \in S,
           Expanded(b, c, "cluster") \in ClusterKeys(S)
    PROVE  LookupCluster(S, Expanded(b, c, "cluster")) \in {r.cluster, All}
             <=> (c.cluster = {} \/ r.cluster \in c.cluster)
<1> DEFINE key == Expanded(b, c, "cluster")
           has == Clusters(S)
<1>1. has \subseteq Clusters(Rows(b)) /\ r.cluster \in has
  BY DEF Clusters
<1>2. All \notin Clusters(Rows(b))
  BY RowsAreGood DEF Reserved
<1>3. c.cluster \subseteq Clusters(Rows(b))
  BY OfferedByDropdown
<1>4. CASE c.cluster = {}
  <2>1. All \in key
    BY <1>4, ExpandedByDropdown DEF ClusterAll
  <2>2. key \notin {{k} : k \in has}
    BY <1>1, <1>2, <2>1
  <2>3. LookupCluster(S, key) = All
    BY <2>2 DEF LookupCluster
  <2>4. QED
    BY <1>4, <2>3
<1>5. CASE c.cluster # {}
  <2>1. key = c.cluster
    BY <1>5, ExpandedByDropdown
  <2>2. key # ClusterAllKey(S)
    BY <1>2, <1>3, <2>1 DEF ClusterAllKey
  <2>3. key \in {{k} : k \in has} \/ key = has
    BY <2>2 DEF ClusterKeys
  <2>4. CASE key \in {{k} : k \in has}
    <3>1. PICK k \in has : key = {k}
      BY <2>4
    <3>2. LookupCluster(S, key) = k
      BY <2>4, <3>1 DEF LookupCluster
    <3>3. k # All
      BY <1>1, <1>2
    <3>4. QED
      BY <1>5, <2>1, <3>1, <3>2, <3>3
  <2>5. CASE key \notin {{k} : k \in has} /\ key = has
    <3>1. LookupCluster(S, key) = All
      BY <2>5 DEF LookupCluster
    <3>2. QED
      BY <1>1, <2>1, <2>5, <3>1
  <2>6. QED
    BY <2>3, <2>4, <2>5
<1>6. QED
  BY <1>4, <1>5

LEMMA OwnerMeant ==
    ASSUME NEW b, NEW c, Offered(b, c), NEW r
    PROVE  (\E o \in Expanded(b, c, "sre") : o \in {r.ownership, All})
             <=> (c.sre = {} \/ r.ownership \in c.sre)
<1>1. All \notin c.sre
  BY OfferedByDropdown DEF Ownerships, All
<1>2. QED
  BY <1>1, ExpandedByDropdown

LEMMA AgeMeant ==
    ASSUME NEW b, NEW c, Offered(b, c), NEW r
    PROVE  (\E a \in Expanded(b, c, "finding_age") : a \in {FindingAge(r.age), All})
             <=> (c.finding_age = {} \/ FindingAge(r.age) \in c.finding_age)
<1>1. All \notin c.finding_age
  BY OfferedByDropdown DEF FindingAges, All
<1>2. QED
  BY <1>1, ExpandedByDropdown

-----------------------------------------------------------------------------
(***************************************************************************)
(* The card.                                                               *)
(***************************************************************************)
UniqueFindings == OfSource(Rows(board), UniqueSource(board, choice))

\* The findings the viewer means, dropdown by dropdown.
LEMMA MatchingByDropdown ==
    ASSUME NEW r, choice.namespace = {}
    PROVE  r \in Matching(choice, CardDropdowns)
             <=> /\ r \in Rows(board)
                 /\ (choice.cluster = {} \/ r.cluster \in choice.cluster)
                 /\ (choice.finding_age = {} \/ FindingAge(r.age) \in choice.finding_age)
                 /\ (choice.source = {} \/ SourceName(r) \in choice.source)
                 /\ (choice.sre = {} \/ r.ownership \in choice.sre)
<1>1. r \in Rows(board)
        <=> r \in board.findings /\ (board.names = {} \/ r.cluster \in board.names)
  BY DEF Rows, InScope
<1>2. /\ Means("cluster", r) = r.cluster
      /\ Means("finding_age", r) = FindingAge(r.age)
      /\ Means("source", r) = SourceName(r)
      /\ Means("sre", r) = r.ownership
  BY DEF Means
<1>3. (\A v \in CardDropdowns : choice[v] = {} \/ Means(v, r) \in choice[v])
        <=> /\ (choice.cluster = {} \/ r.cluster \in choice.cluster)
            /\ (choice.finding_age = {} \/ FindingAge(r.age) \in choice.finding_age)
            /\ (choice.source = {} \/ SourceName(r) \in choice.source)
            /\ (choice.sre = {} \/ r.ownership \in choice.sre)
  BY <1>2 DEF CardDropdowns
<1>4. QED
  BY <1>1, <1>3 DEF Matching

\* Under a key that has a count, the CVEs counted are those of the findings
\* the viewer means.
LEMMA CountedAreMeant ==
    ASSUME GoodBoard(board), Offered(board, choice),
           All \in Expanded(board, choice, "namespace"),
           Expanded(board, choice, "cluster") \in ClusterKeys(UniqueFindings)
    PROVE  UNION {BaseCves(UniqueFindings,
                           LookupCluster(UniqueFindings, Expanded(board, choice, "cluster")),
                           o, a) :
                    o \in Expanded(board, choice, "sre"),
                    a \in Expanded(board, choice, "finding_age")}
             = Cves(Matching(choice, CardDropdowns))
<1> DEFINE S == UniqueFindings
           cluster == LookupCluster(S, Expanded(board, choice, "cluster"))
           owners == Expanded(board, choice, "sre")
           ages == Expanded(board, choice, "finding_age")
           counted == UNION {BaseCves(S, cluster, o, a) : o \in owners, a \in ages}
           Hit(r) == /\ cluster \in {r.cluster, All}
                     /\ \E o \in owners : o \in {r.ownership, All}
                     /\ \E a \in ages : a \in {FindingAge(r.age), All}
<1>1. S \subseteq Rows(board)
  BY SourceMeant DEF UniqueFindings
<1>2. choice.namespace = {}
  BY OfferedByDropdown, ExpandedByDropdown, NoNamespaceIsAll
<1>3. ASSUME NEW r
      PROVE  r \in Matching(choice, CardDropdowns) <=> r \in S /\ Hit(r)
  <2>1. r \in S
          <=> r \in Rows(board) /\ (choice.source = {} \/ SourceName(r) \in choice.source)
    BY SourceMeant DEF UniqueFindings
  <2>2. r \in S
          => (cluster \in {r.cluster, All}
                <=> (choice.cluster = {} \/ r.cluster \in choice.cluster))
    BY <1>1, ClusterMeant
  <2>3. (\E o \in owners : o \in {r.ownership, All})
          <=> (choice.sre = {} \/ r.ownership \in choice.sre)
    BY OwnerMeant
  <2>4. (\E a \in ages : a \in {FindingAge(r.age), All})
          <=> (choice.finding_age = {} \/ FindingAge(r.age) \in choice.finding_age)
    BY AgeMeant
  <2> HIDE DEF S, cluster, owners, ages
  <2>5. QED
    BY <1>1, <1>2, <2>1, <2>2, <2>3, <2>4, MatchingByDropdown
<1>4. ASSUME NEW v
      PROVE  v \in counted <=> \E r \in S : v = r.cve /\ Hit(r)
  <2> HIDE DEF S, cluster, owners, ages
  <2>1. v \in counted <=> \E o \in owners : \E a \in ages : v \in BaseCves(S, cluster, o, a)
    OBVIOUS
  <2>2. ASSUME NEW o, NEW a
        PROVE  v \in BaseCves(S, cluster, o, a)
                 <=> \E r \in S : /\ v = r.cve
                                 /\ cluster \in {r.cluster, All}
                                 /\ o \in {r.ownership, All}
                                 /\ a \in {FindingAge(r.age), All}
    BY DEF BaseCves, Cves
  <2>3. QED
    BY <2>1, <2>2
<1>5. ASSUME NEW v
      PROVE  v \in Cves(Matching(choice, CardDropdowns)) <=> v \in counted
  <2> HIDE DEF S, counted, Hit
  <2>1. QED
    BY <1>3, <1>4 DEF Cves
<1> HIDE DEF counted
<1>6. counted = Cves(Matching(choice, CardDropdowns))
  BY <1>5
<1>7. QED
  BY <1>6 DEF counted

\* There is a count where the namespace dropdown is at All, and the clusters
\* picked, or all of them, have findings of the source picked.
LEMMA AnsweredHasCount ==
    ASSUME GoodBoard(board), Offered(board, choice),
           choice.namespace = {},
           \/ Cardinality(choice.cluster) = 1 /\ choice.cluster \subseteq Clusters(UniqueFindings)
           \/ choice.cluster = {} /\ Clusters(UniqueFindings) = Clusters(Rows(board))
    PROVE  /\ All \in Expanded(board, choice, "namespace")
           /\ Expanded(board, choice, "cluster") \in ClusterKeys(UniqueFindings)
           /\ Expanded(board, choice, "sre") \in SreKeys
           /\ Expanded(board, choice, "finding_age") \in AgeKeys
<1>1. All \in Expanded(board, choice, "namespace")
  BY ExpandedByDropdown DEF NamespaceAll
<1>2. Expanded(board, choice, "cluster") \in ClusterKeys(UniqueFindings)
  <2> DEFINE has == Clusters(UniqueFindings)
  <2>1. CASE Cardinality(choice.cluster) = 1 /\ choice.cluster \subseteq has
    <3>1. IsFiniteSet(choice.cluster)
      BY OfferedByDropdown, RowsAreGood, FS_Subset
    <3>2. PICK k : choice.cluster = {k}
      BY <2>1, <3>1, FS_Singleton
    <3>3. k \in has
      BY <2>1, <3>2
    <3>4. Expanded(board, choice, "cluster") = {k}
      BY <3>2, ExpandedByDropdown
    <3>5. QED
      BY <3>3, <3>4 DEF ClusterKeys
  <2>2. CASE choice.cluster = {} /\ has = Clusters(Rows(board))
    <3>1. Expanded(board, choice, "cluster") = ClusterAllKey(UniqueFindings)
      BY <2>2, ExpandedByDropdown, ScopeIsOfRows DEF ClusterAll, ClusterAllKey
    <3>2. QED
      BY <3>1 DEF ClusterKeys
  <2>3. QED
    BY <2>1, <2>2
<1> DEFINE OrAll(T) == IF T = {} THEN {All} ELSE T
<1>0. \A A : \A T \in SUBSET A : OrAll(T) \in {{All}} \cup ((SUBSET A) \ {{}})
  OBVIOUS
<1>3. Expanded(board, choice, "sre") \in SreKeys
  <2>1. Expanded(board, choice, "sre") = OrAll(choice.sre)
    BY ExpandedByDropdown
  <2>2. choice.sre \in SUBSET Ownerships
    BY OfferedByDropdown
  <2> HIDE DEF OrAll
  <2>3. QED
    BY <1>0, <2>1, <2>2 DEF SreKeys
<1>4. Expanded(board, choice, "finding_age") \in AgeKeys
  <2>1. Expanded(board, choice, "finding_age") = OrAll(choice.finding_age)
    BY ExpandedByDropdown
  <2>2. choice.finding_age \in SUBSET FindingAges
    BY OfferedByDropdown
  <2> HIDE DEF OrAll
  <2>3. QED
    BY <1>0, <2>1, <2>2 DEF AgeKeys
<1>5. QED
  BY <1>1, <1>2, <1>3, <1>4

LEMMA ScopeMakesUniqueExact ==
    PostureScope => UniqueIsExact
<1> SUFFICES ASSUME PostureScope
             PROVE  UniqueIsExact
  OBVIOUS
<1> DEFINE S == UniqueFindings
           counts == UniqueRollup(S)
           K == Expanded(board, choice, "cluster")
           owners == Expanded(board, choice, "sre")
           ages == Expanded(board, choice, "finding_age")
           spaces == Expanded(board, choice, "namespace")
           shown == UniqueCard(board, choice)
           number == Cardinality(Cves(Matching(choice, CardDropdowns)))
           answered == /\ choice.namespace = {}
                       /\ \/ Cardinality(choice.cluster) = 1 /\ choice.cluster \subseteq Clusters(S)
                          \/ choice.cluster = {} /\ Clusters(S) = Clusters(Rows(board))
<1>1. GoodBoard(board) /\ Offered(board, choice)
  BY BoardsAreGood DEF PostureScope, Offered
<1>2. shown = IF All \in spaces /\ <<K, owners, ages>> \in DOMAIN counts
              THEN counts[<<K, owners, ages>>] ELSE NotAvailable
  BY DEF UniqueCard, UniqueFindings, StrictlyIn
<1>3. DOMAIN counts = ClusterKeys(S) \X SreKeys \X AgeKeys
  BY DEF UniqueRollup
<1>4. <<K, owners, ages>> \in DOMAIN counts
        <=> K \in ClusterKeys(S) /\ owners \in SreKeys /\ ages \in AgeKeys
  <2> HIDE DEF K, owners, ages, S, counts
  <2>1. QED
    BY <1>3
<1>5. ASSUME <<K, owners, ages>> \in DOMAIN counts
      PROVE  counts[<<K, owners, ages>>]
               = Cardinality(UNION {BaseCves(S, LookupCluster(S, K), o, a) :
                                      o \in owners, a \in ages})
  <2> HIDE DEF K, owners, ages, S
  <2>1. <<K, owners, ages>> \in ClusterKeys(S) \X SreKeys \X AgeKeys
    BY <1>3, <1>5
  <2>2. counts[<<K, owners, ages>>] = KeyCount(S, LookupCluster(S, K), owners, ages)
    BY <2>1 DEF UniqueRollup
  <2>3. QED
    BY <2>2 DEF KeyCount
<1>6. CASE All \in spaces /\ <<K, owners, ages>> \in DOMAIN counts
  <2>1. UNION {BaseCves(S, LookupCluster(S, K), o, a) : o \in owners, a \in ages}
          = Cves(Matching(choice, CardDropdowns))
    BY <1>1, <1>4, <1>6, CountedAreMeant
  <2>2. shown = number
    <3>1. shown = counts[<<K, owners, ages>>]
      BY <1>2, <1>6
    <3>2. counts[<<K, owners, ages>>]
            = Cardinality(UNION {BaseCves(S, LookupCluster(S, K), o, a) :
                                   o \in owners, a \in ages})
      BY <1>5, <1>6
    <3> HIDE DEF K, owners, ages, S, counts, shown
    <3>3. QED
      BY <2>1, <3>1, <3>2
  <2>3. QED
    BY <2>2 DEF UniqueIsExact
<1>7. CASE ~ (All \in spaces /\ <<K, owners, ages>> \in DOMAIN counts)
  <2>1. shown = NotAvailable
    BY <1>2, <1>7
  <2>2. ~ answered
    BY <1>1, <1>4, <1>7, AnsweredHasCount
  <2>3. QED
    BY <2>1, <2>2 DEF UniqueIsExact, UniqueFindings
<1>8. QED
  BY <1>6, <1>7

-----------------------------------------------------------------------------
(***************************************************************************)
(* Gauges.  Each family counts every finding once.                         *)
(***************************************************************************)
ClusterKey(S) == [r \in S |-> r.cluster]
NamespaceKey(S) == [r \in S |-> <<r.cluster, NamespaceLabel(r)>>]
OfSeverity(S, s) == IF s = "Total" THEN S ELSE {r \in S : r.severity = s}

LEMMA ImageFinite ==
    ASSUME NEW S, IsFiniteSet(S), NEW f, DOMAIN f = S
    PROVE  IsFiniteSet({f[x] : x \in S})
<1> DEFINE F == [x \in S |-> f[x]]
           T == {f[x] : x \in S}
<1>1. F \in Surjection(S, T)
  BY DEF Surjection
<1> HIDE DEF F, T
<1>2. IsFiniteSet(T)
  BY <1>1, FS_Surjection
<1>3. QED
  BY <1>2 DEF T

\* The findings of S with a key in K, where key is a function on S.
Keyed(S, key, K) == {r \in S : key[r] \in K}

\* Some of the gauges of a family count the findings with those keys.
LEMMA GaugesCount ==
    ASSUME NEW S, IsFiniteSet(S), NEW s \in Severities \cup {"Total"}, NEW key,
           DOMAIN key = S, NEW g, DOMAIN g = {key[r] : r \in S},
           \A k \in DOMAIN g : g[k] = Counts(Fibre(S, key, k)),
           NEW K \in SUBSET DOMAIN g
    PROVE  SumFunction([k \in K |-> g[k][s]]) = Cardinality(OfSeverity(Keyed(S, key, K), s))
<1> DEFINE Q == OfSeverity(Keyed(S, key, K), s)
           f == [k \in K |-> g[k][s]]
<1>1. \A X : Counts(X)[s] = Cardinality(OfSeverity(X, s))
  BY DEF Counts, OfSeverity
<1>2. IsFiniteSet(K)
  <2>1. IsFiniteSet({key[r] : r \in S})
    BY ImageFinite
  <2>2. QED
    BY <2>1, FS_Subset
<1>3. IsFiniteSet(Q) /\ Q \subseteq Keyed(S, key, K)
  <2>1. Q \subseteq S /\ Q \subseteq Keyed(S, key, K)
    BY DEF OfSeverity, Keyed
  <2> HIDE DEF Q
  <2>2. QED
    BY <2>1, FS_Subset
<1>4. \A q \in Q : key[q] \in K
  BY <1>3 DEF Keyed
<1>5. \A k \in K : f[k] = Cardinality(Fibre(Q, key, k))
  <2> SUFFICES ASSUME NEW k \in K
               PROVE  f[k] = Cardinality(Fibre(Q, key, k))
    OBVIOUS
  <2>1. f[k] = Cardinality(OfSeverity(Fibre(S, key, k), s))
    BY <1>1
  <2>2. OfSeverity(Fibre(S, key, k), s) = Fibre(Q, key, k)
    BY DEF OfSeverity, Fibre, Keyed
  <2>3. QED
    BY <2>1, <2>2
<1>6. DOMAIN f = K
  OBVIOUS
<1> HIDE DEF Q, f
<1>7. SumFunctionOnSet(f, K) = Cardinality(Q)
  BY <1>2, <1>3, <1>4, <1>5, SumOfFibres
<1>8. SumFunction(f) = Cardinality(Q)
  BY <1>6, <1>7 DEF SumFunction
<1>9. QED
  BY <1>8 DEF Q, f

LEMMA ClusterGaugesCount ==
    ASSUME NEW S, IsFiniteSet(S), NEW s \in Severities \cup {"Total"},
           NEW K \in SUBSET DOMAIN ClusterGauges(S)
    PROVE  SumFunction([k \in K |-> ClusterGauges(S)[k][s]])
             = Cardinality(OfSeverity({r \in S : r.cluster \in K}, s))
<1> DEFINE key == ClusterKey(S)
           g == ClusterGauges(S)
<1>1. DOMAIN key = S /\ \A r \in S : key[r] = r.cluster
  BY DEF ClusterKey
<1>2. DOMAIN g = {key[r] : r \in S}
  BY <1>1 DEF ClusterGauges, Clusters
<1>3. \A k \in DOMAIN g : g[k] = Counts(Fibre(S, key, k))
  <2> SUFFICES ASSUME NEW k \in DOMAIN g
               PROVE  g[k] = Counts(Fibre(S, key, k))
    OBVIOUS
  <2>1. Fibre(S, key, k) = {r \in S : r.cluster = k}
    BY <1>1 DEF Fibre
  <2>2. g[k] = Counts({r \in S : r.cluster = k})
    BY DEF ClusterGauges
  <2>3. QED
    BY <2>1, <2>2
<1>4. Keyed(S, key, K) = {r \in S : r.cluster \in K}
  BY <1>1 DEF Keyed
<1> HIDE DEF key, g
<1>5. K \in SUBSET DOMAIN g
  BY DEF g
<1>6. SumFunction([k \in K |-> g[k][s]]) = Cardinality(OfSeverity(Keyed(S, key, K), s))
  BY <1>1, <1>2, <1>3, <1>5, GaugesCount
<1>7. QED
  BY <1>4, <1>6 DEF g

LEMMA NamespaceGaugesCount ==
    ASSUME NEW S, IsFiniteSet(S), NEW s \in Severities \cup {"Total"},
           NEW K \in SUBSET DOMAIN NamespaceGauges(S)
    PROVE  SumFunction([k \in K |-> NamespaceGauges(S)[k][s]])
             = Cardinality(OfSeverity({r \in S : <<r.cluster, NamespaceLabel(r)>> \in K}, s))
<1> DEFINE key == NamespaceKey(S)
           g == NamespaceGauges(S)
<1>1. DOMAIN key = S /\ \A r \in S : key[r] = <<r.cluster, NamespaceLabel(r)>>
  BY DEF NamespaceKey
<1>2. DOMAIN g = {key[r] : r \in S}
  BY <1>1 DEF NamespaceGauges
<1>3. \A k \in DOMAIN g : g[k] = Counts(Fibre(S, key, k))
  <2> SUFFICES ASSUME NEW k \in DOMAIN g
               PROVE  g[k] = Counts(Fibre(S, key, k))
    OBVIOUS
  <2>1. Fibre(S, key, k) = {r \in S : <<r.cluster, NamespaceLabel(r)>> = k}
    BY <1>1 DEF Fibre
  <2>2. g[k] = Counts({r \in S : <<r.cluster, NamespaceLabel(r)>> = k})
    BY DEF NamespaceGauges
  <2>3. QED
    BY <2>1, <2>2
<1>4. Keyed(S, key, K) = {r \in S : <<r.cluster, NamespaceLabel(r)>> \in K}
  BY <1>1 DEF Keyed
<1> HIDE DEF key, g
<1>5. K \in SUBSET DOMAIN g
  BY DEF g
<1>6. SumFunction([k \in K |-> g[k][s]]) = Cardinality(OfSeverity(Keyed(S, key, K), s))
  BY <1>1, <1>2, <1>3, <1>5, GaugesCount
<1>7. QED
  BY <1>4, <1>6 DEF g

LEMMA CountsOfSeverity ==
    ASSUME NEW S, NEW s \in Severities \cup {"Total"}
    PROVE  Counts(S)[s] = Cardinality(OfSeverity(S, s))
BY DEF Counts, OfSeverity

\* All of a family count every finding once.
LEMMA GaugesAddUp ==
    ASSUME NEW S, IsFiniteSet(S), NEW s \in Severities \cup {"Total"}
    PROVE  /\ Counts(S)[s]
                = SumFunction([k \in DOMAIN ClusterGauges(S) |-> ClusterGauges(S)[k][s]])
           /\ Counts(S)[s]
                = SumFunction([k \in DOMAIN NamespaceGauges(S) |-> NamespaceGauges(S)[k][s]])
<1>1. {r \in S : r.cluster \in DOMAIN ClusterGauges(S)} = S
  BY DEF ClusterGauges, Clusters
<1>2. {r \in S : <<r.cluster, NamespaceLabel(r)>> \in DOMAIN NamespaceGauges(S)} = S
  BY DEF NamespaceGauges
<1>3. SumFunction([k \in DOMAIN ClusterGauges(S) |-> ClusterGauges(S)[k][s]])
        = Cardinality(OfSeverity({r \in S : r.cluster \in DOMAIN ClusterGauges(S)}, s))
  BY ClusterGaugesCount
<1>4. SumFunction([k \in DOMAIN NamespaceGauges(S) |-> NamespaceGauges(S)[k][s]])
        = Cardinality(OfSeverity({r \in S : <<r.cluster, NamespaceLabel(r)>>
                                              \in DOMAIN NamespaceGauges(S)}, s))
  BY NamespaceGaugesCount
<1>5. QED
  BY <1>1, <1>2, <1>3, <1>4, CountsOfSeverity

LEMMA ScopeMakesTypeCorrect ==
    PostureScope => PostureTypeOK
<1> SUFFICES ASSUME PostureScope
             PROVE  PostureTypeOK
  OBVIOUS
<1>1. PICK S \in {{}} \cup {Findings(r) : r \in Reports} : gauges = Gauges(S)
  BY DEF PostureScope
<1>2. IsFiniteSet(S)
  BY FindingsFinite, FS_EmptySet
<1>3. /\ gauges.legacy = Counts(S)
      /\ gauges.cluster = ClusterGauges(S)
      /\ gauges.namespace = NamespaceGauges(S)
  BY <1>1 DEF Gauges
<1>4. ASSUME NEW s \in Severities \cup {"Total"}
      PROVE  /\ gauges.legacy[s]
                  = SumFunction([k \in DOMAIN gauges.cluster |-> gauges.cluster[k][s]])
             /\ gauges.legacy[s]
                  = SumFunction([k \in DOMAIN gauges.namespace |-> gauges.namespace[k][s]])
  BY <1>2, <1>3, GaugesAddUp
<1>5. QED
  BY <1>4 DEF PostureScope, PostureTypeOK

-----------------------------------------------------------------------------
(***************************************************************************)
(* Rows of the cards.  A card has rows with the findings of one cluster,   *)
(* namespace, age and owner, and rows with those of all ages.              *)
(***************************************************************************)
\* Whether a metric counts a finding.
Counts1(m, r) ==
    CASE m = "findings" -> TRUE
      [] m = "fixable" -> r.fixable
      [] m = "critical" -> r.severity = "Critical"
      [] m = "important" -> r.severity = "Important"
      [] m = "moderate" -> r.severity = "Moderate"
      [] m = "low" -> r.severity = "Low"
Weighed(S, m) == {r \in S : Counts1(m, r)}

LEMMA SummaryCounts ==
    ASSUME NEW S, NEW m \in Metrics
    PROVE  Summary(S)[m] = Cardinality(Weighed(S, m))
<1>1. CASE m = "findings"
  <2>1. Weighed(S, m) = S
    BY <1>1 DEF Weighed, Counts1
  <2>2. QED
    BY <1>1, <2>1 DEF Summary
<1>2. CASE m = "fixable"
  <2>1. Weighed(S, m) = {r \in S : r.fixable}
    BY <1>2 DEF Weighed, Counts1
  <2>2. QED
    BY <1>2, <2>1 DEF Summary
<1>3. CASE m = "critical"
  <2>1. Weighed(S, m) = Having(S, "Critical")
    BY <1>3 DEF Weighed, Counts1, Having
  <2>2. QED
    BY <1>3, <2>1 DEF Summary
<1>4. CASE m = "important"
  <2>1. Weighed(S, m) = Having(S, "Important")
    BY <1>4 DEF Weighed, Counts1, Having
  <2>2. QED
    BY <1>4, <2>1 DEF Summary
<1>5. CASE m = "moderate"
  <2>1. Weighed(S, m) = Having(S, "Moderate")
    BY <1>5 DEF Weighed, Counts1, Having
  <2>2. QED
    BY <1>5, <2>1 DEF Summary
<1>6. CASE m = "low"
  <2>1. Weighed(S, m) = Having(S, "Low")
    BY <1>6 DEF Weighed, Counts1, Having
  <2>2. QED
    BY <1>6, <2>1 DEF Summary
<1>7. QED
  BY <1>1, <1>2, <1>3, <1>4, <1>5, <1>6 DEF Metrics

\* The findings of S with the owner's slice of r, at its age or at any.
Owner(r) == <<r.cluster, OrUnknown(r.namespace), r.ownership>>
Slicemates(S, r) == {q \in S : Owner(q) = Owner(r) /\ FindingAge(q.age) = FindingAge(r.age)}
Ownermates(S, r) == {q \in S : Owner(q) = Owner(r)}

SliceRow(S, m, r) ==
    [cluster |-> r.cluster, namespace |-> OrUnknown(r.namespace), age |-> FindingAge(r.age),
     ownership |-> r.ownership, value |-> Cardinality(Weighed(Slicemates(S, r), m))]
TotalRow(S, m, r) ==
    [cluster |-> r.cluster, namespace |-> OrUnknown(r.namespace), age |-> All,
     ownership |-> r.ownership, value |-> Cardinality(Weighed(Ownermates(S, r), m))]

LEMMA OwnedFields ==
    ASSUME NEW r
    PROVE  /\ DOMAIN Owned(r) = {"cluster", "namespace", "age", "ownership"}
           /\ Owned(r).cluster = r.cluster
           /\ Owned(r).namespace = OrUnknown(r.namespace)
           /\ Owned(r).age = FindingAge(r.age)
           /\ Owned(r).ownership = r.ownership
BY DEF Owned, Slice, Joined

LEMMA SameOwned ==
    ASSUME NEW q, NEW r
    PROVE  Owned(q) = Owned(r)
             <=> Owner(q) = Owner(r) /\ FindingAge(q.age) = FindingAge(r.age)
<1>1. Owned(q) = Owned(r) => Owner(q) = Owner(r) /\ FindingAge(q.age) = FindingAge(r.age)
  BY OwnedFields DEF Owner
<1>2. ASSUME Owner(q) = Owner(r), FindingAge(q.age) = FindingAge(r.age)
      PROVE  Owned(q) = Owned(r)
  <2>1. /\ q.cluster = r.cluster
        /\ OrUnknown(q.namespace) = OrUnknown(r.namespace)
        /\ q.ownership = r.ownership
    BY <1>2 DEF Owner
  <2>2. Slice(q) = Slice(r)
    BY <1>2, <2>1 DEF Slice
  <2>3. QED
    BY <2>1, <2>2 DEF Owned
<1>3. QED
  BY <1>1, <1>2

\* The row the rollup has for a finding.
OwnedRow(S, r) == Joined(Owned(r), Summary(Slicemates(S, r)))

LEMMA RollupRows ==
    ASSUME NEW S
    PROVE  OwnershipRollup(S) = {OwnedRow(S, r) : r \in S}
<1>1. ASSUME NEW r \in S
      PROVE  {q \in S : Owned(q) = Owned(r)} = Slicemates(S, r)
  BY SameOwned DEF Slicemates
<1>2. QED
  BY <1>1 DEF OwnershipRollup, GroupBy, OwnedRow

LEMMA OwnedRowFields ==
    ASSUME NEW S, NEW r, NEW m \in Metrics
    PROVE  /\ OwnedRow(S, r).cluster = r.cluster
           /\ OwnedRow(S, r).namespace = OrUnknown(r.namespace)
           /\ OwnedRow(S, r).age = FindingAge(r.age)
           /\ OwnedRow(S, r).ownership = r.ownership
           /\ OwnedRow(S, r)[m] = Cardinality(Weighed(Slicemates(S, r), m))
<1> DEFINE f == Owned(r)
           g == Summary(Slicemates(S, r))
<1>1. DOMAIN f = {"cluster", "namespace", "age", "ownership"}
  BY OwnedFields
<1>2. DOMAIN g = Metrics
  BY DEF Summary, Metrics
<1>3. g[m] = Cardinality(Weighed(Slicemates(S, r), m))
  BY SummaryCounts
<1>4. m \notin DOMAIN f
  BY <1>1 DEF Metrics
<1> HIDE DEF f, g
<1>5. \A k \in DOMAIN f \cup DOMAIN g :
        Joined(f, g)[k] = IF k \in DOMAIN f THEN f[k] ELSE g[k]
  BY DEF Joined
<1>6. /\ Joined(f, g)["cluster"] = f["cluster"]
      /\ Joined(f, g)["namespace"] = f["namespace"]
      /\ Joined(f, g)["age"] = f["age"]
      /\ Joined(f, g)["ownership"] = f["ownership"]
      /\ Joined(f, g)[m] = g[m]
  BY <1>1, <1>2, <1>4, <1>5
<1>7. QED
  BY <1>3, <1>6, OwnedFields DEF OwnedRow, f, g

LEMMA SlicesAreRows ==
    ASSUME NEW S, NEW m \in Metrics
    PROVE  Slices(OwnershipRollup(S), m) = {SliceRow(S, m, r) : r \in S}
<1> DEFINE Sliced(row) ==
             [cluster |-> row.cluster, namespace |-> row.namespace, age |-> row.age,
              ownership |-> row.ownership, value |-> row[m]]
<1>1. Slices(OwnershipRollup(S), m) = {Sliced(row) : row \in OwnershipRollup(S)}
  BY DEF Slices
<1>2. \A r \in S : Sliced(OwnedRow(S, r)) = SliceRow(S, m, r)
  BY OwnedRowFields DEF SliceRow
<1> HIDE DEF Sliced
<1>3. {Sliced(row) : row \in OwnershipRollup(S)} = {SliceRow(S, m, r) : r \in S}
  BY <1>2, RollupRows
<1>4. QED
  BY <1>1, <1>3

LEMMA SameOwnedRow ==
    ASSUME NEW S, NEW q, NEW r
    PROVE  OwnedRow(S, q) = OwnedRow(S, r)
             <=> Owner(q) = Owner(r) /\ FindingAge(q.age) = FindingAge(r.age)
<1>1. ASSUME OwnedRow(S, q) = OwnedRow(S, r)
      PROVE  Owner(q) = Owner(r) /\ FindingAge(q.age) = FindingAge(r.age)
  <2>1. "findings" \in Metrics
    BY DEF Metrics
  <2>2. QED
    BY <1>1, <2>1, OwnedRowFields DEF Owner
<1>2. ASSUME Owner(q) = Owner(r), FindingAge(q.age) = FindingAge(r.age)
      PROVE  OwnedRow(S, q) = OwnedRow(S, r)
  <2>1. Slicemates(S, q) = Slicemates(S, r)
    BY <1>2 DEF Slicemates
  <2>2. Owned(q) = Owned(r)
    BY <1>2, SameOwned
  <2>3. QED
    BY <2>1, <2>2 DEF OwnedRow
<1>3. QED
  BY <1>1, <1>2

\* The slices of an owner add up to what the owner has.
LEMMA OwnerSum ==
    ASSUME NEW S, IsFiniteSet(S), NEW r \in S, NEW m \in Metrics
    PROVE  SumOf({x \in OwnershipRollup(S) : /\ x.cluster = r.cluster
                                             /\ x.namespace = OrUnknown(r.namespace)
                                             /\ x.ownership = r.ownership}, m)
             = Cardinality(Weighed(Ownermates(S, r), m))
<1> DEFINE O == Ownermates(S, r)
           key == [q \in O |-> OwnedRow(S, q)]
           K == {key[q] : q \in O}
           Q == Weighed(O, m)
           f == [row \in K |-> row[m]]
<1>1. {x \in OwnershipRollup(S) : /\ x.cluster = r.cluster
                                  /\ x.namespace = OrUnknown(r.namespace)
                                  /\ x.ownership = r.ownership} = K
  <2>1. ASSUME NEW q \in S
        PROVE  q \in O <=> /\ OwnedRow(S, q).cluster = r.cluster
                           /\ OwnedRow(S, q).namespace = OrUnknown(r.namespace)
                           /\ OwnedRow(S, q).ownership = r.ownership
    BY OwnedRowFields DEF Ownermates, Owner
  <2>2. O \subseteq S
    BY DEF Ownermates
  <2>3. K = {OwnedRow(S, q) : q \in O}
    OBVIOUS
  <2> HIDE DEF K, O
  <2>4. QED
    BY <2>1, <2>2, <2>3, RollupRows
<1>2. IsFiniteSet(O)
  BY FS_Subset DEF Ownermates
<1>3. IsFiniteSet(K)
  <2> HIDE DEF O
  <2>1. QED
    BY <1>2, ImageFinite
<1>4. IsFiniteSet(Q) /\ Q \subseteq O
  BY <1>2, FS_Subset DEF Weighed
<1>5. \A q \in Q : key[q] \in K
  BY <1>4
<1>6. \A k \in K : f[k] = Cardinality(Fibre(Q, key, k))
  <2> SUFFICES ASSUME NEW q \in O
               PROVE  f[key[q]] = Cardinality(Fibre(Q, key, key[q]))
    OBVIOUS
  <2>1. key[q] = OwnedRow(S, q) /\ f[key[q]] = OwnedRow(S, q)[m]
    OBVIOUS
  <2>2. f[key[q]] = Cardinality(Weighed(Slicemates(S, q), m))
    BY <2>1, OwnedRowFields
  <2>3. \A x : x \in Slicemates(S, q) <=> x \in O /\ OwnedRow(S, x) = OwnedRow(S, q)
    BY SameOwnedRow DEF Slicemates, Ownermates
  <2>4. \A x : x \in Fibre(Q, key, key[q]) <=> x \in Q /\ OwnedRow(S, x) = OwnedRow(S, q)
    BY <1>4, <2>1 DEF Fibre
  <2>5. \A x : x \in Weighed(Slicemates(S, q), m) <=> x \in Fibre(Q, key, key[q])
    <3> HIDE DEF O, key
    <3>1. QED
      BY <2>3, <2>4 DEF Weighed
  <2> HIDE DEF Q, key, f
  <2>6. Weighed(Slicemates(S, q), m) = Fibre(Q, key, key[q])
    BY <2>5
  <2>7. QED
    BY <2>2, <2>6
<1>7. DOMAIN f = K
  OBVIOUS
<1> HIDE DEF K, Q, f, key
<1>8. SumFunctionOnSet(f, K) = Cardinality(Q)
  BY <1>3, <1>4, <1>5, <1>6, SumOfFibres
<1>9. SumOf(K, m) = Cardinality(Q)
  BY <1>7, <1>8 DEF SumOf, SumFunction, f
<1>10. QED
  BY <1>1, <1>9 DEF Q

LEMMA TotalsAreRows ==
    ASSUME NEW S, IsFiniteSet(S), NEW m \in Metrics
    PROVE  Totals(OwnershipRollup(S), m) = {TotalRow(S, m, r) : r \in S}
<1> DEFINE Sum(row) == SumOf({x \in OwnershipRollup(S) : /\ x.cluster = row.cluster
                                                         /\ x.namespace = row.namespace
                                                         /\ x.ownership = row.ownership}, m)
           Totalled(row) ==
             [cluster |-> row.cluster, namespace |-> row.namespace, age |-> All,
              ownership |-> row.ownership, value |-> Sum(row)]
<1>1. Totals(OwnershipRollup(S), m) = {Totalled(row) : row \in OwnershipRollup(S)}
  BY DEF Totals
<1>2. ASSUME NEW r \in S
      PROVE  Totalled(OwnedRow(S, r)) = TotalRow(S, m, r)
  <2> DEFINE row == OwnedRow(S, r)
  <2>1. /\ row.cluster = r.cluster
        /\ row.namespace = OrUnknown(r.namespace)
        /\ row.ownership = r.ownership
    BY OwnedRowFields
  <2>2. Sum(row) = Cardinality(Weighed(Ownermates(S, r), m))
    BY <2>1, OwnerSum
  <2> HIDE DEF Sum, row
  <2>3. Totalled(row) = TotalRow(S, m, r)
    BY <2>1, <2>2 DEF TotalRow
  <2>4. QED
    BY <2>3 DEF row
<1> HIDE DEF Totalled
<1>3. {Totalled(row) : row \in OwnershipRollup(S)} = {TotalRow(S, m, r) : r \in S}
  BY <1>2, RollupRows
<1>4. QED
  BY <1>1, <1>3

-----------------------------------------------------------------------------
(***************************************************************************)
(* The rows a card adds up are those of the findings the viewer means, one *)
(* for each owner and source, and each counts the findings it is of.       *)
(***************************************************************************)
\* The findings meant, dropdown by dropdown, a namespace being given.
Meant == Placeable(choice, Matching(choice, CardDropdowns))

PickedNamespace(r) ==
    IF choice.namespace = {} THEN HasNamespace(r) ELSE OrUnknown(r.namespace) \in choice.namespace
PickedPlace(r) ==
    /\ (choice.cluster = {} \/ r.cluster \in choice.cluster)
    /\ PickedNamespace(r)
    /\ (choice.sre = {} \/ r.ownership \in choice.sre)
PickedAge(r) == choice.finding_age = {} \/ FindingAge(r.age) \in choice.finding_age
PickedSource(r) == choice.source = {} \/ SourceName(r) \in choice.source

LEMMA MeantByDropdown ==
    ASSUME NEW r
    PROVE  r \in Meant
             <=> r \in Rows(board) /\ PickedPlace(r) /\ PickedAge(r) /\ PickedSource(r)
<1>1. r \in Rows(board)
        <=> r \in board.findings /\ (board.names = {} \/ r.cluster \in board.names)
  BY DEF Rows, InScope
<1>2. /\ Means("cluster", r) = r.cluster
      /\ Means("namespace", r) = OrUnknown(r.namespace)
      /\ Means("finding_age", r) = FindingAge(r.age)
      /\ Means("source", r) = SourceName(r)
      /\ Means("sre", r) = r.ownership
  BY DEF Means
<1>3. (\A v \in CardDropdowns : choice[v] = {} \/ Means(v, r) \in choice[v])
        <=> /\ (choice.cluster = {} \/ r.cluster \in choice.cluster)
            /\ (choice.namespace = {} \/ OrUnknown(r.namespace) \in choice.namespace)
            /\ PickedAge(r)
            /\ PickedSource(r)
            /\ (choice.sre = {} \/ r.ownership \in choice.sre)
  BY <1>2 DEF CardDropdowns, PickedAge, PickedSource
<1>4. r \in Matching(choice, CardDropdowns)
        <=> /\ r \in Rows(board)
            /\ (choice.cluster = {} \/ r.cluster \in choice.cluster)
            /\ (choice.namespace = {} \/ OrUnknown(r.namespace) \in choice.namespace)
            /\ PickedAge(r)
            /\ PickedSource(r)
            /\ (choice.sre = {} \/ r.ownership \in choice.sre)
  BY <1>1, <1>3 DEF Matching
<1>5. r \in Meant
        <=> /\ r \in Matching(choice, CardDropdowns)
            /\ (choice.namespace = {} => HasNamespace(r))
  BY DEF Meant, Placeable
<1>6. QED
  BY <1>4, <1>5 DEF PickedPlace, PickedNamespace

\* What the filters of a card let through.
CardPlace(row) ==
    /\ \A v \in {"cluster", "namespace"} : StrictlyIn(board, choice, v, row[v])
    /\ In(board, choice, "sre", row.ownership)

LEMMA PlaceMeant ==
    ASSUME GoodBoard(board), Offered(board, choice), NEW r \in Rows(board), NEW row,
           row.cluster = r.cluster, row.namespace = OrUnknown(r.namespace),
           row.ownership = r.ownership
    PROVE  CardPlace(row) <=> PickedPlace(r)
<1>1. StrictlyIn(board, choice, "cluster", r.cluster)
        <=> (choice.cluster = {} \/ r.cluster \in choice.cluster)
  <2>1. r.cluster \in ClusterAll(board)
    BY ScopeIsOfRows DEF ClusterAll, Clusters
  <2>2. QED
    BY <2>1, ExpandedByDropdown DEF StrictlyIn
<1>2. StrictlyIn(board, choice, "namespace", OrUnknown(r.namespace)) <=> PickedNamespace(r)
  <2>1. OrUnknown(r.namespace) \in NamespaceOptions(board)
    BY DEF NamespaceOptions
  <2>2. OrUnknown(r.namespace) \notin Reserved
    BY RowsAreGood, OrUnknownNamed DEF WellNamed
  <2>3. OrUnknown(r.namespace) \in NamespaceAll(board) <=> HasNamespace(r)
    BY <2>1, <2>2 DEF NamespaceAll, HasNamespace, Reserved
  <2>4. QED
    BY <2>3, ExpandedByDropdown DEF StrictlyIn, PickedNamespace
<1>3. In(board, choice, "sre", r.ownership)
        <=> (choice.sre = {} \/ r.ownership \in choice.sre)
  <2>1. All \notin choice.sre
    BY OfferedByDropdown DEF Ownerships, All
  <2>2. QED
    BY <2>1, ExpandedByDropdown DEF In, StrictlyIn
<1>4. CardPlace(row) <=> /\ StrictlyIn(board, choice, "cluster", r.cluster)
                         /\ StrictlyIn(board, choice, "namespace", OrUnknown(r.namespace))
                         /\ In(board, choice, "sre", r.ownership)
  BY DEF CardPlace
<1>5. QED
  BY <1>1, <1>2, <1>3, <1>4 DEF PickedPlace

LEMMA AgeShown ==
    ASSUME Offered(board, choice), NEW r
    PROVE  /\ StrictlyIn(board, choice, "finding_age", All) <=> choice.finding_age = {}
           /\ StrictlyIn(board, choice, "finding_age", FindingAge(r.age))
                <=> choice.finding_age # {} /\ PickedAge(r)
           /\ FindingAge(r.age) # All
<1>1. All \notin choice.finding_age
  BY OfferedByDropdown DEF FindingAges, All
<1>2. FindingAge(r.age) # All
  BY DEF FindingAge, All
<1>3. QED
  BY <1>1, <1>2, ExpandedByDropdown DEF StrictlyIn, PickedAge

\* The sources whose rows are shown.
ShownSources == IF choice.source = {} THEN {"All sources"} ELSE choice.source
SourceShown(r) == IF choice.source = {} THEN "All sources" ELSE SourceName(r)

LEMMA SourcesShown ==
    ASSUME Offered(board, choice)
    PROVE  Sources \cap Expanded(board, choice, "source") = ShownSources
<1>1. choice.source \subseteq {"Red Hat sources", "Non-Red Hat sources"}
  BY OfferedByDropdown
<1>2. Expanded(board, choice, "source")
        = IF choice.source = {} THEN {"All sources"} ELSE choice.source
  BY DEF Expanded, AllValue
<1>3. QED
  BY <1>1, <1>2 DEF Sources, ShownSources

LEMMA SourceOfRow ==
    ASSUME Offered(board, choice), NEW r
    PROVE  /\ \A s \in ShownSources :
                r \in OfSource(Rows(board), s)
                  <=> r \in Rows(board) /\ PickedSource(r) /\ s = SourceShown(r)
           /\ PickedSource(r) => SourceShown(r) \in ShownSources
<1> DEFINE red == "Red Hat sources"
           other == "Non-Red Hat sources"
           R == Rows(board)
<1>1. SourceName(r) = IF r.redhat THEN red ELSE other
  BY DEF SourceName
<1>2. /\ r \in OfSource(R, "All sources") <=> r \in R
      /\ r \in OfSource(R, red) <=> r \in R /\ SourceName(r) = red
      /\ r \in OfSource(R, other) <=> r \in R /\ SourceName(r) = other
  BY <1>1 DEF OfSource, RedHat
<1>3. choice.source \subseteq {red, other}
  BY OfferedByDropdown
<1>4. QED
  BY <1>2, <1>3 DEF ShownSources, SourceShown, PickedSource


\* The row that shows a finding: of the source and, unless ages are picked, of
\* all ages.
SourceRows(r) == OfSource(Rows(board), SourceShown(r))
WithSource(row, s) == Joined(row, [source |-> s])
RowShown(m, r) ==
    WithSource(IF choice.finding_age = {} THEN TotalRow(SourceRows(r), m, r)
               ELSE SliceRow(SourceRows(r), m, r), SourceShown(r))
MatesShown(r) ==
    IF choice.finding_age = {} THEN Ownermates(SourceRows(r), r)
    ELSE Slicemates(SourceRows(r), r)

LEMMA WithSourceFields ==
    ASSUME NEW row, DOMAIN row = {"cluster", "namespace", "age", "ownership", "value"}, NEW s
    PROVE  /\ WithSource(row, s).cluster = row.cluster
           /\ WithSource(row, s).namespace = row.namespace
           /\ WithSource(row, s).age = row.age
           /\ WithSource(row, s).ownership = row.ownership
           /\ WithSource(row, s).value = row.value
           /\ WithSource(row, s).source = s
<1> DEFINE g == [source |-> s]
<1>1. DOMAIN g = {"source"} /\ g["source"] = s
  OBVIOUS
<1> HIDE DEF g
<1>2. \A k \in DOMAIN row \cup DOMAIN g :
        Joined(row, g)[k] = IF k \in DOMAIN row THEN row[k] ELSE g[k]
  BY DEF Joined
<1>3. /\ Joined(row, g)["cluster"] = row["cluster"]
      /\ Joined(row, g)["namespace"] = row["namespace"]
      /\ Joined(row, g)["age"] = row["age"]
      /\ Joined(row, g)["ownership"] = row["ownership"]
      /\ Joined(row, g)["value"] = row["value"]
      /\ Joined(row, g)["source"] = g["source"]
  BY <1>1, <1>2
<1>4. QED
  BY <1>1, <1>3 DEF WithSource, g

LEMMA SliceRowFields ==
    ASSUME NEW S, NEW m, NEW r, NEW s
    PROVE  LET row == WithSource(SliceRow(S, m, r), s)
           IN  /\ row.cluster = r.cluster
               /\ row.namespace = OrUnknown(r.namespace)
               /\ row.age = FindingAge(r.age)
               /\ row.ownership = r.ownership
               /\ row.value = Cardinality(Weighed(Slicemates(S, r), m))
               /\ row.source = s
<1> DEFINE row == SliceRow(S, m, r)
<1>1. /\ DOMAIN row = {"cluster", "namespace", "age", "ownership", "value"}
      /\ row.cluster = r.cluster
      /\ row.namespace = OrUnknown(r.namespace)
      /\ row.age = FindingAge(r.age)
      /\ row.ownership = r.ownership
      /\ row.value = Cardinality(Weighed(Slicemates(S, r), m))
  BY DEF SliceRow
<1> HIDE DEF row
<1>2. QED
  BY <1>1, WithSourceFields DEF row

LEMMA TotalRowFields ==
    ASSUME NEW S, NEW m, NEW r, NEW s
    PROVE  LET row == WithSource(TotalRow(S, m, r), s)
           IN  /\ row.cluster = r.cluster
               /\ row.namespace = OrUnknown(r.namespace)
               /\ row.age = All
               /\ row.ownership = r.ownership
               /\ row.value = Cardinality(Weighed(Ownermates(S, r), m))
               /\ row.source = s
<1> DEFINE row == TotalRow(S, m, r)
<1>1. /\ DOMAIN row = {"cluster", "namespace", "age", "ownership", "value"}
      /\ row.cluster = r.cluster
      /\ row.namespace = OrUnknown(r.namespace)
      /\ row.age = All
      /\ row.ownership = r.ownership
      /\ row.value = Cardinality(Weighed(Ownermates(S, r), m))
  BY DEF TotalRow
<1> HIDE DEF row
<1>2. QED
  BY <1>1, WithSourceFields DEF row

LEMMA RowShownFields ==
    ASSUME NEW m, NEW r
    PROVE  /\ RowShown(m, r).cluster = r.cluster
           /\ RowShown(m, r).namespace = OrUnknown(r.namespace)
           /\ RowShown(m, r).age = IF choice.finding_age = {} THEN All ELSE FindingAge(r.age)
           /\ RowShown(m, r).ownership = r.ownership
           /\ RowShown(m, r).value = Cardinality(Weighed(MatesShown(r), m))
           /\ RowShown(m, r).source = SourceShown(r)
<1>1. CASE choice.finding_age = {}
  BY <1>1, TotalRowFields DEF RowShown, MatesShown
<1>2. CASE choice.finding_age # {}
  BY <1>2, SliceRowFields DEF RowShown, MatesShown
<1>3. QED
  BY <1>1, <1>2

\* Two findings meant are in the same row when they are mates.
LEMMA SameRowShown ==
    ASSUME Offered(board, choice), NEW m, NEW r \in Meant, NEW q
    PROVE  q \in MatesShown(r) <=> q \in Meant /\ RowShown(m, q) = RowShown(m, r)
<1> DEFINE Alike == /\ Owner(q) = Owner(r)
                    /\ choice.finding_age # {} => FindingAge(q.age) = FindingAge(r.age)
                    /\ SourceShown(q) = SourceShown(r)
<1>0. r \in Rows(board) /\ PickedPlace(r) /\ PickedAge(r) /\ PickedSource(r)
  BY MeantByDropdown
<1>1. SourceShown(r) \in ShownSources
  BY <1>0, SourceOfRow
<1>2. q \in SourceRows(r)
        <=> q \in Rows(board) /\ PickedSource(q) /\ SourceShown(q) = SourceShown(r)
  BY <1>1, SourceOfRow DEF SourceRows
<1>3. q \in MatesShown(r) <=> q \in Rows(board) /\ PickedSource(q) /\ Alike
  <2>1. CASE choice.finding_age = {}
    BY <1>2, <2>1 DEF MatesShown, Ownermates
  <2>2. CASE choice.finding_age # {}
    BY <1>2, <2>2 DEF MatesShown, Slicemates
  <2>3. QED
    BY <2>1, <2>2
<1>4. Owner(q) = Owner(r) => (PickedPlace(q) <=> PickedPlace(r))
  BY DEF Owner, PickedPlace, PickedNamespace, HasNamespace
<1>5. Alike => (PickedAge(q) <=> PickedAge(r))
  BY DEF PickedAge
<1>6. ASSUME Alike
      PROVE  RowShown(m, q) = RowShown(m, r)
  <2>1. SourceRows(q) = SourceRows(r)
    BY <1>6 DEF SourceRows
  <2>2. /\ q.cluster = r.cluster
        /\ OrUnknown(q.namespace) = OrUnknown(r.namespace)
        /\ q.ownership = r.ownership
    BY <1>6 DEF Owner
  <2>3. CASE choice.finding_age = {}
    <3>1. Ownermates(SourceRows(q), q) = Ownermates(SourceRows(r), r)
      BY <1>6, <2>1 DEF Ownermates
    <3>2. TotalRow(SourceRows(q), m, q) = TotalRow(SourceRows(r), m, r)
      BY <2>2, <3>1 DEF TotalRow
    <3>3. QED
      BY <1>6, <2>3, <3>2 DEF RowShown
  <2>4. CASE choice.finding_age # {}
    <3>1. FindingAge(q.age) = FindingAge(r.age)
      BY <1>6, <2>4
    <3>2. Slicemates(SourceRows(q), q) = Slicemates(SourceRows(r), r)
      BY <1>6, <2>1, <3>1 DEF Slicemates
    <3>3. SliceRow(SourceRows(q), m, q) = SliceRow(SourceRows(r), m, r)
      BY <2>2, <3>1, <3>2 DEF SliceRow
    <3>4. QED
      BY <1>6, <2>4, <3>3 DEF RowShown
  <2>5. QED
    BY <2>3, <2>4
<1>7. ASSUME RowShown(m, q) = RowShown(m, r)
      PROVE  Alike
  BY <1>7, RowShownFields DEF Owner
<1> HIDE DEF Alike
<1>8. q \in Meant <=> q \in Rows(board) /\ PickedPlace(q) /\ PickedAge(q) /\ PickedSource(q)
  BY MeantByDropdown
<1>9. Alike => PickedPlace(q) /\ PickedAge(q)
  BY <1>0, <1>4, <1>5 DEF Alike
<1>10. QED
  BY <1>3, <1>6, <1>7, <1>8, <1>9


LEMMA CardRowsOf ==
    ASSUME NEW S, IsFiniteSet(S), NEW m \in Metrics
    PROVE  \A x : x \in CardRows(S, m)
                    <=> \E r \in S : x \in {SliceRow(S, m, r), TotalRow(S, m, r)}
<1>1. CardRows(S, m) = {SliceRow(S, m, r) : r \in S} \cup {TotalRow(S, m, r) : r \in S}
  BY SlicesAreRows, TotalsAreRows DEF CardRows
<1>2. QED
  BY <1>1

\* The rows a card adds up.
CardSum(m) ==
    {row \in Shown(board, choice, LAMBDA S : CardRows(S, m)) :
       /\ \A v \in {"cluster", "namespace"} : StrictlyIn(board, choice, v, row[v])
       /\ StrictlyIn(board, choice, "finding_age", row.age)
       /\ In(board, choice, "sre", row.ownership)}

LEMMA ShownRows ==
    ASSUME GoodBoard(board), Offered(board, choice), NEW m \in Metrics, NEW x
    PROVE  x \in Shown(board, choice, LAMBDA S : CardRows(S, m))
             <=> \E r \in Rows(board) :
                   /\ PickedSource(r)
                   /\ x \in {WithSource(SliceRow(SourceRows(r), m, r), SourceShown(r)),
                             WithSource(TotalRow(SourceRows(r), m, r), SourceShown(r))}
<1> DEFINE Of(s) == OfSource(Rows(board), s)
<1>1. x \in Shown(board, choice, LAMBDA S : CardRows(S, m))
        <=> \E s \in ShownSources : \E row \in CardRows(Of(s), m) : x = WithSource(row, s)
  BY SourcesShown DEF Shown, WithSource
<1>2. ASSUME NEW s \in ShownSources
      PROVE  IsFiniteSet(Of(s))
  <2>1. Of(s) \subseteq Rows(board)
    BY SourceOfRow
  <2> HIDE DEF Of
  <2>2. QED
    BY <2>1, RowsAreGood, FS_Subset
<1>3. ASSUME NEW s \in ShownSources
      PROVE  (\E row \in CardRows(Of(s), m) : x = WithSource(row, s))
               <=> \E r \in Of(s) : x \in {WithSource(SliceRow(Of(s), m, r), s),
                                          WithSource(TotalRow(Of(s), m, r), s)}
  <2>1. \A row : row \in CardRows(Of(s), m)
                   <=> \E r \in Of(s) : row \in {SliceRow(Of(s), m, r), TotalRow(Of(s), m, r)}
    <3>1. IsFiniteSet(Of(s))
      BY <1>2
    <3> HIDE DEF Of
    <3>2. QED
      BY <3>1, CardRowsOf
  <2> HIDE DEF Of
  <2>2. QED
    BY <2>1
<1>4. \A s \in ShownSources : \A r :
        r \in Of(s) <=> r \in Rows(board) /\ PickedSource(r) /\ s = SourceShown(r)
  BY SourceOfRow
<1>5. \A r : Of(SourceShown(r)) = SourceRows(r)
  BY DEF SourceRows
<1>6. \A r : PickedSource(r) => SourceShown(r) \in ShownSources
  BY SourceOfRow
<1> HIDE DEF Of
<1>7. QED
  BY <1>1, <1>3, <1>4, <1>5, <1>6

LEMMA CardAddsRowsShown ==
    ASSUME GoodBoard(board), Offered(board, choice), NEW m \in Metrics
    PROVE  CardSum(m) = {RowShown(m, r) : r \in Meant}
<1> DEFINE Passing1(x) == CardPlace(x) /\ StrictlyIn(board, choice, "finding_age", x.age)
<1>1. \A x : x \in CardSum(m)
               <=> x \in Shown(board, choice, LAMBDA S : CardRows(S, m)) /\ Passing1(x)
  BY DEF CardSum, CardPlace
<1>2. ASSUME NEW r \in Rows(board), PickedSource(r)
      PROVE  LET slice == WithSource(SliceRow(SourceRows(r), m, r), SourceShown(r))
                 total == WithSource(TotalRow(SourceRows(r), m, r), SourceShown(r))
             IN  /\ Passing1(slice) <=> r \in Meant /\ choice.finding_age # {}
                 /\ Passing1(total) <=> r \in Meant /\ choice.finding_age = {}
                 /\ choice.finding_age # {} => slice = RowShown(m, r)
                 /\ choice.finding_age = {} => total = RowShown(m, r)
  <2> DEFINE slice == WithSource(SliceRow(SourceRows(r), m, r), SourceShown(r))
             total == WithSource(TotalRow(SourceRows(r), m, r), SourceShown(r))
  <2>1. r \in Meant <=> PickedPlace(r) /\ PickedAge(r)
    BY <1>2, MeantByDropdown
  <2>2. /\ slice.cluster = r.cluster
        /\ slice.namespace = OrUnknown(r.namespace)
        /\ slice.age = FindingAge(r.age)
        /\ slice.ownership = r.ownership
    BY SliceRowFields
  <2>3. /\ total.cluster = r.cluster
        /\ total.namespace = OrUnknown(r.namespace)
        /\ total.age = All
        /\ total.ownership = r.ownership
    BY TotalRowFields
  <2>4. /\ choice.finding_age # {} => slice = RowShown(m, r)
        /\ choice.finding_age = {} => total = RowShown(m, r)
    BY DEF RowShown
  <2> HIDE DEF slice, total
  <2>5. CardPlace(slice) <=> PickedPlace(r)
    BY <2>2, PlaceMeant
  <2>6. CardPlace(total) <=> PickedPlace(r)
    BY <2>3, PlaceMeant
  <2>7. Passing1(slice) <=> r \in Meant /\ choice.finding_age # {}
    BY <2>1, <2>2, <2>5, AgeShown
  <2>8. Passing1(total) <=> r \in Meant /\ choice.finding_age = {}
    <3>1. choice.finding_age = {} => PickedAge(r)
      BY DEF PickedAge
    <3>2. QED
      BY <2>1, <2>3, <2>6, <3>1, AgeShown
  <2>9. QED
    BY <2>4, <2>7, <2>8 DEF slice, total
<1>3. \A r \in Meant : r \in Rows(board) /\ PickedSource(r)
  BY MeantByDropdown
<1> HIDE DEF Passing1
<1>4. ASSUME NEW x
      PROVE  x \in CardSum(m) <=> \E r \in Meant : x = RowShown(m, r)
  <2>1. ASSUME x \in CardSum(m)
        PROVE  \E r \in Meant : x = RowShown(m, r)
    <3>1. PICK r \in Rows(board) :
            /\ PickedSource(r)
            /\ x \in {WithSource(SliceRow(SourceRows(r), m, r), SourceShown(r)),
                      WithSource(TotalRow(SourceRows(r), m, r), SourceShown(r))}
      BY <1>1, <2>1, ShownRows
    <3>2. Passing1(x)
      BY <1>1, <2>1
    <3>3. QED
      BY <1>2, <3>1, <3>2
  <2>2. ASSUME NEW r \in Meant, x = RowShown(m, r)
        PROVE  x \in CardSum(m)
    <3>1. CASE choice.finding_age = {}
      <4>1. x = WithSource(TotalRow(SourceRows(r), m, r), SourceShown(r)) /\ Passing1(x)
        BY <1>2, <1>3, <2>2, <3>1
      <4>2. QED
        BY <1>1, <1>3, <4>1, ShownRows
    <3>2. CASE choice.finding_age # {}
      <4>1. x = WithSource(SliceRow(SourceRows(r), m, r), SourceShown(r)) /\ Passing1(x)
        BY <1>2, <1>3, <2>2, <3>2
      <4>2. QED
        BY <1>1, <1>3, <4>1, ShownRows
    <3>3. QED
      BY <3>1, <3>2
  <2>3. QED
    BY <2>1, <2>2
<1>5. QED
  BY <1>4

\* So the card adds up, row by row, the findings meant.
LEMMA CardIsExact ==
    ASSUME GoodBoard(board), Offered(board, choice), NEW m \in Metrics
    PROVE  Card(board, choice, m) = Summary(Meant)[m]
<1> DEFINE key == [r \in Meant |-> RowShown(m, r)]
           K == {key[r] : r \in Meant}
           Q == Weighed(Meant, m)
           f == [row \in K |-> row["value"]]
<1>1. CardSum(m) = K
  BY CardAddsRowsShown
<1>2. Card(board, choice, m) = SumOf(CardSum(m), "value")
  BY DEF Card, CardSum
<1>3. IsFiniteSet(Meant)
  <2>1. Meant \subseteq Rows(board)
    BY MeantByDropdown
  <2>2. QED
    BY <2>1, RowsAreGood, FS_Subset
<1>4. IsFiniteSet(K)
  BY <1>3, ImageFinite
<1>5. IsFiniteSet(Q) /\ Q \subseteq Meant
  BY <1>3, FS_Subset DEF Weighed
<1>6. \A q \in Q : key[q] \in K
  BY <1>5
<1>7. \A k \in K : f[k] = Cardinality(Fibre(Q, key, k))
  <2> SUFFICES ASSUME NEW r \in Meant
               PROVE  f[key[r]] = Cardinality(Fibre(Q, key, key[r]))
    OBVIOUS
  <2>1. key[r] = RowShown(m, r) /\ f[key[r]] = RowShown(m, r).value
    OBVIOUS
  <2>2. f[key[r]] = Cardinality(Weighed(MatesShown(r), m))
    BY <2>1, RowShownFields
  <2>3. \A q : q \in MatesShown(r) <=> q \in Meant /\ RowShown(m, q) = RowShown(m, r)
    BY SameRowShown
  <2>4. \A q : q \in Fibre(Q, key, key[r]) <=> q \in Q /\ RowShown(m, q) = RowShown(m, r)
    BY <1>5, <2>1 DEF Fibre
  <2>5. \A q : q \in Weighed(MatesShown(r), m) <=> q \in Fibre(Q, key, key[r])
    <3> HIDE DEF key
    <3>1. QED
      BY <2>3, <2>4 DEF Weighed
  <2> HIDE DEF Q, key, f
  <2>6. Weighed(MatesShown(r), m) = Fibre(Q, key, key[r])
    BY <2>5
  <2>7. QED
    BY <2>2, <2>6
<1>8. DOMAIN f = K
  OBVIOUS
<1> HIDE DEF K, Q, f, key
<1>9. SumFunctionOnSet(f, K) = Cardinality(Q)
  BY <1>4, <1>5, <1>6, <1>7, SumOfFibres
<1>10. SumOf(K, "value") = Cardinality(Q)
  BY <1>8, <1>9 DEF SumOf, SumFunction, f
<1>11. QED
  BY <1>1, <1>2, <1>10, SummaryCounts DEF Q


LEMMA ScopeMakesCardsExact ==
    PostureScope => CardsCountFindings
<1> SUFFICES ASSUME PostureScope
             PROVE  CardsCountFindings
  OBVIOUS
<1>1. GoodBoard(board) /\ Offered(board, choice)
  BY BoardsAreGood DEF PostureScope, Offered
<1>2. \A m \in Metrics : Card(board, choice, m) = Summary(Meant)[m]
  BY <1>1, CardIsExact
<1>3. QED
  BY <1>2 DEF CardsCountFindings, Meant

-----------------------------------------------------------------------------
(***************************************************************************)
(* The trend draws what the cards show.                                    *)
(***************************************************************************)
LEMMA CardOfSeverity ==
    ASSUME GoodBoard(board), Offered(board, choice)
    PROVE  /\ Card(board, choice, "findings") = Cardinality(OfSeverity(Meant, "Total"))
           /\ Card(board, choice, "critical") = Cardinality(OfSeverity(Meant, "Critical"))
<1>1. /\ Card(board, choice, "findings") = Summary(Meant)["findings"]
      /\ Card(board, choice, "critical") = Summary(Meant)["critical"]
  BY CardIsExact DEF Metrics
<1>2. /\ Summary(Meant)["findings"] = Cardinality(Meant)
      /\ Summary(Meant)["critical"] = Cardinality(Having(Meant, "Critical"))
  BY DEF Summary
<1>3. OfSeverity(Meant, "Total") = Meant /\ OfSeverity(Meant, "Critical") = Having(Meant, "Critical")
  BY DEF OfSeverity, Having
<1>4. QED
  BY <1>1, <1>2, <1>3

\* What makes trend and cards comparable.
Comparable ==
    /\ FilterableTrend(board.uid)
    /\ gauges = Gauges(board.findings)
    /\ \A v \in {"finding_age", "source", "sre"} : choice[v] = {}
    /\ \A r \in Rows(board) : HasNamespace(r)
    /\ HybridTrend(board.uid) => board.names = {}

\* The board shows the findings of the clusters it shows.
LEMMA RowsByCluster ==
    ASSUME NEW r \in board.findings
    PROVE  r \in Rows(board) <=> r.cluster \in Clusters(Rows(board))
BY DEF Rows, InScope, Clusters

LEMMA MeantByTrend ==
    ASSUME Comparable, NEW r
    PROVE  r \in Meant
             <=> /\ r \in Rows(board)
                 /\ (choice.cluster = {} \/ r.cluster \in choice.cluster)
                 /\ (choice.namespace = {} \/ OrUnknown(r.namespace) \in choice.namespace)
<1>1. choice.finding_age = {} /\ choice.source = {} /\ choice.sre = {}
  BY DEF Comparable
<1>2. r \in Rows(board) => HasNamespace(r)
  BY DEF Comparable
<1>3. QED
  BY <1>1, <1>2, MeantByDropdown
     DEF PickedPlace, PickedNamespace, PickedAge, PickedSource

LEMMA ClustersDrawn ==
    ASSUME GoodBoard(board), Offered(board, choice), NEW r \in board.findings
    PROVE  StrictlyIn(board, choice, "cluster", r.cluster)
             <=> r \in Rows(board) /\ (choice.cluster = {} \/ r.cluster \in choice.cluster)
<1>1. r.cluster # All
  BY DEF GoodBoard, WellNamed, Reserved
<1>2. ClusterAll(board) = Clusters(Rows(board)) \cup {All}
  BY ScopeIsOfRows DEF ClusterAll
<1>3. choice.cluster \subseteq Clusters(Rows(board))
  BY OfferedByDropdown
<1>4. QED
  BY <1>1, <1>2, <1>3, ExpandedByDropdown, RowsByCluster DEF StrictlyIn

LEMMA TrendByNamespace ==
    ASSUME GoodBoard(board), Offered(board, choice), Comparable, choice.namespace # {},
           NEW s \in Severities \cup {"Total"}
    PROVE  ByNamespace(board, choice, gauges, s) = Cardinality(OfSeverity(Meant, s))
<1> DEFINE S == board.findings
           K == {k \in DOMAIN NamespaceGauges(S) :
                   /\ StrictlyIn(board, choice, "cluster", k[1])
                   /\ StrictlyIn(board, choice, "namespace", k[2])}
           drawn == {r \in S : <<r.cluster, NamespaceLabel(r)>> \in K}
<1>1. gauges.namespace = NamespaceGauges(S)
  BY DEF Comparable, Gauges
<1>2. ByNamespace(board, choice, gauges, s)
        = SumFunction([k \in K |-> NamespaceGauges(S)[k][s]])
  BY <1>1 DEF ByNamespace
<1>3. IsFiniteSet(S)
  BY DEF GoodBoard
<1>4. K \in SUBSET DOMAIN NamespaceGauges(S)
  OBVIOUS
<1>5. ASSUME NEW r \in S
      PROVE  <<r.cluster, NamespaceLabel(r)>> \in K <=> r \in Meant
  <2>1. <<r.cluster, NamespaceLabel(r)>> \in DOMAIN NamespaceGauges(S)
    BY DEF NamespaceGauges
  <2>2. <<r.cluster, NamespaceLabel(r)>> \in K
          <=> /\ StrictlyIn(board, choice, "cluster", r.cluster)
              /\ StrictlyIn(board, choice, "namespace", NamespaceLabel(r))
    BY <2>1
  <2>3. StrictlyIn(board, choice, "namespace", NamespaceLabel(r))
          <=> NamespaceLabel(r) \in choice.namespace
    BY ExpandedByDropdown DEF StrictlyIn
  <2>4. r \in Rows(board) => NamespaceLabel(r) = OrUnknown(r.namespace)
    BY DEF Comparable, HasNamespace, NamespaceLabel, OrUnknown
  <2> HIDE DEF K
  <2>5. QED
    BY <2>2, <2>3, <2>4, ClustersDrawn, MeantByTrend
<1>6. Meant \subseteq S
  BY MeantByTrend, RowsAreGood
<1>7. drawn = Meant
  BY <1>5, <1>6
<1> HIDE DEF K, S
<1>8. SumFunction([k \in K |-> NamespaceGauges(S)[k][s]]) = Cardinality(OfSeverity(drawn, s))
  BY <1>3, <1>4, NamespaceGaugesCount
<1>9. QED
  BY <1>2, <1>7, <1>8

LEMMA TrendByCluster ==
    ASSUME GoodBoard(board), Offered(board, choice), Comparable, choice.namespace = {},
           NEW s \in Severities \cup {"Total"}
    PROVE  ByCluster(board, choice, gauges, s) = Cardinality(OfSeverity(Meant, s))
<1> DEFINE S == board.findings
           K == DOMAIN ClusterGauges(S) \cap Expanded(board, choice, "cluster")
           drawn == {r \in S : r.cluster \in K}
<1>1. gauges.cluster = ClusterGauges(S)
  BY DEF Comparable, Gauges
<1>2. ByCluster(board, choice, gauges, s)
        = SumFunction([k \in K |-> ClusterGauges(S)[k][s]])
  BY <1>1 DEF ByCluster
<1>3. IsFiniteSet(S)
  BY DEF GoodBoard
<1>4. K \in SUBSET DOMAIN ClusterGauges(S)
  OBVIOUS
<1>5. ASSUME NEW r \in S
      PROVE  r.cluster \in K <=> r \in Meant
  <2>1. r.cluster \in DOMAIN ClusterGauges(S)
    BY DEF ClusterGauges, Clusters
  <2>2. r.cluster \in K <=> StrictlyIn(board, choice, "cluster", r.cluster)
    BY <2>1 DEF StrictlyIn
  <2> HIDE DEF K
  <2>3. QED
    BY <2>2, ClustersDrawn, MeantByTrend
<1>6. Meant \subseteq S
  BY MeantByTrend, RowsAreGood
<1>7. drawn = Meant
  BY <1>5, <1>6
<1> HIDE DEF K, S
<1>8. SumFunction([k \in K |-> ClusterGauges(S)[k][s]]) = Cardinality(OfSeverity(drawn, s))
  BY <1>3, <1>4, ClusterGaugesCount
<1>9. QED
  BY <1>2, <1>7, <1>8

LEMMA TrendOfAll ==
    ASSUME GoodBoard(board), Offered(board, choice), Comparable, HybridTrend(board.uid),
           choice.namespace = {}, choice.cluster = {}, NEW s \in Severities \cup {"Total"}
    PROVE  gauges.legacy[s] = Cardinality(OfSeverity(Meant, s))
<1>1. board.names = {} /\ gauges.legacy = Counts(board.findings)
  BY DEF Comparable, Gauges
<1>2. Rows(board) = board.findings
  BY <1>1 DEF Rows, InScope
<1>3. Meant = board.findings
  BY <1>2, MeantByTrend
<1>4. QED
  BY <1>1, <1>3, CountsOfSeverity

LEMMA TrendCounts ==
    ASSUME GoodBoard(board), Offered(board, choice), Comparable,
           NEW s \in Severities \cup {"Total"}
    PROVE  Trend(board, choice, gauges, s) = Cardinality(OfSeverity(Meant, s))
<1>1. FilterableTrend(board.uid)
  BY DEF Comparable
<1>2. CASE choice.namespace # {}
  <2>1. Trend(board, choice, gauges, s) = ByNamespace(board, choice, gauges, s)
    BY <1>1, <1>2 DEF Trend
  <2>2. QED
    BY <1>2, <2>1, TrendByNamespace
<1>3. CASE choice.namespace = {} /\ choice.cluster = {} /\ HybridTrend(board.uid)
  <2>1. Trend(board, choice, gauges, s) = gauges.legacy[s]
    BY <1>1, <1>3 DEF Trend
  <2>2. QED
    BY <1>3, <2>1, TrendOfAll
<1>4. CASE choice.namespace = {} /\ ~ (choice.cluster = {} /\ HybridTrend(board.uid))
  <2>1. Trend(board, choice, gauges, s) = ByCluster(board, choice, gauges, s)
    BY <1>1, <1>4 DEF Trend
  <2>2. QED
    BY <1>4, <2>1, TrendByCluster
<1>5. QED
  BY <1>2, <1>3, <1>4

LEMMA ScopeMakesTrendAgree ==
    PostureScope => TrendAgreesWithCards
<1> SUFFICES ASSUME PostureScope, Comparable
             PROVE  /\ Trend(board, choice, gauges, "Total") = Card(board, choice, "findings")
                    /\ Trend(board, choice, gauges, "Critical") = Card(board, choice, "critical")
  BY DEF TrendAgreesWithCards, Comparable
<1>1. GoodBoard(board) /\ Offered(board, choice)
  BY BoardsAreGood DEF PostureScope, Offered
<1>2. {"Total", "Critical"} \subseteq Severities \cup {"Total"}
  BY DEF Severities
<1>3. QED
  BY <1>1, <1>2, CardOfSeverity, TrendCounts


-----------------------------------------------------------------------------
(***************************************************************************)
(* The layout.  The fixed panels are bands that lie one below the other;   *)
(* the rest is put under what is there.                                    *)
(***************************************************************************)
Separate(p, q) ==
    \/ p.x + p.w <= q.x \/ q.x + q.w <= p.x
    \/ p.y + p.h <= q.y \/ q.y + q.h <= p.y

\* Panels apart from each other, left of one line and between two others.
Inside(p, right, top, bottom) ==
    /\ p.x \in Nat /\ p.y \in Nat /\ p.w \in Nat /\ p.h \in Nat
    /\ p.x + p.w <= right /\ top <= p.y /\ p.y + p.h <= bottom
Box(P, right, top, bottom) ==
    /\ IsFiniteSet(P)
    /\ \A p \in P : Inside(p, right, top, bottom)
    /\ \A p, q \in P : p = q \/ Separate(p, q)

LEMMA PanelFields ==
    ASSUME NEW title, NEW x, NEW y, NEW w, NEW h
    PROVE  /\ Panel(title, x, y, w, h).title = title
           /\ Panel(title, x, y, w, h).x = x /\ Panel(title, x, y, w, h).y = y
           /\ Panel(title, x, y, w, h).w = w /\ Panel(title, x, y, w, h).h = h
BY DEF Panel

LEMMA OneBox ==
    ASSUME NEW title, NEW x \in Nat, NEW y \in Nat, NEW w \in Nat, NEW h \in Nat
    PROVE  Box({Panel(title, x, y, w, h)}, x + w, y, y + h)
<1> DEFINE p == Panel(title, x, y, w, h)
<1>1. Inside(p, x + w, y, y + h)
  BY PanelFields DEF Inside
<1> HIDE DEF p
<1>2. IsFiniteSet({p})
  BY FS_Singleton
<1>3. QED
  BY <1>1, <1>2 DEF Box, p

\* One panel to the right of others.
LEMMA RightOf ==
    ASSUME NEW P, NEW right \in Nat, NEW top \in Nat, NEW bottom \in Nat,
           Box(P, right, top, bottom),
           NEW title, NEW w \in Nat, NEW h \in Nat, NEW next \in Nat,
           top + h = bottom, right + w = next
    PROVE  Box(P \cup {Panel(title, right, top, w, h)}, next, top, bottom)
<1> DEFINE n == Panel(title, right, top, w, h)
           R == P \cup {n}
<1>0. n.x = right /\ n.y = top /\ n.w = w /\ n.h = h
  BY PanelFields
<1>1. IsFiniteSet(R)
  BY FS_AddElement DEF Box
<1>2. ASSUME NEW p \in P
      PROVE  Inside(p, next, top, bottom) /\ p.x + p.w <= right
  <2>1. Inside(p, right, top, bottom)
    BY DEF Box
  <2>2. QED
    BY <2>1 DEF Inside
<1>3. Inside(n, next, top, bottom)
  BY <1>0 DEF Inside
<1>4. \A p \in P : Separate(p, n) /\ Separate(n, p)
  BY <1>0, <1>2 DEF Separate
<1> HIDE DEF n
<1>5. QED
  BY <1>1, <1>2, <1>3, <1>4 DEF Box, n

\* A band under another.
LEMMA Stacked ==
    ASSUME NEW P, NEW Q, NEW r \in Nat, NEW s \in Nat, NEW right \in Nat,
           NEW top \in Nat, NEW line \in Nat, NEW bottom \in Nat,
           Box(P, r, top, line), Box(Q, s, line, bottom),
           r <= right, s <= right, top <= line, line <= bottom
    PROVE  Box(P \cup Q, right, top, bottom)
<1> DEFINE R == P \cup Q
<1>1. IsFiniteSet(R)
  BY FS_Union DEF Box
<1>2. ASSUME NEW p \in P
      PROVE  Inside(p, right, top, bottom) /\ p.y \in Nat /\ p.h \in Nat /\ p.y + p.h <= line
  <2>1. Inside(p, r, top, line)
    BY DEF Box
  <2>2. QED
    BY <2>1 DEF Inside
<1>3. ASSUME NEW q \in Q
      PROVE  Inside(q, right, top, bottom) /\ q.y \in Nat /\ line <= q.y
  <2>1. Inside(q, s, line, bottom)
    BY DEF Box
  <2>2. QED
    BY <2>1 DEF Inside
<1>4. ASSUME NEW p \in P, NEW q \in Q
      PROVE  p.y + p.h <= q.y
  BY <1>2, <1>3
<1>5. \A p \in P, q \in Q : Separate(p, q) /\ Separate(q, p)
  BY <1>4 DEF Separate
<1>6. QED
  BY <1>1, <1>2, <1>3, <1>5 DEF Box

LEMMA Wide ==
    ASSUME NEW title, NEW y \in Nat, NEW h \in Nat, NEW bottom \in Nat, y + h = bottom
    PROVE  Box({Panel(title, 0, y, 24, h)}, 24, y, bottom)
<1>1. Box({Panel(title, 0, y, 24, h)}, 0 + 24, y, y + h)
  BY OneBox
<1>2. QED
  BY <1>1

LEMMA Halves ==
    ASSUME NEW title, NEW other, NEW y \in Nat, NEW h \in Nat, NEW bottom \in Nat,
           NEW w \in Nat, NEW v \in Nat, y + h = bottom, w + v = 24
    PROVE  Box({Panel(title, 0, y, w, h), Panel(other, w, y, v, h)}, 24, y, bottom)
<1> DEFINE P == {Panel(title, 0, y, w, h)}
<1>1. Box(P, w, y, bottom)
  <2>1. Box(P, 0 + w, y, y + h)
    BY OneBox
  <2> HIDE DEF P
  <2>2. QED
    BY <2>1
<1>2. {Panel(title, 0, y, w, h), Panel(other, w, y, v, h)} = P \cup {Panel(other, w, y, v, h)}
  OBVIOUS
<1> HIDE DEF P
<1>3. Box(P \cup {Panel(other, w, y, v, h)}, 24, y, bottom)
  BY <1>1, RightOf
<1>4. QED
  BY <1>2, <1>3

LEMMA HeaderBox == Box(Header, 24, 0, 3)
<1> DEFINE a == Panel("Posture", 0, 0, 14, 3)
           b == Panel("OpenShift version", 14, 0, 10, 1)
           c == Panel("Operators with updates", 14, 1, 10, 2)
<1>1. /\ a.x = 0 /\ a.y = 0 /\ a.w = 14 /\ a.h = 3
      /\ b.x = 14 /\ b.y = 0 /\ b.w = 10 /\ b.h = 1
      /\ c.x = 14 /\ c.y = 1 /\ c.w = 10 /\ c.h = 2
  BY DEF Panel
<1>2. Header = {a, b, c}
  BY DEF Header
<1> HIDE DEF a, b, c
<1>3. IsFiniteSet({a, b, c})
  <2>1. IsFiniteSet({a}) /\ IsFiniteSet({b}) /\ IsFiniteSet({c})
    BY FS_Singleton
  <2>2. IsFiniteSet({a} \cup {b})
    BY <2>1, FS_Union
  <2>3. IsFiniteSet(({a} \cup {b}) \cup {c})
    BY <2>1, <2>2, FS_Union
  <2>4. {a, b, c} = ({a} \cup {b}) \cup {c}
    OBVIOUS
  <2>5. QED
    BY <2>3, <2>4
<1>4. \A p \in {a, b, c} : Inside(p, 24, 0, 3)
  BY <1>1 DEF Inside
<1>5. \A p, q \in {a, b, c} : p = q \/ Separate(p, q)
  BY <1>1 DEF Separate
<1>6. QED
  BY <1>2, <1>3, <1>4, <1>5 DEF Box

LEMMA CardsBox == Box(Cards, 24, 3, 7)
<1> DEFINE A == {Panel("Total", 0, 3, 4, 4)}
           B == A \cup {Panel("Unique CVEs", 4, 3, 4, 4)}
           C == B \cup {Panel("Fixable findings", 8, 3, 4, 4)}
           D == C \cup {Panel("Critical", 12, 3, 3, 4)}
           E == D \cup {Panel("Important", 15, 3, 3, 4)}
           F == E \cup {Panel("Moderate", 18, 3, 3, 4)}
           G == F \cup {Panel("Low", 21, 3, 3, 4)}
<1>0. Cards = G
  BY DEF Cards
<1>1. /\ {3, 4, 7, 8, 12, 15, 18, 21, 24} \subseteq Nat /\ 3 + 4 = 7
      /\ 4 + 4 = 8 /\ 8 + 4 = 12 /\ 12 + 3 = 15 /\ 15 + 3 = 18 /\ 18 + 3 = 21 /\ 21 + 3 = 24
  OBVIOUS
<1>2. Box(A, 4, 3, 7)
  <2>1. Box(A, 0 + 4, 3, 3 + 4)
    BY OneBox
  <2> HIDE DEF A
  <2>2. QED
    BY <2>1
<1> HIDE DEF A
<1>3. Box(B, 8, 3, 7)
  BY <1>1, <1>2, RightOf, Zenon
<1> HIDE DEF B
<1>4. Box(C, 12, 3, 7)
  BY <1>1, <1>3, RightOf, Zenon
<1> HIDE DEF C
<1>5. Box(D, 15, 3, 7)
  BY <1>1, <1>4, RightOf, Zenon
<1> HIDE DEF D
<1>6. Box(E, 18, 3, 7)
  BY <1>1, <1>5, RightOf, Zenon
<1> HIDE DEF E
<1>7. Box(F, 21, 3, 7)
  BY <1>1, <1>6, RightOf, Zenon
<1> HIDE DEF F
<1>8. Box(G, 24, 3, 7)
  BY <1>1, <1>7, RightOf, Zenon
<1>9. QED
  BY <1>0, <1>8

LEMMA TrendsBox ==
    ASSUME NEW b
    PROVE  Box(Trends(b), 24, 7, 15 + Lower(b)) /\ Lower(b) \in Nat
<1> DEFINE P == {Panel("Findings over time", 0, 7, 24, 8)}
           Q == {Panel("Findings over time, legacy", 0, 15, 24, 8)}
<1>0. {7, 8, 15, 23} \subseteq Nat /\ 7 + 8 = 15 /\ 15 + 8 = 23
  OBVIOUS
<1>1. Box(P, 24, 7, 15)
  BY <1>0, Wide, Zenon
<1>2. Box(Q, 24, 15, 23)
  BY <1>0, Wide, Zenon
<1>3. Trends(b) = P \cup (IF FilterableTrend(b.uid) THEN Q ELSE {})
  BY DEF Trends
<1> HIDE DEF P, Q
<1>4. CASE FilterableTrend(b.uid)
  <2>1. Box(P \cup Q, 24, 7, 23)
    BY <1>1, <1>2, Stacked
  <2>2. Trends(b) = P \cup Q /\ Lower(b) = 8
    BY <1>3, <1>4 DEF Lower
  <2>3. QED
    BY <2>1, <2>2
<1>5. CASE ~ FilterableTrend(b.uid)
  <2>1. Trends(b) = P /\ Lower(b) = 0
    BY <1>3, <1>5 DEF Lower
  <2>2. QED
    BY <1>1, <2>1
<1>6. QED
  BY <1>4, <1>5

\* A table is where its panel is.
PanelOf(t) == Panel(t.title, t.x, t.y, t.w, t.h)

LEMMA TablePanel ==
    ASSUME NEW title, NEW x, NEW y, NEW w, NEW h, NEW filters, NEW by, NEW link
    PROVE  PanelOf(Table(Panel(title, x, y, w, h), filters, by, link)) = Panel(title, x, y, w, h)
<1> DEFINE f == Panel(title, x, y, w, h)
           g == [filters |-> filters, by |-> by, link |-> link]
<1>1. DOMAIN f = {"title", "x", "y", "w", "h"} /\ DOMAIN g = {"filters", "by", "link"}
  BY DEF Panel
<1>2. f["title"] = title /\ f["x"] = x /\ f["y"] = y /\ f["w"] = w /\ f["h"] = h
  BY PanelFields
<1> DEFINE t == Table(f, filters, by, link)
<1>3. t = Joined(f, g)
  BY DEF Table
<1> HIDE DEF f, g, t
<1>4. \A k \in DOMAIN f : t[k] = f[k]
  BY <1>3 DEF Joined
<1>5. t.title = title /\ t.x = x /\ t.y = y /\ t.w = w /\ t.h = h
  BY <1>1, <1>2, <1>4
<1>6. QED
  BY <1>5 DEF PanelOf, t, f

LEMMA TablePanels ==
    ASSUME NEW b
    PROVE  LET low == Lower(b)
           IN  {PanelOf(t) : t \in Tables(b)} =
                 {Panel("Findings by namespace", 0, 56 + low, 24, 14),
                  Panel("All components", 12, 70 + low, 12, 12),
                  Panel("Critical CVEs by age", 0, 35 + low, 12, 9),
                  Panel("Important CVEs by age", 12, 35 + low, 12, 9),
                  Panel("All images", 0, 82 + low, 24, 12),
                  Panel("Unique CVEs older than 30 days", 0, 44 + low, 12, 12),
                  Panel("Finding ownership", 0, 106 + low, 9, 10),
                  Panel("Red Hat SRE Managed Services", 9, 106 + low, 15, 10),
                  Panel("Red Hat Components", 0, 70 + low, 12, 12),
                  Panel("Non-Red Hat images", 0, 94 + low, 24, 12),
                  Panel("Remediation Paths", 12, 44 + low, 12, 12),
                  Panel("Critical findings by namespace", 0, 15 + low, 24, 10),
                  Panel("SRE-managed OpenShift images", 0, 25 + low, 24, 10)}
<1>1. PanelOf(FindingsByNamespace(b)) = Panel("Findings by namespace", 0, 56 + Lower(b), 24, 14)
  BY TablePanel, Zenon DEF FindingsByNamespace
<1>2. PanelOf(AllComponents(b)) = Panel("All components", 12, 70 + Lower(b), 12, 12)
  BY TablePanel, Zenon DEF AllComponents
<1>3. PanelOf(CriticalCvesByAge(b)) = Panel("Critical CVEs by age", 0, 35 + Lower(b), 12, 9)
  BY TablePanel, Zenon DEF CriticalCvesByAge
<1>4. PanelOf(ImportantCvesByAge(b)) = Panel("Important CVEs by age", 12, 35 + Lower(b), 12, 9)
  BY TablePanel, Zenon DEF ImportantCvesByAge
<1>5. PanelOf(AllImages(b)) = Panel("All images", 0, 82 + Lower(b), 24, 12)
  BY TablePanel, Zenon DEF AllImages
<1>6. PanelOf(OverThirty(b)) = Panel("Unique CVEs older than 30 days", 0, 44 + Lower(b), 12, 12)
  <2> DEFINE link == Link("namespace", "namespace", TRUE, [over30 |-> {TRUE},
                                                           severity |-> {"Critical", "Important"}])
  <2>1. OverThirty(b) = Table(Panel("Unique CVEs older than 30 days", 0, 44 + Lower(b), 12, 12),
                              PlaceFilters, {"cluster", "namespace"}, link)
    BY DEF OverThirty
  <2> HIDE DEF link
  <2>2. QED
    BY <2>1, TablePanel, Zenon
<1>7. PanelOf(FindingOwnership(b)) = Panel("Finding ownership", 0, 106 + Lower(b), 9, 10)
  <2> DEFINE filters == PlaceFilters \cup {"sre"}
             link == Link("sre", "ownership", FALSE, Nothing)
             y == 106 + Lower(b)
             panel == Panel("Finding ownership", 0, y, 9, 10)
  <2>1. FindingOwnership(b) = Table(panel, filters, {"ownership"}, link)
    BY DEF FindingOwnership
  <2> HIDE DEF filters, link, y
  <2>2. PanelOf(Table(panel, filters, {"ownership"}, link)) = panel
    BY TablePanel, Zenon
  <2>3. QED
    BY <2>1, <2>2 DEF y
<1>8. PanelOf(SreManaged(b)) = Panel("Red Hat SRE Managed Services", 9, 106 + Lower(b), 15, 10)
  BY TablePanel, ZenonT(40) DEF SreManaged
<1>9. PanelOf(RedHatComponents(b)) = Panel("Red Hat Components", 0, 70 + Lower(b), 12, 12)
  BY TablePanel, Zenon DEF RedHatComponents
<1>10. PanelOf(NonRedHatImages(b)) = Panel("Non-Red Hat images", 0, 94 + Lower(b), 24, 12)
  BY TablePanel, Zenon DEF NonRedHatImages
<1>11. PanelOf(RemediationPaths(b)) = Panel("Remediation Paths", 12, 44 + Lower(b), 12, 12)
  BY TablePanel, Zenon DEF RemediationPaths
<1>12. PanelOf(CriticalByNamespace(b)) =
         Panel("Critical findings by namespace", 0, 15 + Lower(b), 24, 10)
  BY TablePanel, Zenon DEF CriticalByNamespace
<1>13. PanelOf(PayloadImages(b)) = Panel("SRE-managed OpenShift images", 0, 25 + Lower(b), 24, 10)
  BY TablePanel, Zenon DEF PayloadImages
<1>14. {PanelOf(t) : t \in Tables(b)} =
         {PanelOf(FindingsByNamespace(b)),
          PanelOf(AllComponents(b)),
          PanelOf(CriticalCvesByAge(b)),
          PanelOf(ImportantCvesByAge(b)),
          PanelOf(AllImages(b)),
          PanelOf(OverThirty(b)),
          PanelOf(FindingOwnership(b)),
          PanelOf(SreManaged(b)),
          PanelOf(RedHatComponents(b)),
          PanelOf(NonRedHatImages(b)),
          PanelOf(RemediationPaths(b)),
          PanelOf(CriticalByNamespace(b)),
          PanelOf(PayloadImages(b))}
  BY DEF Tables
<1>15. QED
  BY <1>1, <1>2, <1>3, <1>4, <1>5, <1>6, <1>7, <1>8, <1>9, <1>10, <1>11, <1>12, <1>13, <1>14,
     Zenon


\* The tables fill nine bands under the trends.
LEMMA TablesBox ==
    ASSUME NEW b
    PROVE  Box({PanelOf(t) : t \in Tables(b)}, 24, 15 + Lower(b), 116 + Lower(b))
<1> DEFINE low == Lower(b)
           l1 == 15 + low
           l2 == 25 + low
           l3 == 35 + low
           l4 == 44 + low
           l5 == 56 + low
           l6 == 70 + low
           l7 == 82 + low
           l8 == 94 + low
           l9 == 106 + low
           bottom == 116 + low
           A == {Panel("Critical findings by namespace", 0, l1, 24, 10)}
           B == {Panel("SRE-managed OpenShift images", 0, l2, 24, 10)}
           C == {Panel("Critical CVEs by age", 0, l3, 12, 9),
                 Panel("Important CVEs by age", 12, l3, 12, 9)}
           D == {Panel("Unique CVEs older than 30 days", 0, l4, 12, 12),
                 Panel("Remediation Paths", 12, l4, 12, 12)}
           E == {Panel("Findings by namespace", 0, l5, 24, 14)}
           F == {Panel("Red Hat Components", 0, l6, 12, 12),
                 Panel("All components", 12, l6, 12, 12)}
           G == {Panel("All images", 0, l7, 24, 12)}
           H == {Panel("Non-Red Hat images", 0, l8, 24, 12)}
           I == {Panel("Finding ownership", 0, l9, 9, 10),
                 Panel("Red Hat SRE Managed Services", 9, l9, 15, 10)}
<1>1. {PanelOf(t) : t \in Tables(b)} = A \cup B \cup C \cup D \cup E \cup F \cup G \cup H \cup I
  <2>1. {PanelOf(t) : t \in Tables(b)} =
          {Panel("Findings by namespace", 0, l5, 24, 14),
           Panel("All components", 12, l6, 12, 12),
           Panel("Critical CVEs by age", 0, l3, 12, 9),
           Panel("Important CVEs by age", 12, l3, 12, 9),
           Panel("All images", 0, l7, 24, 12),
           Panel("Unique CVEs older than 30 days", 0, l4, 12, 12),
           Panel("Finding ownership", 0, l9, 9, 10),
           Panel("Red Hat SRE Managed Services", 9, l9, 15, 10),
           Panel("Red Hat Components", 0, l6, 12, 12),
           Panel("Non-Red Hat images", 0, l8, 24, 12),
           Panel("Remediation Paths", 12, l4, 12, 12),
           Panel("Critical findings by namespace", 0, l1, 24, 10),
           Panel("SRE-managed OpenShift images", 0, l2, 24, 10)}
    BY TablePanels
  <2> HIDE DEF l1, l2, l3, l4, l5, l6, l7, l8, l9
  <2>2. QED
    BY <2>1
<1>2. low \in Nat
  BY TrendsBox
<1> HIDE DEF low
<1>3. /\ l1 \in Nat /\ l2 \in Nat /\ l3 \in Nat /\ l4 \in Nat /\ l5 \in Nat /\ l6 \in Nat
      /\ l7 \in Nat /\ l8 \in Nat /\ l9 \in Nat /\ bottom \in Nat
      /\ l1 + 10 = l2 /\ l2 + 10 = l3 /\ l3 + 9 = l4 /\ l4 + 12 = l5 /\ l5 + 14 = l6
      /\ l6 + 12 = l7 /\ l7 + 12 = l8 /\ l8 + 12 = l9 /\ l9 + 10 = bottom
  BY <1>2
<1>4. /\ 9 \in Nat /\ 10 \in Nat /\ 12 \in Nat /\ 14 \in Nat /\ 15 \in Nat
      /\ 12 + 12 = 24 /\ 9 + 15 = 24
  OBVIOUS
<1> HIDE DEF l1, l2, l3, l4, l5, l6, l7, l8, l9, bottom
<1>a. Box(A, 24, l1, l2)
  BY <1>3, <1>4, Wide, Zenon
<1>b. Box(B, 24, l2, l3)
  BY <1>3, <1>4, Wide, Zenon
<1>c. Box(C, 24, l3, l4)
  BY <1>3, <1>4, Halves, Zenon
<1>d. Box(D, 24, l4, l5)
  BY <1>3, <1>4, Halves, Zenon
<1>e. Box(E, 24, l5, l6)
  BY <1>3, <1>4, Wide, Zenon
<1>f. Box(F, 24, l6, l7)
  <2>1. l6 \in Nat /\ l7 \in Nat /\ l6 + 12 = l7 /\ 12 \in Nat /\ 12 + 12 = 24
    BY <1>3
  <2>2. QED
    BY <2>1, Halves, Zenon
<1>g. Box(G, 24, l7, l8)
  BY <1>3, <1>4, Wide, Zenon
<1>h. Box(H, 24, l8, l9)
  BY <1>3, <1>4, Wide, Zenon
<1>i. Box(I, 24, l9, bottom)
  <2>1. /\ l9 \in Nat /\ bottom \in Nat /\ l9 + 10 = bottom /\ 10 \in Nat
        /\ 9 \in Nat /\ 15 \in Nat /\ 9 + 15 = 24
    BY <1>3
  <2>2. QED
    BY <2>1, Halves, Zenon
<1> HIDE DEF A, B, C, D, E, F, G, H, I
<1> DEFINE AB == A \cup B
           AC == AB \cup C
           AD == AC \cup D
           AE == AD \cup E
           AF == AE \cup F
           AG == AF \cup G
           AH == AG \cup H
           AI == AH \cup I
<1>5. l1 <= l2 /\ l2 <= l3 /\ l3 <= l4 /\ l4 <= l5 /\ l5 <= l6 /\ l6 <= l7 /\ l7 <= l8
      /\ l8 <= l9 /\ l9 <= bottom /\ l1 <= l3 /\ l1 <= l4 /\ l1 <= l5 /\ l1 <= l6 /\ l1 <= l7
      /\ l1 <= l8 /\ l1 <= l9 /\ 24 \in Nat /\ 24 <= 24
  BY <1>3
<1>6. Box(AB, 24, l1, l3)
  BY <1>3, <1>5, <1>a, <1>b, Stacked, Zenon
<1> HIDE DEF AB
<1>7. Box(AC, 24, l1, l4)
  BY <1>3, <1>5, <1>6, <1>c, Stacked, Zenon
<1> HIDE DEF AC
<1>8. Box(AD, 24, l1, l5)
  BY <1>3, <1>5, <1>7, <1>d, Stacked, Zenon
<1> HIDE DEF AD
<1>9. Box(AE, 24, l1, l6)
  BY <1>3, <1>5, <1>8, <1>e, Stacked, Zenon
<1> HIDE DEF AE
<1>10. Box(AF, 24, l1, l7)
  BY <1>3, <1>5, <1>9, <1>f, Stacked, Zenon
<1> HIDE DEF AF
<1>11. Box(AG, 24, l1, l8)
  BY <1>3, <1>5, <1>10, <1>g, Stacked, Zenon
<1> HIDE DEF AG
<1>12. Box(AH, 24, l1, l9)
  BY <1>3, <1>5, <1>11, <1>h, Stacked, Zenon
<1> HIDE DEF AH
<1>13. Box(AI, 24, l1, bottom)
  BY <1>3, <1>5, <1>12, <1>i, Stacked, Zenon
<1>14. QED
  BY <1>1, <1>13 DEF AB, AC, AD, AE, AF, AG, AH, AI, l1, bottom, low

\* No panel put at a fixed place is called Detail.
NotDetail(p) == p.title # "Detail"
NoneIsDetail(P) == \A p \in P : NotDetail(p)

LEMMA NamedOtherwise ==
    ASSUME NEW title, NEW x, NEW y, NEW w, NEW h, title # "Detail"
    PROVE  NotDetail(Panel(title, x, y, w, h))
BY PanelFields DEF NotDetail

LEMMA PlacedBox ==
    ASSUME NEW b
    PROVE  /\ Box(Placed(b), 24, 0, 116 + Lower(b)) /\ 116 + Lower(b) \in Nat
           /\ Placed(b) # {} /\ NoneIsDetail(Placed(b))
<1> DEFINE T == {PanelOf(t) : t \in Tables(b)}
           HC == Header \cup Cards
           HT == HC \cup Trends(b)
<1>1. Placed(b) = HT \cup T
  BY DEF Placed, PanelOf
<1>2. Lower(b) \in Nat /\ Box(Trends(b), 24, 7, 15 + Lower(b))
  BY TrendsBox
<1>3. Box(T, 24, 15 + Lower(b), 116 + Lower(b))
  BY TablesBox
<1>4. Box(HC, 24, 0, 7)
  BY HeaderBox, CardsBox, Stacked
<1>5. NoneIsDetail(HT)
  <2>1. \A p \in Header : NotDetail(p)
    BY NamedOtherwise DEF Header
  <2>2. \A p \in Cards : NotDetail(p)
    BY NamedOtherwise DEF Cards
  <2>3. \A p \in Trends(b) : NotDetail(p)
    BY NamedOtherwise DEF Trends
  <2>4. QED
    BY <2>1, <2>2, <2>3 DEF NoneIsDetail
<1>6. NoneIsDetail(T)
  <2> DEFINE low == Lower(b)
             p1 == Panel("Findings by namespace", 0, 56 + low, 24, 14)
             p2 == Panel("All components", 12, 70 + low, 12, 12)
             p3 == Panel("Critical CVEs by age", 0, 35 + low, 12, 9)
             p4 == Panel("Important CVEs by age", 12, 35 + low, 12, 9)
             p5 == Panel("All images", 0, 82 + low, 24, 12)
             p6 == Panel("Unique CVEs older than 30 days", 0, 44 + low, 12, 12)
             p7 == Panel("Finding ownership", 0, 106 + low, 9, 10)
             p8 == Panel("Red Hat SRE Managed Services", 9, 106 + low, 15, 10)
             p9 == Panel("Red Hat Components", 0, 70 + low, 12, 12)
             p10 == Panel("Non-Red Hat images", 0, 94 + low, 24, 12)
             p11 == Panel("Remediation Paths", 12, 44 + low, 12, 12)
             p12 == Panel("Critical findings by namespace", 0, 15 + low, 24, 10)
             p13 == Panel("SRE-managed OpenShift images", 0, 25 + low, 24, 10)
  <2>1. T = {p1, p2, p3, p4, p5, p6, p7, p8, p9, p10, p11, p12, p13}
    BY TablePanels
  <2>2. /\ NotDetail(p1) /\ NotDetail(p2) /\ NotDetail(p3) /\ NotDetail(p4) /\ NotDetail(p5)
        /\ NotDetail(p6) /\ NotDetail(p7) /\ NotDetail(p8) /\ NotDetail(p9)
        /\ NotDetail(p10) /\ NotDetail(p11) /\ NotDetail(p12) /\ NotDetail(p13)
    BY NamedOtherwise
  <2> HIDE DEF T, p1, p2, p3, p4, p5, p6, p7, p8, p9, p10, p11, p12, p13
  <2>3. QED
    BY <2>1, <2>2 DEF NoneIsDetail
<1>7. Header # {}
  BY DEF Header
<1> HIDE DEF HC, T
<1>8. Box(HT, 24, 0, 15 + Lower(b))
  BY <1>2, <1>4, Stacked
<1>9. HT # {}
  BY <1>7 DEF HC
<1> HIDE DEF HT
<1>10. Box(HT \cup T, 24, 0, 116 + Lower(b))
  BY <1>2, <1>3, <1>8, Stacked
<1>11. QED
  BY <1>1, <1>2, <1>5, <1>6, <1>9, <1>10 DEF NoneIsDetail

\* The bottom of panels that lie apart is a line under all of them.
LEMMA BottomIs ==
    ASSUME NEW P, NEW bottom, Box(P, 24, 0, bottom), P # {}
    PROVE  Bottom(P) \in Nat /\ Box(P, 24, 0, Bottom(P))
<1> DEFINE S == {p.y + p.h : p \in P}
<1>1. \A p \in P : /\ p.x \in Nat /\ p.y \in Nat /\ p.w \in Nat /\ p.h \in Nat
                   /\ p.x + p.w <= 24 /\ 0 <= p.y
  BY DEF Box, Inside
<1>2. S \in SUBSET Nat
  BY <1>1
<1>3. IsFiniteSet(S)
  <2> DEFINE f == [p \in P |-> p.y + p.h]
  <2>1. f \in Surjection(P, S)
    BY Zenon DEF Surjection
  <2>2. QED
    BY <2>1, FS_Surjection DEF Box
<1>4. S # {}
  OBVIOUS
<1>5. Bottom(P) = CHOOSE x \in S : \A y \in S : x >= y
  BY DEF Bottom, Max
<1> DEFINE m == CHOOSE x \in S : \A y \in S : x >= y
<1>6. m \in S /\ \A y \in S : m >= y
  <2>1. PICK x \in S : \A y \in S : y <= x
    BY <1>2, <1>3, <1>4, GreatestNumber
  <2>2. \A y \in S : x >= y
    BY <1>2, <2>1
  <2> HIDE DEF S
  <2>3. QED
    BY <2>2
<1> HIDE DEF m
<1>7. m \in Nat
  BY <1>2, <1>6
<1>8. \A p \in P : p.y + p.h <= m
  <2> TAKE p \in P
  <2>1. p.y + p.h \in S
    OBVIOUS
  <2>2. QED
    BY <1>2, <1>6, <1>7, <2>1
<1>9. Box(P, 24, 0, m)
  <2>1. \A p \in P : Inside(p, 24, 0, m)
    BY <1>1, <1>8 DEF Inside
  <2>2. QED
    BY <2>1 DEF Box
<1>10. QED
  BY <1>5, <1>7, <1>9 DEF m

\* What is put there is a band of its own.
LEMMA UnderIsApart ==
    ASSUME NEW P, P # {}, NEW end, Box(P, 24, 0, end), NEW title, NEW h \in Nat
    PROVE  /\ \E bottom : Box(Under(P, title, h), 24, 0, bottom)
           /\ \A q \in Under(P, title, h) : q.y <= Bottom(P)
<1> DEFINE line == Bottom(P)
           n == Panel(title, 0, line, 24, h)
           N == {n}
<1>1. line \in Nat /\ Box(P, 24, 0, line)
  BY BottomIs
<1>2. Under(P, title, h) = P \cup N
  BY DEF Under
<1>3. n.y = line
  BY PanelFields
<1>4. \A p \in P : p.y <= line
  <2> TAKE p \in P
  <2>1. Inside(p, 24, 0, line)
    BY <1>1 DEF Box
  <2> HIDE DEF line
  <2>2. QED
    BY <1>1, <2>1 DEF Inside
<1> HIDE DEF line
<1>5. Box(N, 24, line, line + h)
  <2>1. line + h \in Nat /\ line + h = line + h
    BY <1>1
  <2>2. QED
    BY <1>1, <2>1, Wide
<1>6. Box(P \cup N, 24, 0, line + h)
  <2> HIDE DEF N
  <2>1. QED
    BY <1>1, <1>5, Stacked
<1>7. \A q \in P \cup N : q.y <= line
  BY <1>1, <1>3, <1>4
<1>8. QED
  BY <1>2, <1>6, <1>7 DEF line

\* A board all whose panels lie apart, none of them Detail.
Laid(P) == P # {} /\ NoneIsDetail(P) /\ \E bottom : Box(P, 24, 0, bottom)

LEMMA UnderIsLaid ==
    ASSUME NEW P, Laid(P), NEW title, NEW h \in Nat, title # "Detail"
    PROVE  Laid(Under(P, title, h))
<1>1. \E bottom : Box(Under(P, title, h), 24, 0, bottom)
  BY UnderIsApart DEF Laid
<1>2. Under(P, title, h) # {} /\ NoneIsDetail(Under(P, title, h))
  BY NamedOtherwise DEF Laid, Under, NoneIsDetail
<1>3. QED
  BY <1>1, <1>2 DEF Laid

\* Detail put under panels that are laid out.
LEMMA DetailBelow ==
    ASSUME NEW P, Laid(P), NEW h \in Nat
    PROVE  LET all == Under(P, "Detail", h)
           IN  /\ \A p, q \in all : p = q \/ Separate(p, q)
               /\ \A p \in all : p.x + p.w <= 24
               /\ \A p, q \in all : p.title = "Detail" => q.y <= p.y
<1> DEFINE all == Under(P, "Detail", h)
           n == Panel("Detail", 0, Bottom(P), 24, h)
<1>1. PICK bottom : Box(all, 24, 0, bottom)
  BY UnderIsApart DEF Laid
<1>2. \A q \in all : q.y <= Bottom(P)
  BY UnderIsApart DEF Laid
<1>3. all = P \cup {n} /\ n.y = Bottom(P)
  BY PanelFields DEF Under
<1>4. \A p \in all : p.title = "Detail" => p.y = Bottom(P)
  BY <1>3 DEF Laid, NoneIsDetail, NotDetail
<1> HIDE DEF all, n
<1>5. \A p \in all : p.x + p.w <= 24
  BY <1>1 DEF Box, Inside
<1>6. \A p, q \in all : p = q \/ Separate(p, q)
  BY <1>1 DEF Box
<1>7. \A p, q \in all : p.title = "Detail" => q.y <= p.y
  BY <1>2, <1>4
<1>8. QED
  BY <1>5, <1>6, <1>7 DEF all

LEMMA PlacedIsLaid ==
    ASSUME NEW b
    PROVE  Laid(WithSimpleView(b))
<1>1. Laid(Placed(b))
  BY PlacedBox DEF Laid
<1>2. Laid(WithSubscriptions(b))
  <2>1. Laid(Under(Placed(b), "Operator subscriptions", 16))
    BY <1>1, UnderIsLaid
  <2>2. QED
    BY <1>1, <2>1 DEF WithSubscriptions
<1>3. QED
  BY <1>2, UnderIsLaid DEF WithSimpleView

\* However a board is built, its panels lie apart.
LEMMA PanelsAreApart == PanelsApart
<1> DEFINE V == WithSimpleView(board)
           all == Board(board)
<1>1. Laid(V)
  BY PlacedIsLaid
<1> SUFFICES /\ \A p, q \in all : p = q \/ Separate(p, q)
             /\ \A p \in all : p.x + p.w <= 24
             /\ ~ board.lite => \A p, q \in all : p.title = "Detail" => q.y <= p.y
  BY DEF PanelsApart, Separate
<1> HIDE DEF V
<1>2. CASE ~ IntelPanels(board)
  <2> DEFINE h == IF board.lite THEN 4 ELSE 14
  <2>1. all = Under(V, "Detail", h) /\ h \in Nat
    BY <1>2 DEF Board, WithDetail, V
  <2> HIDE DEF all, h
  <2>2. QED
    BY <1>1, <2>1, DetailBelow
<1>3. CASE IntelPanels(board) /\ board.lite
  <2>1. all = Under(WithDetail(board), "Recent reports", 26)
    BY <1>3 DEF Board, IntelHeight
  <2>2. WithDetail(board) = Under(V, "Detail", 4)
    BY <1>3 DEF WithDetail, V
  <2> HIDE DEF all
  <2>3. PICK bottom : Box(Under(V, "Detail", 4), 24, 0, bottom)
    BY <1>1, UnderIsApart DEF Laid
  <2>4. Under(V, "Detail", 4) # {}
    BY DEF Under
  <2>5. PICK end : Box(all, 24, 0, end)
    BY <2>1, <2>2, <2>3, <2>4, UnderIsApart
  <2>6. QED
    BY <1>3, <2>5 DEF Box, Inside
<1>4. CASE IntelPanels(board) /\ ~ board.lite
  <2> DEFINE R == Under(V, "Recent reports", 26)
  <2>1. all = Under(R, "Detail", 14)
    BY <1>4 DEF Board, IntelHeight, V
  <2>2. Laid(R)
    BY <1>1, UnderIsLaid
  <2> HIDE DEF all, R
  <2>3. QED
    BY <2>1, <2>2, DetailBelow
<1>5. QED
  BY <1>2, <1>3, <1>4

-----------------------------------------------------------------------------
(***************************************************************************)
(* What a finding is: its family is that of its image and namespace, its   *)
(* two ages numbers or none.                                               *)
(***************************************************************************)
Regular(r) ==
    /\ r.line \in Nat
    /\ r.age \in Nat \cup {NoAge}
    /\ r.seen \in Nat \cup {NoAge}
    /\ r.family = Family(r).name
    /\ r.ownership = Family(r).ownership
    /\ {r.family, ImageLabel(r.repository)} \subseteq ToSet(Alphabet)

LEMMA ClassifiedFields ==
    ASSUME NEW r, DOMAIN r = {"line", "cve", "severity", "cluster", "namespace",
                              "repository", "age", "seen", "redhat", "fixable"}
    PROVE  LET c == Classified(r)
           IN  /\ c.line = r.line /\ c.age = r.age /\ c.seen = r.seen
               /\ c.family = Family(c).name /\ c.ownership = Family(c).ownership
<1> DEFINE g == [family |-> Family(r).name, ownership |-> Family(r).ownership,
                 remedy |-> Family(r).remedy]
           c == Joined(r, g)
<1>1. /\ DOMAIN g = {"family", "ownership", "remedy"}
      /\ g["family"] = Family(r).name /\ g["ownership"] = Family(r).ownership
  OBVIOUS
<1> HIDE DEF g
<1>2. /\ c["line"] = r["line"] /\ c["age"] = r["age"] /\ c["seen"] = r["seen"]
      /\ c["namespace"] = r["namespace"] /\ c["repository"] = r["repository"]
      /\ c["family"] = g["family"] /\ c["ownership"] = g["ownership"]
  BY <1>1 DEF Joined
<1>3. Classified(r) = c
  BY DEF Classified, g
<1> HIDE DEF c
<1>4. Family(c) = Family(r)
  BY <1>2 DEF Family
<1>5. QED
  BY <1>1, <1>2, <1>3, <1>4

LEMMA FindingsRegular ==
    ASSUME NEW rep \in Reports, NEW r \in Findings(rep)
    PROVE  Regular(r)
<1> DEFINE Fields == {"line", "cve", "severity", "cluster", "namespace",
                      "repository", "age", "seen", "redhat", "fixable"}
<1>1. \/ \E l \in rep.lines : r = Classified(Aged([l EXCEPT !.cluster = OrUnknown(@)]))
      \/ \E i \in rep.items : \E n \in DOMAIN ItemNamespaces(i) : r = Classified(ItemFinding(i, n))
  BY DEF Findings, CsvFindings, JsonFindings
<1>2. {r.family, ImageLabel(r.repository)} \subseteq ToSet(Alphabet)
  BY ReportsAreNamed DEF ReportAssumption
<1>3. ASSUME NEW m, DOMAIN m = Fields, r = Classified(m), m.line \in Nat,
             m.age \in Nat \cup {NoAge}, m.seen \in Nat \cup {NoAge}
      PROVE  Regular(r)
  BY <1>2, <1>3, ClassifiedFields DEF Regular
<1>4. ASSUME NEW l \in rep.lines, r = Classified(Aged([l EXCEPT !.cluster = OrUnknown(@)]))
      PROVE  Regular(r)
  <2> DEFINE m == Aged([l EXCEPT !.cluster = OrUnknown(@)])
  <2>1. DOMAIN l = Fields /\ l.line \in Nat /\ {l.age, l.seen} \subseteq Nat \cup {NoAge}
    BY ReportsAreNamed DEF ReportAssumption
  <2>2. /\ DOMAIN m = Fields /\ m.line = l.line /\ m.seen = l.seen
        /\ m.age = l.age \/ m.age = l.seen
        /\ r = Classified(m)
    BY <1>4, <2>1 DEF Aged
  <2> HIDE DEF m
  <2>3. QED
    BY <1>3, <2>1, <2>2
<1>5. ASSUME NEW i \in rep.items, NEW n \in DOMAIN ItemNamespaces(i),
             r = Classified(ItemFinding(i, n))
      PROVE  Regular(r)
  <2> DEFINE m == ItemFinding(i, n)
  <2>1. i.line \in Nat /\ i.seen \in Nat \cup {NoAge} /\ DOMAIN i.namespaces \subseteq Nat
    BY ReportsAreNamed DEF ReportAssumption
  <2>2. n \in Nat
    BY <2>1 DEF ItemNamespaces
  <2>3. DOMAIN m = Fields /\ m.line = 10 * i.line + n /\ m.age = i.seen /\ m.seen = i.seen
    BY DEF ItemFinding
  <2>4. r = Classified(m)
    BY <1>5
  <2> HIDE DEF m
  <2>5. QED
    BY <1>3, <2>1, <2>2, <2>3, <2>4
<1>6. QED
  BY <1>1, <1>4, <1>5

LEMMA RowsAreRegular ==
    ASSUME NEW b, MadeOfReport(b)
    PROVE  \A r \in Rows(b) : Regular(r)
<1>1. CASE b = NoBoard
  BY <1>1 DEF NoBoard, Rows, InScope
<1>2. ASSUME NEW rep \in Reports, NEW o \in Builds, b = MadeOf(rep, o)
      PROVE  \A r \in Rows(b) : Regular(r)
  BY <1>2, FindingsRegular DEF MadeOf, Rows, InScope
<1>3. QED
  BY <1>1, <1>2 DEF MadeOfReport

\* Every finding has one of the three owners, and those of OpenShift's images
\* are Red Hat's engineers'.
LEMMA OwnersOf ==
    ASSUME NEW r
    PROVE  /\ Family(r).ownership \in Ownerships
           /\ r.repository = PayloadRepository => Family(r).ownership = "sre_managed"
<1> DEFINE hits == {i \in DOMAIN Families : \/ r.repository \in Families[i].repositories
                                            \/ r.namespace \in Families[i].namespaces}
<1>1. Family(r) = IF hits = {} THEN Unmatched(r.repository) ELSE Families[Min(hits)]
  BY DEF Family, FamilyOf
<1>2. hits \in SUBSET Nat /\ hits \subseteq DOMAIN Families
  BY FamiliesAssumption
<1>3. hits # {} => Min(hits) \in hits /\ \A i \in hits : Min(hits) <= i
  <2> HIDE DEF hits
  <2>1. QED
    BY <1>2, LeastNumber DEF Min
<1>4. r.repository = PayloadRepository => 1 \in hits
  BY FamiliesAssumption
<1>5. \A i \in hits : 1 <= i
  BY FamiliesAssumption
<1>6. 1 \in hits => Min(hits) = 1
  <2> DEFINE first == Min(hits)
  <2>1. hits # {} => first \in hits /\ \A i \in hits : first <= i
    BY <1>3
  <2> HIDE DEF hits, first
  <2>2. 1 \in hits => first \in Nat /\ first <= 1 /\ 1 <= first
    BY <1>2, <1>5, <2>1
  <2>3. QED
    BY <2>2 DEF first
<1>7. Unmatched(r.repository).ownership \in Ownerships
  BY DEF Unmatched, Ownerships
<1> HIDE DEF hits
<1>8. QED
  BY <1>1, <1>2, <1>3, <1>4, <1>6, <1>7, FamiliesAssumption

(***************************************************************************)
(* A component that is picked passes the filter of components.             *)
(***************************************************************************)
LEMMA WholeName ==
    ASSUME NEW n, n \in Seq(ToSet(n)) \ {<<>>}
    PROVE  IsPrefix(n, n) /\ IsSuffix(n, n) /\ Within(n, n)
<1>1. Len(n) \in Nat \ {0} /\ DOMAIN n = 1 .. Len(n)
  OBVIOUS
<1>2. IsPrefix(n, n)
  BY <1>1 DEF IsPrefix
<1>3. Reverse(n) \in Seq(ToSet(n)) /\ IsPrefix(Reverse(n), Reverse(n))
  BY <1>1 DEF IsPrefix, Reverse
<1>4. SubSeq(n, 1, Len(n)) = n
  OBVIOUS
<1>5. QED
  <2>1. IsSuffix(n, n)
    BY <1>3, Zenon DEF IsSuffix
  <2>2. 1 \in 1 .. Len(n)
    BY <1>1
  <2>3. IsPrefix(n, SubSeq(n, 1, Len(n)))
    BY <1>2, <1>4, Zenon
  <2>4. Within(n, n)
    BY <2>2, <2>3, Zenon DEF Within
  <2>5. QED
    BY <1>2, <2>1, <2>4

LEMMA PickMatches ==
    ASSUME NEW n \in ToSet(Alphabet), NEW picks, n \in picks
    PROVE  PipeMatch(picks, n)
<1> DEFINE picked == {i \in DOMAIN Alphabet : Alphabet[i] \in picks}
<1>1. PICK i \in DOMAIN Alphabet : Alphabet[i] = n
  BY DEF ToSet
<1>2. i \in picked
  BY <1>1
<1>3. IsFiniteSet(picked) /\ picked \subseteq Nat
  <2>1. DOMAIN Alphabet = 1 .. Len(Alphabet) /\ Len(Alphabet) \in Nat
    BY AlphabetAssumption
  <2>2. IsFiniteSet(1 .. Len(Alphabet))
    BY <2>1, FS_Interval
  <2>3. QED
    BY <2>1, <2>2, FS_Subset
<1>4. IsPrefix(n, n) /\ IsSuffix(n, n) /\ Within(n, n)
  BY <1>1, AlphabetAssumption, WholeName
<1> HIDE DEF picked
<1>5. Cardinality(picked) \in Nat /\ Cardinality(picked) # 0
  BY <1>2, <1>3, FS_CardinalityType, FS_EmptySet
<1>6. CASE Cardinality(picked) = 1
  <2>1. picked = {i}
    BY <1>2, <1>3, <1>6, FS_Singleton
  <2>2. Min(picked) = i
    BY <1>2, <1>3, <2>1 DEF Min
  <2>3. QED
    BY <1>1, <1>6, <2>2 DEF PipeMatch, picked
<1>7. CASE Cardinality(picked) > 1
  BY <1>1, <1>2, <1>4, <1>7 DEF PipeMatch, picked
<1>8. QED
  BY <1>5, <1>6, <1>7

-----------------------------------------------------------------------------
(***************************************************************************)
(* Which findings the filters of a table let through.                      *)
(***************************************************************************)
ColumnOf(f) == IF f = "finding_age" THEN "age" ELSE IF f = "sre" THEN "ownership" ELSE f

PassedNamespace(r) ==
    IF choice.namespace = {} THEN HasNamespace(r) \/ NamespaceAll(board) = {All}
    ELSE OrUnknown(r.namespace) \in choice.namespace
PassedBy(t, r) ==
    /\ PickedSource(r)
    /\ "cluster" \in t.filters => choice.cluster = {} \/ r.cluster \in choice.cluster
    /\ "namespace" \in t.filters => PassedNamespace(r)
    /\ "finding_age" \in t.filters => PickedAge(r)
    /\ "sre" \in t.filters => choice.sre = {} \/ r.ownership \in choice.sre
    /\ "component" \in t.filters /\ choice.component # {}
         => Component(t.title, r) \in choice.component

LEMMA CountedByFilter ==
    ASSUME NEW t, t.filters \subseteq VulnFilters, NEW r
    PROVE  r \in Counted(choice, t) <=> r \in Rows(board) /\ About(t.title, r) /\ PassedBy(t, r)
<1> DEFINE F == (t.filters \ {"component"}) \cup {"source"}
           matching == Matching(choice, F)
           In1(v) == choice[v] = {} \/ Means(v, r) \in choice[v]
           placed == IF "namespace" \in t.filters /\ NamespaceAll(board) # {All}
                       THEN Placeable(choice, matching) ELSE matching
<1>1. r \in Rows(board)
        <=> r \in board.findings /\ (board.names = {} \/ r.cluster \in board.names)
  BY DEF Rows, InScope
<1>2. /\ Means("cluster", r) = r.cluster
      /\ Means("namespace", r) = OrUnknown(r.namespace)
      /\ Means("finding_age", r) = FindingAge(r.age)
      /\ Means("source", r) = SourceName(r)
      /\ Means("sre", r) = r.ownership
  BY DEF Means
<1>3. (\A v \in F : In1(v))
        <=> /\ In1("source")
            /\ "cluster" \in t.filters => In1("cluster")
            /\ "namespace" \in t.filters => In1("namespace")
            /\ "finding_age" \in t.filters => In1("finding_age")
            /\ "sre" \in t.filters => In1("sre")
  <2> HIDE DEF In1
  <2>1. QED
    BY DEF VulnFilters, PlaceFilters
<1>4. r \in matching <=> r \in Rows(board) /\ \A v \in F : In1(v)
  BY <1>1 DEF Matching
<1>5. r \in placed
        <=> /\ r \in matching
            /\ "namespace" \in t.filters /\ NamespaceAll(board) # {All} /\ choice.namespace = {}
                 => HasNamespace(r)
  <2> HIDE DEF matching
  <2>1. QED
    BY DEF Placeable
<1>6. r \in Counted(choice, t)
        <=> /\ r \in placed
            /\ About(t.title, r)
            /\ "component" \in t.filters /\ choice.component # {}
                 => Component(t.title, r) \in choice.component
  BY DEF Counted
<1>7. QED
  <2>1. /\ In1("source") <=> PickedSource(r)
        /\ In1("cluster") <=> choice.cluster = {} \/ r.cluster \in choice.cluster
        /\ In1("namespace") <=> choice.namespace = {} \/ OrUnknown(r.namespace) \in choice.namespace
        /\ In1("finding_age") <=> PickedAge(r)
        /\ In1("sre") <=> choice.sre = {} \/ r.ownership \in choice.sre
    BY <1>2 DEF PickedSource, PickedAge
  <2> HIDE DEF F, matching, In1, placed
  <2>2. QED
    BY <1>3, <1>4, <1>5, <1>6, <2>1 DEF PassedBy, PassedNamespace

\* The options of the dropdown of components are in its alphabet.
LEMMA OffersAreNames ==
    ASSUME NEW b, \A r \in Rows(b) : Regular(r), NEW c, Offered(b, c)
    PROVE  c.component \subseteq ToSet(Alphabet)
<1>1. c.component \subseteq ComponentOptions(b)
  BY DEF Offered, Dropdowns, Options
<1>2. \A i \in LabelledImages(Rows(b)) : \E r \in Rows(b) : i = r.repository
  BY DEF LabelledImages
<1>3. QED
  BY <1>1, <1>2 DEF ComponentOptions, Regular

TableReady ==
    /\ GoodBoard(board)
    /\ Offered(board, choice)
    /\ PicksAreClear(choice)
    /\ \A r \in Rows(board) : Regular(r)

LEMMA PassesMeant ==
    ASSUME TableReady, NEW t, t.filters \subseteq VulnFilters, NEW r \in Rows(board), NEW row,
           \A f \in t.filters : row[ColumnOf(f)] = Column(t, ColumnOf(f), r)
    PROVE  Passes(board, choice, t.filters, row) /\ PickedSource(r) <=> PassedBy(t, r)
<1> USE DEF TableReady
<1>1. ASSUME "cluster" \in t.filters
      PROVE  PassesFilter(board, choice, "cluster", row)
               <=> (choice.cluster = {} \/ r.cluster \in choice.cluster)
  <2>1. row.cluster = r.cluster
    BY <1>1 DEF ColumnOf, Column, Means
  <2>2. r.cluster \in ClusterAll(board)
    BY ScopeIsOfRows DEF ClusterAll, Clusters
  <2>3. r.cluster \in Clusters(Rows(board))
    BY DEF Clusters
  <2>4. r.cluster # All /\ All \notin choice.cluster
    BY <2>3, RowsAreGood, OfferedByDropdown DEF Reserved
  <2>5. In(board, choice, "cluster", r.cluster)
          <=> (choice.cluster = {} \/ r.cluster \in choice.cluster)
    BY <2>2, <2>4, ExpandedByDropdown DEF StrictlyIn, In
  <2>6. QED
    BY <2>1, <2>5 DEF PassesFilter
<1>2. ASSUME "namespace" \in t.filters
      PROVE  PassesFilter(board, choice, "namespace", row) <=> PassedNamespace(r)
  <2>1. row.namespace = OrUnknown(r.namespace)
    BY <1>2 DEF ColumnOf, Column, Means
  <2>2. OrUnknown(r.namespace) \in NamespaceOptions(board)
    BY DEF NamespaceOptions
  <2>3. OrUnknown(r.namespace) \notin Reserved
    BY RowsAreGood, OrUnknownNamed DEF WellNamed
  <2>4. OrUnknown(r.namespace) \in NamespaceAll(board) <=> HasNamespace(r)
    BY <2>2, <2>3 DEF NamespaceAll, HasNamespace, Reserved
  <2>5. All \notin choice.namespace
    BY NoNamespaceIsAll, OfferedByDropdown
  <2>6. In(board, choice, "namespace", OrUnknown(r.namespace)) <=> PassedNamespace(r)
    BY <2>4, <2>5, ExpandedByDropdown DEF StrictlyIn, In, PassedNamespace
  <2>7. QED
    BY <2>1, <2>6 DEF PassesFilter
<1>3. ASSUME "finding_age" \in t.filters
      PROVE  PassesFilter(board, choice, "finding_age", row) <=> PickedAge(r)
  <2>1. row.age = FindingAge(r.age)
    BY <1>3 DEF ColumnOf, Column
  <2>2. All \notin choice.finding_age
    BY OfferedByDropdown DEF FindingAges, All
  <2>3. In(board, choice, "finding_age", FindingAge(r.age)) <=> PickedAge(r)
    BY <2>2, ExpandedByDropdown DEF StrictlyIn, In, PickedAge
  <2>4. QED
    BY <2>1, <2>3 DEF PassesFilter
<1>4. ASSUME "sre" \in t.filters
      PROVE  PassesFilter(board, choice, "sre", row)
               <=> (choice.sre = {} \/ r.ownership \in choice.sre)
  <2>1. row.ownership = r.ownership
    BY <1>4 DEF ColumnOf, Column
  <2>2. All \notin choice.sre
    BY OfferedByDropdown DEF Ownerships, All
  <2>3. In(board, choice, "sre", r.ownership)
          <=> (choice.sre = {} \/ r.ownership \in choice.sre)
    BY <2>2, ExpandedByDropdown DEF StrictlyIn, In
  <2>4. QED
    BY <2>1, <2>3 DEF PassesFilter
<1>5. ASSUME "component" \in t.filters
      PROVE  PassesFilter(board, choice, "component", row)
               <=> (choice.component # {} => Component(t.title, r) \in choice.component)
  <2> DEFINE n == Component(t.title, r)
  <2>1. row.component = n
    BY <1>5 DEF ColumnOf, Column
  <2>2. n \in {q.family : q \in Rows(board)} \cup {q.repository : q \in Rows(board)}
    BY DEF Component
  <2>3. choice.component \subseteq ToSet(Alphabet)
    BY OffersAreNames
  <2> HIDE DEF n
  <2>4. n \in choice.component => PipeMatch(choice.component, n)
    BY <2>3, PickMatches
  <2>5. choice.component = {} => PipeMatch(choice.component, n)
    BY DEF PipeMatch
  <2>6. PipeMatch(choice.component, n) => choice.component = {} \/ n \in choice.component
    BY <2>2 DEF PicksAreClear
  <2>7. PassesFilter(board, choice, "component", row) <=> PipeMatch(choice.component, n)
    BY <2>1 DEF PassesFilter
  <2>8. QED
    BY <2>4, <2>5, <2>6, <2>7 DEF n
<1>6. Passes(board, choice, t.filters, row)
        <=> /\ "cluster" \in t.filters => PassesFilter(board, choice, "cluster", row)
            /\ "namespace" \in t.filters => PassesFilter(board, choice, "namespace", row)
            /\ "finding_age" \in t.filters => PassesFilter(board, choice, "finding_age", row)
            /\ "sre" \in t.filters => PassesFilter(board, choice, "sre", row)
            /\ "component" \in t.filters => PassesFilter(board, choice, "component", row)
  BY DEF Passes, VulnFilters, PlaceFilters
<1>7. QED
  BY <1>1, <1>2, <1>3, <1>4, <1>5, <1>6 DEF PassedBy

-----------------------------------------------------------------------------
(***************************************************************************)
(* Tables whose rows have the columns D of the findings in A, and besides  *)
(* them sums, which is sum[s][r] in the rows made of the findings of       *)
(* source s.                                                               *)
(***************************************************************************)
KeyOf(t, D, r) == [col \in D |-> Column(t, col, r)]
RowOf(t, D, r, sums) == Joined(KeyOf(t, D, r), sums)
OfBoth(A, s) == OfSource(Rows(board), s) \cap A

IsSum(D, sums) ==
    DOMAIN sums \cap D = {} /\ "source" \notin DOMAIN sums /\ "findings" \in DOMAIN sums

MadeBy(t, D, A, sum) ==
    /\ t.filters \subseteq VulnFilters
    /\ \A f \in t.filters : ColumnOf(f) \in D
    /\ t.by \subseteq D
    /\ "source" \notin D
    /\ A \subseteq Rows(board)
    /\ \A s \in ShownSources :
         /\ Content(OfSource(Rows(board), s), t.title)
              = {RowOf(t, D, r, sum[s][r]) : r \in OfBoth(A, s)}
         /\ \A r \in OfBoth(A, s) : IsSum(D, sum[s][r])

Entry(t, D, sum, r) ==
    WithSource(RowOf(t, D, r, sum[SourceShown(r)][r]), SourceShown(r))
PassedOf(t, A) == {r \in A : PassedBy(t, r)}
FindingsOf(t, A, cell) == {r \in PassedOf(t, A) : CellFor(t, r) = cell}
EntriesOf(t, D, A, sum, cell) == {Entry(t, D, sum, r) : r \in FindingsOf(t, A, cell)}

LEMMA EntryFields ==
    ASSUME NEW t, NEW D, "source" \notin D, NEW r, NEW sums, IsSum(D, sums), NEW s
    PROVE  LET row == WithSource(RowOf(t, D, r, sums), s)
           IN  /\ \A col \in D : row[col] = Column(t, col, r)
               /\ row["findings"] = sums["findings"]
               /\ row["source"] = s
<1> DEFINE key == KeyOf(t, D, r)
           inner == Joined(key, sums)
           g == [source |-> s]
           row == Joined(inner, g)
<1>1. DOMAIN key = D /\ \A col \in D : key[col] = Column(t, col, r)
  BY DEF KeyOf
<1>2. DOMAIN g = {"source"} /\ g["source"] = s
  OBVIOUS
<1>3. WithSource(RowOf(t, D, r, sums), s) = row
  BY DEF WithSource, RowOf
<1> HIDE DEF key, g
<1>4. /\ DOMAIN inner = D \cup DOMAIN sums
      /\ \A k \in DOMAIN inner : inner[k] = IF k \in D THEN key[k] ELSE sums[k]
  BY <1>1 DEF Joined
<1> HIDE DEF inner
<1>5. /\ DOMAIN row = D \cup DOMAIN sums \cup {"source"}
      /\ \A k \in DOMAIN row : row[k] = IF k \in DOMAIN inner THEN inner[k] ELSE g[k]
  BY <1>2, <1>4 DEF Joined
<1> HIDE DEF row
<1>6. QED
  BY <1>1, <1>2, <1>3, <1>4, <1>5 DEF IsSum

LEMMA SameEntry ==
    ASSUME NEW t, NEW D, "source" \notin D,
           NEW q, NEW qsums, IsSum(D, qsums), NEW u,
           NEW r, NEW rsums, IsSum(D, rsums), NEW s,
           WithSource(RowOf(t, D, q, qsums), u) = WithSource(RowOf(t, D, r, rsums), s)
    PROVE  KeyOf(t, D, q) = KeyOf(t, D, r) /\ u = s
<1> DEFINE x == WithSource(RowOf(t, D, q, qsums), u)
           y == WithSource(RowOf(t, D, r, rsums), s)
<1>1. (\A col \in D : x[col] = Column(t, col, q)) /\ x["source"] = u
  BY EntryFields
<1>2. (\A col \in D : y[col] = Column(t, col, r)) /\ y["source"] = s
  BY EntryFields
<1>3. x = y
  OBVIOUS
<1> HIDE DEF x, y
<1>4. \A col \in D : Column(t, col, q) = Column(t, col, r)
  BY <1>1, <1>2, <1>3
<1>5. QED
  BY <1>1, <1>2, <1>3, <1>4 DEF KeyOf

LEMMA SourceOfBoth ==
    ASSUME Offered(board, choice), NEW A \in SUBSET Rows(board), NEW s \in ShownSources, NEW r
    PROVE  r \in OfBoth(A, s) <=> r \in A /\ PickedSource(r) /\ s = SourceShown(r)
BY SourceOfRow DEF OfBoth

\* What passes the filters of such a table.
LEMMA RowsPassing ==
    ASSUME TableReady, NEW t, NEW D, NEW A, NEW sum, MadeBy(t, D, A, sum)
    PROVE  Passing(board, choice, t) = {Entry(t, D, sum, r) : r \in PassedOf(t, A)}
<1>1. A \in SUBSET Rows(board) /\ Offered(board, choice) /\ "source" \notin D
  BY DEF MadeBy, TableReady
<1>2. ASSUME NEW r \in A, NEW s \in ShownSources, r \in OfBoth(A, s)
      PROVE  Passes(board, choice, t.filters, WithSource(RowOf(t, D, r, sum[s][r]), s))
               <=> r \in PassedOf(t, A)
  <2> DEFINE row == WithSource(RowOf(t, D, r, sum[s][r]), s)
  <2>1. IsSum(D, sum[s][r])
    BY <1>2 DEF MadeBy
  <2>2. \A col \in D : row[col] = Column(t, col, r)
    BY <1>1, <2>1, EntryFields
  <2>3. \A f \in t.filters : row[ColumnOf(f)] = Column(t, ColumnOf(f), r)
    BY <2>2 DEF MadeBy
  <2> HIDE DEF row
  <2>4. r \in Rows(board) /\ PickedSource(r) /\ t.filters \subseteq VulnFilters
    BY <1>1, <1>2, SourceOfBoth DEF MadeBy
  <2>5. Passes(board, choice, t.filters, row) /\ PickedSource(r) <=> PassedBy(t, r)
    BY <2>3, <2>4, PassesMeant
  <2>6. QED
    BY <2>4, <2>5 DEF PassedOf, row
<1>3. ASSUME NEW x
      PROVE  x \in Passing(board, choice, t)
               <=> \E s \in ShownSources : \E r \in OfBoth(A, s) :
                     /\ x = WithSource(RowOf(t, D, r, sum[s][r]), s)
                     /\ Passes(board, choice, t.filters, x)
  <2>1. x \in Passing(board, choice, t)
          <=> /\ \E s \in ShownSources :
                   \E row \in Content(OfSource(Rows(board), s), t.title) : x = WithSource(row, s)
              /\ Passes(board, choice, t.filters, x)
    BY <1>1, SourcesShown DEF Passing, Shown, WithSource
  <2>2. \A s \in ShownSources :
          (\E row \in Content(OfSource(Rows(board), s), t.title) : x = WithSource(row, s))
            <=> \E r \in OfBoth(A, s) : x = WithSource(RowOf(t, D, r, sum[s][r]), s)
    BY DEF MadeBy
  <2>3. QED
    BY <2>1, <2>2
<1>4. ASSUME NEW x
      PROVE  x \in Passing(board, choice, t) <=> \E r \in PassedOf(t, A) : x = Entry(t, D, sum, r)
  <2>1. ASSUME x \in Passing(board, choice, t)
        PROVE  \E r \in PassedOf(t, A) : x = Entry(t, D, sum, r)
    <3>0. PICK s \in ShownSources : \E r \in OfBoth(A, s) :
            /\ x = WithSource(RowOf(t, D, r, sum[s][r]), s)
            /\ Passes(board, choice, t.filters, x)
      BY <1>3, <2>1
    <3>1. PICK r \in OfBoth(A, s) :
            /\ x = WithSource(RowOf(t, D, r, sum[s][r]), s)
            /\ Passes(board, choice, t.filters, x)
      BY <3>0
    <3>2. r \in A /\ s = SourceShown(r)
      BY <1>1, SourceOfBoth
    <3>3. r \in PassedOf(t, A)
      BY <1>2, <3>1, <3>2
    <3>4. QED
      BY <3>1, <3>2, <3>3 DEF Entry
  <2>2. ASSUME NEW r \in PassedOf(t, A), x = Entry(t, D, sum, r)
        PROVE  x \in Passing(board, choice, t)
    <3> DEFINE s == SourceShown(r)
    <3>1. r \in A /\ PickedSource(r)
      BY DEF PassedOf, PassedBy
    <3>2. s \in ShownSources
      BY <1>1, <3>1, SourceOfRow
    <3> HIDE DEF s
    <3>3. r \in OfBoth(A, s)
      BY <1>1, <3>1, <3>2, SourceOfBoth DEF s
    <3>4. x = WithSource(RowOf(t, D, r, sum[s][r]), s)
      BY <2>2 DEF Entry, s
    <3>5. Passes(board, choice, t.filters, x)
      BY <1>2, <3>1, <3>2, <3>3, <3>4
    <3>6. QED
      BY <1>3, <3>2, <3>3, <3>4, <3>5
  <2>3. QED
    BY <2>1, <2>2
<1>5. QED
  BY <1>4

\* The cells they have, and which of them have a cell.
LEMMA CellsOfRows ==
    ASSUME TableReady, NEW t, NEW D, NEW A, NEW sum, MadeBy(t, D, A, sum)
    PROVE  /\ \A r \in PassedOf(t, A) : CellOf(Entry(t, D, sum, r), t) = CellFor(t, r)
           /\ DOMAIN Cells(board, choice, t) = {CellFor(t, r) : r \in PassedOf(t, A)}
           /\ \A cell \in DOMAIN Cells(board, choice, t) :
                Cells(board, choice, t)[cell]
                  = SumOf(EntriesOf(t, D, A, sum, cell), "findings")
<1> DEFINE P == PassedOf(t, A)
           E(r) == Entry(t, D, sum, r)
           rows == Passing(board, choice, t)
<1>1. ASSUME NEW r \in P
      PROVE  CellOf(E(r), t) = CellFor(t, r)
  <2>1. r \in A /\ PickedSource(r) /\ SourceShown(r) \in ShownSources
    BY SourceOfRow DEF PassedOf, PassedBy, TableReady
  <2>2. r \in OfBoth(A, SourceShown(r))
    BY <2>1, SourceOfBoth DEF MadeBy, TableReady
  <2>3. IsSum(D, sum[SourceShown(r)][r]) /\ "source" \notin D /\ t.by \subseteq D
    BY <2>1, <2>2 DEF MadeBy
  <2>4. \A col \in D : E(r)[col] = Column(t, col, r)
    BY <2>3, EntryFields DEF Entry
  <2> HIDE DEF E
  <2>5. QED
    BY <2>3, <2>4 DEF CellOf, CellFor
<1>2. rows = {E(r) : r \in P}
  BY RowsPassing
<1>3. Cells(board, choice, t)
        = [cell \in {CellOf(row, t) : row \in rows} |->
             SumOf({row \in rows : CellOf(row, t) = cell}, "findings")]
  BY DEF Cells
<1> HIDE DEF rows, E, P
<1>4. {CellOf(row, t) : row \in rows} = {CellFor(t, r) : r \in P}
  BY <1>1, <1>2
<1>5. ASSUME NEW cell
      PROVE  {row \in rows : CellOf(row, t) = cell}
               = {E(r) : r \in FindingsOf(t, A, cell)}
  <2>1. \A r : r \in FindingsOf(t, A, cell) <=> r \in P /\ CellFor(t, r) = cell
    BY DEF FindingsOf, P
  <2>2. QED
    BY <1>1, <1>2, <2>1
<1>6. DOMAIN Cells(board, choice, t) = {CellFor(t, r) : r \in P}
  BY <1>3, <1>4
<1>7. \A cell \in DOMAIN Cells(board, choice, t) :
        Cells(board, choice, t)[cell] = SumOf({E(r) : r \in FindingsOf(t, A, cell)}, "findings")
  BY <1>3, <1>5
<1>8. QED
  BY <1>1, <1>6, <1>7 DEF P, E, EntriesOf

\* The findings of A with the columns of r, among those of source s.
Mates(t, D, A, s, r) == {q \in OfBoth(A, s) : KeyOf(t, D, q) = KeyOf(t, D, r)}
\* Findings with the same columns have the same sums.
SumsOfKeys(t, D, A, sum) ==
    \A s \in ShownSources : \A q, r \in OfBoth(A, s) :
      KeyOf(t, D, q) = KeyOf(t, D, r) => sum[s][q] = sum[s][r]

LEMMA MatesPass ==
    ASSUME TableReady, NEW t, NEW D, NEW A, NEW sum, MadeBy(t, D, A, sum),
           NEW q \in A, NEW r \in A, PickedSource(q), PickedSource(r),
           KeyOf(t, D, q) = KeyOf(t, D, r)
    PROVE  /\ q \in PassedOf(t, A) <=> r \in PassedOf(t, A)
           /\ CellFor(t, q) = CellFor(t, r)
<1> DEFINE row == KeyOf(t, D, r)
<1>1. \A col \in D : Column(t, col, q) = row[col] /\ Column(t, col, r) = row[col]
  <2>1. \A col \in D : KeyOf(t, D, q)[col] = Column(t, col, q)
    BY DEF KeyOf
  <2>2. \A col \in D : KeyOf(t, D, r)[col] = Column(t, col, r)
    BY DEF KeyOf
  <2>3. QED
    BY <2>1, <2>2
<1> HIDE DEF row
<1>2. /\ \A f \in t.filters : row[ColumnOf(f)] = Column(t, ColumnOf(f), q)
      /\ \A f \in t.filters : row[ColumnOf(f)] = Column(t, ColumnOf(f), r)
  BY <1>1 DEF MadeBy
<1>3. q \in Rows(board) /\ r \in Rows(board) /\ t.filters \subseteq VulnFilters
  BY DEF MadeBy
<1>4. Passes(board, choice, t.filters, row) /\ PickedSource(q) <=> PassedBy(t, q)
  BY <1>2, <1>3, PassesMeant
<1>5. Passes(board, choice, t.filters, row) /\ PickedSource(r) <=> PassedBy(t, r)
  BY <1>2, <1>3, PassesMeant
<1>6. CellFor(t, q) = CellFor(t, r)
  BY <1>1 DEF CellFor, MadeBy
<1>7. QED
  BY <1>4, <1>5, <1>6 DEF PassedOf

LEMMA PassedIsShown ==
    ASSUME TableReady, NEW t, NEW A \in SUBSET Rows(board), NEW r \in PassedOf(t, A)
    PROVE  /\ r \in A /\ PickedSource(r)
           /\ SourceShown(r) \in ShownSources
           /\ r \in OfBoth(A, SourceShown(r))
<1>1. r \in A /\ PickedSource(r)
  BY DEF PassedOf, PassedBy
<1>2. SourceShown(r) \in ShownSources
  BY <1>1, SourceOfRow DEF TableReady
<1>3. QED
  BY <1>1, <1>2, SourceOfBoth DEF TableReady

LEMMA EntryOfMates ==
    ASSUME TableReady, NEW t, NEW D, NEW A, NEW sum, MadeBy(t, D, A, sum),
           SumsOfKeys(t, D, A, sum), NEW r \in PassedOf(t, A), NEW q
    PROVE  q \in Mates(t, D, A, SourceShown(r), r)
             <=> q \in PassedOf(t, A) /\ Entry(t, D, sum, q) = Entry(t, D, sum, r)
<1> DEFINE s == SourceShown(r)
<1>0. A \in SUBSET Rows(board) /\ Offered(board, choice) /\ "source" \notin D
  BY DEF MadeBy, TableReady
<1>1. r \in A /\ PickedSource(r) /\ s \in ShownSources /\ r \in OfBoth(A, s)
  BY <1>0, PassedIsShown
<1>2. ASSUME q \in Mates(t, D, A, s, r)
      PROVE  q \in PassedOf(t, A) /\ Entry(t, D, sum, q) = Entry(t, D, sum, r)
  <2>1. q \in OfBoth(A, s) /\ KeyOf(t, D, q) = KeyOf(t, D, r)
    BY <1>2 DEF Mates
  <2>2. q \in A /\ PickedSource(q) /\ SourceShown(q) = s
    BY <1>0, <1>1, <2>1, SourceOfBoth
  <2>3. q \in PassedOf(t, A)
    BY <1>1, <2>1, <2>2, MatesPass
  <2>4. sum[s][q] = sum[s][r]
    BY <1>1, <2>1 DEF SumsOfKeys
  <2>5. QED
    BY <2>1, <2>2, <2>3, <2>4 DEF Entry, RowOf
<1>3. ASSUME q \in PassedOf(t, A), Entry(t, D, sum, q) = Entry(t, D, sum, r)
      PROVE  q \in Mates(t, D, A, s, r)
  <2> DEFINE u == SourceShown(q)
  <2>1. q \in A /\ PickedSource(q) /\ u \in ShownSources /\ q \in OfBoth(A, u)
    BY <1>0, <1>3, PassedIsShown
  <2>2. IsSum(D, sum[u][q]) /\ IsSum(D, sum[s][r])
    BY <1>1, <2>1 DEF MadeBy
  <2>3. WithSource(RowOf(t, D, q, sum[u][q]), u) = WithSource(RowOf(t, D, r, sum[s][r]), s)
    BY <1>3 DEF Entry
  <2> HIDE DEF u, s
  <2>4. KeyOf(t, D, q) = KeyOf(t, D, r) /\ u = s
    BY <1>0, <2>2, <2>3, SameEntry
  <2>5. QED
    BY <2>1, <2>4 DEF Mates
<1>4. QED
  BY <1>2, <1>3

\* A row counts the findings it is made of.
CountsMates(t, D, A, sum) ==
    \A s \in ShownSources : \A r \in OfBoth(A, s) :
      sum[s][r].findings = Cardinality(Mates(t, D, A, s, r))

LEMMA EntryFindings ==
    ASSUME TableReady, NEW t, NEW D, NEW A, NEW sum, MadeBy(t, D, A, sum),
           NEW r \in PassedOf(t, A)
    PROVE  Entry(t, D, sum, r)["findings"] = sum[SourceShown(r)][r]["findings"]
<1>1. A \in SUBSET Rows(board) /\ "source" \notin D
  BY DEF MadeBy
<1>2. IsSum(D, sum[SourceShown(r)][r])
  BY <1>1, PassedIsShown DEF MadeBy
<1>3. QED
  BY <1>1, <1>2, EntryFields DEF Entry

LEMMA CountsAreExact ==
    ASSUME TableReady, NEW t, NEW D, NEW A, NEW sum, MadeBy(t, D, A, sum),
           SumsOfKeys(t, D, A, sum), CountsMates(t, D, A, sum), NEW cell
    PROVE  SumOf(EntriesOf(t, D, A, sum, cell), "findings")
             = Cardinality(FindingsOf(t, A, cell))
<1> DEFINE Q == FindingsOf(t, A, cell)
           key == [r \in Q |-> Entry(t, D, sum, r)]
           K == {key[r] : r \in Q}
           f == [row \in K |-> row["findings"]]
<1>0. A \in SUBSET Rows(board)
  BY DEF MadeBy
<1>1. Q \subseteq PassedOf(t, A) /\ Q \subseteq Rows(board)
  BY <1>0 DEF PassedOf, FindingsOf
<1>2. IsFiniteSet(Q)
  BY <1>1, RowsAreGood, FS_Subset DEF TableReady
<1>3. IsFiniteSet(K)
  BY <1>2, ImageFinite
<1>4. \A q \in Q : key[q] \in K
  OBVIOUS
<1>5. \A k \in K : f[k] = Cardinality(Fibre(Q, key, k))
  <2> SUFFICES ASSUME NEW r \in Q
               PROVE  f[key[r]] = Cardinality(Fibre(Q, key, key[r]))
    OBVIOUS
  <2> DEFINE s == SourceShown(r)
  <2>1. r \in PassedOf(t, A) /\ CellFor(t, r) = cell
    BY DEF FindingsOf
  <2>2. r \in A /\ PickedSource(r) /\ s \in ShownSources /\ r \in OfBoth(A, s)
    BY <1>0, <2>1, PassedIsShown
  <2>3. key[r] = Entry(t, D, sum, r) /\ f[key[r]] = Entry(t, D, sum, r)["findings"]
    OBVIOUS
  <2>4. f[key[r]] = Cardinality(Mates(t, D, A, s, r))
    BY <2>1, <2>2, <2>3, EntryFindings DEF CountsMates
  <2>5. \A q \in Q : key[q] = Entry(t, D, sum, q)
    OBVIOUS
  <2>6. ASSUME NEW q \in Mates(t, D, A, s, r)
        PROVE  q \in Q
    <3>1. q \in PassedOf(t, A)
      BY <2>1, EntryOfMates
    <3>2. PickedSource(q) /\ q \in A /\ KeyOf(t, D, q) = KeyOf(t, D, r)
      BY <1>0, <3>1, PassedIsShown DEF Mates
    <3>3. CellFor(t, q) = CellFor(t, r)
      BY <2>2, <3>2, MatesPass
    <3>4. QED
      BY <2>1, <3>1, <3>3 DEF FindingsOf
  <2>7. \A q : q \in Mates(t, D, A, s, r) <=> q \in PassedOf(t, A) /\ Entry(t, D, sum, q) = Entry(t, D, sum, r)
    BY <2>1, EntryOfMates
  <2> HIDE DEF key, f, K
  <2>8. \A q : q \in Fibre(Q, key, key[r]) <=> q \in Q /\ Entry(t, D, sum, q) = Entry(t, D, sum, r)
    BY <2>3, <2>5 DEF Fibre
  <2> HIDE DEF Q
  <2>9. Mates(t, D, A, s, r) = Fibre(Q, key, key[r])
    BY <1>1, <2>6, <2>7, <2>8
  <2>10. QED
    BY <2>4, <2>9
<1>6. DOMAIN f = K /\ K = EntriesOf(t, D, A, sum, cell)
  BY DEF EntriesOf
<1> HIDE DEF K, Q, f, key
<1>7. SumFunctionOnSet(f, K) = Cardinality(Q)
  BY <1>2, <1>3, <1>4, <1>5, SumOfFibres
<1>8. SumOf(K, "findings") = Cardinality(Q)
  BY <1>6, <1>7 DEF SumOf, SumFunction, f
<1>9. QED
  BY <1>6, <1>8 DEF Q

\* So a table of findings counts the findings picked.
LEMMA TableCounts ==
    ASSUME TableReady, NEW t, NEW D, NEW A, NEW sum, MadeBy(t, D, A, sum),
           SumsOfKeys(t, D, A, sum), CountsMates(t, D, A, sum),
           A = {r \in Rows(board) : About(t.title, r)}
    PROVE  LET counted == Counted(choice, t)
               shown == Cells(board, choice, t)
           IN  /\ DOMAIN shown = {CellFor(t, r) : r \in counted}
               /\ \A cell \in DOMAIN shown :
                    shown[cell] = Cardinality({r \in counted : CellFor(t, r) = cell})
<1>1. Counted(choice, t) = PassedOf(t, A)
  BY CountedByFilter DEF PassedOf, MadeBy
<1>2. DOMAIN Cells(board, choice, t) = {CellFor(t, r) : r \in PassedOf(t, A)}
  BY CellsOfRows
<1>3. ASSUME NEW cell \in DOMAIN Cells(board, choice, t)
      PROVE  Cells(board, choice, t)[cell] = Cardinality(FindingsOf(t, A, cell))
  <2>1. Cells(board, choice, t)[cell] = SumOf(EntriesOf(t, D, A, sum, cell), "findings")
    BY CellsOfRows
  <2>2. QED
    BY <2>1, CountsAreExact
<1>4. QED
  BY <1>1, <1>2, <1>3 DEF FindingsOf

-----------------------------------------------------------------------------
(***************************************************************************)
(* The rollups, each row with the columns of its findings.                 *)
(***************************************************************************)
SliceColumns == {"cluster", "namespace", "age"}
OwnedColumns == SliceColumns \cup {"ownership"}
ComponentColumns == OwnedColumns \cup {"component"}
RemedyColumns == OwnedColumns \cup {"remedy"}

\* The findings of B with the columns of r.
AlikeIn(t, D, B, r) == {q \in B : KeyOf(t, D, q) = KeyOf(t, D, r)}
SummaryRows(t, D, B) == {RowOf(t, D, r, Summary(AlikeIn(t, D, B, r))) : r \in B}

LEMMA SliceKey ==
    ASSUME NEW t, NEW r
    PROVE  Slice(r) = KeyOf(t, SliceColumns, r)
BY DEF Slice, KeyOf, SliceColumns, Column, Means

LEMMA OwnedKey ==
    ASSUME NEW t, NEW r
    PROVE  Owned(r) = KeyOf(t, OwnedColumns, r)
<1> DEFINE key == KeyOf(t, OwnedColumns, r)
<1>1. DOMAIN Owned(r) = {"cluster", "namespace", "age", "ownership"}
  BY OwnedFields
<1>2. Owned(r) = [k \in {"cluster", "namespace", "age", "ownership"} |-> Owned(r)[k]]
  BY DEF Owned, Joined, Slice
<1>3. DOMAIN key = OwnedColumns /\ key = [k \in OwnedColumns |-> key[k]]
  BY DEF KeyOf
<1>4. /\ key["cluster"] = r.cluster /\ key["namespace"] = OrUnknown(r.namespace)
      /\ key["age"] = FindingAge(r.age) /\ key["ownership"] = r.ownership
  BY DEF KeyOf, Column, Means, OwnedColumns, SliceColumns
<1>5. /\ Owned(r)["cluster"] = r.cluster /\ Owned(r)["namespace"] = OrUnknown(r.namespace)
      /\ Owned(r)["age"] = FindingAge(r.age) /\ Owned(r)["ownership"] = r.ownership
  BY OwnedFields
<1>6. OwnedColumns = {"cluster", "namespace", "age", "ownership"}
  BY DEF OwnedColumns, SliceColumns
<1> HIDE DEF key
<1>7. \A k \in OwnedColumns : Owned(r)[k] = key[k]
  BY <1>4, <1>5, <1>6
<1>8. QED
  BY <1>2, <1>3, <1>6, <1>7 DEF key

\* A column more.
LEMMA WiderKey ==
    ASSUME NEW t, NEW r, NEW D, NEW E, NEW g, \A k : k \in E <=> k \in D \/ k \in DOMAIN g,
           \A k \in DOMAIN g : k \notin D /\ g[k] = Column(t, k, r), NEW key, key = KeyOf(t, D, r)
    PROVE  Joined(key, g) = KeyOf(t, E, r)
<1>1. DOMAIN key = D /\ \A k \in D : key[k] = Column(t, k, r)
  BY DEF KeyOf
<1>2. KeyOf(t, E, r) = [k \in E |-> Column(t, k, r)]
  BY DEF KeyOf
<1>6. DOMAIN key \cup DOMAIN g = E
  BY <1>1
<1>3. Joined(key, g) = [k \in E |-> IF k \in D THEN key[k] ELSE g[k]]
  BY <1>1, <1>6 DEF Joined
<1>4. \A k \in E : (IF k \in D THEN key[k] ELSE g[k]) = Column(t, k, r)
  BY <1>1
<1>5. QED
  BY <1>2, <1>3, <1>4

LEMMA FamilyKey ==
    ASSUME NEW t, t.title \notin ImageTables, NEW r
    PROVE  Joined(Owned(r), [component |-> r.family]) = KeyOf(t, ComponentColumns, r)
<1>1. [component |-> r.family]["component"] = Column(t, "component", r)
  BY DEF Column, Component
<1>2. "component" \notin OwnedColumns
  BY DEF OwnedColumns, SliceColumns
<1> DEFINE g == [component |-> r.family]
<1>3. DOMAIN g = {"component"} /\ g["component"] = Column(t, "component", r)
  BY <1>1
<1>5. \A k \in DOMAIN g : k \notin OwnedColumns /\ g[k] = Column(t, k, r)
  BY <1>2, <1>3
<1>6. \A k : k \in ComponentColumns <=> k \in OwnedColumns \/ k \in DOMAIN g
  BY <1>3 DEF ComponentColumns
<1> HIDE DEF g
<1> DEFINE key == KeyOf(t, OwnedColumns, r)
<1>8. key = KeyOf(t, OwnedColumns, r)
  OBVIOUS
<1> HIDE DEF key
<1>4. Joined(key, g) = KeyOf(t, ComponentColumns, r)
  BY <1>5, <1>6, <1>8, WiderKey
<1>7. QED
  BY <1>4, <1>8, OwnedKey DEF g

LEMMA ImageKey ==
    ASSUME NEW t, t.title \in ImageTables, NEW r
    PROVE  Joined(Owned(r), [component |-> r.repository]) = KeyOf(t, ComponentColumns, r)
<1>2. "component" \notin OwnedColumns
  BY DEF OwnedColumns, SliceColumns
<1> DEFINE g == [component |-> r.repository]
<1>3. DOMAIN g = {"component"} /\ g["component"] = Column(t, "component", r)
  BY DEF Column, Component
<1>5. \A k \in DOMAIN g : k \notin OwnedColumns /\ g[k] = Column(t, k, r)
  BY <1>2, <1>3
<1>6. \A k : k \in ComponentColumns <=> k \in OwnedColumns \/ k \in DOMAIN g
  BY <1>3 DEF ComponentColumns
<1> HIDE DEF g
<1> DEFINE key == KeyOf(t, OwnedColumns, r)
<1>8. key = KeyOf(t, OwnedColumns, r)
  OBVIOUS
<1> HIDE DEF key
<1>4. Joined(key, g) = KeyOf(t, ComponentColumns, r)
  BY <1>5, <1>6, <1>8, WiderKey
<1>7. QED
  BY <1>4, <1>8, OwnedKey DEF g

LEMMA RemedyKey ==
    ASSUME NEW t, NEW r
    PROVE  Joined(Owned(r), [remedy |-> r.remedy]) = KeyOf(t, RemedyColumns, r)
<1>2. "remedy" \notin OwnedColumns
  BY DEF OwnedColumns, SliceColumns
<1> DEFINE g == [remedy |-> r.remedy]
<1>3. DOMAIN g = {"remedy"} /\ g["remedy"] = Column(t, "remedy", r)
  BY DEF Column
<1>5. \A k \in DOMAIN g : k \notin OwnedColumns /\ g[k] = Column(t, k, r)
  BY <1>2, <1>3
<1>6. \A k : k \in RemedyColumns <=> k \in OwnedColumns \/ k \in DOMAIN g
  BY <1>3 DEF RemedyColumns
<1> HIDE DEF g
<1> DEFINE key == KeyOf(t, OwnedColumns, r)
<1>8. key = KeyOf(t, OwnedColumns, r)
  OBVIOUS
<1> HIDE DEF key
<1>4. Joined(key, g) = KeyOf(t, RemedyColumns, r)
  BY <1>5, <1>6, <1>8, WiderKey
<1>7. QED
  BY <1>4, <1>8, OwnedKey DEF g

LEMMA RollupsAreSummaries ==
    ASSUME NEW t, NEW B
    PROVE  /\ OwnershipRollup(B) = SummaryRows(t, OwnedColumns, B)
           /\ RemediationRollup(B) = SummaryRows(t, RemedyColumns, B)
           /\ t.title \notin ImageTables => FamilyRollup(B) = SummaryRows(t, ComponentColumns, B)
           /\ t.title \in ImageTables => ImageRollup(B) = SummaryRows(t, ComponentColumns, B)
           /\ GroupBy(B, Slice, Summary) = SummaryRows(t, SliceColumns, B)
<1>1. OwnershipRollup(B) = SummaryRows(t, OwnedColumns, B)
  BY OwnedKey DEF OwnershipRollup, GroupBy, SummaryRows, RowOf, AlikeIn
<1>2. RemediationRollup(B) = SummaryRows(t, RemedyColumns, B)
  <2> DEFINE K(r) == Joined(Owned(r), [remedy |-> r.remedy])
  <2>1. RemediationRollup(B) = {Joined(K(r), Summary({q \in B : K(q) = K(r)})) : r \in B}
    BY DEF RemediationRollup, GroupBy
  <2>2. \A r : K(r) = KeyOf(t, RemedyColumns, r)
    BY RemedyKey
  <2> HIDE DEF K
  <2>3. ASSUME NEW r \in B
        PROVE  {q \in B : K(q) = K(r)} = AlikeIn(t, RemedyColumns, B, r)
    BY <2>2 DEF AlikeIn
  <2>4. QED
    BY <2>1, <2>2, <2>3 DEF SummaryRows, RowOf
<1>3. ASSUME t.title \notin ImageTables
      PROVE  FamilyRollup(B) = SummaryRows(t, ComponentColumns, B)
  <2> DEFINE K(r) == Joined(Owned(r), [component |-> r.family])
  <2>1. FamilyRollup(B) = {Joined(K(r), Summary({q \in B : K(q) = K(r)})) : r \in B}
    BY DEF FamilyRollup, GroupBy
  <2>2. \A r : K(r) = KeyOf(t, ComponentColumns, r)
    BY <1>3, FamilyKey
  <2> HIDE DEF K
  <2>3. ASSUME NEW r \in B
        PROVE  {q \in B : K(q) = K(r)} = AlikeIn(t, ComponentColumns, B, r)
    BY <2>2 DEF AlikeIn
  <2>4. QED
    BY <2>1, <2>2, <2>3 DEF SummaryRows, RowOf
<1>4. ASSUME t.title \in ImageTables
      PROVE  ImageRollup(B) = SummaryRows(t, ComponentColumns, B)
  <2> DEFINE K(r) == Joined(Owned(r), [component |-> r.repository])
  <2>1. ImageRollup(B) = {Joined(K(r), Summary({q \in B : K(q) = K(r)})) : r \in B}
    BY DEF ImageRollup, GroupBy
  <2>2. \A r : K(r) = KeyOf(t, ComponentColumns, r)
    BY <1>4, ImageKey
  <2> HIDE DEF K
  <2>3. ASSUME NEW r \in B
        PROVE  {q \in B : K(q) = K(r)} = AlikeIn(t, ComponentColumns, B, r)
    BY <2>2 DEF AlikeIn
  <2>4. QED
    BY <2>1, <2>2, <2>3 DEF SummaryRows, RowOf
<1>5. GroupBy(B, Slice, Summary) = SummaryRows(t, SliceColumns, B)
  BY SliceKey DEF GroupBy, SummaryRows, RowOf, AlikeIn
<1>6. QED
  BY <1>1, <1>2, <1>3, <1>4, <1>5

-----------------------------------------------------------------------------
\* A table of summaries counts the findings picked.
AboutRows(t) == {r \in Rows(board) : About(t.title, r)}
WellColumned(t, D) ==
    /\ t.filters \subseteq VulnFilters
    /\ \A f \in t.filters : ColumnOf(f) \in D
    /\ t.by \subseteq D
    /\ D \subseteq RemedyColumns \cup ComponentColumns
CountsRight(t) ==
    LET counted == Counted(choice, t)
        shown == Cells(board, choice, t)
    IN  /\ DOMAIN shown = {CellFor(t, r) : r \in counted}
        /\ \A cell \in DOMAIN shown :
             shown[cell] = Cardinality({r \in counted : CellFor(t, r) = cell})

LEMMA SummaryTable ==
    ASSUME TableReady, NEW t, NEW D, WellColumned(t, D),
           \A s \in ShownSources :
             Content(OfSource(Rows(board), s), t.title)
               = SummaryRows(t, D, OfBoth(AboutRows(t), s))
    PROVE  CountsRight(t)
<1> DEFINE A == AboutRows(t)
           sum == [s \in ShownSources |->
                     [r \in OfBoth(A, s) |-> Summary(AlikeIn(t, D, OfBoth(A, s), r))]]
<1>1. \A s \in ShownSources : \A r \in OfBoth(A, s) :
        sum[s][r] = Summary(AlikeIn(t, D, OfBoth(A, s), r))
  OBVIOUS
<1>2. A \subseteq Rows(board)
  BY DEF AboutRows
<1> HIDE DEF sum
<1>3. "source" \notin D
  BY DEF WellColumned, RemedyColumns, ComponentColumns, OwnedColumns, SliceColumns
<1>4. \A B : IsSum(D, Summary(B)) /\ Summary(B).findings = Cardinality(B)
  BY DEF IsSum, Summary, WellColumned, RemedyColumns, ComponentColumns, OwnedColumns, SliceColumns
<1>5. ASSUME NEW s \in ShownSources
      PROVE  Content(OfSource(Rows(board), s), t.title)
               = {RowOf(t, D, r, sum[s][r]) : r \in OfBoth(A, s)}
  <2>1. SummaryRows(t, D, OfBoth(A, s)) = {RowOf(t, D, r, sum[s][r]) : r \in OfBoth(A, s)}
    BY <1>1 DEF SummaryRows
  <2>2. QED
    BY <2>1
<1> HIDE DEF A
<1>6. MadeBy(t, D, A, sum)
  BY <1>1, <1>2, <1>3, <1>4, <1>5 DEF MadeBy, WellColumned
<1>7. SumsOfKeys(t, D, A, sum)
  <2> SUFFICES ASSUME NEW s \in ShownSources, NEW q \in OfBoth(A, s), NEW r \in OfBoth(A, s),
                      KeyOf(t, D, q) = KeyOf(t, D, r)
               PROVE  sum[s][q] = sum[s][r]
    BY DEF SumsOfKeys
  <2>1. AlikeIn(t, D, OfBoth(A, s), q) = AlikeIn(t, D, OfBoth(A, s), r)
    BY DEF AlikeIn
  <2>2. QED
    BY <1>1, <2>1
<1>8. CountsMates(t, D, A, sum)
  BY <1>1, <1>4 DEF CountsMates, AlikeIn, Mates
<1>9. A = {r \in Rows(board) : About(t.title, r)}
  BY DEF A, AboutRows
<1>10. QED
  BY <1>6, <1>7, <1>8, <1>9, TableCounts DEF CountsRight

-----------------------------------------------------------------------------
(***************************************************************************)
(* The tables one by one.                                                  *)
(***************************************************************************)
IsTable(t, title, filters, by, link) ==
    t.title = title /\ t.filters = filters /\ t.by = by /\ t.link = link

LEMMA TableIs ==
    ASSUME NEW title, NEW x, NEW y, NEW w, NEW h, NEW filters, NEW by, NEW link
    PROVE  IsTable(Table(Panel(title, x, y, w, h), filters, by, link), title, filters, by, link)
<1> DEFINE p == Panel(title, x, y, w, h)
           g == [filters |-> filters, by |-> by, link |-> link]
           t == Joined(p, g)
<1>1. DOMAIN p = {"title", "x", "y", "w", "h"} /\ p["title"] = title
  BY DEF Panel
<1>2. /\ DOMAIN g = {"filters", "by", "link"}
      /\ g["filters"] = filters /\ g["by"] = by /\ g["link"] = link
  OBVIOUS
<1>3. Table(p, filters, by, link) = t
  BY DEF Table
<1> HIDE DEF p, g
<1>4. /\ t["title"] = title /\ t["filters"] = filters /\ t["by"] = by /\ t["link"] = link
  BY <1>1, <1>2 DEF Joined
<1> HIDE DEF t
<1>5. QED
  BY <1>3, <1>4 DEF IsTable, p

LEMMA TablesAre ==
    ASSUME NEW b
    PROVE  /\ IsTable(FindingsByNamespace(b), "Findings by namespace", VulnFilters,
                      {"cluster", "namespace"}, Link("namespace", "namespace", TRUE, Nothing))
           /\ IsTable(AllComponents(b), "All components", VulnFilters,
                      {"cluster", "component"}, Link("component", "component", TRUE, Nothing))
           /\ IsTable(AllImages(b), "All images", VulnFilters,
                      {"cluster", "component"}, Link("image", "component", TRUE, Nothing))
           /\ IsTable(FindingOwnership(b), "Finding ownership", PlaceFilters \cup {"sre"},
                      {"ownership"}, Link("sre", "ownership", FALSE, Nothing))
           /\ IsTable(SreManaged(b), "Red Hat SRE Managed Services", VulnFilters,
                      {"cluster", "component"},
                      Link("component", "component", TRUE, [sre |-> {"sre_managed"}]))
           /\ IsTable(RedHatComponents(b), "Red Hat Components", VulnFilters,
                      {"cluster", "component"},
                      Link("component", "component", TRUE, [sre |-> {"redhat_component"}]))
           /\ IsTable(NonRedHatImages(b), "Non-Red Hat images", VulnFilters,
                      {"cluster", "component"},
                      Link("image", "component", TRUE, [sre |-> {"non_redhat"}]))
           /\ IsTable(RemediationPaths(b), "Remediation Paths", PlaceFilters \cup {"sre"},
                      {"remedy"}, NoLink)
           /\ IsTable(CriticalByNamespace(b), "Critical findings by namespace", PlaceFilters,
                      {"namespace"}, NoLink)
           /\ IsTable(PayloadImages(b), "SRE-managed OpenShift images", {"cluster", "sre"}, {},
                      NoLink)
           /\ IsTable(OverThirty(b), "Unique CVEs older than 30 days", PlaceFilters,
                      {"cluster", "namespace"},
                      Link("namespace", "namespace", TRUE,
                           [over30 |-> {TRUE}, severity |-> {"Critical", "Important"}]))
           /\ IsTable(CriticalCvesByAge(b), "Critical CVEs by age", {"cluster"}, {"bucket"},
                      Link("age", "bucket", FALSE,
                           [severity |-> {"Critical"}, payload |-> {TRUE}, sre |-> {"sre_managed"}]))
           /\ IsTable(ImportantCvesByAge(b), "Important CVEs by age", {"cluster"}, {"bucket"},
                      Link("age", "bucket", FALSE,
                           [severity |-> {"Important"}, payload |-> {TRUE},
                            sre |-> {"sre_managed"}]))
           /\ IsTable(SimpleView(b), "Simple view", PlaceFilters,
                      {"cluster", "namespace", "repository", "age"}, NoLink)
<1>1. IsTable(FindingsByNamespace(b), "Findings by namespace", VulnFilters,
              {"cluster", "namespace"}, Link("namespace", "namespace", TRUE, Nothing))
  BY TableIs, Zenon DEF FindingsByNamespace
<1>2. IsTable(AllComponents(b), "All components", VulnFilters,
              {"cluster", "component"}, Link("component", "component", TRUE, Nothing))
  BY TableIs, Zenon DEF AllComponents
<1>3. IsTable(AllImages(b), "All images", VulnFilters,
              {"cluster", "component"}, Link("image", "component", TRUE, Nothing))
  BY TableIs, Zenon DEF AllImages
<1>4. IsTable(FindingOwnership(b), "Finding ownership", PlaceFilters \cup {"sre"},
              {"ownership"}, Link("sre", "ownership", FALSE, Nothing))
  BY TableIs, Zenon DEF FindingOwnership
<1>5. IsTable(SreManaged(b), "Red Hat SRE Managed Services", VulnFilters,
              {"cluster", "component"},
              Link("component", "component", TRUE, [sre |-> {"sre_managed"}]))
  BY TableIs, Zenon DEF SreManaged
<1>6. IsTable(RedHatComponents(b), "Red Hat Components", VulnFilters,
              {"cluster", "component"},
              Link("component", "component", TRUE, [sre |-> {"redhat_component"}]))
  BY TableIs, Zenon DEF RedHatComponents
<1>7. IsTable(NonRedHatImages(b), "Non-Red Hat images", VulnFilters,
              {"cluster", "component"},
              Link("image", "component", TRUE, [sre |-> {"non_redhat"}]))
  BY TableIs, Zenon DEF NonRedHatImages
<1>8. IsTable(RemediationPaths(b), "Remediation Paths", PlaceFilters \cup {"sre"},
              {"remedy"}, NoLink)
  BY TableIs, Zenon DEF RemediationPaths
<1>9. IsTable(CriticalByNamespace(b), "Critical findings by namespace", PlaceFilters,
              {"namespace"}, NoLink)
  BY TableIs, Zenon DEF CriticalByNamespace
<1>10. IsTable(PayloadImages(b), "SRE-managed OpenShift images", {"cluster", "sre"}, {}, NoLink)
  BY TableIs, Zenon DEF PayloadImages
<1>11. IsTable(OverThirty(b), "Unique CVEs older than 30 days", PlaceFilters,
               {"cluster", "namespace"},
               Link("namespace", "namespace", TRUE,
                    [over30 |-> {TRUE}, severity |-> {"Critical", "Important"}]))
  BY TableIs, Zenon DEF OverThirty
<1>12. IsTable(CriticalCvesByAge(b), "Critical CVEs by age", {"cluster"}, {"bucket"},
               Link("age", "bucket", FALSE,
                    [severity |-> {"Critical"}, payload |-> {TRUE}, sre |-> {"sre_managed"}]))
  BY TableIs, Zenon DEF CriticalCvesByAge
<1>13. IsTable(ImportantCvesByAge(b), "Important CVEs by age", {"cluster"}, {"bucket"},
               Link("age", "bucket", FALSE,
                    [severity |-> {"Important"}, payload |-> {TRUE}, sre |-> {"sre_managed"}]))
  BY TableIs, Zenon DEF ImportantCvesByAge
<1>14. IsTable(SimpleView(b), "Simple view", PlaceFilters,
               {"cluster", "namespace", "repository", "age"}, NoLink)
  BY TableIs, Zenon DEF SimpleView
<1>15. QED
  BY <1>1, <1>2, <1>3, <1>4, <1>5, <1>6, <1>7, <1>8, <1>9, <1>10, <1>11, <1>12, <1>13, <1>14,
     Zenon

-----------------------------------------------------------------------------
(***************************************************************************)
(* What a table that fits publishes is all there is.                       *)
(***************************************************************************)
LEMMA SourceRowsAreRows ==
    ASSUME Offered(board, choice), NEW s \in ShownSources
    PROVE  s \in Sources /\ OfSource(Rows(board), s) \subseteq Rows(board)
BY OfferedByDropdown DEF ShownSources, Sources, OfSource, RedHat

\* Nothing is cut off a table that fits.
LEMMA WholeContent ==
    ASSUME NEW S, NEW title, Fits(S, title)
    PROVE  /\ title # "Simple view" => Content(S, title) = RolledUp(S, title)
           /\ title = "Simple view" => Content(S, title) = SimpleRows(S)
<1>1. CASE title \in ComponentTables
  <2>1. Cardinality(RolledUp(S, title)) <= TableLimit
    BY <1>1 DEF Fits, ComponentTables, ByNamespaceBars
  <2>2. Published(RolledUp(S, title)) = RolledUp(S, title)
    BY <2>1 DEF Published, Largest
  <2>3. Content(S, title) = Published(RolledUp(S, title))
    BY <1>1 DEF Content, ComponentTables
  <2>4. title # "Simple view"
    BY <1>1 DEF ComponentTables
  <2>5. QED
    BY <2>2, <2>3, <2>4
<1>2. CASE title = "Simple view"
  <2>1. title \notin ComponentTables
    BY <1>2 DEF ComponentTables
  <2>2. Cardinality(SimpleRows(S)) <= SimpleLimit
    BY <1>2, <2>1 DEF Fits, ByNamespaceBars
  <2>3. SimpleRollup(S) = SimpleRows(S)
    BY <2>2 DEF SimpleRollup, Largest
  <2>4. Content(S, title) = SimpleRollup(S)
    BY <1>2, <2>1 DEF Content
  <2>5. QED
    BY <1>2, <2>3, <2>4
<1>3. CASE title \notin ComponentTables /\ title # "Simple view"
  BY <1>3 DEF Content
<1>4. QED
  BY <1>1, <1>2, <1>3

\* Images of Red Hat's, whoever manages them.
LEMMA AllImagesRows ==
    ASSUME NEW t, t.title = "All images", NEW S, \A r \in S : r.ownership \in Ownerships
    PROVE  ImageRollup(OwnedBy(S, "redhat_component")) \cup ImageRollup(OwnedBy(S, "sre_managed"))
             = SummaryRows(t, ComponentColumns, {r \in S : r.ownership # "non_redhat"})
<1> DEFINE D == ComponentColumns
           B == {r \in S : r.ownership # "non_redhat"}
           Part(o) == OwnedBy(S, o)
           Both == {"redhat_component", "sre_managed"}
<1>1. t.title \in ImageTables
  BY DEF ImageTables
<1>2. ASSUME NEW o \in Both
      PROVE  ImageRollup(Part(o)) = SummaryRows(t, D, Part(o))
  BY <1>1, RollupsAreSummaries
<1>3. B = Part("redhat_component") \cup Part("sre_managed")
  BY DEF OwnedBy, Ownerships
<1>4. ASSUME NEW o \in Both, NEW r \in Part(o)
      PROVE  AlikeIn(t, D, Part(o), r) = AlikeIn(t, D, B, r)
  <2>1. ASSUME NEW q \in B, KeyOf(t, D, q) = KeyOf(t, D, r)
        PROVE  q \in Part(o)
    <3>1. "ownership" \in D
      BY DEF ComponentColumns, OwnedColumns
    <3>2. /\ KeyOf(t, D, q)["ownership"] = q.ownership
          /\ KeyOf(t, D, r)["ownership"] = r.ownership
      BY <3>1 DEF KeyOf, Column
    <3>3. q.ownership = r.ownership
      BY <2>1, <3>2
    <3>4. QED
      BY <2>1, <3>3 DEF OwnedBy
  <2>2. Part(o) \subseteq B
    BY <1>3
  <2> HIDE DEF B, Part
  <2>3. QED
    BY <2>1, <2>2 DEF AlikeIn
<1> HIDE DEF B, Part, D
<1>5. ASSUME NEW o \in Both
      PROVE  SummaryRows(t, D, Part(o)) = {RowOf(t, D, r, Summary(AlikeIn(t, D, B, r))) : r \in Part(o)}
  BY <1>4 DEF SummaryRows
<1>6. SummaryRows(t, D, B)
        = SummaryRows(t, D, Part("redhat_component")) \cup SummaryRows(t, D, Part("sre_managed"))
  <2> DEFINE F(r) == RowOf(t, D, r, Summary(AlikeIn(t, D, B, r)))
  <2>1. SummaryRows(t, D, B) = {F(r) : r \in B}
    BY DEF SummaryRows
  <2>2. SummaryRows(t, D, Part("redhat_component")) = {F(r) : r \in Part("redhat_component")}
    BY <1>5
  <2>3. SummaryRows(t, D, Part("sre_managed")) = {F(r) : r \in Part("sre_managed")}
    BY <1>5
  <2> HIDE DEF F
  <2>4. QED
    BY <1>3, <2>1, <2>2, <2>3
<1>7. QED
  BY <1>2, <1>6 DEF B, Part, D

LEMMA NotAhead ==
    ASSUME NEW c \in Nat, NEW n \in Nat
    PROVE  ~ (c > c \/ n < n)
OBVIOUS

LEMMA Smaller ==
    ASSUME NEW a \in Nat, NEW b \in Nat, NEW limit \in Nat, a <= b, a # b, b <= limit
    PROVE  a < limit
OBVIOUS

\* Every namespace with a Critical finding has a bar, if there is room for all.
LEMMA BarsForAll ==
    ASSUME NEW S, IsFiniteSet(S), \A r \in S : Regular(r),
           Fits(S, "Critical findings by namespace")
    PROVE  BarRollup(S) = GroupBy(Having(S, "Critical"), Slice, Summary)
<1> DEFINE crit == Having(S, "Critical")
           At(p) == {r \in crit : Place(r) = p}
           Ahead(p, q) == \/ Cardinality(At(p)) > Cardinality(At(q))
                          \/ /\ Cardinality(At(p)) = Cardinality(At(q))
                             /\ FirstLine(At(p)) < FirstLine(At(q))
           places == {Place(r) : r \in crit}
           Before(p) == {q \in places : Ahead(q, p)}
<1>1. BarPlaces(S) = {p \in places : Cardinality(Before(p)) < BarLimit}
  BY DEF BarPlaces
<1>2. IsFiniteSet(crit)
  BY FS_Subset DEF Having
<1>3. IsFiniteSet(places)
  <2> DEFINE f == [r \in crit |-> Place(r)]
  <2>1. IsFiniteSet({f[r] : r \in crit})
    <3> HIDE DEF crit
    <3>1. DOMAIN f = crit
      OBVIOUS
    <3> HIDE DEF f
    <3>2. QED
      BY <1>2, <3>1, ImageFinite
  <2>2. {f[r] : r \in crit} = places
    OBVIOUS
  <2>3. QED
    BY <2>1, <2>2
<1>4. Cardinality(places) <= BarLimit /\ BarLimit \in Nat
  <2>1. Cardinality({Place(r) : r \in Having(S, "Critical")}) <= BarLimit
    BY DEF Fits, ComponentTables, ByNamespaceBars
  <2>2. QED
    BY <2>1, LimitsAssumption
<1>5. ASSUME NEW x \in places
      PROVE  ~ Ahead(x, x)
  <2> DEFINE here == At(x)
             lines == {r.line : r \in here}
  <2>1. here # {} /\ here \subseteq S
    BY DEF Having
  <2>2. \A r \in here : r.line \in Nat
    BY <2>1 DEF Regular
  <2>3. IsFiniteSet(here)
    BY <2>1, FS_Subset
  <2>4. lines \in SUBSET Nat /\ lines # {}
    BY <2>1, <2>2
  <2>5. \E n \in lines : \A r \in here : n <= r.line
    <3>1. PICK n \in lines : \A m \in lines : n <= m
      <4> HIDE DEF lines
      <4>1. QED
        BY <2>4, LeastNumber
    <3>2. QED
      BY <3>1
  <2>6. FirstLine(here) \in lines
    <3>1. FirstLine(here) = CHOOSE n \in lines : \A r \in here : n <= r.line
      BY DEF FirstLine
    <3> HIDE DEF lines, here
    <3>2. QED
      BY <2>5, <3>1
  <2>7. Cardinality(here) \in Nat
    BY <2>3, FS_CardinalityType
  <2>8. FirstLine(here) \in Nat
    BY <2>4, <2>6
  <2> DEFINE c == Cardinality(here)
             n == FirstLine(here)
  <2>9. c \in Nat /\ n \in Nat
    BY <2>7, <2>8
  <2>10. SUFFICES ASSUME Ahead(x, x)
                  PROVE  FALSE
    OBVIOUS
  <2>11. c > c \/ n < n
    BY <2>10
  <2> HIDE DEF c, n
  <2>12. QED
    BY <2>9, <2>11, NotAhead, Zenon
<1> HIDE DEF Ahead
<1>6. ASSUME NEW x \in places
      PROVE  Cardinality(Before(x)) < BarLimit
  <2>1. Before(x) \subseteq places /\ x \notin Before(x)
    BY <1>5
  <2> HIDE DEF places, Before
  <2>2. /\ Cardinality(Before(x)) <= Cardinality(places)
        /\ Cardinality(Before(x)) = Cardinality(places) => Before(x) = places
    BY <1>3, <2>1, FS_Subset
  <2>3. Cardinality(Before(x)) \in Nat /\ Cardinality(places) \in Nat
    BY <1>3, <2>1, FS_Subset, FS_CardinalityType
  <2>4. Cardinality(Before(x)) # Cardinality(places)
    <3>1. x \in places
      OBVIOUS
    <3>2. QED
      BY <2>1, <2>2, <3>1
  <2>5. QED
    BY <1>4, <2>2, <2>3, <2>4, Smaller, Zenon
<1> HIDE DEF Before
<1>7. BarPlaces(S) = places
  BY <1>1, <1>6
<1>8. {r \in Having(S, "Critical") : Place(r) \in BarPlaces(S)} = Having(S, "Critical")
  BY <1>7
<1>9. QED
  BY <1>8 DEF BarRollup

-----------------------------------------------------------------------------
(***************************************************************************)
(* Each table with the columns and the findings its rows are made of.      *)
(***************************************************************************)
AboutOf(t, S) == {r \in S : About(t.title, r)}

LEMMA RolledTable ==
    ASSUME TableReady, NEW t, NEW D, WellColumned(t, D), Whole(t), t.title # "Simple view",
           \A s \in ShownSources :
             RolledUp(OfSource(Rows(board), s), t.title)
               = SummaryRows(t, D, AboutOf(t, OfSource(Rows(board), s)))
    PROVE  CountsRight(t)
<1>1. ASSUME NEW s \in ShownSources
      PROVE  Content(OfSource(Rows(board), s), t.title)
               = SummaryRows(t, D, OfBoth(AboutRows(t), s))
  <2> DEFINE S == OfSource(Rows(board), s)
  <2>1. s \in Sources /\ S \subseteq Rows(board)
    BY SourceRowsAreRows DEF TableReady
  <2>2. Fits(S, t.title)
    BY <2>1 DEF Whole
  <2>3. AboutOf(t, S) = OfBoth(AboutRows(t), s)
    BY <2>1 DEF AboutOf, OfBoth, AboutRows
  <2>4. RolledUp(S, t.title) = SummaryRows(t, D, AboutOf(t, S))
    OBVIOUS
  <2> HIDE DEF S
  <2>5. Content(S, t.title) = RolledUp(S, t.title)
    BY <2>2, WholeContent
  <2>6. QED
    BY <2>3, <2>4, <2>5 DEF S
<1>2. QED
  BY <1>1, SummaryTable

LEMMA FindingsByNamespaceRolled ==
    ASSUME NEW t, t.title = "Findings by namespace", NEW S
    PROVE  RolledUp(S, t.title) = SummaryRows(t, ComponentColumns, AboutOf(t, S))
<1>1. RolledUp(S, t.title) = FamilyRollup(Named(S))
  BY DEF RolledUp
<1>2. AboutOf(t, S) = Named(S)
  BY DEF AboutOf, About, ByNamespaceBars, Named
<1>3. t.title \notin ImageTables
  BY DEF ImageTables
<1>4. QED
  BY <1>1, <1>2, <1>3, RollupsAreSummaries

LEMMA AllComponentsRolled ==
    ASSUME NEW t, t.title = "All components", NEW S
    PROVE  RolledUp(S, t.title) = SummaryRows(t, ComponentColumns, AboutOf(t, S))
<1>1. RolledUp(S, t.title) = FamilyRollup(Named(S))
  BY DEF RolledUp
<1>2. AboutOf(t, S) = Named(S)
  BY DEF AboutOf, About, ByNamespaceBars, Named
<1>3. t.title \notin ImageTables
  BY DEF ImageTables
<1>4. QED
  BY <1>1, <1>2, <1>3, RollupsAreSummaries

LEMMA SreManagedRolled ==
    ASSUME NEW t, t.title = "Red Hat SRE Managed Services", NEW S
    PROVE  RolledUp(S, t.title) = SummaryRows(t, ComponentColumns, AboutOf(t, S))
<1>1. RolledUp(S, t.title) = FamilyRollup(OwnedBy(S, "sre_managed"))
  BY DEF RolledUp
<1>2. AboutOf(t, S) = OwnedBy(S, "sre_managed")
  BY DEF AboutOf, About, ByNamespaceBars, OwnedBy
<1>3. t.title \notin ImageTables
  BY DEF ImageTables
<1>4. QED
  BY <1>1, <1>2, <1>3, RollupsAreSummaries

LEMMA RedHatComponentsRolled ==
    ASSUME NEW t, t.title = "Red Hat Components", NEW S
    PROVE  RolledUp(S, t.title) = SummaryRows(t, ComponentColumns, AboutOf(t, S))
<1>1. RolledUp(S, t.title) = FamilyRollup(OwnedBy(S, "redhat_component"))
  BY DEF RolledUp
<1>2. AboutOf(t, S) = OwnedBy(S, "redhat_component")
  BY DEF AboutOf, About, ByNamespaceBars, OwnedBy
<1>3. t.title \notin ImageTables
  BY DEF ImageTables
<1>4. QED
  BY <1>1, <1>2, <1>3, RollupsAreSummaries

LEMMA NonRedHatImagesRolled ==
    ASSUME NEW t, t.title = "Non-Red Hat images", NEW S
    PROVE  RolledUp(S, t.title) = SummaryRows(t, ComponentColumns, AboutOf(t, S))
<1>1. RolledUp(S, t.title) = ImageRollup(OwnedBy(S, "non_redhat"))
  BY DEF RolledUp
<1>2. AboutOf(t, S) = OwnedBy(S, "non_redhat")
  BY DEF AboutOf, About, ByNamespaceBars, OwnedBy
<1>3. t.title \in ImageTables
  BY DEF ImageTables
<1>4. QED
  BY <1>1, <1>2, <1>3, RollupsAreSummaries

LEMMA FindingOwnershipRolled ==
    ASSUME NEW t, t.title = "Finding ownership", NEW S
    PROVE  RolledUp(S, t.title) = SummaryRows(t, OwnedColumns, AboutOf(t, S))
<1>1. RolledUp(S, t.title) = OwnershipRollup(S)
  BY DEF RolledUp
<1>2. AboutOf(t, S) = S
  BY DEF AboutOf, About, ByNamespaceBars
<1>4. QED
  BY <1>1, <1>2, RollupsAreSummaries

LEMMA RemediationRolled ==
    ASSUME NEW t, t.title = "Remediation Paths", NEW S
    PROVE  RolledUp(S, t.title) = SummaryRows(t, RemedyColumns, AboutOf(t, S))
<1>1. RolledUp(S, t.title) = RemediationRollup(S)
  BY DEF RolledUp
<1>2. AboutOf(t, S) = S
  BY DEF AboutOf, About, ByNamespaceBars
<1>4. QED
  BY <1>1, <1>2, RollupsAreSummaries

LEMMA AllImagesRolled ==
    ASSUME NEW t, t.title = "All images", NEW S, \A r \in S : r.ownership \in Ownerships
    PROVE  RolledUp(S, t.title) = SummaryRows(t, ComponentColumns, AboutOf(t, S))
<1>1. RolledUp(S, t.title)
        = ImageRollup(OwnedBy(S, "redhat_component")) \cup ImageRollup(OwnedBy(S, "sre_managed"))
  BY DEF RolledUp
<1>2. AboutOf(t, S) = {r \in S : r.ownership # "non_redhat"}
  BY DEF AboutOf, About, ByNamespaceBars
<1>3. QED
  BY <1>1, <1>2, AllImagesRows

LEMMA BarsRolled ==
    ASSUME NEW t, t.title = "Critical findings by namespace", NEW S, IsFiniteSet(S),
           \A r \in S : Regular(r), Fits(S, t.title)
    PROVE  RolledUp(S, t.title) = SummaryRows(t, SliceColumns, AboutOf(t, S))
<1>1. RolledUp(S, t.title) = BarRollup(S)
  BY DEF RolledUp
<1>2. AboutOf(t, S) = Having(S, "Critical")
  BY DEF AboutOf, About, ByNamespaceBars, Having
<1>3. BarRollup(S) = GroupBy(Having(S, "Critical"), Slice, Summary)
  BY BarsForAll
<1>4. GroupBy(Having(S, "Critical"), Slice, Summary)
        = SummaryRows(t, SliceColumns, Having(S, "Critical"))
  BY RollupsAreSummaries
<1>5. QED
  BY <1>1, <1>2, <1>3, <1>4

LEMMA Columned ==
    ASSUME NEW t
    PROVE  /\ t.filters = VulnFilters /\ t.by = {"cluster", "namespace"}
                => WellColumned(t, ComponentColumns)
           /\ t.filters = VulnFilters /\ t.by = {"cluster", "component"}
                => WellColumned(t, ComponentColumns)
           /\ t.filters = PlaceFilters \cup {"sre"} /\ t.by = {"ownership"}
                => WellColumned(t, OwnedColumns)
           /\ t.filters = PlaceFilters \cup {"sre"} /\ t.by = {"remedy"}
                => WellColumned(t, RemedyColumns)
           /\ t.filters = PlaceFilters /\ t.by = {"namespace"} => WellColumned(t, SliceColumns)
BY DEF WellColumned, VulnFilters, PlaceFilters, ColumnOf, ComponentColumns, OwnedColumns,
       RemedyColumns, SliceColumns

LEMMA SummaryTablesCount ==
    ASSUME TableReady, NEW t \in Tables(board), Whole(t),
           t.title \in CountTables \ {"SRE-managed OpenShift images"}
    PROVE  CountsRight(t)
<1>1. \A r \in Rows(board) : r.ownership \in Ownerships
  BY OwnersOf DEF TableReady, Regular
<1>2. \A s \in ShownSources : s \in Sources /\ OfSource(Rows(board), s) \subseteq Rows(board)
  BY SourceRowsAreRows DEF TableReady
<1>3. IsFiniteSet(Rows(board)) /\ \A r \in Rows(board) : Regular(r)
  BY RowsAreGood DEF TableReady
<1>4. CASE t = FindingsByNamespace(board)
  <2>1. t.title = "Findings by namespace" /\ WellColumned(t, ComponentColumns)
    <3>1. t.title = "Findings by namespace" /\ t.filters = VulnFilters
      BY <1>4, TablesAre, Zenon DEF IsTable
    <3>2. t.by = {"cluster", "namespace"}
      BY <1>4, TablesAre, Zenon DEF IsTable
    <3>3. QED
      BY <3>1, <3>2, Columned, Zenon
  <2>2. \A s \in ShownSources :
          RolledUp(OfSource(Rows(board), s), t.title)
            = SummaryRows(t, ComponentColumns, AboutOf(t, OfSource(Rows(board), s)))
    BY <2>1, FindingsByNamespaceRolled
  <2>3. QED
    BY <2>1, <2>2, RolledTable
<1>5. CASE t = AllComponents(board)
  <2>1. t.title = "All components" /\ WellColumned(t, ComponentColumns)
    <3>1. t.title = "All components" /\ t.filters = VulnFilters
      BY <1>5, TablesAre, Zenon DEF IsTable
    <3>2. t.by = {"cluster", "component"}
      BY <1>5, TablesAre, Zenon DEF IsTable
    <3>3. QED
      BY <3>1, <3>2, Columned, Zenon
  <2>2. \A s \in ShownSources :
          RolledUp(OfSource(Rows(board), s), t.title)
            = SummaryRows(t, ComponentColumns, AboutOf(t, OfSource(Rows(board), s)))
    BY <2>1, AllComponentsRolled
  <2>3. QED
    BY <2>1, <2>2, RolledTable
<1>6. CASE t = AllImages(board)
  <2>1. t.title = "All images" /\ WellColumned(t, ComponentColumns)
    <3>1. t.title = "All images" /\ t.filters = VulnFilters
      BY <1>6, TablesAre, Zenon DEF IsTable
    <3>2. t.by = {"cluster", "component"}
      BY <1>6, TablesAre, Zenon DEF IsTable
    <3>3. QED
      BY <3>1, <3>2, Columned, Zenon
  <2>2. ASSUME NEW s \in ShownSources
        PROVE  RolledUp(OfSource(Rows(board), s), t.title)
                 = SummaryRows(t, ComponentColumns, AboutOf(t, OfSource(Rows(board), s)))
    BY <1>1, <1>2, <2>1, AllImagesRolled
  <2>3. QED
    BY <2>1, <2>2, RolledTable
<1>7. CASE t = FindingOwnership(board)
  <2>1. t.title = "Finding ownership" /\ WellColumned(t, OwnedColumns)
    <3>1. t.title = "Finding ownership" /\ t.filters = PlaceFilters \cup {"sre"}
      BY <1>7, TablesAre, Zenon DEF IsTable
    <3>2. t.by = {"ownership"}
      BY <1>7, TablesAre, Zenon DEF IsTable
    <3>3. QED
      BY <3>1, <3>2, Columned, Zenon
  <2>2. \A s \in ShownSources :
          RolledUp(OfSource(Rows(board), s), t.title)
            = SummaryRows(t, OwnedColumns, AboutOf(t, OfSource(Rows(board), s)))
    BY <2>1, FindingOwnershipRolled
  <2>3. QED
    BY <2>1, <2>2, RolledTable
<1>8. CASE t = SreManaged(board)
  <2>1. t.title = "Red Hat SRE Managed Services" /\ WellColumned(t, ComponentColumns)
    <3>1. t.title = "Red Hat SRE Managed Services" /\ t.filters = VulnFilters
      BY <1>8, TablesAre, Zenon DEF IsTable
    <3>2. t.by = {"cluster", "component"}
      BY <1>8, TablesAre, Zenon DEF IsTable
    <3>3. QED
      BY <3>1, <3>2, Columned, Zenon
  <2>2. \A s \in ShownSources :
          RolledUp(OfSource(Rows(board), s), t.title)
            = SummaryRows(t, ComponentColumns, AboutOf(t, OfSource(Rows(board), s)))
    BY <2>1, SreManagedRolled
  <2>3. QED
    BY <2>1, <2>2, RolledTable
<1>9. CASE t = RedHatComponents(board)
  <2>1. t.title = "Red Hat Components" /\ WellColumned(t, ComponentColumns)
    <3>1. t.title = "Red Hat Components" /\ t.filters = VulnFilters
      BY <1>9, TablesAre, Zenon DEF IsTable
    <3>2. t.by = {"cluster", "component"}
      BY <1>9, TablesAre, Zenon DEF IsTable
    <3>3. QED
      BY <3>1, <3>2, Columned, Zenon
  <2>2. \A s \in ShownSources :
          RolledUp(OfSource(Rows(board), s), t.title)
            = SummaryRows(t, ComponentColumns, AboutOf(t, OfSource(Rows(board), s)))
    BY <2>1, RedHatComponentsRolled
  <2>3. QED
    BY <2>1, <2>2, RolledTable
<1>10. CASE t = NonRedHatImages(board)
  <2>1. t.title = "Non-Red Hat images" /\ WellColumned(t, ComponentColumns)
    <3>1. t.title = "Non-Red Hat images" /\ t.filters = VulnFilters
      BY <1>10, TablesAre, Zenon DEF IsTable
    <3>2. t.by = {"cluster", "component"}
      BY <1>10, TablesAre, Zenon DEF IsTable
    <3>3. QED
      BY <3>1, <3>2, Columned, Zenon
  <2>2. \A s \in ShownSources :
          RolledUp(OfSource(Rows(board), s), t.title)
            = SummaryRows(t, ComponentColumns, AboutOf(t, OfSource(Rows(board), s)))
    BY <2>1, NonRedHatImagesRolled
  <2>3. QED
    BY <2>1, <2>2, RolledTable
<1>11. CASE t = RemediationPaths(board)
  <2>1. t.title = "Remediation Paths" /\ WellColumned(t, RemedyColumns)
    <3>1. t.title = "Remediation Paths" /\ t.filters = PlaceFilters \cup {"sre"}
      BY <1>11, TablesAre, Zenon DEF IsTable
    <3>2. t.by = {"remedy"}
      BY <1>11, TablesAre, Zenon DEF IsTable
    <3>3. QED
      BY <3>1, <3>2, Columned, Zenon
  <2>2. \A s \in ShownSources :
          RolledUp(OfSource(Rows(board), s), t.title)
            = SummaryRows(t, RemedyColumns, AboutOf(t, OfSource(Rows(board), s)))
    BY <2>1, RemediationRolled
  <2>3. QED
    BY <2>1, <2>2, RolledTable
<1>12. CASE t = CriticalByNamespace(board)
  <2>1. t.title = "Critical findings by namespace" /\ WellColumned(t, SliceColumns)
    <3>1. t.title = "Critical findings by namespace" /\ t.filters = PlaceFilters
      BY <1>12, TablesAre, Zenon DEF IsTable
    <3>2. t.by = {"namespace"}
      BY <1>12, TablesAre, Zenon DEF IsTable
    <3>3. QED
      BY <3>1, <3>2, Columned, Zenon
  <2>2. ASSUME NEW s \in ShownSources
        PROVE  RolledUp(OfSource(Rows(board), s), t.title)
                 = SummaryRows(t, SliceColumns, AboutOf(t, OfSource(Rows(board), s)))
    <3> DEFINE S == OfSource(Rows(board), s)
    <3>1. S \subseteq Rows(board) /\ Fits(S, t.title)
      BY <1>2 DEF Whole
    <3> HIDE DEF S
    <3>2. IsFiniteSet(S) /\ \A r \in S : Regular(r)
      BY <1>3, <3>1, FS_Subset
    <3>3. QED
      BY <2>1, <3>1, <3>2, BarsRolled DEF S
  <2>3. QED
    BY <2>1, <2>2, RolledTable
<1>13. CASE t \in {PayloadImages(board), OverThirty(board), CriticalCvesByAge(board),
               ImportantCvesByAge(board)}
  <2>1. t.title \in {"SRE-managed OpenShift images", "Unique CVEs older than 30 days",
                     "Critical CVEs by age", "Important CVEs by age"}
    <3>1. /\ PayloadImages(board).title = "SRE-managed OpenShift images"
          /\ OverThirty(board).title = "Unique CVEs older than 30 days"
          /\ CriticalCvesByAge(board).title = "Critical CVEs by age"
          /\ ImportantCvesByAge(board).title = "Important CVEs by age"
      BY TablesAre DEF IsTable
    <3>2. QED
      BY <1>13, <3>1
  <2>2. QED
    BY <2>1 DEF CountTables, ByNamespaceBars
<1>14. QED
  BY <1>4, <1>5, <1>6, <1>7, <1>8, <1>9, <1>10, <1>11, <1>12, <1>13 DEF Tables

-----------------------------------------------------------------------------
(***************************************************************************)
(* The table of OpenShift's images.                                        *)
(***************************************************************************)
\* The table of OpenShift's images has one row for each cluster.
PayloadColumns == {"cluster", "ownership"}
PayloadSum(S, r) == [findings |-> Cardinality({q \in Payload(S) : q.cluster = r.cluster})]

LEMMA PayloadRow ==
    ASSUME NEW t, NEW S, NEW r, r.ownership = "sre_managed"
    PROVE  RowOf(t, PayloadColumns, r, PayloadSum(S, r))
             = [cluster |-> r.cluster, ownership |-> "sre_managed",
                findings |-> Cardinality({q \in Payload(S) : q.cluster = r.cluster})]
<1> DEFINE key == KeyOf(t, PayloadColumns, r)
           n == Cardinality({q \in Payload(S) : q.cluster = r.cluster})
           g == PayloadSum(S, r)
           row == [cluster |-> r.cluster, ownership |-> "sre_managed", findings |-> n]
           Fields == {"cluster", "ownership", "findings"}
<1>1. /\ DOMAIN key = {"cluster", "ownership"}
      /\ key["cluster"] = r.cluster /\ key["ownership"] = "sre_managed"
  BY DEF KeyOf, PayloadColumns, Column, Means
<1>2. DOMAIN g = {"findings"} /\ g["findings"] = n
  BY DEF PayloadSum
<1>3. /\ row = [k \in Fields |-> row[k]]
      /\ row["cluster"] = r.cluster /\ row["ownership"] = "sre_managed" /\ row["findings"] = n
  OBVIOUS
<1> HIDE DEF key, g, n, row
<1>4. DOMAIN key \cup DOMAIN g = Fields
  BY <1>1, <1>2
<1>5. Joined(key, g) = [k \in Fields |-> IF k \in DOMAIN key THEN key[k] ELSE g[k]]
  BY <1>4 DEF Joined
<1>6. \A k \in Fields : (IF k \in DOMAIN key THEN key[k] ELSE g[k]) = row[k]
  BY <1>1, <1>2, <1>3
<1>7. Joined(key, g) = row
  BY <1>3, <1>5, <1>6
<1>8. QED
  BY <1>7 DEF RowOf, key, g, row, n

LEMMA PayloadTableCounts ==
    ASSUME TableReady, Whole(PayloadImages(board))
    PROVE  CountsRight(PayloadImages(board))
<1> DEFINE t == PayloadImages(board)
           D == PayloadColumns
           A == AboutRows(t)
           Of(s) == OfSource(Rows(board), s)
           sum == [s \in ShownSources |-> [r \in OfBoth(A, s) |-> PayloadSum(Of(s), r)]]
<1>1. t.title = "SRE-managed OpenShift images" /\ t.filters = {"cluster", "sre"} /\ t.by = {}
  BY TablesAre DEF IsTable
<1> HIDE DEF t
<1>2. \A s \in ShownSources : \A r \in OfBoth(A, s) : sum[s][r] = PayloadSum(Of(s), r)
  OBVIOUS
<1>3. A = {r \in Rows(board) : r.repository = PayloadRepository}
  BY <1>1 DEF AboutRows, About, ByNamespaceBars
<1>4. A \subseteq Rows(board)
  BY <1>3
<1>5. \A r \in A : r.ownership = "sre_managed"
  BY <1>3, OwnersOf DEF TableReady, Regular
<1>6. ASSUME NEW s \in ShownSources
      PROVE  Payload(Of(s)) = OfBoth(A, s)
  <2>1. Of(s) \subseteq Rows(board)
    BY SourceRowsAreRows DEF TableReady
  <2>2. QED
    BY <1>3, <2>1 DEF Payload, OfBoth
<1> HIDE DEF A, sum
<1>7. ASSUME NEW s \in ShownSources
      PROVE  Content(Of(s), t.title) = {RowOf(t, D, r, sum[s][r]) : r \in OfBoth(A, s)}
  <2> DEFINE S == Of(s)
             Row(c) == [cluster |-> c, ownership |-> "sre_managed",
                        findings |-> Cardinality({q \in Payload(S) : q.cluster = c})]
  <2>1. Content(S, t.title) = PayloadRollup(S)
    BY <1>1 DEF Content, RolledUp, ComponentTables
  <2>2. PayloadRollup(S) = {Row(c) : c \in Clusters(Payload(S))}
    BY DEF PayloadRollup
  <2>3. ASSUME NEW r \in OfBoth(A, s)
        PROVE  RowOf(t, D, r, sum[s][r]) = Row(r.cluster)
    <3>1. r.ownership = "sre_managed"
      BY <1>5 DEF OfBoth
    <3>2. sum[s][r] = PayloadSum(S, r)
      BY <1>2
    <3>3. QED
      BY <3>1, <3>2, PayloadRow
  <2>4. Payload(S) = OfBoth(A, s)
    BY <1>6
  <2> HIDE DEF S, Row
  <2>5. {Row(c) : c \in Clusters(Payload(S))} = {Row(r.cluster) : r \in OfBoth(A, s)}
    BY <2>4 DEF Clusters
  <2>6. QED
    BY <2>1, <2>2, <2>3, <2>5 DEF S
<1>8. \A S, r : IsSum(D, PayloadSum(S, r))
  BY DEF IsSum, PayloadSum, PayloadColumns
<1>9. MadeBy(t, D, A, sum)
  <2>1. t.filters \subseteq VulnFilters /\ t.by \subseteq D /\ "source" \notin D
    BY <1>1 DEF VulnFilters, PlaceFilters, PayloadColumns
  <2>2. \A f \in t.filters : ColumnOf(f) \in D
    BY <1>1 DEF ColumnOf, PayloadColumns
  <2>3. \A s \in ShownSources : \A r \in OfBoth(A, s) : IsSum(D, sum[s][r])
    BY <1>2, <1>8
  <2> HIDE DEF D, Of
  <2>4. QED
    BY <2>1, <2>2, <2>3, <1>4, <1>7 DEF MadeBy, Of
<1>10. ASSUME NEW q, NEW r, KeyOf(t, D, q) = KeyOf(t, D, r)
       PROVE  q.cluster = r.cluster
  <2>1. KeyOf(t, D, q)["cluster"] = q.cluster /\ KeyOf(t, D, r)["cluster"] = r.cluster
    BY DEF KeyOf, PayloadColumns, Column, Means
  <2>2. QED
    BY <1>10, <2>1
<1>11. ASSUME NEW q \in A, NEW r \in A, q.cluster = r.cluster
       PROVE  KeyOf(t, D, q) = KeyOf(t, D, r)
  <2>1. q.ownership = r.ownership
    BY <1>5
  <2>2. \A col \in D : Column(t, col, q) = Column(t, col, r)
    BY <1>11, <2>1 DEF PayloadColumns, Column, Means
  <2>3. QED
    BY <2>2 DEF KeyOf
<1>12. SumsOfKeys(t, D, A, sum)
  <2> SUFFICES ASSUME NEW s \in ShownSources, NEW q \in OfBoth(A, s), NEW r \in OfBoth(A, s),
                      KeyOf(t, D, q) = KeyOf(t, D, r)
               PROVE  sum[s][q] = sum[s][r]
    BY DEF SumsOfKeys
  <2>1. q.cluster = r.cluster
    BY <1>10
  <2>2. PayloadSum(Of(s), q) = PayloadSum(Of(s), r)
    BY <2>1 DEF PayloadSum
  <2>3. QED
    BY <1>2, <2>2
<1>13. CountsMates(t, D, A, sum)
  <2> SUFFICES ASSUME NEW s \in ShownSources, NEW r \in OfBoth(A, s)
               PROVE  sum[s][r].findings = Cardinality(Mates(t, D, A, s, r))
    BY DEF CountsMates
  <2>1. sum[s][r].findings = Cardinality({q \in Payload(Of(s)) : q.cluster = r.cluster})
    <3>1. sum[s][r] = PayloadSum(Of(s), r)
      BY <1>2
    <3>2. \A S : PayloadSum(S, r).findings = Cardinality({q \in Payload(S) : q.cluster = r.cluster})
      BY DEF PayloadSum
    <3> HIDE DEF Of
    <3>3. QED
      BY <3>1, <3>2
  <2>2. OfBoth(A, s) \subseteq A
    BY DEF OfBoth
  <2>3. {q \in OfBoth(A, s) : q.cluster = r.cluster} = Mates(t, D, A, s, r)
    BY <1>10, <1>11, <2>2 DEF Mates
  <2>4. QED
    BY <1>6, <2>1, <2>3
<1>14. A = {r \in Rows(board) : About(t.title, r)}
  BY DEF A, AboutRows
<1>15. CountsRight(t)
  BY <1>9, <1>12, <1>13, <1>14, TableCounts DEF CountsRight
<1>16. QED
  BY <1>15 DEF t

-----------------------------------------------------------------------------
(***************************************************************************)
(* Counting values by groups of findings.                                  *)
(***************************************************************************)
\* Counting the values of each fibre counts no fewer than all the values.
LEMMA Paired ==
    ASSUME NEW k, NEW V, IsFiniteSet(V)
    PROVE  Cardinality({<<k, x>> : x \in V}) = Cardinality(V)
<1> DEFINE T == {<<k, x>> : x \in V}
           h == [x \in V |-> <<k, x>>]
<1>1. h \in Injection(V, T) /\ h \in Surjection(V, T)
  <2>1. h \in [V -> T] /\ \A x \in V : h[x] = <<k, x>>
    OBVIOUS
  <2>2. \A t \in T : \E x \in V : t = <<k, x>>
    OBVIOUS
  <2> HIDE DEF T, h
  <2>3. IsInjective(h)
    BY <2>1 DEF IsInjective
  <2>4. QED
    BY <2>1, <2>2, <2>3 DEF Injection, Surjection
<1>2. ExistsBijection(V, T)
  BY <1>1 DEF ExistsBijection, Bijection
<1>3. QED
  BY <1>2, FS_Bijection

Values(val, Q) == {val[q] : q \in Q}

LEMMA SumOfImages ==
    ASSUME NEW K, IsFiniteSet(K), NEW Q, IsFiniteSet(Q), NEW f, NEW key, NEW val,
           \A q \in Q : key[q] \in K,
           \A k \in K : f[k] = Cardinality(Values(val, Fibre(Q, key, k)))
    PROVE  /\ SumFunctionOnSet(f, K) \in Nat
           /\ Cardinality(Values(val, Q)) <= SumFunctionOnSet(f, K)
<1> USE DEF Values
<1> DEFINE pair == [q \in Q |-> <<key[q], val[q]>>]
           P == {pair[q] : q \in Q}
           V == {val[q] : q \in Q}
           left == [p \in P |-> p[1]]
           right == [p \in P |-> p[2]]
<1>1. \A q \in Q : pair[q] = <<key[q], val[q]>>
  OBVIOUS
<1>2. IsFiniteSet(P)
  <2>1. DOMAIN pair = Q
    OBVIOUS
  <2> HIDE DEF pair
  <2>2. QED
    BY <2>1, ImageFinite
<1>3. \A p \in P : left[p] = p[1] /\ right[p] = p[2]
  OBVIOUS
<1>4. \A p \in P : left[p] \in K
  BY <1>1, <1>3
<1>5. ASSUME NEW k \in K
      PROVE  f[k] = Cardinality(Fibre(P, left, k))
  <2> DEFINE W == {val[q] : q \in Fibre(Q, key, k)}
  <2>1. Fibre(P, left, k) = {<<k, x>> : x \in W}
    <3>1. ASSUME NEW p \in Fibre(P, left, k)
          PROVE  p \in {<<k, x>> : x \in W}
      <4>1. p \in P /\ p[1] = k
        BY <1>3 DEF Fibre
      <4>2. PICK q \in Q : p = <<key[q], val[q]>>
        BY <1>1, <4>1
      <4>3. key[q] = k /\ q \in Fibre(Q, key, k)
        BY <4>1, <4>2 DEF Fibre
      <4>4. QED
        BY <4>2, <4>3
    <3>2. ASSUME NEW x \in W
          PROVE  <<k, x>> \in Fibre(P, left, k)
      <4>1. PICK q \in Fibre(Q, key, k) : x = val[q]
        OBVIOUS
      <4>2. q \in Q /\ key[q] = k
        BY DEF Fibre
      <4>3. <<k, x>> \in P
        BY <1>1, <4>1, <4>2
      <4>4. left[<<k, x>>] = k
        BY <1>3, <4>3
      <4> HIDE DEF P, left
      <4>5. QED
        BY <4>3, <4>4 DEF Fibre
    <3> HIDE DEF W, P, left
    <3>3. QED
      BY <3>1, <3>2
  <2>2. IsFiniteSet(W)
    <3> DEFINE g == [q \in Fibre(Q, key, k) |-> val[q]]
               S == Fibre(Q, key, k)
    <3>1. IsFiniteSet(S)
      BY FS_Subset DEF Fibre
    <3>2. DOMAIN g = S /\ W = {g[q] : q \in S}
      OBVIOUS
    <3> HIDE DEF g, S, W
    <3>3. QED
      BY <3>1, <3>2, ImageFinite
  <2> HIDE DEF W
  <2>3. Cardinality({<<k, x>> : x \in W}) = Cardinality(W)
    BY <2>2, Paired
  <2>4. QED
    BY <2>1, <2>3 DEF W
<1>6. right \in Surjection(P, V)
  <2>1. \A p \in P : right[p] \in V
    BY <1>1, <1>3
  <2>2. \A x \in V : \E p \in P : right[p] = x
    <3>0. SUFFICES ASSUME NEW x, NEW q \in Q, x = val[q]
                   PROVE  \E p \in P : right[p] = x
      OBVIOUS
    <3>1. pair[q] \in P /\ pair[q] = <<key[q], val[q]>>
      BY <1>1
    <3>2. right[pair[q]] = pair[q][2]
      BY <1>3, <3>1
    <3>3. pair[q][2] = val[q]
      BY <3>1
    <3>4. QED
      BY <3>0, <3>1, <3>2, <3>3
  <2>3. right = [p \in P |-> right[p]]
    OBVIOUS
  <2> HIDE DEF right, P, V
  <2>4. right \in [P -> V]
    BY <2>1, <2>3
  <2>5. QED
    BY <2>2, <2>4 DEF Surjection
<1> HIDE DEF P, V, left, right, pair
<1>7. SumFunctionOnSet(f, K) = Cardinality(P)
  BY <1>2, <1>4, <1>5, SumOfFibres
<1>8. Cardinality(V) <= Cardinality(P)
  BY <1>2, <1>6, FS_Surjection
<1>9. Cardinality(P) \in Nat
  BY <1>2, FS_CardinalityType
<1>10. QED
  BY <1>7, <1>8, <1>9 DEF V

-----------------------------------------------------------------------------
(***************************************************************************)
(* The tables that count CVEs.                                             *)
(***************************************************************************)
Serious(B) == {r \in B : r.severity \in {"Critical", "Important"}}
CveRows(t, D, B) == {RowOf(t, D, r, UniqueSummary(AlikeIn(t, D, B, r))) : r \in B}
CveColumned(t, D) ==
    /\ t.filters \subseteq VulnFilters
    /\ \A f \in t.filters : ColumnOf(f) \in D
    /\ t.by \subseteq D
    /\ D \subseteq SliceColumns \cup {"repository"}

LEMMA SeriousCves ==
    ASSUME NEW B
    PROVE  UniqueSummary(B).findings = Cardinality(Cves(Serious(B)))
<1>1. Having(B, "Critical") \cup Having(B, "Important") = Serious(B)
  BY DEF Having, Serious
<1>2. QED
  BY <1>1 DEF UniqueSummary

LEMMA OneSource ==
    ASSUME Offered(board, choice), Cardinality(choice.source) <= 1,
           NEW q, NEW r, PickedSource(q), PickedSource(r)
    PROVE  SourceShown(q) = SourceShown(r)
<1>1. choice.source # {"Red Hat sources", "Non-Red Hat sources"}
  <2>1. Cardinality({"Red Hat sources", "Non-Red Hat sources"}) = 2
    BY PairHasTwo
  <2>2. ASSUME NEW X, Cardinality(X) = 2
        PROVE  ~ (Cardinality(X) <= 1)
    BY <2>2
  <2>3. QED
    BY <2>1, <2>2
<1>2. \/ choice.source = {} \/ choice.source = {"Red Hat sources"}
      \/ choice.source = {"Non-Red Hat sources"}
  BY <1>1, SourcePicked
<1>3. ASSUME NEW s, choice.source = {s}
      PROVE  SourceShown(q) = SourceShown(r)
  BY <1>3 DEF PickedSource, SourceShown
<1>4. CASE choice.source = {}
  BY <1>4 DEF SourceShown
<1>5. QED
  BY <1>2, <1>3, <1>4

LEMMA OneRow ==
    ASSUME NEW e
    PROVE  SumOf({e}, "findings") = 0 + e["findings"] \/ SumOf({e}, "findings") = e["findings"] + 0
<1> DEFINE f == [row \in {e} |-> row["findings"]]
           K == {e}
<1>1. IsFiniteSet(K) /\ K # {} /\ K \ {Some(K)} = {} /\ Some(K) = e
  BY FS_Singleton DEF Some
<1>2. DOMAIN f = K /\ f[e] = e["findings"]
  OBVIOUS
<1>3. SumOf(K, "findings") = SumFunctionOnSet(f, K)
  BY <1>2 DEF SumOf, SumFunction
<1> HIDE DEF f, K
<1>4. SumFunctionOnSet(f, K) = Unfolded(f, Sums(f, K), K)
  <2>1. K \in SUBSET K
    OBVIOUS
  <2>2. QED
    BY <1>1, <2>1, SumIsSums, SumsUnfold
<1>5. Sums(f, K)[{}] = 0
  <2>1. Sums(f, K)[{}] = Unfolded(f, Sums(f, K), {})
    <3>1. {} \in SUBSET K
      OBVIOUS
    <3>2. QED
      BY <1>1, <3>1, SumsUnfold
  <2>2. QED
    BY <2>1 DEF Unfolded
<1>6. SumFunctionOnSet(f, K) = f[e] + 0
  BY <1>1, <1>4, <1>5 DEF Unfolded
<1>7. QED
  BY <1>2, <1>3, <1>6 DEF K

LEMMA CveTable ==
    ASSUME TableReady, NEW t, NEW D, NEW A \in SUBSET Rows(board), CveColumned(t, D),
           \A s \in ShownSources :
             Content(OfSource(Rows(board), s), t.title) = CveRows(t, D, OfBoth(A, s))
    PROVE  LET shown == Cells(board, choice, t)
           IN  /\ DOMAIN shown = {CellFor(t, r) : r \in PassedOf(t, A)}
               /\ \A cell \in DOMAIN shown :
                    LET here == Cves(Serious(FindingsOf(t, A, cell)))
                    IN  /\ shown[cell] >= Cardinality(here)
                        /\ t.by = D /\ Cardinality(choice.source) <= 1
                             => shown[cell] = Cardinality(here)
<1> DEFINE sum == [s \in ShownSources |->
                     [r \in OfBoth(A, s) |-> UniqueSummary(AlikeIn(t, D, OfBoth(A, s), r))]]
<1>1. \A s \in ShownSources : \A r \in OfBoth(A, s) :
        sum[s][r] = UniqueSummary(AlikeIn(t, D, OfBoth(A, s), r))
  OBVIOUS
<1> HIDE DEF sum
<1>2. "source" \notin D
  BY DEF CveColumned, SliceColumns
<1>3. \A B : IsSum(D, UniqueSummary(B))
  BY DEF IsSum, UniqueSummary, CveColumned, SliceColumns
<1>4. ASSUME NEW s \in ShownSources
      PROVE  Content(OfSource(Rows(board), s), t.title)
               = {RowOf(t, D, r, sum[s][r]) : r \in OfBoth(A, s)}
  <2>1. CveRows(t, D, OfBoth(A, s)) = {RowOf(t, D, r, sum[s][r]) : r \in OfBoth(A, s)}
    BY <1>1 DEF CveRows
  <2>2. QED
    BY <2>1
<1>5. MadeBy(t, D, A, sum)
  BY <1>1, <1>2, <1>3, <1>4 DEF MadeBy, CveColumned
<1>6. SumsOfKeys(t, D, A, sum)
  <2> SUFFICES ASSUME NEW s \in ShownSources, NEW q \in OfBoth(A, s), NEW r \in OfBoth(A, s),
                      KeyOf(t, D, q) = KeyOf(t, D, r)
               PROVE  sum[s][q] = sum[s][r]
    BY DEF SumsOfKeys
  <2>1. AlikeIn(t, D, OfBoth(A, s), q) = AlikeIn(t, D, OfBoth(A, s), r)
    BY DEF AlikeIn
  <2>2. QED
    BY <1>1, <2>1
<1>7. ASSUME NEW r \in PassedOf(t, A)
      PROVE  Entry(t, D, sum, r)["findings"]
               = Cardinality(Cves(Serious(Mates(t, D, A, SourceShown(r), r))))
  <2> DEFINE s == SourceShown(r)
  <2>1. s \in ShownSources /\ r \in OfBoth(A, s)
    BY PassedIsShown
  <2>2. sum[s][r] = UniqueSummary(AlikeIn(t, D, OfBoth(A, s), r))
    BY <1>1, <2>1
  <2>3. AlikeIn(t, D, OfBoth(A, s), r) = Mates(t, D, A, s, r)
    BY DEF AlikeIn, Mates
  <2>4. Entry(t, D, sum, r)["findings"] = sum[s][r]["findings"]
    BY <1>5, EntryFindings
  <2> HIDE DEF s
  <2>5. sum[s][r].findings = Cardinality(Cves(Serious(Mates(t, D, A, s, r))))
    BY <2>2, <2>3, SeriousCves
  <2>6. QED
    BY <2>4, <2>5 DEF s
<1>8. DOMAIN Cells(board, choice, t) = {CellFor(t, r) : r \in PassedOf(t, A)}
  BY <1>5, CellsOfRows
<1>9. ASSUME NEW cell \in DOMAIN Cells(board, choice, t)
      PROVE  LET here == Cves(Serious(FindingsOf(t, A, cell)))
             IN  /\ Cells(board, choice, t)[cell] >= Cardinality(here)
                 /\ t.by = D /\ Cardinality(choice.source) <= 1
                      => Cells(board, choice, t)[cell] = Cardinality(here)
  <2> DEFINE Q == FindingsOf(t, A, cell)
             K == EntriesOf(t, D, A, sum, cell)
             here == Cves(Serious(Q))
  <2>1. Cells(board, choice, t)[cell] = SumOf(K, "findings")
    BY <1>5, CellsOfRows
  <2>2. \A r \in Q : r \in PassedOf(t, A) /\ CellFor(t, r) = cell
    BY DEF FindingsOf
  <2>3. IsFiniteSet(Q)
    <3>1. Q \subseteq Rows(board)
      BY DEF FindingsOf, PassedOf
    <3>2. QED
      BY <3>1, RowsAreGood, FS_Subset DEF TableReady
  <2>4. ASSUME NEW r \in Q, NEW q
        PROVE  q \in Mates(t, D, A, SourceShown(r), r)
                 <=> q \in Q /\ Entry(t, D, sum, q) = Entry(t, D, sum, r)
    <3>1. r \in PassedOf(t, A) /\ CellFor(t, r) = cell
      BY <2>2
    <3>2. q \in Mates(t, D, A, SourceShown(r), r)
            <=> q \in PassedOf(t, A) /\ Entry(t, D, sum, q) = Entry(t, D, sum, r)
      BY <1>5, <1>6, <3>1, EntryOfMates
    <3>3. q \in Mates(t, D, A, SourceShown(r), r) => q \in Q
      <4> SUFFICES ASSUME q \in Mates(t, D, A, SourceShown(r), r)
                   PROVE  q \in Q
        OBVIOUS
      <4>1. q \in PassedOf(t, A) /\ KeyOf(t, D, q) = KeyOf(t, D, r)
        BY <3>2 DEF Mates
      <4>2. q \in A /\ PickedSource(q) /\ r \in A /\ PickedSource(r)
        BY <3>1, <4>1, PassedIsShown
      <4>3. CellFor(t, q) = CellFor(t, r)
        BY <1>5, <4>1, <4>2, MatesPass
      <4>4. QED
        BY <3>1, <4>1, <4>3 DEF FindingsOf
    <3>4. q \in Q => q \in PassedOf(t, A)
      BY <2>2
    <3> HIDE DEF Q
    <3>5. QED
      BY <3>2, <3>3, <3>4
  <2>5. K = {Entry(t, D, sum, r) : r \in Q}
    BY DEF EntriesOf
  <2> HIDE DEF Q, K
  <2>6. SumOf(K, "findings") >= Cardinality(here)
    <3> DEFINE B == Serious(Q)
               key == [r \in B |-> Entry(t, D, sum, r)]
               val == [r \in B |-> r.cve]
               f == [row \in K |-> row["findings"]]
    <3>1. IsFiniteSet(B) /\ B \subseteq Q
      BY <2>3, FS_Subset DEF Serious
    <3>2. IsFiniteSet(K)
      <4> DEFINE g == [r \in Q |-> Entry(t, D, sum, r)]
      <4>1. DOMAIN g = Q /\ K = {g[r] : r \in Q}
        BY <2>5
      <4> HIDE DEF g
      <4>2. QED
        BY <2>3, <4>1, ImageFinite
    <3>3. \A q \in B : key[q] = Entry(t, D, sum, q) /\ val[q] = q.cve
      OBVIOUS
    <3>4. \A q \in B : key[q] \in K
      BY <2>5, <3>1
    <3>5. DOMAIN f = K /\ \A k \in K : f[k] = k["findings"]
      OBVIOUS
    <3>6. Values(val, B) = here
      BY DEF Cves, Values
    <3> HIDE DEF key, val, f, B
    <3>7. ASSUME NEW k \in K
          PROVE  f[k] = Cardinality(Values(val, Fibre(B, key, k)))
      <4>1. PICK r \in Q : k = Entry(t, D, sum, r)
        BY <2>5
      <4>2. f[k] = Cardinality(Cves(Serious(Mates(t, D, A, SourceShown(r), r))))
        BY <1>7, <2>2, <3>5, <4>1
      <4>3. \A q : q \in Fibre(B, key, k) <=> q \in B /\ Entry(t, D, sum, q) = k
        BY <3>3 DEF Fibre
      <4>4. \A q : q \in Serious(Mates(t, D, A, SourceShown(r), r))
                     <=> q \in B /\ Entry(t, D, sum, q) = k
        BY <2>4, <4>1 DEF B, Serious
      <4>5. Serious(Mates(t, D, A, SourceShown(r), r)) = Fibre(B, key, k)
        BY <4>3, <4>4
      <4>6. Values(val, Fibre(B, key, k)) = Cves(Fibre(B, key, k))
        BY <3>3, <4>3 DEF Cves, Values
      <4>7. QED
        BY <4>2, <4>5, <4>6
    <3>8. SumFunctionOnSet(f, K) \in Nat /\ Cardinality(Values(val, B)) <= SumFunctionOnSet(f, K)
      <4>1. \A k \in K : f[k] = Cardinality(Values(val, Fibre(B, key, k)))
        BY <3>7
      <4>2. IsFiniteSet(B)
        BY <3>1
      <4> HIDE DEF here
      <4>3. QED
        BY <4>1, <4>2, <3>2, <3>4, SumOfImages, Zenon
    <3>9. SumOf(K, "findings") = SumFunctionOnSet(f, K)
      BY <3>5 DEF SumOf, SumFunction, f
    <3>10. Cardinality(here) \in Nat
      <4> DEFINE g == [r \in B |-> r.cve]
      <4>1. DOMAIN g = B /\ here = {g[r] : r \in B}
        BY DEF Cves, B
      <4> HIDE DEF g, here
      <4>2. QED
        BY <3>1, <4>1, ImageFinite, FS_CardinalityType
    <3> HIDE DEF here
    <3>11. QED
      BY <3>6, <3>8, <3>9, <3>10
  <2>7. ASSUME t.by = D, Cardinality(choice.source) <= 1
        PROVE  SumOf(K, "findings") = Cardinality(here)
    <3>1. PICK r \in Q : TRUE
      <4>1. PICK r \in PassedOf(t, A) : cell = CellFor(t, r)
        BY <1>8
      <4>2. QED
        BY <4>1 DEF Q, FindingsOf
    <3>2. ASSUME NEW q \in Q
          PROVE  q \in Mates(t, D, A, SourceShown(r), r)
      <4>1. q \in OfBoth(A, SourceShown(q)) /\ PickedSource(q) /\ PickedSource(r)
        BY <2>2, <3>1, PassedIsShown
      <4>2. SourceShown(q) = SourceShown(r)
        BY <2>7, <4>1, OneSource DEF TableReady
      <4>3. CellFor(t, q) = CellFor(t, r)
        BY <2>2, <3>1
      <4>4. KeyOf(t, D, q) = KeyOf(t, D, r)
        BY <2>7, <4>3 DEF CellFor, KeyOf
      <4>5. QED
        BY <4>1, <4>2, <4>4 DEF Mates
    <3>3. Mates(t, D, A, SourceShown(r), r) = Q
      BY <2>4, <3>1, <3>2
    <3>4. \A q \in Q : Entry(t, D, sum, q) = Entry(t, D, sum, r)
      BY <2>4, <3>1, <3>2
    <3>5. K = {Entry(t, D, sum, r)}
      BY <2>5, <3>1, <3>4
    <3> DEFINE e == Entry(t, D, sum, r)
               n == e["findings"]
    <3>6. n = Cardinality(here)
      BY <1>7, <2>2, <3>1, <3>3
    <3>7. n \in Nat
      <4> DEFINE B == Serious(Q)
                 g == [x \in B |-> x.cve]
      <4>1. DOMAIN g = B /\ here = {g[x] : x \in B}
        BY DEF Cves
      <4>2. IsFiniteSet(B)
        BY <2>3, FS_Subset DEF Serious
      <4> HIDE DEF g, here, B, n
      <4>3. QED
        BY <3>6, <4>1, <4>2, ImageFinite, FS_CardinalityType
    <3>8. SumOf({e}, "findings") = 0 + n \/ SumOf({e}, "findings") = n + 0
      BY OneRow
    <3> HIDE DEF n, e
    <3>9. SumOf({e}, "findings") = n
      BY <3>7, <3>8
    <3>10. QED
      BY <3>5, <3>6, <3>9 DEF e
  <2>8. QED
    BY <2>1, <2>6, <2>7 DEF Q
<1>10. QED
  BY <1>8, <1>9

-----------------------------------------------------------------------------
(***************************************************************************)
(* Simple view and the old CVEs, which count different CVEs.               *)
(***************************************************************************)
SimpleColumns == SliceColumns \cup {"repository"}

\* The findings a table of CVEs has rows of.
CveTableRows(t) ==
    IF t.title = "Simple view" THEN Fixable(Rows(board)) ELSE Old(Rows(board))

LEMMA RepositoryKey ==
    ASSUME NEW t, NEW r
    PROVE  Joined(Slice(r), [repository |-> r.repository]) = KeyOf(t, SimpleColumns, r)
<1>2. "repository" \notin SliceColumns
  BY DEF SliceColumns
<1> DEFINE g == [repository |-> r.repository]
<1>3. DOMAIN g = {"repository"} /\ g["repository"] = Column(t, "repository", r)
  BY DEF Column
<1>5. \A k \in DOMAIN g : k \notin SliceColumns /\ g[k] = Column(t, k, r)
  BY <1>2, <1>3
<1>6. \A k : k \in SimpleColumns <=> k \in SliceColumns \/ k \in DOMAIN g
  BY <1>3 DEF SimpleColumns
<1> HIDE DEF g
<1> DEFINE key == KeyOf(t, SliceColumns, r)
<1>8. key = KeyOf(t, SliceColumns, r)
  OBVIOUS
<1> HIDE DEF key
<1>4. Joined(key, g) = KeyOf(t, SimpleColumns, r)
  BY <1>5, <1>6, <1>8, WiderKey
<1>7. QED
  BY <1>4, <1>8, SliceKey DEF g

LEMMA CveRollups ==
    ASSUME NEW t, NEW S
    PROVE  /\ OverThirtyRollup(S) = CveRows(t, SliceColumns, Old(S))
           /\ SimpleRows(S) = CveRows(t, SimpleColumns, Fixable(S))
<1>1. OverThirtyRollup(S) = CveRows(t, SliceColumns, Old(S))
  BY SliceKey DEF OverThirtyRollup, GroupBy, CveRows, RowOf, AlikeIn
<1>2. SimpleRows(S) = CveRows(t, SimpleColumns, Fixable(S))
  <2> DEFINE K(r) == Joined(Slice(r), [repository |-> r.repository])
             B == Fixable(S)
  <2>1. SimpleRows(S) = {Joined(K(r), UniqueSummary({q \in B : K(q) = K(r)})) : r \in B}
    BY DEF SimpleRows, GroupBy
  <2>2. \A r : K(r) = KeyOf(t, SimpleColumns, r)
    BY RepositoryKey
  <2> HIDE DEF K
  <2>3. ASSUME NEW r \in B
        PROVE  {q \in B : K(q) = K(r)} = AlikeIn(t, SimpleColumns, B, r)
    BY <2>2 DEF AlikeIn
  <2>4. QED
    BY <2>1, <2>2, <2>3 DEF CveRows, RowOf
<1>3. QED
  BY <1>1, <1>2

\* What TablesCountFindings says of a table of CVEs.
CountsCves(t) ==
    LET counted == Counted(choice, t)
        Of(cell) == {r \in counted : CellFor(t, r) = cell}
        shown == Cells(board, choice, t)
    IN  /\ t.title = "Simple view" => DOMAIN shown = {CellFor(t, r) : r \in counted}
        /\ {CellFor(t, r) : r \in counted} \subseteq DOMAIN shown
        /\ \A cell \in DOMAIN shown :
             /\ shown[cell] >= Cardinality(Cves(Of(cell)))
             /\ t.title = "Simple view" /\ Cardinality(choice.source) <= 1
                  => shown[cell] = Cardinality(Cves(Of(cell)))

LEMMA CveTableCounts ==
    ASSUME TableReady, NEW t, NEW D, CveColumned(t, D), t.title \in CveTables,
           t.title = "Simple view" => t.by = D,
           \A s \in ShownSources :
             Content(OfSource(Rows(board), s), t.title)
               = CveRows(t, D, OfBoth(CveTableRows(t), s))
    PROVE  CountsCves(t)
<1> DEFINE A == CveTableRows(t)
           P == PassedOf(t, A)
           counted == Counted(choice, t)
           shown == Cells(board, choice, t)
<1>1. A \in SUBSET Rows(board)
  BY DEF CveTableRows, Fixable, Old
<1>2. \A r : r \in Rows(board) /\ About(t.title, r)
               <=> r \in A /\ r.severity \in {"Critical", "Important"}
  BY DEF CveTables, CveTableRows, About, ByNamespaceBars, Fixable, Old
<1>3. \A r : r \in counted <=> r \in P /\ r.severity \in {"Critical", "Important"}
  BY <1>2, CountedByFilter DEF PassedOf, CveColumned
<1>4. /\ DOMAIN shown = {CellFor(t, r) : r \in P}
      /\ \A cell \in DOMAIN shown :
           LET here == Cves(Serious(FindingsOf(t, A, cell)))
           IN  /\ shown[cell] >= Cardinality(here)
               /\ t.by = D /\ Cardinality(choice.source) <= 1 => shown[cell] = Cardinality(here)
  BY <1>1, CveTable
<1>5. \A cell : {r \in counted : CellFor(t, r) = cell} = Serious(FindingsOf(t, A, cell))
  BY <1>3 DEF FindingsOf, Serious
<1>6. t.title = "Simple view" => \A r \in P : r \in counted
  BY <1>3 DEF PassedOf, CveTableRows, Fixable
<1> HIDE DEF counted, shown, P, A
<1>7. /\ {CellFor(t, r) : r \in counted} \subseteq DOMAIN shown
      /\ t.title = "Simple view" => DOMAIN shown = {CellFor(t, r) : r \in counted}
  BY <1>3, <1>4, <1>6
<1>8. ASSUME NEW cell \in DOMAIN shown
      PROVE  LET here == Cves({r \in counted : CellFor(t, r) = cell})
             IN  /\ shown[cell] >= Cardinality(here)
                 /\ t.title = "Simple view" /\ Cardinality(choice.source) <= 1
                      => shown[cell] = Cardinality(here)
  <2> DEFINE here == Cves({r \in counted : CellFor(t, r) = cell})
  <2>1. here = Cves(Serious(FindingsOf(t, A, cell)))
    BY <1>5
  <2> HIDE DEF here
  <2>2. /\ shown[cell] >= Cardinality(here)
        /\ t.by = D /\ Cardinality(choice.source) <= 1 => shown[cell] = Cardinality(here)
    BY <1>4, <2>1
  <2>3. QED
    BY <2>2 DEF here
<1>9. QED
  BY <1>7, <1>8 DEF CountsCves, counted, shown

LEMMA OverThirtyCounts ==
    ASSUME TableReady, Whole(OverThirty(board))
    PROVE  CountsCves(OverThirty(board))
<1> DEFINE t == OverThirty(board)
<1>1. /\ t.title = "Unique CVEs older than 30 days" /\ t.filters = PlaceFilters
      /\ t.by = {"cluster", "namespace"}
  BY TablesAre DEF IsTable
<1> HIDE DEF t
<1>2. CveColumned(t, SliceColumns)
  BY <1>1 DEF CveColumned, VulnFilters, PlaceFilters, ColumnOf, SliceColumns
<1>3. t.title \in CveTables /\ t.title # "Simple view"
  BY <1>1 DEF CveTables
<1>4. ASSUME NEW s \in ShownSources
      PROVE  Content(OfSource(Rows(board), s), t.title)
               = CveRows(t, SliceColumns, OfBoth(CveTableRows(t), s))
  <2> DEFINE S == OfSource(Rows(board), s)
  <2>1. S \subseteq Rows(board)
    BY SourceRowsAreRows DEF TableReady
  <2>2. Old(S) = OfBoth(CveTableRows(t), s)
    BY <1>3, <2>1 DEF Old, OfBoth, CveTableRows
  <2> HIDE DEF S
  <2>3. Content(S, t.title) = OverThirtyRollup(S)
    BY <1>1 DEF Content, RolledUp, ComponentTables
  <2>4. QED
    BY <2>2, <2>3, CveRollups DEF S
<1>5. CountsCves(t)
  BY <1>2, <1>3, <1>4, CveTableCounts
<1>6. QED
  BY <1>5 DEF t

LEMMA SimpleViewCounts ==
    ASSUME TableReady, Whole(SimpleView(board))
    PROVE  CountsCves(SimpleView(board))
<1> DEFINE t == SimpleView(board)
<1>1. /\ t.title = "Simple view" /\ t.filters = PlaceFilters
      /\ t.by = {"cluster", "namespace", "repository", "age"}
  BY TablesAre DEF IsTable
<1>0. Whole(t)
  OBVIOUS
<1> HIDE DEF t
<1>2. CveColumned(t, SimpleColumns)
  BY <1>1 DEF CveColumned, VulnFilters, PlaceFilters, ColumnOf, SliceColumns, SimpleColumns
<1>3. t.title \in CveTables /\ t.by = SimpleColumns
  BY <1>1 DEF CveTables, SimpleColumns, SliceColumns
<1>4. ASSUME NEW s \in ShownSources
      PROVE  Content(OfSource(Rows(board), s), t.title)
               = CveRows(t, SimpleColumns, OfBoth(CveTableRows(t), s))
  <2> DEFINE S == OfSource(Rows(board), s)
  <2>1. S \subseteq Rows(board) /\ s \in Sources
    BY SourceRowsAreRows DEF TableReady
  <2>2. Fixable(S) = OfBoth(CveTableRows(t), s)
    BY <1>1, <2>1 DEF Fixable, OfBoth, CveTableRows
  <2>3. Fits(S, t.title)
    BY <1>0, <2>1 DEF Whole
  <2> HIDE DEF S
  <2>4. Content(S, t.title) = SimpleRows(S)
    BY <1>1, <2>3, WholeContent
  <2>5. QED
    BY <2>2, <2>4, CveRollups DEF S
<1>5. CountsCves(t)
  BY <1>2, <1>3, <1>4, CveTableCounts
<1>6. QED
  BY <1>5 DEF t

-----------------------------------------------------------------------------
(***************************************************************************)
(* The counts of the tables, together.                                     *)
(***************************************************************************)
LEMMA ScopeMakesTablesReady ==
    ASSUME PostureScope, PicksAreClear(choice)
    PROVE  TableReady
BY BoardsAreGood, RowsAreRegular DEF PostureScope, Offered, TableReady

LEMMA TitlesOf ==
    ASSUME NEW b, NEW t \in Tables(b) \cup {SimpleView(b)}
    PROVE  /\ t.title = "Simple view" => t = SimpleView(b)
           /\ t.title = "SRE-managed OpenShift images" => t = PayloadImages(b)
           /\ t.title = "Unique CVEs older than 30 days" => t = OverThirty(b)
<1>1. /\ FindingsByNamespace(b).title = "Findings by namespace"
      /\ AllComponents(b).title = "All components"
      /\ AllImages(b).title = "All images"
      /\ FindingOwnership(b).title = "Finding ownership"
      /\ SreManaged(b).title = "Red Hat SRE Managed Services"
      /\ RedHatComponents(b).title = "Red Hat Components"
      /\ NonRedHatImages(b).title = "Non-Red Hat images"
      /\ RemediationPaths(b).title = "Remediation Paths"
      /\ CriticalByNamespace(b).title = "Critical findings by namespace"
      /\ PayloadImages(b).title = "SRE-managed OpenShift images"
      /\ OverThirty(b).title = "Unique CVEs older than 30 days"
      /\ CriticalCvesByAge(b).title = "Critical CVEs by age"
      /\ ImportantCvesByAge(b).title = "Important CVEs by age"
      /\ SimpleView(b).title = "Simple view"
  BY TablesAre DEF IsTable
<1>2. \/ t = FindingsByNamespace(b) \/ t = AllComponents(b) \/ t = AllImages(b)
      \/ t = FindingOwnership(b) \/ t = SreManaged(b) \/ t = RedHatComponents(b)
      \/ t = NonRedHatImages(b) \/ t = RemediationPaths(b) \/ t = CriticalByNamespace(b)
      \/ t = PayloadImages(b) \/ t = OverThirty(b) \/ t = CriticalCvesByAge(b)
      \/ t = ImportantCvesByAge(b) \/ t = SimpleView(b)
  BY DEF Tables
<1>3. QED
  BY <1>1, <1>2

LEMMA CountTableCounts ==
    ASSUME TableReady, NEW t \in Tables(board) \cup {SimpleView(board)}, Whole(t),
           t.title \in CountTables
    PROVE  CountsRight(t)
<1>1. t # SimpleView(board)
  <2>1. SimpleView(board).title = "Simple view"
    BY TablesAre DEF IsTable
  <2>2. t.title # "Simple view"
    BY DEF CountTables, ByNamespaceBars
  <2>3. QED
    BY <2>1, <2>2
<1>2. CASE t.title = "SRE-managed OpenShift images"
  BY <1>2, TitlesOf, PayloadTableCounts
<1>3. CASE t.title # "SRE-managed OpenShift images"
  BY <1>1, <1>3, SummaryTablesCount
<1>4. QED
  BY <1>2, <1>3

LEMMA CveTablesCount ==
    ASSUME TableReady, NEW t \in Tables(board) \cup {SimpleView(board)}, Whole(t),
           t.title \in CveTables
    PROVE  CountsCves(t)
<1>1. CASE t.title = "Simple view"
  BY <1>1, TitlesOf, SimpleViewCounts
<1>2. CASE t.title = "Unique CVEs older than 30 days"
  BY <1>2, TitlesOf, OverThirtyCounts
<1>3. QED
  BY <1>1, <1>2 DEF CveTables

LEMMA ScopeMakesTablesExact ==
    PostureScope => TablesCountFindings
<1> SUFFICES ASSUME PostureScope, PicksAreClear(choice),
                    NEW t \in Tables(board) \cup {SimpleView(board)},
                    t.title \in CountTables \cup CveTables, Whole(t)
             PROVE  LET counted == Counted(choice, t)
                        Of(cell) == {r \in counted : CellFor(t, r) = cell}
                        shown == Cells(board, choice, t)
                    IN  /\ t.title # "Unique CVEs older than 30 days"
                             => DOMAIN shown = {CellFor(t, r) : r \in counted}
                        /\ {CellFor(t, r) : r \in counted} \subseteq DOMAIN shown
                        /\ \A cell \in DOMAIN shown :
                             CASE t.title \in CountTables -> shown[cell] = Cardinality(Of(cell))
                               [] t.title = "Simple view" /\ Cardinality(choice.source) <= 1 ->
                                    shown[cell] = Cardinality(Cves(Of(cell)))
                               [] OTHER -> shown[cell] >= Cardinality(Cves(Of(cell)))
  BY DEF TablesCountFindings
<1> DEFINE counted == Counted(choice, t)
           Of(cell) == {r \in counted : CellFor(t, r) = cell}
           shown == Cells(board, choice, t)
<1>1. TableReady
  BY ScopeMakesTablesReady
<1>2. CountTables \cap CveTables = {} /\ "Unique CVEs older than 30 days" \notin CountTables
  BY DEF CountTables, CveTables, ByNamespaceBars
<1>3. CASE t.title \in CountTables
  <2>1. /\ DOMAIN shown = {CellFor(t, r) : r \in counted}
        /\ \A cell \in DOMAIN shown : shown[cell] = Cardinality(Of(cell))
    BY <1>1, <1>3, CountTableCounts DEF CountsRight
  <2>2. t.title # "Simple view"
    BY <1>2, <1>3 DEF CveTables
  <2> HIDE DEF counted, shown, Of
  <2>3. QED
    BY <1>3, <2>1, <2>2 DEF counted, shown, Of
<1>4. CASE t.title \in CveTables
  <2>1. /\ t.title = "Simple view" => DOMAIN shown = {CellFor(t, r) : r \in counted}
        /\ {CellFor(t, r) : r \in counted} \subseteq DOMAIN shown
        /\ \A cell \in DOMAIN shown :
             /\ shown[cell] >= Cardinality(Cves(Of(cell)))
             /\ t.title = "Simple view" /\ Cardinality(choice.source) <= 1
                  => shown[cell] = Cardinality(Cves(Of(cell)))
    BY <1>1, <1>4, CveTablesCount DEF CountsCves
  <2>2. t.title \notin CountTables
    BY <1>2, <1>4
  <2>3. t.title = "Simple view" \/ t.title = "Unique CVEs older than 30 days"
    BY <1>4 DEF CveTables
  <2> HIDE DEF counted, shown, Of
  <2>4. QED
    BY <2>1, <2>2, <2>3 DEF counted, shown, Of
<1>5. QED
  BY <1>3, <1>4

-----------------------------------------------------------------------------
(***************************************************************************)
(* What Detail lists.                                                      *)
(***************************************************************************)
BoardReady ==
    /\ GoodBoard(board)
    /\ \A r \in Rows(board) : Regular(r)

LEMMA RankIs ==
    ASSUME NEW s
    PROVE  /\ s \in {"Critical", "Important"} <=> Rank(s) <= 1
           /\ Rank(s) \in Nat
BY DEF Rank

LEMMA DetailKeyFields ==
    ASSUME NEW q, NEW r, DetailKey(q) = DetailKey(r)
    PROVE  /\ q.cluster = r.cluster /\ OrUnknown(q.namespace) = OrUnknown(r.namespace)
           /\ q.family = r.family /\ q.repository = r.repository /\ q.cve = r.cve
           /\ q.severity = r.severity /\ AgeBucket(q.age) = AgeBucket(r.age)
BY DEF DetailKey

LEMMA NumbersApart ==
    ASSUME NEW a \in Nat
    PROVE  /\ a # NoAge
           /\ \/ a \in 0..13 \/ a \in 14..29 \/ a \in 30..59 \/ a \in 60..89 \/ a \in 90..179
              \/ a >= 180
           /\ a \in 0..13 => ~ (a >= 30)
           /\ a \in 14..29 => ~ (a >= 30) /\ a \notin 0..13
           /\ a \in 30..59 => a >= 30 /\ a \notin 0..13 /\ a \notin 14..29
           /\ a \in 60..89 => a >= 30 /\ a \notin 0..13 /\ a \notin 14..29 /\ a \notin 30..59
           /\ a \in 90..179 => a >= 30 /\ a \notin 0..13 /\ a \notin 14..29 /\ a \notin 30..59
                                /\ a \notin 60..89
           /\ a >= 180 => a >= 30 /\ a \notin 0..13 /\ a \notin 14..29 /\ a \notin 30..59
                                /\ a \notin 60..89 /\ a \notin 90..179
BY DEF NoAge

LEMMA NoNumber ==
    /\ ~ (NoAge >= 30)
    /\ NoAge \notin 0..13 /\ NoAge \notin 14..29 /\ NoAge \notin 30..59
    /\ NoAge \notin 60..89 /\ NoAge \notin 90..179
BY DEF NoAge

LEMMA BucketsOfThirty ==
    ASSUME NEW a \in Nat \cup {NoAge}
    PROVE  a >= 30 <=> AgeBucket(a) \in {"30-60 days", "60-90 days", "90-180 days",
                                         "Over 180 days"}
<1>1. CASE a = NoAge
  <2>1. AgeBucket(a) = "Unknown"
    BY <1>1, NoNumber, Zenon DEF AgeBucket
  <2>2. QED
    BY <1>1, <2>1, NoNumber
<1>2. CASE a \in Nat /\ a \in 0..13
  <2>1. AgeBucket(a) = "Under 14 days"
    BY <1>2, NumbersApart, ZenonT(40) DEF AgeBucket
  <2>2. QED
    BY <1>2, <2>1, NumbersApart, Zenon
<1>3. CASE a \in Nat /\ a \in 14..29
  <2>1. AgeBucket(a) = "14-30 days"
    BY <1>3, NumbersApart, Zenon DEF AgeBucket
  <2>2. QED
    BY <1>3, <2>1, NumbersApart, Zenon
<1>4. CASE a \in Nat /\ a \in 30..59
  <2>1. AgeBucket(a) = "30-60 days"
    BY <1>4, NumbersApart, Zenon DEF AgeBucket
  <2>2. QED
    BY <1>4, <2>1, NumbersApart, Zenon
<1>5. CASE a \in Nat /\ a \in 60..89
  <2>1. AgeBucket(a) = "60-90 days"
    BY <1>5, NumbersApart, Zenon DEF AgeBucket
  <2>2. QED
    BY <1>5, <2>1, NumbersApart, Zenon
<1>6. CASE a \in Nat /\ a \in 90..179
  <2>1. AgeBucket(a) = "90-180 days"
    BY <1>6, NumbersApart, Zenon DEF AgeBucket
  <2>2. QED
    BY <1>6, <2>1, NumbersApart, Zenon
<1>7. CASE a \in Nat /\ a >= 180
  <2>1. AgeBucket(a) = "Over 180 days"
    BY <1>7, NumbersApart, Zenon DEF AgeBucket
  <2>2. QED
    BY <1>7, <2>1, NumbersApart, Zenon
<1>8. QED
  BY <1>1, <1>2, <1>3, <1>4, <1>5, <1>6, <1>7, NumbersApart, Zenon

\* A serious finding is in Detail, as the first line of the report with its key.
LEMMA FirstIsKept ==
    ASSUME BoardReady, NEW r \in Rows(board), r.severity \in {"Critical", "Important"}
    PROVE  \E q \in Rows(board) : DetailKey(q) = DetailKey(r) /\ DetailRow(q) \in Drilldown(Rows(board))
<1> DEFINE S == Rows(board)
           alike == {q \in S : DetailKey(q) = DetailKey(r)}
           lines == {q.line : q \in alike}
<1>1. lines \in SUBSET Nat /\ lines # {}
  <2>1. \A q \in alike : q.line \in Nat
    BY DEF BoardReady, Regular
  <2>2. r \in alike
    OBVIOUS
  <2>3. QED
    BY <2>1, <2>2
<1>2. PICK n \in lines : \A m \in lines : n <= m
  <2> HIDE DEF lines
  <2>1. QED
    BY <1>1, LeastNumber
<1>3. PICK q \in alike : n = q.line
  BY <1>2
<1>4. q \in S /\ DetailKey(q) = DetailKey(r) /\ q.severity = r.severity
  BY DetailKeyFields
<1>5. ASSUME NEW p \in S, DetailKey(p) = DetailKey(q), Precedes(p, q)
      PROVE  FALSE
  <2>1. p \in alike /\ p.severity = q.severity
    BY <1>4, <1>5, DetailKeyFields
  <2>2. p.line \in lines /\ q.line \in lines
    BY <2>1
  <2>3. q.line <= p.line /\ p.line \in Nat /\ q.line \in Nat
    BY <1>1, <1>2, <1>3, <2>2
  <2>4. Rank(q.severity) \in Nat
    BY RankIs
  <2>5. Rank(p.severity) = Rank(q.severity)
    BY <2>1
  <2> DEFINE k == Rank(q.severity)
             x == p.line
             y == q.line
  <2>6. k < k \/ x < y
    BY <1>5, <2>5 DEF Precedes
  <2>7. k \in Nat /\ x \in Nat /\ y \in Nat /\ y <= x
    BY <2>3, <2>4
  <2> HIDE DEF k, x, y, lines, alike, S
  <2>8. QED
    BY <2>6, <2>7
<1>6. q \in Firsts(S)
  BY <1>4, <1>5 DEF Firsts
<1>7. Rank(q.severity) <= 1
  BY <1>4, RankIs
<1>8. DetailRow(q) \in Drilldown(S)
  <2> HIDE DEF S
  <2>1. QED
    BY <1>6, <1>7 DEF Drilldown
<1>9. QED
  BY <1>4, <1>8

\* Findings with one key in Detail have one owner.
LEMMA SameOwner ==
    ASSUME NEW q, Regular(q), NEW r, Regular(r), DetailKey(q) = DetailKey(r), HasNamespace(r)
    PROVE  q.ownership = r.ownership
<1>1. OrUnknown(q.namespace) = OrUnknown(r.namespace) /\ q.repository = r.repository
  BY DetailKeyFields
<1>2. q.namespace = r.namespace
  BY <1>1 DEF HasNamespace, OrUnknown
<1>3. Family(q) = Family(r)
  BY <1>1, <1>2 DEF Family
<1>4. QED
  BY <1>3 DEF Regular

-----------------------------------------------------------------------------
(***************************************************************************)
(* Which choices leave a finding in Detail.                                *)
(***************************************************************************)
\* Dropdowns and fixed values that leave the findings like r in Detail.
Opens(c, r) ==
    /\ c["picked"] = {"yes"}
    /\ c["source"] = {}
    /\ c["finding_age"] = {}
    /\ c["cluster"] = {} \/ c["cluster"] = {r.cluster}
    /\ c["namespace"] = {} \/ c["namespace"] = {OrUnknown(r.namespace)}
    /\ c["sre"] = {} \/ c["sre"] = {r.ownership}
    /\ c["component"] = {} \/ c["component"] = {r.family}
    /\ c["image"] = {} \/ c["image"] = {r.repository}
    /\ c["age"] = {} \/ c["age"] = {AgeBucket(r.age)}
    /\ c["severity"] = {} \/ r.severity \in c["severity"]
    /\ c["over30"] = {} \/ (c["over30"] = {TRUE} /\ r.age >= 30)
    /\ c["payload"] = {} \/ (c["payload"] = {TRUE} /\ r.repository = PayloadRepository)

LEMMA DetailPasses ==
    ASSUME BoardReady, NEW c, NEW r \in Rows(board), HasNamespace(r), Opens(c, r), NEW row,
           row["cluster"] = r.cluster, row["namespace"] = OrUnknown(r.namespace),
           row["ownership"] = r.ownership, row["component"] = r.family
    PROVE  Passes(board, c, VulnFilters, row)
<1>1. PassesFilter(board, c, "cluster", row)
  <2>1. r.cluster \in ClusterAll(board)
    BY ScopeIsOfRows DEF BoardReady, ClusterAll, Clusters
  <2>2. StrictlyIn(board, c, "cluster", r.cluster)
    BY <2>1, ExpandedByDropdown DEF StrictlyIn, Opens
  <2>3. QED
    BY <2>2 DEF In, PassesFilter
<1>2. PassesFilter(board, c, "namespace", row)
  <2>1. OrUnknown(r.namespace) \in NamespaceOptions(board)
    BY DEF NamespaceOptions
  <2>2. OrUnknown(r.namespace) \notin Reserved
    BY RowsAreGood, OrUnknownNamed DEF WellNamed, BoardReady
  <2>3. OrUnknown(r.namespace) \in NamespaceAll(board)
    BY <2>1, <2>2 DEF NamespaceAll, HasNamespace, Reserved
  <2>4. StrictlyIn(board, c, "namespace", OrUnknown(r.namespace))
    BY <2>3, ExpandedByDropdown DEF StrictlyIn, Opens
  <2>5. QED
    BY <2>4 DEF In, PassesFilter
<1>3. PassesFilter(board, c, "finding_age", row)
  BY ExpandedByDropdown DEF In, PassesFilter, Opens
<1>4. PassesFilter(board, c, "sre", row)
  <2>1. c["sre"] = {} => Expanded(board, c, "sre") = {All}
    BY ExpandedByDropdown
  <2>2. c["sre"] = {r.ownership} => Expanded(board, c, "sre") = {r.ownership}
    BY ExpandedByDropdown
  <2>3. In(board, c, "sre", r.ownership)
    BY <2>1, <2>2 DEF In, StrictlyIn, Opens
  <2>4. QED
    BY <2>3 DEF PassesFilter
<1>5. PassesFilter(board, c, "component", row)
  <2>1. r.family \in ToSet(Alphabet)
    BY DEF BoardReady, Regular
  <2>2. PipeMatch({r.family}, r.family)
    BY <2>1, PickMatches
  <2>3. PipeMatch({}, r.family)
    BY DEF PipeMatch
  <2>4. PipeMatch(c["component"], r.family)
    BY <2>2, <2>3 DEF Opens
  <2>5. QED
    BY <2>4 DEF PassesFilter
<1>6. QED
  BY <1>1, <1>2, <1>3, <1>4, <1>5 DEF Passes, VulnFilters, PlaceFilters

LEMMA DetailOpens ==
    ASSUME BoardReady, ~ board.lite, NEW r \in Rows(board), r.severity \in {"Critical", "Important"},
           HasNamespace(r), NEW c, Opens(c, r)
    PROVE  \E d \in Detail(board, c) :
             /\ d.cve = r.cve /\ d.severity = r.severity
             /\ d.cluster = r.cluster /\ d.namespace = OrUnknown(r.namespace)
             /\ d.repository = r.repository
<1>1. PICK q \in Rows(board) :
        DetailKey(q) = DetailKey(r) /\ DetailRow(q) \in Drilldown(Rows(board))
  BY FirstIsKept
<1>2. /\ q.cluster = r.cluster /\ OrUnknown(q.namespace) = OrUnknown(r.namespace)
      /\ q.family = r.family /\ q.repository = r.repository /\ q.cve = r.cve
      /\ q.severity = r.severity /\ AgeBucket(q.age) = AgeBucket(r.age)
  BY <1>1, DetailKeyFields
<1>3. q.ownership = r.ownership
  BY <1>1, SameOwner DEF BoardReady
<1>4. q.age >= 30 <=> r.age >= 30
  BY <1>2, BucketsOfThirty DEF BoardReady, Regular
<1> DEFINE d == DetailRow(q)
<1>5. /\ d["cluster"] = r.cluster /\ d["namespace"] = OrUnknown(r.namespace)
      /\ d["ownership"] = r.ownership /\ d["component"] = r.family
      /\ d["repository"] = r.repository /\ d["cve"] = r.cve /\ d["severity"] = r.severity
      /\ d["bucket"] = AgeBucket(r.age)
  BY <1>2, <1>3 DEF DetailRow
<1>6. d["over30"] <=> r.age >= 30
  BY <1>4 DEF DetailRow
<1>7. d["payload"] <=> r.repository = PayloadRepository
  BY <1>2 DEF DetailRow
<1>8. d["over30"] \in BOOLEAN /\ d["payload"] \in BOOLEAN
  BY DEF DetailRow
<1> HIDE DEF d
<1>9. Passes(board, c, VulnFilters, d)
  BY <1>5, DetailPasses
<1>10. Picked(c, "over30", d.over30)
  <2>1. r.age >= 30 => d["over30"] = TRUE
    BY <1>6, <1>8
  <2>2. QED
    BY <2>1, Zenon DEF Opens, Picked
<1>11. Picked(c, "payload", d.payload)
  <2>1. r.repository = PayloadRepository => d["payload"] = TRUE
    BY <1>7, <1>8
  <2>2. QED
    BY <2>1, Zenon DEF Opens, Picked
<1>12. /\ Picked(c, "source", SourceName(d)) /\ Picked(c, "image", d.repository)
       /\ Picked(c, "age", d.bucket)
  BY <1>5 DEF Opens, Picked
<1>13. d.severity \in (IF c.severity = {} THEN Severities ELSE c.severity)
  BY <1>5 DEF Opens, Severities
<1>14. d \in Detail(board, c)
  BY <1>1, <1>9, <1>10, <1>11, <1>12, <1>13 DEF Detail, Opens, d
<1>15. QED
  BY <1>5, <1>14

-----------------------------------------------------------------------------
(***************************************************************************)
(* Where a click leads.                                                    *)
(***************************************************************************)
Followed(f, v, col, rc, fixed, cell) ==
    \A u \in Variables :
      /\ u = v => f[u] = {cell[col]}
      /\ u = "picked" => f[u] = {"yes"}
      /\ u # v /\ u \in DOMAIN fixed => f[u] = fixed[u]
      /\ u # v /\ u = "cluster" /\ rc => f[u] = {cell.cluster}
      /\ u \notin {v, "picked"} \cup DOMAIN fixed /\ ~ (u = "cluster" /\ rc) => f[u] = {}

LEMMA FollowValues ==
    ASSUME NEW c, NEW v, v # "picked", NEW col, NEW rc \in BOOLEAN, NEW fixed,
           "picked" \notin DOMAIN fixed, "cluster" \notin DOMAIN fixed, NEW cell,
           NEW f, f = Follow(c, Link(v, col, rc, fixed), cell)
    PROVE  Followed(f, v, col, rc, fixed, cell)
<1> USE DEF Followed
<1> DEFINE link == Link(v, col, rc, fixed)
<1>1. /\ link.variable = v /\ link.column = col /\ link.rowCluster = rc
      /\ link.fixed = fixed
  BY DEF Link
<1> HIDE DEF link
<1>2. \A u \in Variables :
        Follow(c, link, cell)[u] =
          CASE u = link.variable -> {cell[link.column]}
            [] u = "picked" -> {"yes"}
            [] u # link.variable /\ u \in DOMAIN link.fixed -> link.fixed[u]
            [] u = "cluster" /\ link.variable # u /\ link.rowCluster -> {cell.cluster}
            [] OTHER -> {}
  BY DEF Follow
<1>3. QED
  BY <1>1, <1>2 DEF link

\* The value of a finding in what a link sets.
ValueIn(v, r) ==
    CASE v = "namespace" -> OrUnknown(r.namespace)
      [] v = "sre" -> r.ownership
      [] v = "component" -> r.family
      [] v = "image" -> r.repository
      [] v = "age" -> AgeBucket(r.age)
LinkVariables == {"namespace", "sre", "component", "image", "age"}

\* Fixed values that a finding has.
Fixes(fixed, r) ==
    /\ DOMAIN fixed \subseteq {"sre", "severity", "over30", "payload"}
    /\ "sre" \in DOMAIN fixed => fixed["sre"] = {r.ownership}
    /\ "severity" \in DOMAIN fixed => r.severity \in fixed["severity"]
    /\ "over30" \in DOMAIN fixed => fixed["over30"] = {TRUE} /\ r.age >= 30
    /\ "payload" \in DOMAIN fixed
         => fixed["payload"] = {TRUE} /\ r.repository = PayloadRepository

LEMMA LinkOpens ==
    ASSUME NEW v \in LinkVariables, NEW col, NEW rc \in BOOLEAN, NEW fixed, v \notin DOMAIN fixed,
           NEW r, Fixes(fixed, r), NEW cell, cell[col] = ValueIn(v, r),
           rc => cell["cluster"] = r.cluster
    PROVE  Opens(Follow(choice, Link(v, col, rc, fixed), cell), r)
<1> DEFINE f == Follow(choice, Link(v, col, rc, fixed), cell)
<1>1. v # "picked" /\ "picked" \notin DOMAIN fixed /\ "cluster" \notin DOMAIN fixed
  BY DEF LinkVariables, Fixes
<1>0. f = Follow(choice, Link(v, col, rc, fixed), cell)
  OBVIOUS
<1> HIDE DEF f
<1>2. Followed(f, v, col, rc, fixed, cell)
  BY <1>0, <1>1, FollowValues
<1> USE DEF Followed
<1>3. f["picked"] = {"yes"}
  BY <1>2 DEF Variables, HiddenVariables
<1>4. f["source"] = {} /\ f["finding_age"] = {}
  BY <1>2 DEF Variables, Dropdowns, LinkVariables, Fixes
<1>5. f["cluster"] = {} \/ f["cluster"] = {r.cluster}
  BY <1>1, <1>2 DEF Variables, Dropdowns, LinkVariables
<1>6. f["namespace"] = {} \/ f["namespace"] = {OrUnknown(r.namespace)}
  <2>1. "namespace" \in Variables /\ "namespace" \notin DOMAIN fixed
    BY DEF Variables, Dropdowns, Fixes
  <2>2. QED
    BY <1>2, <2>1 DEF ValueIn
<1>7. f["sre"] = {} \/ f["sre"] = {r.ownership}
  <2>1. "sre" \in Variables
    BY DEF Variables, Dropdowns
  <2>2. QED
    BY <1>2, <2>1 DEF ValueIn, Fixes
<1>8. f["component"] = {} \/ f["component"] = {r.family}
  <2>1. "component" \in Variables /\ "component" \notin DOMAIN fixed
    BY DEF Variables, Dropdowns, Fixes
  <2>2. QED
    BY <1>2, <2>1 DEF ValueIn
<1>9. f["image"] = {} \/ f["image"] = {r.repository}
  <2>1. "image" \in Variables /\ "image" \notin DOMAIN fixed
    BY DEF Variables, HiddenVariables, Fixes
  <2>2. QED
    BY <1>2, <2>1 DEF ValueIn
<1>10. f["age"] = {} \/ f["age"] = {AgeBucket(r.age)}
  <2>1. "age" \in Variables /\ "age" \notin DOMAIN fixed
    BY DEF Variables, HiddenVariables, Fixes
  <2>2. QED
    BY <1>2, <2>1 DEF ValueIn
<1>11. ASSUME NEW u \in {"severity", "over30", "payload"}
       PROVE  IF u \in DOMAIN fixed THEN f[u] = fixed[u] ELSE f[u] = {}
  <2>1. u \in Variables /\ u # v /\ u # "picked" /\ u # "cluster"
    BY DEF Variables, HiddenVariables, LinkVariables
  <2>2. QED
    BY <1>2, <2>1
<1>12. f["severity"] = {} \/ r.severity \in f["severity"]
  BY <1>11 DEF Fixes
<1>13. f["over30"] = {} \/ (f["over30"] = {TRUE} /\ r.age >= 30)
  <2>1. IF "over30" \in DOMAIN fixed THEN f["over30"] = fixed["over30"] ELSE f["over30"] = {}
    BY <1>11
  <2>2. QED
    BY <2>1, Zenon DEF Fixes
<1>14. f["payload"] = {} \/ (f["payload"] = {TRUE} /\ r.repository = PayloadRepository)
  <2>1. IF "payload" \in DOMAIN fixed THEN f["payload"] = fixed["payload"] ELSE f["payload"] = {}
    BY <1>11
  <2>2. QED
    BY <2>1, Zenon DEF Fixes
<1>15. QED
  BY <1>3, <1>4, <1>5, <1>6, <1>7, <1>8, <1>9, <1>10, <1>12, <1>13, <1>14, Zenon DEF Opens, f

\* A link of a table opens the findings of the cell clicked.
LEMMA TableLinkOpens ==
    ASSUME NEW t, NEW v \in LinkVariables, NEW col \in t.by, NEW rc \in BOOLEAN, NEW fixed,
           v \notin DOMAIN fixed, rc => "cluster" \in t.by, t.link = Link(v, col, rc, fixed),
           NEW r, Fixes(fixed, r), Column(t, col, r) = ValueIn(v, r)
    PROVE  Opens(Follow(choice, t.link, CellFor(t, r)), r)
<1> DEFINE cell == CellFor(t, r)
<1>1. cell[col] = ValueIn(v, r)
  BY DEF CellFor
<1>2. rc => cell["cluster"] = r.cluster
  BY DEF CellFor, Column, Means
<1> HIDE DEF cell
<1>3. Opens(Follow(choice, Link(v, col, rc, fixed), cell), r)
  BY <1>1, <1>2, LinkOpens
<1>4. QED
  BY <1>3 DEF cell

-----------------------------------------------------------------------------
(***************************************************************************)
(* What a click on each table opens.                                       *)
(***************************************************************************)
LEMMA FixedValues ==
    ASSUME NEW r
    PROVE  /\ Fixes(Nothing, r) /\ DOMAIN Nothing = {}
           /\ \A o : r.ownership = o => Fixes([sre |-> {o}], r)
           /\ \A x : DOMAIN [sre |-> x] = {"sre"}
<1>1. Fixes(Nothing, r) /\ DOMAIN Nothing = {}
  BY DEF Fixes, Nothing
<1>2. ASSUME NEW o, r.ownership = o
      PROVE  Fixes([sre |-> {o}], r)
  BY <1>2 DEF Fixes
<1>3. \A x : DOMAIN [sre |-> x] = {"sre"}
  OBVIOUS
<1>4. QED
  BY <1>1, <1>2, <1>3

LEMMA OldAreFixed ==
    ASSUME NEW r, r.age >= 30, r.severity \in {"Critical", "Important"}
    PROVE  LET fixed == [over30 |-> {TRUE}, severity |-> {"Critical", "Important"}]
           IN  Fixes(fixed, r) /\ DOMAIN fixed = {"over30", "severity"}
<1> DEFINE fixed == [over30 |-> {TRUE}, severity |-> {"Critical", "Important"}]
<1>1. DOMAIN fixed = {"over30", "severity"}
  OBVIOUS
<1>2. fixed["over30"] = {TRUE} /\ fixed["severity"] = {"Critical", "Important"}
  OBVIOUS
<1> HIDE DEF fixed
<1>3. "sre" \notin DOMAIN fixed /\ "payload" \notin DOMAIN fixed
  BY <1>1
<1>4. DOMAIN fixed \subseteq {"sre", "severity", "over30", "payload"}
  BY <1>1
<1>5. Fixes(fixed, r)
  BY <1>2, <1>3, <1>4, Zenon DEF Fixes
<1>6. QED
  BY <1>1, <1>5 DEF fixed

\* A click on the cell of a finding opens it in Detail.
LEMMA ClickOpens ==
    ASSUME NEW t \in Tables(board), t.title \in LinkedTables, NEW r, About(t.title, r),
           r.severity \in {"Critical", "Important"}
    PROVE  Opens(Follow(choice, t.link, CellFor(t, r)), r)
<1>1. CASE t = FindingsByNamespace(board)
  <2> DEFINE fixed == Nothing
  <2>1. /\ t.title = "Findings by namespace" /\ "namespace" \in t.by /\ "cluster" \in t.by
        /\ t.link = Link("namespace", "namespace", TRUE, fixed)
    <3>1. IsTable(t, "Findings by namespace", VulnFilters, {"cluster", "namespace"},
                  Link("namespace", "namespace", TRUE, fixed))
      BY <1>1, TablesAre, Zenon
    <3>2. t.link = Link("namespace", "namespace", TRUE, fixed)
      BY <3>1, Zenon DEF IsTable
    <3>3. t.title = "Findings by namespace" /\ t.by = {"cluster", "namespace"}
      BY <3>1, Zenon DEF IsTable
    <3>4. "namespace" \in t.by /\ "cluster" \in t.by
      BY <3>3
    <3>5. QED
      BY <3>2, <3>3, <3>4, Zenon
  <2>2. Fixes(fixed, r) /\ "namespace" \notin DOMAIN fixed
    BY FixedValues
  <2> HIDE DEF fixed
  <2>3. Column(t, "namespace", r) = ValueIn("namespace", r)
    BY <2>1 DEF Column, Means, Component, ImageTables, ValueIn
  <2>4. "namespace" \in LinkVariables
    BY DEF LinkVariables
  <2>5. QED
    BY <2>1, <2>2, <2>3, <2>4, TableLinkOpens
<1>2. CASE t = AllComponents(board)
  <2> DEFINE fixed == Nothing
  <2>1. /\ t.title = "All components" /\ "component" \in t.by /\ "cluster" \in t.by
        /\ t.link = Link("component", "component", TRUE, fixed)
    <3>1. IsTable(t, "All components", VulnFilters, {"cluster", "component"},
                  Link("component", "component", TRUE, fixed))
      BY <1>2, TablesAre, Zenon
    <3>2. t.link = Link("component", "component", TRUE, fixed)
      BY <3>1, Zenon DEF IsTable
    <3>3. t.title = "All components" /\ t.by = {"cluster", "component"}
      BY <3>1, Zenon DEF IsTable
    <3>4. "component" \in t.by /\ "cluster" \in t.by
      BY <3>3
    <3>5. QED
      BY <3>2, <3>3, <3>4, Zenon
  <2>2. Fixes(fixed, r) /\ "component" \notin DOMAIN fixed
    BY FixedValues
  <2> HIDE DEF fixed
  <2>3. Column(t, "component", r) = ValueIn("component", r)
    BY <2>1 DEF Column, Means, Component, ImageTables, ValueIn
  <2>4. "component" \in LinkVariables
    BY DEF LinkVariables
  <2>5. QED
    BY <2>1, <2>2, <2>3, <2>4, TableLinkOpens
<1>3. CASE t = AllImages(board)
  <2> DEFINE fixed == Nothing
  <2>1. /\ t.title = "All images" /\ "component" \in t.by /\ "cluster" \in t.by
        /\ t.link = Link("image", "component", TRUE, fixed)
    <3>1. IsTable(t, "All images", VulnFilters, {"cluster", "component"},
                  Link("image", "component", TRUE, fixed))
      BY <1>3, TablesAre, Zenon
    <3>2. t.link = Link("image", "component", TRUE, fixed)
      BY <3>1, Zenon DEF IsTable
    <3>3. t.title = "All images" /\ t.by = {"cluster", "component"}
      BY <3>1, Zenon DEF IsTable
    <3>4. "component" \in t.by /\ "cluster" \in t.by
      BY <3>3
    <3>5. QED
      BY <3>2, <3>3, <3>4, Zenon
  <2>2. Fixes(fixed, r) /\ "image" \notin DOMAIN fixed
    BY FixedValues
  <2> HIDE DEF fixed
  <2>3. Column(t, "component", r) = ValueIn("image", r)
    BY <2>1 DEF Column, Means, Component, ImageTables, ValueIn
  <2>4. "image" \in LinkVariables
    BY DEF LinkVariables
  <2>5. QED
    BY <2>1, <2>2, <2>3, <2>4, TableLinkOpens
<1>4. CASE t = FindingOwnership(board)
  <2> DEFINE fixed == Nothing
  <2>1. /\ t.title = "Finding ownership" /\ "ownership" \in t.by
        /\ t.link = Link("sre", "ownership", FALSE, fixed)
    <3>1. IsTable(t, "Finding ownership", PlaceFilters \cup {"sre"}, {"ownership"},
                  Link("sre", "ownership", FALSE, fixed))
      BY <1>4, TablesAre, Zenon
    <3>2. t.link = Link("sre", "ownership", FALSE, fixed)
      BY <3>1, Zenon DEF IsTable
    <3>3. t.title = "Finding ownership" /\ t.by = {"ownership"}
      BY <3>1, Zenon DEF IsTable
    <3>4. "ownership" \in t.by
      BY <3>3
    <3>5. QED
      BY <3>2, <3>3, <3>4, Zenon
  <2>2. Fixes(fixed, r) /\ "sre" \notin DOMAIN fixed
    BY FixedValues
  <2> HIDE DEF fixed
  <2>3. Column(t, "ownership", r) = ValueIn("sre", r)
    BY <2>1 DEF Column, Means, Component, ImageTables, ValueIn
  <2>4. "sre" \in LinkVariables
    BY DEF LinkVariables
  <2>5. QED
    BY <2>1, <2>2, <2>3, <2>4, TableLinkOpens
<1>5. CASE t = SreManaged(board)
  <2> DEFINE fixed == [sre |-> {"sre_managed"}]
  <2>1. /\ t.title = "Red Hat SRE Managed Services" /\ "component" \in t.by /\ "cluster" \in t.by
        /\ t.link = Link("component", "component", TRUE, fixed)
    <3>1. IsTable(t, "Red Hat SRE Managed Services", VulnFilters, {"cluster", "component"},
                  Link("component", "component", TRUE, fixed))
      BY <1>5, TablesAre, Zenon
    <3>2. t.link = Link("component", "component", TRUE, fixed)
      BY <3>1, Zenon DEF IsTable
    <3>3. t.title = "Red Hat SRE Managed Services" /\ t.by = {"cluster", "component"}
      BY <3>1, Zenon DEF IsTable
    <3>4. "component" \in t.by /\ "cluster" \in t.by
      BY <3>3
    <3>5. QED
      BY <3>2, <3>3, <3>4, Zenon
  <2>2. Fixes(fixed, r) /\ "component" \notin DOMAIN fixed
    <3>1. r.ownership = "sre_managed"
      BY <2>1 DEF About, ByNamespaceBars
    <3>2. Fixes(fixed, r) /\ DOMAIN fixed = {"sre"}
      BY <3>1, FixedValues
    <3> HIDE DEF fixed
    <3>3. QED
      BY <3>2
  <2> HIDE DEF fixed
  <2>3. Column(t, "component", r) = ValueIn("component", r)
    BY <2>1 DEF Column, Means, Component, ImageTables, ValueIn
  <2>4. "component" \in LinkVariables
    BY DEF LinkVariables
  <2>5. QED
    BY <2>1, <2>2, <2>3, <2>4, TableLinkOpens
<1>6. CASE t = RedHatComponents(board)
  <2> DEFINE fixed == [sre |-> {"redhat_component"}]
  <2>1. /\ t.title = "Red Hat Components" /\ "component" \in t.by /\ "cluster" \in t.by
        /\ t.link = Link("component", "component", TRUE, fixed)
    <3>1. IsTable(t, "Red Hat Components", VulnFilters, {"cluster", "component"},
                  Link("component", "component", TRUE, fixed))
      BY <1>6, TablesAre, Zenon
    <3>2. t.link = Link("component", "component", TRUE, fixed)
      BY <3>1, Zenon DEF IsTable
    <3>3. t.title = "Red Hat Components" /\ t.by = {"cluster", "component"}
      BY <3>1, Zenon DEF IsTable
    <3>4. "component" \in t.by /\ "cluster" \in t.by
      BY <3>3
    <3>5. QED
      BY <3>2, <3>3, <3>4, Zenon
  <2>2. Fixes(fixed, r) /\ "component" \notin DOMAIN fixed
    <3>1. r.ownership = "redhat_component"
      BY <2>1 DEF About, ByNamespaceBars
    <3>2. Fixes(fixed, r) /\ DOMAIN fixed = {"sre"}
      BY <3>1, FixedValues
    <3> HIDE DEF fixed
    <3>3. QED
      BY <3>2
  <2> HIDE DEF fixed
  <2>3. Column(t, "component", r) = ValueIn("component", r)
    BY <2>1 DEF Column, Means, Component, ImageTables, ValueIn
  <2>4. "component" \in LinkVariables
    BY DEF LinkVariables
  <2>5. QED
    BY <2>1, <2>2, <2>3, <2>4, TableLinkOpens
<1>7. CASE t = NonRedHatImages(board)
  <2> DEFINE fixed == [sre |-> {"non_redhat"}]
  <2>1. /\ t.title = "Non-Red Hat images" /\ "component" \in t.by /\ "cluster" \in t.by
        /\ t.link = Link("image", "component", TRUE, fixed)
    <3>1. IsTable(t, "Non-Red Hat images", VulnFilters, {"cluster", "component"},
                  Link("image", "component", TRUE, fixed))
      BY <1>7, TablesAre, Zenon
    <3>2. t.link = Link("image", "component", TRUE, fixed)
      BY <3>1, Zenon DEF IsTable
    <3>3. t.title = "Non-Red Hat images" /\ t.by = {"cluster", "component"}
      BY <3>1, Zenon DEF IsTable
    <3>4. "component" \in t.by /\ "cluster" \in t.by
      BY <3>3
    <3>5. QED
      BY <3>2, <3>3, <3>4, Zenon
  <2>2. Fixes(fixed, r) /\ "image" \notin DOMAIN fixed
    <3>1. r.ownership = "non_redhat"
      BY <2>1 DEF About, ByNamespaceBars
    <3>2. Fixes(fixed, r) /\ DOMAIN fixed = {"sre"}
      BY <3>1, FixedValues
    <3> HIDE DEF fixed
    <3>3. QED
      BY <3>2
  <2> HIDE DEF fixed
  <2>3. Column(t, "component", r) = ValueIn("image", r)
    BY <2>1 DEF Column, Means, Component, ImageTables, ValueIn
  <2>4. "image" \in LinkVariables
    BY DEF LinkVariables
  <2>5. QED
    BY <2>1, <2>2, <2>3, <2>4, TableLinkOpens
<1>8. CASE t = OverThirty(board)
  <2> DEFINE fixed == [over30 |-> {TRUE}, severity |-> {"Critical", "Important"}]
  <2>1. /\ t.title = "Unique CVEs older than 30 days" /\ "namespace" \in t.by /\ "cluster" \in t.by
        /\ t.link = Link("namespace", "namespace", TRUE, fixed)
    <3>1. IsTable(t, "Unique CVEs older than 30 days", PlaceFilters, {"cluster", "namespace"},
                  Link("namespace", "namespace", TRUE, fixed))
      BY <1>8, TablesAre, Zenon
    <3>2. t.link = Link("namespace", "namespace", TRUE, fixed)
      BY <3>1, Zenon DEF IsTable
    <3>3. t.title = "Unique CVEs older than 30 days" /\ t.by = {"cluster", "namespace"}
      BY <3>1, Zenon DEF IsTable
    <3>4. "namespace" \in t.by /\ "cluster" \in t.by
      BY <3>3
    <3>5. QED
      BY <3>2, <3>3, <3>4, Zenon
  <2>2. Fixes(fixed, r) /\ "namespace" \notin DOMAIN fixed
    <3>1. r.age >= 30
      BY <2>1 DEF About, ByNamespaceBars
    <3>2. Fixes(fixed, r) /\ DOMAIN fixed = {"over30", "severity"}
      BY <3>1, OldAreFixed
    <3> HIDE DEF fixed
    <3>3. QED
      BY <3>2
  <2> HIDE DEF fixed
  <2>3. Column(t, "namespace", r) = ValueIn("namespace", r)
    BY <2>1 DEF Column, Means, Component, ImageTables, ValueIn
  <2>4. "namespace" \in LinkVariables
    BY DEF LinkVariables
  <2>5. QED
    BY <2>1, <2>2, <2>3, <2>4, TableLinkOpens
<1>9. t.title \notin {"Remediation Paths", "Critical findings by namespace",
                   "SRE-managed OpenShift images", "Critical CVEs by age", "Important CVEs by age"}
  BY DEF LinkedTables, CountTables, ByNamespaceBars
<1>10. t \notin {RemediationPaths(board), CriticalByNamespace(board), PayloadImages(board),
             CriticalCvesByAge(board), ImportantCvesByAge(board)}
  <2>1. /\ RemediationPaths(board).title = "Remediation Paths"
        /\ CriticalByNamespace(board).title = "Critical findings by namespace"
        /\ PayloadImages(board).title = "SRE-managed OpenShift images"
        /\ CriticalCvesByAge(board).title = "Critical CVEs by age"
        /\ ImportantCvesByAge(board).title = "Important CVEs by age"
    BY TablesAre DEF IsTable
  <2>2. QED
    BY <1>9, <2>1
<1>11. QED
  BY <1>1, <1>2, <1>3, <1>4, <1>5, <1>6, <1>7, <1>8, <1>10 DEF Tables

LEMMA LinkedFilters ==
    ASSUME NEW t \in Tables(board)
    PROVE  t.filters \subseteq VulnFilters
<1>1. \A x : /\ VulnFilters \subseteq VulnFilters /\ PlaceFilters \subseteq VulnFilters
             /\ PlaceFilters \cup {"sre"} \subseteq VulnFilters
             /\ {"cluster"} \subseteq VulnFilters /\ {"cluster", "sre"} \subseteq VulnFilters
  BY DEF VulnFilters, PlaceFilters
<1>2. /\ FindingsByNamespace(board).filters = VulnFilters
      /\ AllComponents(board).filters = VulnFilters
      /\ AllImages(board).filters = VulnFilters
      /\ FindingOwnership(board).filters = PlaceFilters \cup {"sre"}
      /\ SreManaged(board).filters = VulnFilters
      /\ RedHatComponents(board).filters = VulnFilters
      /\ NonRedHatImages(board).filters = VulnFilters
      /\ RemediationPaths(board).filters = PlaceFilters \cup {"sre"}
      /\ CriticalByNamespace(board).filters = PlaceFilters
      /\ PayloadImages(board).filters = {"cluster", "sre"}
      /\ OverThirty(board).filters = PlaceFilters
      /\ CriticalCvesByAge(board).filters = {"cluster"}
      /\ ImportantCvesByAge(board).filters = {"cluster"}
  BY TablesAre DEF IsTable
<1>3. QED
  BY <1>1, <1>2 DEF Tables

LEMMA ClickLists ==
    ASSUME BoardReady, ~ board.lite, NEW t \in Tables(board), t.title \in LinkedTables,
           NEW r \in Counted(choice, t), Rank(r.severity) <= 1, HasNamespace(r)
    PROVE  Listed(r, Detail(board, Follow(choice, t.link, CellFor(t, r))))
<1>1. r \in Rows(board) /\ About(t.title, r)
  BY LinkedFilters, CountedByFilter
<1>2. r.severity \in {"Critical", "Important"}
  BY RankIs
<1>3. Opens(Follow(choice, t.link, CellFor(t, r)), r)
  BY <1>1, <1>2, ClickOpens
<1> DEFINE c == Follow(choice, t.link, CellFor(t, r))
<1>4. Opens(c, r)
  BY <1>3
<1> HIDE DEF c
<1>5. Listed(r, Detail(board, c))
  BY <1>1, <1>2, <1>4, DetailOpens DEF Listed
<1>6. QED
  BY <1>5 DEF c

-----------------------------------------------------------------------------
(***************************************************************************)
(* The tables of CVEs by age.                                              *)
(***************************************************************************)
LEMMA NoAgeIsLeast ==
    /\ NoAge >= NoAge
    /\ \A n \in Nat : n >= NoAge
BY DEF NoAge

LEMMA GreatestAge ==
    ASSUME NEW T \in SUBSET (Nat \cup {NoAge}), IsFiniteSet(T), T # {}
    PROVE  Max(T) \in T
<1> DEFINE N == T \cap Nat
<1>1. \E x \in T : \A y \in T : x >= y
  <2>1. CASE N = {}
    <3>1. \A x \in T : x = NoAge
      BY <2>1
    <3>2. QED
      BY <3>1, NoAgeIsLeast
  <2>2. CASE N # {}
    <3>1. N \in SUBSET Nat /\ IsFiniteSet(N)
      BY FS_Subset
    <3>2. PICK x \in N : \A y \in N : y <= x
      <4> HIDE DEF N
      <4>1. QED
        BY <2>2, <3>1, GreatestNumber
    <3>3. ASSUME NEW y \in T
          PROVE  x >= y
      <4>1. CASE y \in N
        BY <3>1, <3>2, <4>1
      <4>2. CASE y \notin N
        BY <3>1, <4>2, NoAgeIsLeast
      <4>3. QED
        BY <4>1, <4>2
    <3>4. QED
      BY <3>3
  <2>3. QED
    BY <2>1, <2>2
<1> HIDE DEF N
<1>2. QED
  BY <1>1 DEF Max

\* Among findings there is one of the first line.
LEMMA FirstLineIs ==
    ASSUME NEW G, G # {}, \A r \in G : r.line \in Nat
    PROVE  \E r \in G : r.line = FirstLine(G)
<1> DEFINE lines == {r.line : r \in G}
<1>1. lines \in SUBSET Nat /\ lines # {}
  OBVIOUS
<1>2. \E n \in lines : \A m \in lines : n <= m
  <2> HIDE DEF lines
  <2>1. QED
    BY <1>1, LeastNumber
<1>3. \E n \in lines : \A r \in G : n <= r.line
  BY <1>2
<1>4. FirstLine(G) = CHOOSE n \in lines : \A r \in G : n <= r.line
  BY DEF FirstLine
<1>5. FirstLine(G) \in lines
  <2> HIDE DEF lines
  <2>1. QED
    BY <1>3, <1>4
<1>6. QED
  BY <1>5

\* A CVE has the age of one of its findings: since it was discovered, or the
\* finding's own where it has no such day.
LEMMA OldestIs ==
    ASSUME NEW H, IsFiniteSet(H), \A r \in H : Regular(r), NEW v \in Cves(H)
    PROVE  \E r \in H : /\ r.cve = v
                        /\ IF r.seen # NoAge THEN r.seen = Oldest(H, v)
                           ELSE r.age = Oldest(H, v)
<1> DEFINE G == {r \in H : r.cve = v}
           D == {r \in G : r.seen # NoAge}
           T == {r.seen : r \in D}
           seen == [r \in D |-> r.seen]
           first == CHOOSE r \in G : r.line = FirstLine(G)
<1>1. IsFiniteSet(D) /\ G # {}
  BY FS_Subset DEF Cves
<1>2. Oldest(H, v) = IF D # {} THEN Max(T) ELSE first.age
  BY DEF Oldest
<1>3. CASE D # {}
  <2>1. DOMAIN seen = D /\ T = {seen[r] : r \in D}
    OBVIOUS
  <2>2. T \in SUBSET (Nat \cup {NoAge}) /\ T # {}
    BY <1>3 DEF Regular
  <2>3. IsFiniteSet(T)
    <3> HIDE DEF seen, D, T
    <3>1. QED
      BY <1>1, <2>1, ImageFinite
  <2>4. Max(T) \in T
    <3> HIDE DEF T
    <3>1. QED
      BY <2>2, <2>3, GreatestAge
  <2> DEFINE m == Max(T)
  <2>5. m \in T /\ Oldest(H, v) = m
    BY <1>2, <1>3, <2>4
  <2> HIDE DEF m
  <2>6. \E r \in D : m = r.seen
    BY <2>5
  <2>7. QED
    BY <2>5, <2>6
<1>4. CASE D = {}
  <2>1. \E r \in G : r.line = FirstLine(G)
    <3>1. \A r \in G : r.line \in Nat
      BY DEF Regular
    <3> HIDE DEF G
    <3>2. QED
      BY <1>1, <3>1, FirstLineIs
  <2>2. first \in G
    <3> HIDE DEF G
    <3>1. QED
      BY <2>1
  <2>3. first.seen = NoAge
    BY <1>4, <2>2
  <2>4. first.age = Oldest(H, v)
    BY <1>2, <1>4
  <2> HIDE DEF first
  <2>5. QED
    BY <2>2, <2>3, <2>4
<1>5. QED
  BY <1>3, <1>4

\* What such a table is, of findings of this severity.
IsAgeTable(t, severity) ==
    /\ t.title = (IF severity = "Critical" THEN "Critical CVEs by age" ELSE "Important CVEs by age")
    /\ t.by = {"bucket"}
    /\ t.link = Link("age", "bucket", FALSE, [severity |-> {severity}, payload |-> {TRUE},
                                              sre |-> {"sre_managed"}])

Group(S, c, severity) == Having({r \in Payload(S) : r.cluster = c}, severity)
OfBucket(H, b) == {v \in Cves(H) : AgeBucket(Oldest(H, v)) = b}

LEMMA AgeRowIs ==
    ASSUME Offered(board, choice), NEW severity \in {"Critical", "Important"}, NEW t,
           IsAgeTable(t, severity), NEW row \in Passing(board, choice, t)
    PROVE  \E S \in SUBSET Rows(board) :
             row.findings = Cardinality(OfBucket(Group(S, row.cluster, severity), row["bucket"]))
<1>1. \E s \in ShownSources : \E a \in Content(OfSource(Rows(board), s), t.title) :
        row = WithSource(a, s)
  BY SourcesShown DEF Passing, Shown, WithSource
<1>2. PICK s \in ShownSources : \E a \in Content(OfSource(Rows(board), s), t.title) :
        row = WithSource(a, s)
  BY <1>1
<1> DEFINE S == OfSource(Rows(board), s)
<1>3. PICK a \in Content(S, t.title) : row = WithSource(a, s)
  BY <1>2
<1>4. S \in SUBSET Rows(board)
  BY SourceRowsAreRows
<1> HIDE DEF S
<1>5. Content(S, t.title) = Aging(S, severity)
  <2>1. CASE severity = "Critical"
    BY <2>1 DEF IsAgeTable, Content, RolledUp, ComponentTables
  <2>2. CASE severity = "Important"
    BY <2>2 DEF IsAgeTable, Content, RolledUp, ComponentTables
  <2>3. QED
    BY <2>1, <2>2
<1> DEFINE Row(c, b) == [cluster |-> c, bucket |-> b,
                         findings |-> Cardinality(OfBucket(Group(S, c, severity), b))]
<1>6. Aging(S, severity) = {Row(c, b) : c \in Clusters(Payload(S)), b \in AgeBuckets}
  BY DEF Aging, OfBucket, Group
<1>7. \E c, b : a = Row(c, b)
  <2> HIDE DEF Row
  <2>1. QED
    BY <1>3, <1>5, <1>6
<1>8. PICK c, b : a = Row(c, b)
  BY <1>7
<1>9. /\ DOMAIN a = {"cluster", "bucket", "findings"} /\ a["cluster"] = c /\ a["bucket"] = b
      /\ a["findings"] = Cardinality(OfBucket(Group(S, c, severity), b))
  BY <1>8
<1> HIDE DEF Row
<1>10. row["cluster"] = a["cluster"] /\ row["bucket"] = a["bucket"] /\ row["findings"] = a["findings"]
  BY <1>3, <1>9 DEF WithSource, Joined
<1>11. QED
  BY <1>4, <1>9, <1>10

LEMMA AgeLinkOpens ==
    ASSUME NEW severity \in {"Critical", "Important"}, NEW t, IsAgeTable(t, severity), NEW cell,
           NEW r, r.severity = severity, r.repository = PayloadRepository,
           r.ownership = "sre_managed", cell["bucket"] = AgeBucket(r.age)
    PROVE  Opens(Follow(choice, t.link, cell), r)
<1> DEFINE fixed == [severity |-> {severity}, payload |-> {TRUE}, sre |-> {"sre_managed"}]
<1>1. DOMAIN fixed = {"severity", "payload", "sre"}
  OBVIOUS
<1>2. /\ fixed["severity"] = {severity} /\ fixed["payload"] = {TRUE}
      /\ fixed["sre"] = {"sre_managed"}
  OBVIOUS
<1>3. t.link = Link("age", "bucket", FALSE, fixed)
  BY Zenon DEF IsAgeTable
<1> HIDE DEF fixed
<1>4. /\ DOMAIN fixed \subseteq {"sre", "severity", "over30", "payload"}
      /\ "over30" \notin DOMAIN fixed /\ "age" \notin DOMAIN fixed
  BY <1>1
<1>5. fixed["sre"] = {r.ownership} /\ r.severity \in fixed["severity"]
  BY <1>2
<1>6. Fixes(fixed, r)
  BY <1>2, <1>4, <1>5, Zenon DEF Fixes
<1>7. cell["bucket"] = ValueIn("age", r) /\ "age" \in LinkVariables
  BY DEF ValueIn, LinkVariables
<1>8. Opens(Follow(choice, Link("age", "bucket", FALSE, fixed), cell), r)
  BY <1>4, <1>6, <1>7, LinkOpens
<1>9. QED
  BY <1>3, <1>8, Zenon

LEMMA AgeClickLists ==
    ASSUME BoardReady, Offered(board, choice), ~ board.lite,
           NEW severity \in {"Critical", "Important"}, NEW t, IsAgeTable(t, severity),
           NEW row \in Passing(board, choice, t)
    PROVE  row.findings
             <= Cardinality(CvesOpened(t, row, Unplaced(row.bucket) \cup Astray(row.bucket)))
<1> DEFINE cell == CellOf(row, t)
           opened == Detail(board, Follow(choice, t.link, cell))
           R == Rows(board)
           beside == Unplaced(row.bucket) \cup Astray(row.bucket)
           here == {r \in opened \cup beside : r.cluster = row.cluster}
<1>1. PICK S \in SUBSET R :
        row.findings = Cardinality(OfBucket(Group(S, row.cluster, severity), row["bucket"]))
  BY AgeRowIs
<1> DEFINE H == Group(S, row.cluster, severity)
           V == OfBucket(H, row["bucket"])
<1>2. IsFiniteSet(R) /\ \A r \in R : Regular(r)
  BY RowsAreGood DEF BoardReady
<1>3. cell["bucket"] = row["bucket"]
  BY DEF CellOf, IsAgeTable
<1>4. H \subseteq R /\ \A r \in H : /\ r.repository = PayloadRepository
                                    /\ r.cluster = row.cluster /\ r.severity = severity
  BY DEF Group, Having, Payload
<1>5. IsFiniteSet(H) /\ \A r \in H : Regular(r)
  BY <1>2, <1>4, FS_Subset
<1> HIDE DEF H, cell
<1>6. ASSUME NEW v \in V
      PROVE  v \in Cves(here)
  <2>1. v \in Cves(H) /\ AgeBucket(Oldest(H, v)) = row["bucket"]
    BY DEF OfBucket
  <2>2. PICK r \in H : /\ r.cve = v
                       /\ IF r.seen # NoAge THEN r.seen = Oldest(H, v)
                          ELSE r.age = Oldest(H, v)
    BY <1>5, <2>1, OldestIs
  <2>3. r \in R /\ r.repository = PayloadRepository /\ r.cluster = row.cluster
        /\ r.severity = severity
    BY <1>4
  <2>4. r.ownership = "sre_managed"
    BY <1>2, <2>3, OwnersOf DEF Regular
  <2>5. row["bucket"] = IF r.seen # NoAge THEN AgeBucket(r.seen) ELSE AgeBucket(r.age)
    BY <2>1, <2>2
  <2>6. SUFFICES \E d \in here : d.cve = v
    BY DEF Cves
  <2>7. CASE ~ HasNamespace(r)
    <3>1. r \in Unplaced(row.bucket)
      BY <2>3, <2>5, <2>7 DEF Unplaced, Payload
    <3> HIDE DEF opened
    <3>2. QED
      BY <2>2, <2>3, <3>1
  <2>8. CASE r \in Astray(row.bucket)
    <3> HIDE DEF opened
    <3>1. QED
      BY <2>2, <2>3, <2>8
  <2>9. CASE HasNamespace(r) /\ r \notin Astray(row.bucket)
    <3> DEFINE c == Follow(choice, t.link, cell)
    <3>1. cell["bucket"] = AgeBucket(r.age)
      BY <1>3, <2>3, <2>5, <2>9 DEF Astray, Payload
    <3>2. Opens(c, r)
      BY <2>3, <2>4, <3>1, AgeLinkOpens
    <3> HIDE DEF c
    <3>3. \E d \in Detail(board, c) :
            /\ d.cve = r.cve /\ d.severity = r.severity
            /\ d.cluster = r.cluster /\ d.namespace = OrUnknown(r.namespace)
            /\ d.repository = r.repository
      BY <2>3, <2>9, <3>2, DetailOpens
    <3>4. \E d \in opened : d.cve = v /\ d.cluster = row.cluster
      BY <2>2, <2>3, <3>3 DEF c
    <3> HIDE DEF opened, beside
    <3>5. QED
      BY <3>4
  <2>10. QED
    BY <2>7, <2>8, <2>9
<1>7. IsFiniteSet(Cves(here))
  <2>1. IsFiniteSet(beside)
    <3>1. beside \subseteq R
      BY DEF Unplaced, Astray, Payload
    <3> HIDE DEF beside, R
    <3>2. QED
      BY <1>2, <3>1, FS_Subset
  <2>2. IsFiniteSet(opened)
    <3> DEFINE g == [r \in R |-> DetailRow(r)]
               rows == {g[r] : r \in R}
    <3>1. DOMAIN g = R
      OBVIOUS
    <3>2. IsFiniteSet(rows)
      <4> HIDE DEF g, R
      <4>1. QED
        BY <1>2, <3>1, ImageFinite
    <3>3. opened \subseteq rows
      BY DEF Detail, Drilldown, Firsts
    <3> HIDE DEF opened, rows
    <3>4. QED
      BY <3>2, <3>3, FS_Subset
  <2>3. IsFiniteSet(here)
    <3> HIDE DEF opened, beside
    <3>1. IsFiniteSet(opened \cup beside)
      BY <2>1, <2>2, FS_Union
    <3>2. QED
      BY <3>1, FS_Subset
  <2> DEFINE h == [r \in here |-> r.cve]
  <2>4. DOMAIN h = here /\ Cves(here) = {h[r] : r \in here}
    BY DEF Cves
  <2> HIDE DEF h, here
  <2>5. QED
    BY <2>3, <2>4, ImageFinite
<1> HIDE DEF here
<1>8. V \subseteq Cves(here) /\ IsFiniteSet(Cves(here))
  BY <1>6, <1>7
<1>9. row.findings = Cardinality(V)
  BY <1>1 DEF H
<1> HIDE DEF V
<1>10. Cardinality(V) <= Cardinality(Cves(here))
  BY <1>8, FS_Subset
<1>11. Cves(here) = CvesOpened(t, row, beside)
  BY DEF CvesOpened, here, cell
<1>12. QED
  BY <1>9, <1>10, <1>11

-----------------------------------------------------------------------------
(***************************************************************************)
(* The clicks, together.                                                   *)
(***************************************************************************)
LEMMA AgeTablesAre ==
    ASSUME NEW t \in Tables(board), t.title \in AgeTables
    PROVE  \E severity \in {"Critical", "Important"} : IsAgeTable(t, severity)
<1>1. IsAgeTable(CriticalCvesByAge(board), "Critical")
  <2>1. "Critical CVEs by age" = IF "Critical" = "Critical" THEN "Critical CVEs by age"
                                 ELSE "Important CVEs by age"
    OBVIOUS
  <2>2. IsTable(CriticalCvesByAge(board), "Critical CVEs by age", {"cluster"}, {"bucket"},
                Link("age", "bucket", FALSE,
                     [severity |-> {"Critical"}, payload |-> {TRUE}, sre |-> {"sre_managed"}]))
    BY TablesAre, Zenon
  <2>3. QED
    BY <2>1, <2>2, Zenon DEF IsTable, IsAgeTable
<1>2. IsAgeTable(ImportantCvesByAge(board), "Important")
  <2>1. "Important CVEs by age" = IF "Important" = "Critical" THEN "Critical CVEs by age"
                                  ELSE "Important CVEs by age"
    OBVIOUS
  <2>2. IsTable(ImportantCvesByAge(board), "Important CVEs by age", {"cluster"}, {"bucket"},
                Link("age", "bucket", FALSE,
                     [severity |-> {"Important"}, payload |-> {TRUE}, sre |-> {"sre_managed"}]))
    BY TablesAre, Zenon
  <2>3. QED
    BY <2>1, <2>2, Zenon DEF IsTable, IsAgeTable
<1>3. t = CriticalCvesByAge(board) \/ t = ImportantCvesByAge(board)
  <2>1. /\ FindingsByNamespace(board).title = "Findings by namespace"
        /\ AllComponents(board).title = "All components"
        /\ AllImages(board).title = "All images"
        /\ FindingOwnership(board).title = "Finding ownership"
        /\ SreManaged(board).title = "Red Hat SRE Managed Services"
        /\ RedHatComponents(board).title = "Red Hat Components"
        /\ NonRedHatImages(board).title = "Non-Red Hat images"
        /\ RemediationPaths(board).title = "Remediation Paths"
        /\ CriticalByNamespace(board).title = "Critical findings by namespace"
        /\ PayloadImages(board).title = "SRE-managed OpenShift images"
        /\ OverThirty(board).title = "Unique CVEs older than 30 days"
    BY TablesAre DEF IsTable
  <2>2. QED
    BY <2>1 DEF Tables, AgeTables
<1>4. QED
  BY <1>1, <1>2, <1>3

LEMMA ScopeMakesClicksExact ==
    PostureScope => ClickListsCounted
<1> SUFFICES ASSUME PostureScope, ~ board.lite
             PROVE  ClickListsCounted
  BY DEF ClickListsCounted
<1>1. BoardReady /\ Offered(board, choice)
  BY BoardsAreGood, RowsAreRegular DEF PostureScope, Offered, BoardReady
<1>2. ASSUME NEW t \in Tables(board), t.title \in LinkedTables, NEW cell,
             NEW r \in Counted(choice, t), Rank(r.severity) <= 1, HasNamespace(r),
             CellFor(t, r) = cell
      PROVE  Listed(r, Detail(board, Follow(choice, t.link, cell)))
  BY <1>1, <1>2, ClickLists
<1>3. ASSUME NEW t \in Tables(board), t.title \in AgeTables,
             NEW row \in Passing(board, choice, t)
      PROVE  row.findings
               <= Cardinality(CvesOpened(t, row, Unplaced(row.bucket) \cup Astray(row.bucket)))
  <2>1. PICK severity \in {"Critical", "Important"} : IsAgeTable(t, severity)
    BY <1>3, AgeTablesAre
  <2>2. QED
    BY <1>1, <1>3, <2>1, AgeClickLists
<1>4. QED
  BY <1>2, <1>3 DEF ClickListsCounted

-----------------------------------------------------------------------------
(***************************************************************************)
(* The scope is inductive.                                                 *)
(***************************************************************************)
LEMMA NothingPicked ==
    ASSUME NEW b
    PROVE  /\ DOMAIN Untouched = Variables
           /\ \A v \in Dropdowns : Untouched[v] \subseteq Options(b, v)
BY DEF Untouched, Variables, Dropdowns, HiddenVariables

LEMMA InitScope ==
    Init => PostureScope
BY NothingPicked DEF Init, PostureScope, MadeOfReport

LEMMA BuiltIsABoard ==
    ASSUME NEW r, NEW o \in Builds
    PROVE  MadeOf(r, o) # NoBoard
<1>1. MadeOf(r, o).uid = o.uid
  BY DEF MadeOf
<1>2. NoBoard.uid = ""
  BY DEF NoBoard
<1>3. QED
  BY <1>1, <1>2, BoardsHaveUids

LEMMA StepScope ==
    PostureScope /\ [Next]_vars => PostureScope'
<1> SUFFICES ASSUME PostureScope, [Next]_vars
             PROVE  PostureScope'
  OBVIOUS
<1> DEFINE Gauged == \E S \in {{}} \cup {Findings(r) : r \in Reports} : gauges = Gauges(S)
<1>1. ASSUME NEW r \in Reports, Pull(r)
      PROVE  PostureScope'
  <2>1. Gauged'
    BY <1>1 DEF Pull, PostureScope
  <2>2. QED
    BY <1>1, <2>1 DEF Pull, PostureScope, MadeOfReport
<1>2. ASSUME NEW o \in Builds, Build(o)
      PROVE  PostureScope'
  <2>1. MadeOfReport(built')
    BY <1>2 DEF Build, PostureScope, MadeOfReport
  <2>2. choice = Untouched
    BY <1>2 DEF Build, PostureScope
  <2>3. Gauged'
    BY <1>2 DEF Build, PostureScope
  <2>4. built' # NoBoard
    BY <1>2, BuiltIsABoard DEF Build
  <2>5. QED
    BY <1>2, <2>1, <2>2, <2>3, <2>4 DEF Build, PostureScope, MadeOfReport
<1>3. ASSUME NEW o \in Builds, Refuse(o)
      PROVE  PostureScope'
  <2>1. Gauged'
    BY <1>3 DEF Refuse, PostureScope
  <2>2. QED
    BY <1>3, <2>1 DEF Refuse, PostureScope, MadeOfReport
<1>4. CASE Publish
  <2>1. choice' = Untouched /\ MadeOfReport(board') /\ MadeOfReport(built')
    BY <1>4 DEF Publish, PostureScope, MadeOfReport
  <2>2. \A v \in Dropdowns : choice'[v] \subseteq Options(board', v)
    BY <2>1, NothingPicked
  <2>3. DOMAIN choice' = Variables
    BY <2>1, NothingPicked
  <2>4. Gauged'
    BY <1>4 DEF Publish, PostureScope
  <2>5. QED
    BY <1>4, <2>1, <2>2, <2>3, <2>4 DEF Publish, PostureScope, MadeOfReport
<1>5. CASE Reject
  <2>1. Gauged'
    BY <1>5 DEF Reject, PostureScope
  <2>2. QED
    BY <1>5, <2>1 DEF Reject, PostureScope, MadeOfReport
<1>6. ASSUME NEW v \in Dropdowns, NEW picks, Choose(v, picks)
      PROVE  PostureScope'
  <2>1. v \in Variables
    BY DEF Variables
  <2>2. DOMAIN choice' = Variables
    BY <1>6 DEF Choose, PostureScope
  <2>3. \A u \in Dropdowns : choice'[u] = IF u = v THEN picks ELSE choice[u]
    BY <1>6, <2>1 DEF Choose, PostureScope, Variables
  <2>4. \A u \in Dropdowns : choice'[u] \subseteq Options(board', u)
    BY <1>6, <2>3 DEF Choose, PostureScope
  <2>5. Gauged'
    BY <1>6 DEF Choose, PostureScope
  <2>6. QED
    BY <1>6, <2>2, <2>4, <2>5 DEF Choose, PostureScope, MadeOfReport
<1>7. CASE Leave
  <2>1. Gauged'
    BY <1>7 DEF Leave, PostureScope
  <2>2. QED
    BY <1>7, <2>1, NothingPicked DEF Leave, PostureScope, MadeOfReport
<1>8. CASE UNCHANGED vars
  <2>1. Gauged'
    BY <1>8 DEF vars, PostureScope
  <2>2. QED
    BY <1>8, <2>1 DEF vars, PostureScope, MadeOfReport
<1>9. QED
  BY <1>1, <1>2, <1>3, <1>4, <1>5, <1>6, <1>7, <1>8 DEF Next

\* A published dashboard was made of one report, for clusters it knows, and a
\* viewer picks what it offers (publish_rhacs_posture.yml, validate_scope).
THEOREM PostureScoped == Spec => []PostureScope
<1>1. QED
  BY InitScope, StepScope, PTL DEF Spec

\* UniqueIsExact: the card of unique CVEs (unique_cves_kpi_filterable) shows the
\* number of different CVEs among the findings picked, or n/a; and not n/a while
\* Namespace is at All and the clusters picked, or all, have findings of the
\* source picked.
THEOREM UniqueCardExact == Spec => []UniqueIsExact
<1>1. QED
  BY PostureScoped, ScopeMakesUniqueExact, PTL

\* PostureTypeOK: the state is one of the job's, and the gauges by cluster, and
\* those by namespace, add up to the gauges of the whole report.
THEOREM PostureTypeCorrect == Spec => []PostureTypeOK
<1>1. QED
  BY PostureScoped, ScopeMakesTypeCorrect, PTL

\* Every card of counts shows how many findings of the report there are for
\* what is picked, whatever the report, the launch and the choices: the rows it
\* adds up (_stat_metric_rows) split those findings between them.
THEOREM CardsExact == Spec => []CardsCountFindings
<1>1. QED
  BY PostureScoped, ScopeMakesCardsExact, PTL

\* What Prometheus draws for the clusters and namespaces picked is what the
\* cards show, although the gauges are of the whole report and the cards of a
\* board that may be for some of its clusters.
THEOREM TrendMatchesCards == Spec => []TrendAgreesWithCards
<1>1. QED
  BY PostureScoped, ScopeMakesTrendAgree, PTL

\* No two panels of a published dashboard overlap, none is wider than the
\* dashboard, and Detail is below everything else, whatever the job's options:
\* the bands build_dashboard puts at fixed lines fill the board down to the last,
\* and what comes after goes under what is there (next_panel_y).
THEOREM PanelsNeverOverlap == Spec => []PanelsApart
<1>1. QED
  BY PanelsAreApart, PTL

\* TablesCountFindings: every table shows, in the cell of a value, how many of
\* the findings picked have that value, and a table of CVEs how many different
\* CVEs they have, or more where it adds up sources: the rows are made before
\* anyone picks (rollup_after_namespace and the rows cut by their namespace), and
\* the filters of the table then choose among them (filterable_component_rows).
THEOREM TablesExact == Spec => []TablesCountFindings
<1>1. QED
  BY PostureScoped, ScopeMakesTablesExact, PTL

\* ClickListsCounted: a click on a cell sets the variables of its link
\* (drill_link), and Detail then lists every serious finding the cell counted,
\* by itself or as the line it was folded into; of the tables by age, no fewer
\* CVEs than the row counted, but for those of findings without a namespace and
\* of findings whose age since they were discovered is in another bucket than the
\* age the report gives them.
THEOREM ClicksExact == Spec => []ClickListsCounted
<1>1. QED
  BY PostureScoped, ScopeMakesClicksExact, PTL
=============================================================================
