-------------------------- MODULE EnvOverlayProofs --------------------------
(***************************************************************************)
(* What is proved of EnvOverlay.  The secrets of a preflight file stay in  *)
(* the vault files whatever is generated and wherever a run stops: every   *)
(* rule of every component is one that writes no secret to the vars, and   *)
(* running rules of that kind over clean vars leaves them clean.  The      *)
(* users of a cluster are the same in all the vaults they are kept in when *)
(* a run ends.  And where Keycloak is installed on OpenShift, the issuer   *)
(* of the cluster's sign-on is its route when the run is done: the rules   *)
(* of Keycloak write the one from the other last, the sign-on's both, and  *)
(* no other component writes Keycloak's vars.  And when a run is done,     *)
(* nothing of what only a standalone install is told is left in the vars   *)
(* of a component that is not installed standalone: a few variables may    *)
(* hold it at all, every rule takes it to no others, and the rules of the  *)
(* form sent drop those or write them anew.                                *)
(***************************************************************************)
EXTENDS EnvOverlay, WellFoundedInduction, TLAPS

(***************************************************************************)
(* Numbers.                                                                *)
(***************************************************************************)
\* A set of numbers that is not empty has a least one.
LEMMA LeastNumber ==
    ASSUME NEW T \in SUBSET Nat, T # {}
    PROVE  \E x \in T : \A y \in T : x <= y
<1> DEFINE R == {p \in Nat \X Nat : p[1] < p[2]}
<1>1. IsWellFoundedOn(R, Nat)
  BY NatLessThanWellFounded DEF OpToRel
<1>2. \A x, y \in Nat : <<x, y>> \in R <=> x < y
  OBVIOUS
<1> HIDE DEF R
<1>3. PICK x \in T : \A y \in T : ~ (<<y, x>> \in R)
  BY <1>1, WFMin
<1>4. \A y \in T : ~ (y < x)
  BY <1>2, <1>3
<1>5. QED
  BY <1>4

\* Induction: a set with 0, and with n + 1 where it has n, has every number.
LEMMA SetInduction ==
    ASSUME NEW S, 0 \in S, \A n \in Nat : n \in S => n + 1 \in S
    PROVE  \A n \in Nat : n \in S
<1> DEFINE T == Nat \ S
<1>1. SUFFICES ASSUME T # {}
               PROVE  FALSE
  OBVIOUS
<1>2. PICK x \in T : \A y \in T : x <= y
  BY <1>1, LeastNumber
<1>3. x \in Nat /\ x # 0
  BY <1>2
<1>4. x - 1 \in Nat /\ x - 1 \notin T /\ (x - 1) + 1 = x
  BY <1>2, <1>3
<1>5. QED
  BY <1>2, <1>4

-----------------------------------------------------------------------------
(***************************************************************************)
(* Reading.  X are the values a file may not show, U the fields of the     *)
(* form whose secrets is_secret_key does not see.                          *)
(***************************************************************************)
Fine(X, v) == v[1] = "text" => v[2] \notin X
Clean(X, f) == \A k \in DOMAIN f : Fine(X, f[k])

\* The secrets of what a merge reads are where the assumption has them, those of
\* the form as far as they are among X.
Fits(U, X, e) ==
    /\ \A f \in DOMAIN e.form :
         e.form[f] \in X =>
           /\ f \in SecretFields \union U
           /\ f = "activation_key" => e.form[f] = "activation_key"
    /\ \A f \in DOMAIN e.pre : e.pre[f][2] \in Secrets => f \in AskedSecrets
    /\ \A f \in DOMAIN e.other : e.other[f][2] \in Secrets => f \in OtherSecrets

Shown(U, X, src) ==
    \/ src[1] = "public" /\ src[2] \notin U
    \/ src[1] = "secret" /\ src[2] = "activation_key" /\ src[2] \notin X
    \/ src[1] = "pre" /\ src[2] \notin AskedSecrets
    \/ src[1] = "other" /\ src[2] \notin OtherSecrets
    \/ src[1] = "vars"
    \/ src[1] = "const" /\ src[2] \notin Secrets

LEMMA NoneIsFine == ASSUME NEW X PROVE Fine(X, None)
BY DEF Fine, None

LEMMA LookIsFine ==
    ASSUME NEW U, NEW X \in SUBSET Secrets, NEW e, NEW s, NEW src,
           Fits(U, X, e), Clean(X, s.vars), Shown(U, X, src)
    PROVE  Fine(X, Look(e, s, src))
<1>1. CASE src[1] = "public" /\ src[2] \notin U
  BY <1>1, NoneIsFine DEF Look, At, Public, Text, Fits, Fine
<1>2. CASE src[1] = "secret" /\ src[2] = "activation_key" /\ src[2] \notin X
  BY <1>2, NoneIsFine DEF Look, At, Secret, Text, Fits, Fine
<1>3. CASE src[1] = "pre" /\ src[2] \notin AskedSecrets
  BY <1>3, NoneIsFine DEF Look, At, Fits, Fine
<1>4. CASE src[1] = "other" /\ src[2] \notin OtherSecrets
  BY <1>4, NoneIsFine DEF Look, At, Fits, Fine
<1>5. CASE src[1] = "vars"
  BY <1>5, NoneIsFine DEF Look, At, Clean
<1>6. CASE src[1] = "const" /\ src[2] \notin Secrets
  BY <1>6 DEF Look, Text, Fine
<1>7. QED
  BY <1>1, <1>2, <1>3, <1>4, <1>5, <1>6 DEF Shown

\* The first given of some sources is what one of them holds.
LEMMA FirstIsOneOf ==
    ASSUME NEW e, NEW s, NEW from, DOMAIN from \subseteq Nat
    PROVE  \/ FirstPresent(e, s, from) = None
           \/ \E i \in DOMAIN from : FirstPresent(e, s, from) = Look(e, s, from[i])
<1> DEFINE given == {i \in DOMAIN from : Look(e, s, from[i]) \notin Missing}
<1>1. CASE given = {}
  BY <1>1 DEF FirstPresent, FirstBut
<1>2. CASE given # {}
  <2>1. PICK i \in given : \A j \in given : i <= j
    BY <1>2, LeastNumber
  <2>2. Min(given) \in given
    BY <2>1 DEF Min
  <2>3. QED
    BY <1>2, <2>2 DEF FirstPresent, FirstBut
<1>3. QED
  BY <1>1, <1>2

-----------------------------------------------------------------------------
(***************************************************************************)
(* Rules.                                                                  *)
(***************************************************************************)
AllShown(U, X, from) ==
    /\ from \in Seq({from[i] : i \in DOMAIN from})
    /\ \A i \in DOMAIN from : Shown(U, X, from[i])

Kinds == {"copy", "flag", "present", "flagpresent", "put", "drop", "stash", "quiet",
          "stashonly", "consume", "each", "eachpresent", "default", "dropvault", "keep"}

\* A rule that writes no secret to the vars.
Safe(U, X, r) ==
    /\ r.kind \in Kinds
    /\ r.kind = "copy" => AllShown(U, X, r.from)
    /\ r.kind = "present" => Shown(U, X, r.from[1])
    /\ r.kind \in {"put", "default"} => Fine(Secrets, r.value)
    /\ r.kind \in {"each", "eachpresent"} => r.to \intersect U = {}

AllSafe(U, X, rules) ==
    /\ rules \in Seq({rules[i] : i \in DOMAIN rules})
    /\ \A i \in DOMAIN rules : Safe(U, X, rules[i])

\* What a merge has in hand.
InHandOf(s) == s = [k \in {"vars", "vault", "dirty", "used"} |-> s[k]]

LEMMA CleanOver ==
    ASSUME NEW X, NEW f, NEW g, Clean(X, f), Clean(X, g)
    PROVE  Clean(X, f ++ g)
BY DEF Clean, ++

LEMMA CleanSet ==
    ASSUME NEW X, NEW f, NEW names, NEW v, Clean(X, f), Fine(X, v)
    PROVE  Clean(X, SetAll(f, names, v))
BY DEF Clean, SetAll, ++

LEMMA CleanWithout ==
    ASSUME NEW X, NEW f, NEW names, Clean(X, f)
    PROVE  Clean(X, Without(f, names))
BY DEF Clean, Without

LEMMA BoolIsFine ==
    ASSUME NEW X \in SUBSET Secrets, NEW v
    PROVE  Fine(X, AsBool(v)) /\ Fine(X, Yes) /\ Fine(X, No)
BY DEF Fine, AsBool, Yes, No, Text, Secrets, SecretFields, NestedSecrets, OtherSecrets

LEMMA RefIsFine ==
    ASSUME NEW X, NEW k
    PROVE  Fine(X, Ref(k))
BY DEF Fine, Ref

\* What a change of the vars, or of the rest, leaves in hand.
LEMMA HandVars ==
    ASSUME NEW s, InHandOf(s), NEW a
    PROVE  InHandOf([s EXCEPT !.vars = a]) /\ [s EXCEPT !.vars = a].vars = a
BY DEF InHandOf

LEMMA HandVault ==
    ASSUME NEW s, InHandOf(s), NEW a, NEW b
    PROVE  /\ InHandOf([s EXCEPT !.vault = a, !.dirty = b])
           /\ [s EXCEPT !.vault = a, !.dirty = b].vars = s.vars
BY DEF InHandOf

LEMMA StoredIsClean ==
    ASSUME NEW X, NEW s, NEW r, NEW v, NEW marks, InHandOf(s), Clean(X, s.vars)
    PROVE  InHandOf(Stored(s, r, v, marks)) /\ Clean(X, Stored(s, r, v, marks).vars)
<1> DEFINE a == SetAll(s.vars, r.to, Ref(r.keys[1]))
           b == SetAll(s.vault, KeySet(r.keys), v)
<1>1. PICK c : c = (s.dirty \/ marks)
  OBVIOUS
<1>2. Stored(s, r, v, marks) = [s EXCEPT !.vars = a, !.vault = b, !.dirty = c]
  BY <1>1, Zenon DEF Stored
<1>3. Clean(X, a)
  BY CleanSet, RefIsFine
<1> HIDE DEF a, b
<1>4. InHandOf(Stored(s, r, v, marks)) /\ Stored(s, r, v, marks).vars = a
  <2>1. /\ InHandOf([s EXCEPT !.vars = a, !.vault = b, !.dirty = c])
        /\ [s EXCEPT !.vars = a, !.vault = b, !.dirty = c].vars = a
    BY DEF InHandOf
  <2>2. QED
    BY <1>2, <2>1, Zenon
<1>5. QED
  BY <1>3, <1>4

LEMMA NamedIsClean ==
    ASSUME NEW U, NEW X \in SUBSET Secrets, NEW e, NEW r, NEW f,
           Fits(U, X, e), Clean(X, f), r.to \intersect U = {}
    PROVE  Clean(X, Named(e, r, f))
<1> DEFINE blank == IF r.kind = "each" THEN {Blank} ELSE {}
           fields == {g \in r.to \intersect DOMAIN Public(e) : e.form[g] \notin blank}
           new == [k \in {r.keys[1] \o g : g \in fields} |->
                     Text(e.form[CHOOSE g \in fields : r.keys[1] \o g = k])]
<1>1. \A g \in fields : e.form[g] \notin X
  BY DEF Fits, Public
<1>2. Named(e, r, f) = new ++ f
  BY DEF Named
<1> HIDE DEF fields
<1>3. \A k \in DOMAIN new : \E g \in fields : new[k] = Text(e.form[g])
  OBVIOUS
<1>4. Clean(X, new)
  BY <1>1, <1>3 DEF Clean, Fine, Text
<1> HIDE DEF new
<1>5. QED
  BY <1>2, <1>4, CleanOver

\* A safe rule leaves clean vars clean.
LEMMA ApplyIsClean ==
    ASSUME NEW U, NEW X \in SUBSET Secrets, NEW e, NEW s, NEW r,
           Fits(U, X, e), InHandOf(s), Clean(X, s.vars), Safe(U, X, r)
    PROVE  InHandOf(Apply(e, s, r)) /\ Clean(X, Apply(e, s, r).vars)
<1> DEFINE v == FirstPresent(e, s, r.from)
           raw == Look(e, s, r.from[1])
           t == Applied(e, s, r, v, raw)
           Good(h) == InHandOf(h) /\ Clean(X, h.vars)
<1> SUFFICES Good(t)
  BY DEF Apply
<1>1. r.kind = "copy" => Fine(X, v)
  <2> SUFFICES ASSUME r.kind = "copy"
               PROVE  Fine(X, v)
    OBVIOUS
  <2>1. AllShown(U, X, r.from)
    BY DEF Safe
  <2>2. DOMAIN r.from \subseteq Nat
    BY <2>1 DEF AllShown
  <2>3. CASE v = None
    BY <2>3, NoneIsFine
  <2>4. CASE \E i \in DOMAIN r.from : v = Look(e, s, r.from[i])
    BY <2>1, <2>4, LookIsFine DEF AllShown
  <2>5. QED
    BY <2>2, <2>3, <2>4, FirstIsOneOf
<1>2. r.kind = "present" => Fine(X, raw)
  BY LookIsFine DEF Safe
<1>3. r.kind \in {"put", "default"} => Fine(X, r.value)
  BY DEF Safe, Fine
<1>4. Good(s)
  OBVIOUS
<1>5. \A w : Fine(X, w) => Good([s EXCEPT !.vars = SetAll(s.vars, r.to, w)])
  BY HandVars, CleanSet
<1>6. Good([s EXCEPT !.vars = Without(s.vars, r.to)])
  BY HandVars, CleanWithout
<1>0. \A w : Fine(X, AsBool(w))
  BY BoolIsFine
<1>7. \A a, b : Good([s EXCEPT !.vault = a, !.dirty = b])
  BY HandVault
<1>8. ASSUME NEW a, NEW b, NEW c
      PROVE  Good([s EXCEPT !.vault = a, !.dirty = b, !.used = c])
  <2> DEFINE h == [s EXCEPT !.vault = a, !.dirty = b, !.used = c]
  <2>1. InHandOf(h) /\ h.vars = s.vars
    BY DEF InHandOf
  <2> HIDE DEF h
  <2>2. Good(h)
    BY <2>1
  <2>3. QED
    BY <2>2 DEF h
<1>9. \A w, marks : Good(Stored(s, r, w, marks))
  BY StoredIsClean
<1> HIDE DEF v, raw, Good
<1>a. CASE r.kind = "copy"
  BY <1>1, <1>4, <1>5, <1>a, Zenon DEF Applied
<1>b. CASE r.kind = "flag"
  BY <1>0, <1>4, <1>5, <1>b, Zenon DEF Applied
<1>c. CASE r.kind = "present"
  BY <1>2, <1>4, <1>5, <1>c, Zenon DEF Applied
<1>d. CASE r.kind = "flagpresent"
  BY <1>0, <1>4, <1>5, <1>d, Zenon DEF Applied
<1>e. CASE r.kind = "put"
  BY <1>3, <1>5, <1>e, Zenon DEF Applied
<1>f. CASE r.kind = "default"
  BY <1>3, <1>4, <1>5, <1>f, Zenon DEF Applied
<1>g. CASE r.kind = "drop"
  BY <1>6, <1>g, Zenon DEF Applied
<1>h. CASE r.kind = "stash"
  BY <1>4, <1>9, <1>h, Zenon DEF Applied
<1>i. CASE r.kind = "quiet"
  BY <1>4, <1>9, <1>i, Zenon DEF Applied
<1>j. CASE r.kind = "keep"
  BY <1>4, <1>7, <1>j, Zenon DEF Applied
<1>k. CASE r.kind = "dropvault"
  BY <1>4, <1>7, <1>k, Zenon DEF Applied
<1>l. CASE r.kind = "stashonly"
  BY <1>4, <1>7, <1>l, Zenon DEF Applied
<1>m. CASE r.kind = "consume"
  BY <1>4, <1>8, <1>m, Zenon DEF Applied
<1>n. CASE r.kind \in {"each", "eachpresent"}
  <2>1. Clean(X, Named(e, r, s.vars))
    BY <1>n, NamedIsClean DEF Safe
  <2>2. Good([s EXCEPT !.vars = Named(e, r, s.vars)])
    BY <2>1, HandVars DEF Good
  <2>3. QED
    BY <1>n, <2>2, Zenon DEF Applied
<1>z. QED
  BY <1>a, <1>b, <1>c, <1>d, <1>e, <1>f, <1>g, <1>h, <1>i, <1>j, <1>k, <1>l, <1>m, <1>n
     DEF Safe, Kinds

-----------------------------------------------------------------------------
(***************************************************************************)
(* Running rules in order.  There is a function that holds what is in hand *)
(* after each of them, and it is clean from one end to the other.          *)
(***************************************************************************)
AfterRule(e, s, rules, g, i) == IF i = 0 THEN s ELSE Apply(e, g[i - 1], rules[i])
After(e, s, rules) == CHOOSE g : g = [i \in 0 .. Len(rules) |-> AfterRule(e, s, rules, g, i)]

LEMMA RunRulesIsAfter ==
    ASSUME NEW e, NEW s, NEW rules
    PROVE  RunRules(e, s, rules) = After(e, s, rules)[Len(rules)]
BY DEF RunRules, After, AfterRule

LEMMA AfterUnfolds ==
    ASSUME NEW e, NEW s, NEW rules, Len(rules) \in Nat
    PROVE  \A i \in 0 .. Len(rules) :
             After(e, s, rules)[i] = AfterRule(e, s, rules, After(e, s, rules), i)
<1> DEFINE Upto(g, n) == g = [i \in 0 .. n |-> AfterRule(e, s, rules, g, i)]
           P == {n \in Nat : \E g : Upto(g, n)}
<1>1. 0 \in P
  <2> DEFINE g == [i \in 0 .. 0 |-> s]
  <2>1. \A i \in 0 .. 0 : AfterRule(e, s, rules, g, i) = s
    BY DEF AfterRule
  <2>2. g = [i \in 0 .. 0 |-> AfterRule(e, s, rules, g, i)]
    BY <2>1
  <2> HIDE DEF g
  <2>3. QED
    BY <2>2
<1>2. ASSUME NEW n \in Nat, n \in P
      PROVE  n + 1 \in P
  <2>1. PICK g : Upto(g, n)
    BY <1>2
  <2> DEFINE h == [i \in 0 .. n + 1 |-> AfterRule(e, s, rules, g, i)]
  <2>2. \A i \in 0 .. n : h[i] = g[i]
    <3>1. \A i \in 0 .. n : g[i] = AfterRule(e, s, rules, g, i)
      BY <2>1
    <3>2. QED
      BY <3>1
  <2>3. ASSUME NEW i \in 0 .. n + 1
        PROVE  AfterRule(e, s, rules, g, i) = AfterRule(e, s, rules, h, i)
    <3>1. CASE i = 0
      BY <3>1 DEF AfterRule
    <3>2. CASE i # 0
      <4>1. i - 1 \in 0 .. n
        BY <3>2
      <4> HIDE DEF h
      <4>2. QED
        BY <2>2, <3>2, <4>1 DEF AfterRule
    <3>3. QED
      BY <3>1, <3>2
  <2>4. Upto(h, n + 1)
    BY <2>3
  <2> HIDE DEF Upto, h
  <2>5. QED
    BY <2>4
<1>3. \A n \in Nat : n \in P
  <2> HIDE DEF P
  <2>1. QED
    BY <1>1, <1>2, SetInduction
<1>4. PICK g : Upto(g, Len(rules))
  BY <1>3
<1> DEFINE T == After(e, s, rules)
<1>5. T = [i \in 0 .. Len(rules) |-> AfterRule(e, s, rules, T, i)]
  BY <1>4 DEF After
<1> HIDE DEF T
<1>6. \A i \in 0 .. Len(rules) : T[i] = AfterRule(e, s, rules, T, i)
  BY <1>5
<1>7. QED
  BY <1>6 DEF T

\* Rules that write no secret leave clean vars clean.
LEMMA RunRulesIsClean ==
    ASSUME NEW U, NEW X \in SUBSET Secrets, NEW e, NEW s, NEW rules,
           Fits(U, X, e), InHandOf(s), Clean(X, s.vars), AllSafe(U, X, rules)
    PROVE  InHandOf(RunRules(e, s, rules)) /\ Clean(X, RunRules(e, s, rules).vars)
<1> DEFINE T == After(e, s, rules)
           Good(h) == InHandOf(h) /\ Clean(X, h.vars)
           P == {n \in Nat : n <= Len(rules) => Good(T[n])}
<1>1. Len(rules) \in Nat /\ DOMAIN rules = 1 .. Len(rules)
  BY DEF AllSafe
<1>2. \A i \in 0 .. Len(rules) : T[i] = AfterRule(e, s, rules, T, i)
  BY <1>1, AfterUnfolds
<1>3. \A h, r : Good(h) /\ Safe(U, X, r) => Good(Apply(e, h, r))
  BY ApplyIsClean
<1>4. Good(s)
  OBVIOUS
<1> HIDE DEF T, Good
<1>5. 0 \in P
  BY <1>1, <1>2, <1>4 DEF AfterRule
<1>6. ASSUME NEW n \in Nat, n \in P
      PROVE  n + 1 \in P
  <2> SUFFICES ASSUME n + 1 <= Len(rules)
               PROVE  Good(T[n + 1])
    OBVIOUS
  <2>1. n + 1 \in 0 .. Len(rules) /\ n + 1 \in DOMAIN rules /\ n + 1 # 0
    BY <1>1
  <2>2. Good(T[n])
    BY <1>1, <1>6
  <2>3. T[n + 1] = Apply(e, T[n], rules[n + 1])
    <3>1. T[n + 1] = AfterRule(e, s, rules, T, n + 1)
      BY <1>2, <2>1
    <3>2. (n + 1) - 1 = n
      OBVIOUS
    <3>3. QED
      BY <2>1, <3>1, <3>2 DEF AfterRule
  <2>4. Safe(U, X, rules[n + 1])
    BY <2>1 DEF AllSafe
  <2>5. QED
    BY <1>3, <2>2, <2>3, <2>4
<1>7. \A n \in Nat : n \in P
  <2> HIDE DEF P
  <2>1. QED
    BY <1>5, <1>6, SetInduction
<1>8. Good(T[Len(rules)])
  BY <1>1, <1>7
<1>9. QED
  BY <1>8, RunRulesIsAfter DEF T, Good

-----------------------------------------------------------------------------
(***************************************************************************)
(* Which sources and which rules write no secret.                          *)
(***************************************************************************)
\* A source is shown that is neither secret nor one whose name hides that it is.
LEMMA PubShown == ASSUME NEW U, NEW X, NEW f, f \notin U PROVE Shown(U, X, Pub(f))
BY DEF Shown, Pub

LEMMA PreShown == ASSUME NEW U, NEW X, NEW f, f \notin AskedSecrets PROVE Shown(U, X, Pre(f))
BY DEF Shown, Pre

LEMMA OthShown == ASSUME NEW U, NEW X, NEW f, f \notin OtherSecrets PROVE Shown(U, X, Oth(f))
BY DEF Shown, Oth

LEMMA VarShown == ASSUME NEW U, NEW X, NEW f PROVE Shown(U, X, Var(f))
BY DEF Shown, Var

LEMMA ConstShown == ASSUME NEW U, NEW X, NEW v, v \notin Secrets PROVE Shown(U, X, Const(v))
BY DEF Shown, Const

\* Rows of sources.
LEMMA OneShown == ASSUME NEW U, NEW X, NEW a, Shown(U, X, a) PROVE AllShown(U, X, <<a>>)
BY DEF AllShown

LEMMA TwoShown ==
    ASSUME NEW U, NEW X, NEW a, NEW b, Shown(U, X, a), Shown(U, X, b)
    PROVE  AllShown(U, X, <<a, b>>)
BY DEF AllShown

LEMMA ThreeShown ==
    ASSUME NEW U, NEW X, NEW a, NEW b, NEW c,
           Shown(U, X, a), Shown(U, X, b), Shown(U, X, c)
    PROVE  AllShown(U, X, <<a, b, c>>)
BY DEF AllShown

LEMMA FourShown ==
    ASSUME NEW U, NEW X, NEW a, NEW b, NEW c, NEW d,
           Shown(U, X, a), Shown(U, X, b), Shown(U, X, c), Shown(U, X, d)
    PROVE  AllShown(U, X, <<a, b, c, d>>)
BY DEF AllShown

LEMMA NoneShown == ASSUME NEW U, NEW X PROVE AllShown(U, X, <<>>)
<1> DEFINE none == <<>>
<1>1. DOMAIN none = {}
  OBVIOUS
<1>2. none \in Seq({none[i] : i \in DOMAIN none})
  OBVIOUS
<1>3. QED
  BY <1>1, <1>2 DEF AllShown

LEMMA BothShown ==
    ASSUME NEW U, NEW X, NEW first, NEW second,
           AllShown(U, X, first), AllShown(U, X, second)
    PROVE  AllShown(U, X, first \o second)
<1> DEFINE V == {a \in {first[i] : i \in DOMAIN first} \union {second[i] : i \in DOMAIN second} : Shown(U, X, a)}
<1>1. first \in Seq(V) /\ second \in Seq(V)
  BY DEF AllShown
<1> HIDE DEF V
<1>2. first \o second \in Seq(V)
  BY <1>1
<1>3. \A i \in DOMAIN (first \o second) : (first \o second)[i] \in V
  BY <1>2
<1>4. \A i \in DOMAIN (first \o second) : Shown(U, X, (first \o second)[i])
  BY <1>3 DEF V
<1>5. first \o second \in Seq({(first \o second)[i] : i \in DOMAIN (first \o second)})
  <2> DEFINE both == first \o second
  <2>1. both \in Seq(V)
    BY <1>2
  <2> HIDE DEF both
  <2>2. both \in Seq({both[i] : i \in DOMAIN both})
    BY <2>1
  <2>3. QED
    BY <2>2 DEF both
<1>6. QED
  BY <1>4, <1>5 DEF AllShown

\* A rule that copies what is shown, or no value of the preflight file at all.
LEMMA CopySafe ==
    ASSUME NEW U, NEW X, NEW to, NEW from, AllShown(U, X, from)
    PROVE  Safe(U, X, Copy(to, from))
BY DEF Safe, Kinds, Copy, Rule

LEMMA FlagSafe == ASSUME NEW U, NEW X, NEW to, NEW from PROVE Safe(U, X, Flag(to, from))
BY DEF Safe, Kinds, Flag, Rule

LEMMA CopyPresentSafe ==
    ASSUME NEW U, NEW X, NEW to, NEW f, f \notin U
    PROVE  Safe(U, X, CopyPresent(to, f))
BY PubShown DEF Safe, Kinds, CopyPresent, Rule

LEMMA FlagPresentSafe ==
    ASSUME NEW U, NEW X, NEW to, NEW f
    PROVE  Safe(U, X, FlagPresent(to, f))
BY DEF Safe, Kinds, FlagPresent, Rule

LEMMA PutSafe ==
    ASSUME NEW U, NEW X, NEW to, NEW v, Fine(Secrets, v)
    PROVE  Safe(U, X, Put(to, v))
BY DEF Safe, Kinds, Put, Rule

LEMMA DefaultSafe ==
    ASSUME NEW U, NEW X, NEW to, NEW v, NEW from, v \notin Secrets
    PROVE  Safe(U, X, Default(to, v, from))
BY DEF Safe, Kinds, Default, Rule, Fine, Text

LEMMA DropSafe == ASSUME NEW U, NEW X, NEW names PROVE Safe(U, X, Drop(names))
BY DEF Safe, Kinds, Drop, Rule

LEMMA EachSafe ==
    ASSUME NEW U, NEW X, NEW p, NEW fields, fields \intersect U = {}
    PROVE  Safe(U, X, Each(p, fields)) /\ Safe(U, X, EachPresent(p, fields))
BY DEF Safe, Kinds, Each, EachPresent, Rule

\* A rule that writes to the vault, and a reference to the vars.
LEMMA StashSafe ==
    ASSUME NEW U, NEW X, NEW to, NEW keys, NEW from
    PROVE  Safe(U, X, Stash(to, keys, from)) /\ Safe(U, X, StashQuietly(to, keys, from))
BY DEF Safe, Kinds, Stash, StashQuietly, Rule

LEMMA StashOnlySafe ==
    ASSUME NEW U, NEW X, NEW keys, NEW from
    PROVE  Safe(U, X, StashOnly(keys, from))
BY DEF Safe, Kinds, StashOnly, Rule

LEMMA KeepSafe ==
    ASSUME NEW U, NEW X, NEW keys, NEW f
    PROVE  /\ Safe(U, X, Keep(keys, f))
           /\ Safe(U, X, Consume(keys, f))
           /\ Safe(U, X, DropVault(keys))
BY DEF Safe, Kinds, Keep, Consume, DropVault, Rule

\* Rows of rules.
LEMMA OneRule ==
    ASSUME NEW U, NEW X, NEW a,
           Safe(U, X, a)
    PROVE  AllSafe(U, X, <<a>>)
BY DEF AllSafe

LEMMA TwoRules ==
    ASSUME NEW U, NEW X, NEW a, NEW b,
           Safe(U, X, a), Safe(U, X, b)
    PROVE  AllSafe(U, X, <<a, b>>)
BY DEF AllSafe

LEMMA ThreeRules ==
    ASSUME NEW U, NEW X, NEW a, NEW b, NEW c,
           Safe(U, X, a), Safe(U, X, b), Safe(U, X, c)
    PROVE  AllSafe(U, X, <<a, b, c>>)
BY DEF AllSafe

LEMMA FourRules ==
    ASSUME NEW U, NEW X, NEW a, NEW b, NEW c, NEW d,
           Safe(U, X, a), Safe(U, X, b), Safe(U, X, c), Safe(U, X, d)
    PROVE  AllSafe(U, X, <<a, b, c, d>>)
BY DEF AllSafe

LEMMA FiveRules ==
    ASSUME NEW U, NEW X, NEW a, NEW b, NEW c, NEW d, NEW e,
           Safe(U, X, a), Safe(U, X, b), Safe(U, X, c), Safe(U, X, d),
           Safe(U, X, e)
    PROVE  AllSafe(U, X, <<a, b, c, d, e>>)
BY DEF AllSafe

LEMMA SixRules ==
    ASSUME NEW U, NEW X, NEW a, NEW b, NEW c, NEW d, NEW e, NEW f,
           Safe(U, X, a), Safe(U, X, b), Safe(U, X, c), Safe(U, X, d),
           Safe(U, X, e), Safe(U, X, f)
    PROVE  AllSafe(U, X, <<a, b, c, d, e, f>>)
BY DEF AllSafe

LEMMA SevenRules ==
    ASSUME NEW U, NEW X, NEW a, NEW b, NEW c, NEW d, NEW e, NEW f, NEW g,
           Safe(U, X, a), Safe(U, X, b), Safe(U, X, c), Safe(U, X, d),
           Safe(U, X, e), Safe(U, X, f), Safe(U, X, g)
    PROVE  AllSafe(U, X, <<a, b, c, d, e, f, g>>)
BY DEF AllSafe

LEMMA EightRules ==
    ASSUME NEW U, NEW X, NEW a, NEW b, NEW c, NEW d, NEW e, NEW f, NEW g, NEW
           h,
           Safe(U, X, a), Safe(U, X, b), Safe(U, X, c), Safe(U, X, d),
           Safe(U, X, e), Safe(U, X, f), Safe(U, X, g), Safe(U, X, h)
    PROVE  AllSafe(U, X, <<a, b, c, d, e, f, g, h>>)
BY DEF AllSafe

LEMMA NineRules ==
    ASSUME NEW U, NEW X, NEW a, NEW b, NEW c, NEW d, NEW e, NEW f, NEW g, NEW
           h, NEW i,
           Safe(U, X, a), Safe(U, X, b), Safe(U, X, c), Safe(U, X, d),
           Safe(U, X, e), Safe(U, X, f), Safe(U, X, g), Safe(U, X, h),
           Safe(U, X, i)
    PROVE  AllSafe(U, X, <<a, b, c, d, e, f, g, h, i>>)
BY DEF AllSafe

LEMMA TenRules ==
    ASSUME NEW U, NEW X, NEW a, NEW b, NEW c, NEW d, NEW e, NEW f, NEW g, NEW
           h, NEW i, NEW j,
           Safe(U, X, a), Safe(U, X, b), Safe(U, X, c), Safe(U, X, d),
           Safe(U, X, e), Safe(U, X, f), Safe(U, X, g), Safe(U, X, h),
           Safe(U, X, i), Safe(U, X, j)
    PROVE  AllSafe(U, X, <<a, b, c, d, e, f, g, h, i, j>>)
BY DEF AllSafe

LEMMA NoRules ==
    ASSUME NEW U, NEW X
    PROVE  AllSafe(U, X, <<>>)
<1> DEFINE none == <<>>
<1>1. DOMAIN none = {}
  OBVIOUS
<1>2. none \in Seq({none[i] : i \in DOMAIN none})
  OBVIOUS
<1>3. QED
  BY <1>1, <1>2 DEF AllSafe

LEMMA BothSafe ==
    ASSUME NEW U, NEW X, NEW first, NEW second,
           AllSafe(U, X, first), AllSafe(U, X, second)
    PROVE  AllSafe(U, X, first \o second)
<1> DEFINE V == {r \in {first[i] : i \in DOMAIN first} \union {second[i] : i \in DOMAIN second} : Safe(U, X, r)}
<1>1. first \in Seq(V) /\ second \in Seq(V)
  BY DEF AllSafe
<1> HIDE DEF V
<1>2. first \o second \in Seq(V)
  BY <1>1
<1>3. \A i \in DOMAIN (first \o second) : (first \o second)[i] \in V
  BY <1>2
<1>4. \A i \in DOMAIN (first \o second) : Safe(U, X, (first \o second)[i])
  BY <1>3 DEF V
<1>5. first \o second \in Seq({(first \o second)[i] : i \in DOMAIN (first \o second)})
  <2> DEFINE both == first \o second
  <2>1. both \in Seq(V)
    BY <1>2
  <2> HIDE DEF both
  <2>2. both \in Seq({both[i] : i \in DOMAIN both})
    BY <2>1
  <2>3. QED
    BY <2>2 DEF both
<1>6. QED
  BY <1>4, <1>5 DEF AllSafe

-----------------------------------------------------------------------------
(***************************************************************************)
(* The rules of every component write no secret.                           *)
(***************************************************************************)
LEMMA PegaIsSafe ==
    ASSUME NEW X, NEW e, NEW s
    PROVE  AllSafe({}, X, Pega(e, s))
<1>1. "no_registries" \notin Secrets
  BY DEF Secrets, SecretFields, NestedSecrets, OtherSecrets
<1>2. QED
  BY <1>1, CopySafe, EachSafe, TwoShown, PubShown, ConstShown DEF Pega, AllSafe

LEMMA DevHubIsSafe ==
    ASSUME NEW X, NEW e, NEW s
    PROVE  AllSafe({}, X, DevHub(e, s))
<1>1. \A v \in {"Lab", "rhdh", "chad-lab"} : v \notin Secrets
  BY DEF Secrets, SecretFields, NestedSecrets, OtherSecrets
<1>2. \A f \in {"rhbk_hostname", "keycloak_route", "rhbk_realm"} : f \notin OtherSecrets
  BY DEF OtherSecrets
<1>3. QED
  BY <1>1, <1>2, CopySafe, StashSafe, OneShown, TwoShown, ThreeShown, PubShown, OthShown, ConstShown
     DEF DevHub, AllSafe, HostName

LEMMA KafkaIsSafe ==
    ASSUME NEW X, NEW e, NEW s
    PROVE  AllSafe({}, X, Kafka(e, s))
<1>1. "3.3" \notin Secrets
  BY DEF Secrets, SecretFields, NestedSecrets, OtherSecrets
<1>2. Fine(Secrets, Yes) /\ Fine(Secrets, No)
  BY BoolIsFine
<1>3. QED
  BY <1>1, <1>2, CopySafe, PutSafe, OneShown, TwoShown, PubShown, VarShown, ConstShown,
     BothShown DEF Kafka, AllSafe, Channel

LEMMA DatabaseIsSafe ==
    ASSUME NEW X, NEW e, NEW s, NEW prefix, NEW classes, AllShown({}, X, classes)
    PROVE  AllSafe({}, X, Database(e, s, prefix, classes))
<1>1. Fine(Secrets, No)
  BY BoolIsFine
<1>2. QED
  BY <1>1, CopySafe, FlagSafe, PutSafe, OneShown, PubShown, FiveRules DEF Database

LEMMA PubsShown ==
    ASSUME NEW X, NEW a, NEW b
    PROVE  /\ AllShown({}, X, Pubs(<<a, b>>))
           /\ \A c : AllShown({}, X, Pubs(<<a, b, c>>))
<1>1. /\ Pubs(<<a, b>>) = <<Pub(a), Pub(b)>>
      /\ \A c : Pubs(<<a, b, c>>) = <<Pub(a), Pub(b), Pub(c)>>
  BY DEF Pubs
<1>2. QED
  BY <1>1, PubShown, TwoShown, ThreeShown

LEMMA IssuerShown == ASSUME NEW X PROVE AllShown({}, X, Issuer)
<1>1. \A f \in {"rhbk_hostname", "keycloak_route"} : f \notin OtherSecrets
  BY DEF OtherSecrets
<1>2. QED
  BY <1>1, VarShown, OthShown, FourShown DEF Issuer

LEMMA GrafanaIsSafe ==
    ASSUME NEW X, NEW e, NEW s
    PROVE  AllSafe({}, X, Grafana(e, s))
<1>1. \A v \in {"sqlite", "admin", "redhat123", "v5"} : v \notin Secrets
  BY DEF Secrets, SecretFields, NestedSecrets, OtherSecrets
<1>2. Fine(Secrets, Yes) /\ Fine(Secrets, Text("v5"))
  BY <1>1, BoolIsFine DEF Fine, Text
<1>3. AllSafe({}, X, GrafanaContent(e, s))
  BY CopySafe, FlagSafe, CopyPresentSafe, DropSafe, StashSafe, OneShown, PubShown,
     OneRule, TwoRules, ThreeRules, NoRules, BothSafe DEF GrafanaContent, Storage, If
<1>5. AllSafe({}, X, GrafanaAccess(e, s))
  BY <1>2, IssuerShown, CopySafe, FlagPresentSafe, CopyPresentSafe, PutSafe, StashSafe, OneShown,
     VarShown, OneRule, ThreeRules, FourRules, NoRules, BothSafe DEF GrafanaAccess, If
<1>6. AllSafe({}, X, GrafanaDatabase(e, s))
  BY <1>1, CopySafe, EachSafe, StashSafe, TwoShown, PubShown, ConstShown, PubsShown,
     OneRule, TwoRules, DatabaseIsSafe, BothSafe DEF GrafanaDatabase
<1>7. AllSafe({}, X, GrafanaInstall(e, s))
  BY <1>1, <1>2, CopySafe, PutSafe, DropSafe, DefaultSafe, StashSafe, OneShown, TwoShown,
     PubShown, VarShown, ConstShown, NoneShown, BothShown, OneRule, TwoRules, ThreeRules,
     FourRules, NoRules, BothSafe DEF GrafanaInstall, HostName, If
<1>8. QED
  BY <1>3, <1>5, <1>6, <1>7, BothSafe DEF Grafana

LEMMA GitlabIsSafe ==
    ASSUME NEW X, NEW e, NEW s
    PROVE  AllSafe({}, X, Gitlab(e, s))
<1>1. "redhat123" \notin Secrets
  BY DEF Secrets, SecretFields, NestedSecrets, OtherSecrets
<1>2. AllSafe({}, X, GitlabStandalone(e, s))
  BY CopySafe, StashSafe, OneShown, PubShown, TenRules DEF GitlabStandalone
<1>3. AllSafe({}, X, GitlabOpenShift(e, s))
  BY <1>1, StashSafe, DefaultSafe, DropSafe, PubsShown, DatabaseIsSafe, TwoRules, BothSafe
     DEF GitlabOpenShift
<1>4. QED
  BY <1>2, <1>3, CopySafe, OneShown, PubShown, TwoRules, BothSafe
     DEF Gitlab, HostName, Storage

LEMMA ZabbixIsSafe ==
    ASSUME NEW X, NEW e, NEW s
    PROVE  AllSafe({}, X, Zabbix(e, s))
<1>1. \A v \in {"postgres", "zabbix"} : v \notin Secrets
  BY DEF Secrets, SecretFields, NestedSecrets, OtherSecrets
<1>2. AllShown({}, X, Pubs(<<"postgres_storage", "postgres_storage_class", "storage">>)
                        \o <<Var("storage")>>)
  BY PubsShown, VarShown, OneShown, BothShown
<1>3. QED
  BY <1>1, <1>2, IssuerShown, CopySafe, FlagSafe, StashSafe, OneShown, TwoShown, ThreeShown,
     PubShown, VarShown, ConstShown, DatabaseIsSafe, TwoRules, ThreeRules, NoRules, BothSafe
     DEF Zabbix, HostName, Storage, If

LEMMA QuayIsSafe ==
    ASSUME NEW X, NEW e, NEW s
    PROVE  AllSafe({}, X, Quay(e, s))
<1>1. \A v \in {"quayadmin", "local", "minio", "9000", "quay", "minioadmin"} : v \notin Secrets
  BY DEF Secrets, SecretFields, NestedSecrets, OtherSecrets
<1>2. \A f \in {"minio_namespace", "minio_root_user"} : f \notin OtherSecrets
  BY DEF OtherSecrets
<1>3. \A v \in {"minio", "local"} : Fine(Secrets, Text(v))
  BY <1>1 DEF Fine, Text
<1>4. QED
  BY <1>1, <1>2, <1>3, IssuerShown, CopySafe, FlagSafe, FlagPresentSafe, EachSafe, PutSafe,
     StashSafe, OneShown, TwoShown, ThreeShown, FourShown, PubShown, OthShown, ConstShown,
     SevenRules, NineRules, NoRules, BothSafe DEF Quay, HostName, If

LEMMA QuayS3IsSafe ==
    ASSUME NEW U, NEW X, NEW e, NEW s
    PROVE  AllSafe(U, X, QuayS3(e, s))
BY StashSafe, OneRule, NoRules DEF QuayS3, If

LEMMA MinioIsSafe ==
    ASSUME NEW X, NEW e, NEW s
    PROVE  AllSafe({}, X, Minio(e, s))
<1>1. "Lab" \notin Secrets /\ "rhbk_realm" \notin OtherSecrets
  BY DEF Secrets, SecretFields, NestedSecrets, OtherSecrets
<1>2. QED
  BY <1>1, IssuerShown, PubsShown, CopySafe, FlagPresentSafe, StashSafe, OneShown, FourShown,
     PubShown, OthShown, VarShown, ConstShown, NineRules DEF Minio, Storage

LEMMA BookstackIsSafe ==
    ASSUME NEW X, NEW e, NEW s
    PROVE  AllSafe({}, X, Bookstack(e, s)) /\ AllSafe({}, X, Netbox(e, s))
<1>1. \A c : AllSafe({}, X, OidcClient(c))
  BY IssuerShown, CopySafe, EachSafe, FlagPresentSafe, StashSafe, FourRules DEF OidcClient
<1>2. QED
  BY <1>1, CopySafe, PubsShown, OneShown, PubShown, OneRule, TwoRules, BothSafe
     DEF Bookstack, Netbox, HostName

LEMMA RhbkIsSafe ==
    ASSUME NEW X, NEW e, NEW s
    PROVE  AllSafe({}, X, Rhbk(e, s))
<1>1. \A v \in {"rhel", "openshift", "Lab", "admin", "edge", "cert_manager", "ingress_copy",
                "manual", "ClusterIssuer", "idm-acme", "OpenshiftLab", "Keycloak", "git",
                "url", "upload", "groups", "LDAP"} : v \notin Secrets
  BY DEF Secrets, SecretFields, NestedSecrets, OtherSecrets
<1>2. \A f \in {"keycloak_route", "oauth_rhbk_idp_name"} : f \notin OtherSecrets
  BY DEF OtherSecrets
<1>3. Fine(Secrets, Yes) /\ Fine(Secrets, No)
  BY BoolIsFine
<1>4. AllSafe({}, X, RhbkRealm(e, s))
  <2>1. Fine(Secrets, Text("rhel")) /\ Fine(Secrets, Text("openshift"))
    BY <1>1 DEF Fine, Text
  <2>2. QED
    BY <1>1, <1>2, <1>3, <2>1, CopySafe, FlagSafe, PutSafe, DropSafe, StashSafe, NoneShown,
       OneShown, TwoShown, PubsShown, PubShown, OthShown, ConstShown, BothShown, OneRule,
       NineRules, NoRules, BothSafe DEF RhbkRealm, If
<1>5. AllSafe({}, X, RhbkTls(e, s))
  <2>1. \A pair \in BOOLEAN : TlsMode(e, pair) \in {"edge", "cert_manager", "ingress_copy", "manual"}
    BY DEF TlsMode
  <2>2. Fine(Secrets, Text(TlsMode(e, Given(e, s, Sec("tls_crt")) /\ Given(e, s, Sec("tls_key")))))
    BY <1>1, <2>1 DEF Fine, Text
  <2>3. QED
    BY <1>1, <1>3, <2>2, CopySafe, PutSafe, StashSafe, TwoShown, PubShown, ConstShown,
       TwoRules, FourRules, NoRules, BothSafe DEF RhbkTls, If
<1>6. AllSafe({}, X, RhbkClients(e, s))
  BY <1>1, <1>2, CopySafe, OneShown, TwoShown, ThreeShown, PubShown, VarShown, OthShown,
     ConstShown, PubsShown, BothShown, TwoRules, ThreeRules, NoRules, BothSafe
     DEF RhbkClients, If
<1>7. AllSafe({}, X, RhbkStandalone(e, s))
  <2>1. ZipSource(e) # Blank => Fine(Secrets, Text(ZipSource(e)))
    BY <1>1 DEF ZipSource, Fine, Text
  <2>2. QED
    BY <1>3, <2>1, CopySafe, PutSafe, StashSafe, OneShown, PubShown, OneRule, ThreeRules,
       FourRules, NoRules, BothSafe DEF RhbkStandalone, If
<1>8. AllSafe({}, X, RhbkFederation(e, s))
  <2>1. Fine(Secrets, Text("LDAP"))
    BY <1>1 DEF Fine, Text
  <2>2. QED
    BY <1>1, <2>1, CopySafe, PutSafe, StashOnlySafe, NoneShown, OneShown, PubShown,
       ConstShown, BothShown, OneRule, TwoRules, FourRules, NoRules, BothSafe
       DEF RhbkFederation, If
<1>9. QED
  BY <1>4, <1>5, <1>6, <1>7, <1>8, DropSafe, OneRule, NoRules, BothSafe DEF Rhbk, If

\* AAP's form has a private key under a name that does not say so.
LEMMA AapIsSafe ==
    ASSUME NEW X, NEW e, NEW s
    PROVE  AllSafe(Unmarked("aap"), X, Aap(e, s))
<1> DEFINE U == Unmarked("aap")
<1>1. \A v \in {"openshift", "admin", "setup-bundle", "2.7", "aap", "all_namespaces",
                "no_passwords", "none"} : v \notin Secrets
  BY DEF Secrets, SecretFields, NestedSecrets, OtherSecrets
<1>2. \A f \in {"aap_admin_username", "aap_hostname"} : f \notin OtherSecrets
  BY DEF OtherSecrets
<1>3. \A f \in {"install_target", "admin_username", "hostname", "deployment_version", "namespace",
                "operator_scope", "operator_channel", "instance_name", "license_mode",
                "aap_setup_down_type", "standalone_hostname", "aap_setup_bundle_dir",
                "aap_setup_bundle_file", "aap_setup_ssh_user", "subscription_manifest_file",
                "rhn_username", "rhn_client_id"} :
        f \notin U /\ f \notin AskedSecrets
  BY DEF Unmarked, AskedSecrets
<1>4. Fine(Secrets, Yes) /\ Fine(Secrets, No)
  BY BoolIsFine
<1>5. \A k : Fine(Secrets, Ref(k))
  BY RefIsFine
<1> HIDE DEF U
<1>6. AllSafe(U, X, AapAdmin(e, s))
  BY <1>1, <1>2, <1>3, CopySafe, StashSafe, StashOnlySafe, TwoShown, ThreeShown, PubShown,
     OthShown, ConstShown, OneRule, TwoRules, NoRules, BothSafe DEF AapAdmin, If
<1>7. \A f \in {"aap_setup_down_type", "standalone_hostname", "aap_setup_bundle_dir",
                "aap_setup_bundle_file", "aap_setup_ssh_user", "subscription_manifest_file",
                "rhn_username", "rhn_client_id"} : AllShown(U, X, Asked(f))
  BY <1>3, TwoShown, PubShown, PreShown DEF Asked
<1>8. AllShown(U, X, AapHosts(e))
  BY <1>2, <1>3, <1>7, TwoShown, PubShown, OthShown, BothShown DEF AapHosts
<1>9. AllSafe(U, X, AapOnHost(e, s))
  <2>1. Fine(Secrets, Text("no_passwords"))
    BY <1>1 DEF Fine, Text
  <2>2. QED
    BY <1>1, <1>3, <1>4, <1>5, <1>7, <1>8, <2>1, CopySafe, FlagSafe, PutSafe, StashOnlySafe,
       OneShown, TwoShown, PubShown, ConstShown, BothShown, OneRule, FiveRules, SixRules,
       NoRules, BothSafe DEF AapOnHost, If
<1>a. AllSafe(U, X, AapOnOpenShift(e, s))
  BY <1>1, <1>3, <1>4, <1>5, CopySafe, FlagSafe, PutSafe, StashOnlySafe, TwoShown, PubShown,
     VarShown, ConstShown DEF AapOnOpenShift, AllSafe, Says
<1>b. AllSafe(U, X, AapLicense(e, s))
  BY <1>1, <1>2, <1>3, <1>4, <1>7, <1>8, CopySafe, PutSafe, StashSafe, NoneShown, OneShown,
     TwoShown, PubShown, PreShown, OthShown, ConstShown, BothShown, TenRules
     DEF AapLicense
<1>c. QED
  BY <1>4, <1>6, <1>9, <1>a, <1>b, PutSafe, OneRule, BothSafe DEF Aap, U

LEMMA ChannelIsSafe ==
    ASSUME NEW X, NEW e, NEW s, NEW from, NEW dead, NEW current,
           AllShown({}, X, from), current \notin Secrets
    PROVE  Safe({}, X, Channel(e, s, from, dead, current))
BY CopySafe, OneShown, ConstShown, BothShown DEF Channel

LEMMA AcmIsSafe ==
    ASSUME NEW X, NEW e, NEW s
    PROVE  AllSafe({}, X, Acm(e, s))
<1>1. \A v \in {"no", "release-2.17"} : v \notin Secrets
  BY DEF Secrets, SecretFields, NestedSecrets, OtherSecrets
<1>2. Fine(Secrets, Yes) /\ Fine(Secrets, No)
  BY BoolIsFine
<1>3. AllSafe({}, X, AcmPolicies(e, s))
  BY <1>1, <1>2, CopySafe, FlagSafe, FlagPresentSafe, EachSafe, PutSafe, StashOnlySafe, KeepSafe,
     OneShown, PubsShown, VarShown, BothShown, ThreeRules, FiveRules, NoRules, BothSafe
     DEF AcmPolicies, If
<1>4. AllSafe({}, X, AcmOperator(e, s))
  BY <1>1, ChannelIsSafe, CopySafe, OneShown, TwoShown, PubShown, VarShown, ThreeRules
     DEF AcmOperator
<1>5. QED
  BY <1>3, <1>4, BothSafe DEF Acm

LEMMA DevspacesIsSafe ==
    ASSUME NEW X, NEW e, NEW s
    PROVE  AllSafe({}, X, Devspaces(e, s))
<1>1. \A v \in {"upload", "bundled", "empty_sample"} : v \notin Secrets
  BY DEF Secrets, SecretFields, NestedSecrets, OtherSecrets
<1>2. Fine(Secrets, Yes) /\ Fine(Secrets, No)
  BY BoolIsFine
<1>3. Fine(Secrets, Text("upload")) /\ Fine(Secrets, Text("bundled"))
  BY <1>1 DEF Fine, Text
<1>4. QED
  BY <1>1, <1>2, <1>3, CopySafe, FlagSafe, EachSafe, PutSafe, DropSafe, OneShown, PubShown,
     PubsShown, ConstShown, BothShown, OneRule, TwoRules, SixRules, NoRules, BothSafe
     DEF Devspaces, HostName, If

LEMMA AcsIsSafe ==
    ASSUME NEW X, NEW e, NEW s
    PROVE  AllSafe({}, X, Acs(e, s)) /\ AllSafe({}, X, Mtv(e, s))
<1>1. "central_route" \notin OtherSecrets
  BY DEF OtherSecrets
<1>2. QED
  BY <1>1, CopySafe, EachSafe, OneShown, TwoShown, PubShown, OthShown, VarShown,
     TwoRules, FourRules DEF Acs, Mtv

LEMMA OpenshiftVirtIsSafe ==
    ASSUME NEW X, NEW e, NEW s
    PROVE  AllSafe({}, X, OpenshiftVirt(e, s))
<1>1. "no_range" \notin Secrets /\ Blank \notin Secrets
  BY DEF Secrets, SecretFields, NestedSecrets, OtherSecrets, Blank
<1>2. "openshift_api_host" \notin OtherSecrets
  BY DEF OtherSecrets
<1>3. Fine(Secrets, Text(Blank))
  BY <1>1 DEF Fine, Text
<1>4. QED
  BY <1>1, <1>2, <1>3, CopySafe, CopyPresentSafe, FlagSafe, EachSafe, PutSafe, StashOnlySafe,
     KeepSafe, TwoShown, PubShown, VarShown, OthShown, ConstShown, NineRules DEF OpenshiftVirt

LEMMA AwsIsSafe ==
    ASSUME NEW X, NEW e, NEW s
    PROVE  /\ AllSafe({}, X, Ec2AmiCopy(e, s))
           /\ AllSafe({}, X, Ec2Instance(e, s))
           /\ AllSafe({}, X, S3BucketPolicy(e, s))
           /\ AllSafe({}, X, Aws(e, s))
BY EachSafe, CopyPresentSafe, OneRule, ThreeRules
   DEF Ec2AmiCopy, Ec2Instance, S3BucketPolicy, Aws

LEMMA OcpVirtualizationIsSafe ==
    ASSUME NEW X, NEW e, NEW s
    PROVE  AllSafe({}, X, OcpVirtualization(e, s))
<1>1. \A v \in {"stable", "openshift-cnv", "kubevirt-hyperconverged-group",
                "kubevirt-hyperconverged", "redhat-operators"} : v \notin Secrets
  BY DEF Secrets, SecretFields, NestedSecrets, OtherSecrets
<1>2. QED
  BY <1>1, ChannelIsSafe, CopySafe, FlagPresentSafe, TwoShown, PubShown, PubsShown, ConstShown,
     SixRules DEF OcpVirtualization

LEMMA CertManagerIsSafe ==
    ASSUME NEW X, NEW e, NEW s
    PROVE  AllSafe({}, X, CertManager(e, s))
<1>1. Fine(Secrets, Text("idm-root-ca.crt"))
  BY DEF Secrets, SecretFields, NestedSecrets, OtherSecrets, Fine, Text
<1>2. QED
  BY <1>1, CopySafe, PutSafe, EachSafe, DropSafe, OneShown, PubShown, OneRule, TwoRules,
     BothSafe DEF CertManager

LEMMA EckIsSafe ==
    ASSUME NEW X, NEW e, NEW s
    PROVE  AllSafe({}, X, Eck(e, s))
<1>1. "stable" \notin Secrets /\ Fine(Secrets, Text(Blank))
  BY DEF Secrets, SecretFields, NestedSecrets, OtherSecrets, Blank, Fine, Text
<1>2. QED
  BY <1>1, CopySafe, PutSafe, TwoShown, VarShown, ConstShown, TwoRules DEF Eck

LEMMA IdmServerIsSafe ==
    ASSUME NEW X, NEW e, NEW s
    PROVE  AllSafe({}, X, IdmServer(e, s))
BY CopySafe, CopyPresentSafe, EachSafe, DropSafe, OneShown, TwoShown, PubShown
   DEF IdmServer, AllSafe

LEMMA StigIsSafe ==
    ASSUME NEW X, NEW e, NEW s
    PROVE  AllSafe({}, X, Stig(e, s))
<1>1. \A f \in {"rhel_compliance_profile", "rhel_stig_profile", "rhel_stig_engine",
                "rhel_stig_cac_remediate"} : f \notin OtherSecrets
  BY DEF OtherSecrets
<1>2. QED
  BY <1>1, CopySafe, OneShown, TwoShown, PubShown, OthShown, FourRules DEF Stig

LEMMA SatelliteIsSafe ==
    ASSUME NEW X, NEW e, NEW s
    PROVE  AllSafe({}, X, Satellite(e, s))
<1>1. \A v \in {"yes", "no", "admin", "satellite-manifest.zip", "ado-satellite", "rhlab"} :
        v \notin Secrets
  BY DEF Secrets, SecretFields, NestedSecrets, OtherSecrets
<1>2. Fine(Secrets, Yes)
  BY BoolIsFine
<1>3. AllSafe({}, X, SatelliteServer(e, s))
  BY <1>1, CopySafe, CopyPresentSafe, FlagSafe, StashOnlySafe, NoneShown, OneShown, PubsShown,
     PubShown, ConstShown, BothShown, NoRules, NineRules DEF SatelliteServer, If
<1>4. AllSafe({}, X, SatelliteManifest(e, s))
  BY <1>1, <1>2, CopySafe, PutSafe, KeepSafe, OneShown, PubsShown, PubShown, ConstShown,
     BothShown, OneRule, ThreeRules, NoRules, BothSafe DEF SatelliteManifest, If
<1>5. AllSafe({}, X, SatelliteSizing(e, s))
  BY <1>2, CopySafe, PutSafe, StashSafe, OneShown, PubShown, OneRule, TwoRules, ThreeRules,
     FiveRules, NoRules, BothSafe DEF SatelliteSizing, If
<1>6. AllSafe({}, X, SatelliteOidc(e, s))
  BY <1>1, CopySafe, FlagSafe, StashSafe, OneShown, TwoShown, PubShown, PubsShown, VarShown,
     ConstShown DEF SatelliteOidc, AllSafe
<1>7. AllSafe({}, X, Capsule(e, s))
  BY CopySafe, FlagPresentSafe, StashSafe, OneShown, PubShown, PubsShown, SMTT(60) DEF Capsule, AllSafe
<1>8. AllSafe({}, X, CapsuleOff)
  BY DropSafe, KeepSafe, TwoRules DEF CapsuleOff
<1>9. QED
  BY <1>3, <1>4, <1>5, <1>6, <1>7, <1>8, DropSafe, OneRule, BothSafe DEF Satellite

\* The second half writes the name of the activation key to Satellite's vars.
LEMMA SecondHalfIsSafe ==
    ASSUME NEW X, NEW c, NEW e, NEW s
    PROVE  /\ AllSafe({}, X, SecretNames(c, e))
           /\ "activation_key" \notin X => AllSafe({}, X, SatelliteSecrets(e, s))
<1>1. AllSafe({}, X, SecretNames(c, e))
  BY KeepSafe, TwoRules, ThreeRules, NoRules DEF SecretNames
<1>2. ASSUME "activation_key" \notin X
      PROVE  AllSafe({}, X, SatelliteSecrets(e, s))
  <2>1. Shown({}, X, Sec("activation_key"))
    BY <1>2 DEF Shown, Sec
  <2>2. Fine(Secrets, Yes)
    BY BoolIsFine
  <2>3. QED
    BY <2>1, <2>2, CopySafe, PutSafe, StashSafe, StashOnlySafe, OneShown, OneRule, TwoRules,
       NoRules, BothSafe DEF SatelliteSecrets, If
<1>3. QED
  BY <1>1, <1>2

-----------------------------------------------------------------------------
(***************************************************************************)
(* The cluster and the jobs.                                               *)
(***************************************************************************)
BeforeUsers(e, s) ==
    ClusterAccess(e, s) \o ImageRegistry(e, s) \o NfsStorage(e, s) \o IscsiStorage(e, s)

\* The cluster's form has two secrets under names that do not say so.
LEMMA OpenShiftIsSafe ==
    ASSUME NEW X, NEW e, NEW s
    PROVE  /\ AllSafe(Unmarked("openshift"), X, BeforeUsers(e, s))
           /\ AllSafe(Unmarked("openshift"), X, AdminHtpasswd(e, s))
           /\ AllSafe(Unmarked("openshift"), X, ConsoleBanner(e, s))
           /\ AllSafe(Unmarked("openshift"), X, OpenShift(e, s))
<1> DEFINE U == Unmarked("openshift")
<1>1. \A v \in {"yes", "no", "synology-nfs-csi", "4.11.0", "4.1", "synology-nfs-pv", "5000",
                "synology-iscsi-storage", "/volume1", "add", "htpasswd-admin",
                "htpasswd-admin-secret"} : v \notin Secrets
  BY DEF Secrets, SecretFields, NestedSecrets, OtherSecrets
<1>2. \A f \in {"api_host", "apps_domain", "nfs_server", "nfs_share",
                "nfs_storage_class_name", "nfs_driver_version", "nfs_version",
                "nfs_test_namespace", "iscsi_dsm_host", "iscsi_dsm_port",
                "iscsi_storage_class_name", "iscsi_location", "htpasswd_action",
                "htpasswd_idp_name", "htpasswd_secret", "banner_state", "banner_text",
                "banner_location", "banner_background_color", "banner_text_color"} :
        f \notin U
  BY DEF Unmarked
<1>3. "domain" \notin OtherSecrets
  BY DEF OtherSecrets
<1>4. Fine(Secrets, Yes) /\ Fine(Secrets, No)
  BY BoolIsFine
<1> HIDE DEF U
<1>5. AllSafe(U, X, ClusterAccess(e, s))
  BY <1>2, <1>3, <1>4, CopySafe, CopyPresentSafe, FlagSafe, PutSafe, DropSafe, StashOnlySafe,
     KeepSafe, OneShown, OthShown, TwoRules, SixRules, BothSafe DEF ClusterAccess, Says, Not
<1>6. AllSafe(U, X, ImageRegistry(e, s))
  BY <1>4, FlagSafe, PutSafe, DropSafe, OneRule, TwoRules, BothSafe DEF ImageRegistry
<1>7. AllSafe(U, X, NfsStorage(e, s))
  BY <1>1, <1>2, CopySafe, FlagSafe, DropSafe, OneShown, TwoShown, PubShown, ConstShown,
     OneRule, EightRules DEF NfsStorage
<1>8. AllSafe(U, X, IscsiStorage(e, s))
  BY <1>1, <1>2, CopySafe, FlagSafe, DropSafe, StashOnlySafe, KeepSafe, OneShown, TwoShown,
     PubShown, ConstShown, OneRule, TwoRules, NineRules, BothSafe DEF IscsiStorage
<1>9. AllSafe(U, X, AdminHtpasswd(e, s))
  <2>1. Pubs(<<"htpasswd_secret", "htpasswd_idp_name">>)
          = <<Pub("htpasswd_secret"), Pub("htpasswd_idp_name")>>
    BY DEF Pubs
  <2>2. QED
    BY <1>1, <1>2, <2>1, CopySafe, DropSafe, StashOnlySafe, KeepSafe, OneShown, TwoShown,
       PubShown, ConstShown, BothShown, TwoRules, FourRules DEF AdminHtpasswd
<1>a. AllSafe(U, X, ConsoleBanner(e, s))
  BY <1>1, <1>2, CopySafe, DropSafe, OneShown, TwoShown, PubShown, ConstShown, OneRule,
     FourRules, BothSafe DEF ConsoleBanner
<1>b. QED
  BY <1>5, <1>6, <1>7, <1>8, <1>9, <1>a, BothSafe DEF OpenShift, BeforeUsers, U

LEMMA LdapAuthIsSafe ==
    ASSUME NEW X, NEW e, NEW s
    PROVE  AllSafe({}, X, LdapAuth(e, s))
<1>1. "LDAP_IDM" \notin Secrets
  BY DEF Secrets, SecretFields, NestedSecrets, OtherSecrets
<1>2. QED
  BY <1>1, CopySafe, StashOnlySafe, OneShown, TwoShown, PubShown, ConstShown, SevenRules, Zenon
     DEF LdapAuth

LEMMA OauthRhbkIsSafe ==
    ASSUME NEW X, NEW e, NEW s
    PROVE  AllSafe({}, X, OauthRhbk(e, s))
<1>1. \A v \in {"Keycloak", "rhlab", "groups"} : v \notin Secrets
  BY DEF Secrets, SecretFields, NestedSecrets, OtherSecrets
<1>2. QED
  BY <1>1, CopySafe, KeepSafe, TwoShown, ThreeShown, FourShown, PubShown, VarShown,
     ConstShown, SixRules DEF OauthRhbk

LEMMA RoutesIsSafe ==
    ASSUME NEW X, NEW e, NEW s
    PROVE  AllSafe({}, X, Routes(e, s))
<1>1. \A v \in {"selected_apps", "namespaces", "all", "-alt", "no_labels"} : v \notin Secrets
  BY DEF Secrets, SecretFields, NestedSecrets, OtherSecrets
<1>2. \A v \in {"selected_apps", "namespaces", "all"} : Fine(Secrets, Text(v))
  BY <1>1 DEF Fine, Text
<1>3. QED
  BY <1>1, <1>2, CopySafe, CopyPresentSafe, FlagSafe, PutSafe, DropSafe, StashOnlySafe,
     OneShown, TwoShown, PubShown, ConstShown, OneRule, TwoRules, FourRules, BothSafe
     DEF Routes

LEMMA AapHubHardenIsSafe ==
    ASSUME NEW X, NEW e, NEW s
    PROVE  AllSafe({}, X, AapHubHarden(e, s))
<1>1. \A f \in {"aap_namespace", "aap_storage", "openshift_api_host"} : f \notin OtherSecrets
  BY DEF OtherSecrets
<1>2. Fine(Secrets, Yes) /\ Fine(Secrets, No)
  BY BoolIsFine
<1>3. QED
  BY <1>1, <1>2, CopySafe, FlagSafe, PutSafe, StashOnlySafe, OneShown, TwoShown, PubShown,
     OthShown, NineRules DEF AapHubHarden, Not

-----------------------------------------------------------------------------
(***************************************************************************)
(* All rules of the script.                                                *)
(***************************************************************************)
LEMMA RulesAreSafe ==
    ASSUME NEW X, NEW c, NEW e, NEW s
    PROVE  AllSafe(Unmarked(c), X, RulesOf(c, e, s))
<1>1. c \notin {"aap", "openshift"} => Unmarked(c) = {}
  BY DEF Unmarked
<1>2. CASE c = "aap"
  BY <1>2, AapIsSafe DEF RulesOf
<1>3. CASE c = "openshift"
  BY <1>3, NoRules DEF RulesOf
<1>4. CASE c \notin {"aap", "openshift"}
  <2>1. AllSafe({}, X, RulesOf(c, e, s))
    <3>1. CASE c \in {"pega", "grafana", "gitlab", "zabbix", "dev_hub", "quay", "minio",
                      "bookstack", "netbox", "rhbk"}
      BY <3>1, PegaIsSafe, GrafanaIsSafe, GitlabIsSafe, ZabbixIsSafe, DevHubIsSafe, QuayIsSafe,
         MinioIsSafe, BookstackIsSafe, RhbkIsSafe DEF RulesOf
    <3>2. CASE c \in {"acm", "devspaces", "acs", "mtv", "openshift_virt", "ec2_ami_copy",
                      "ec2_instance", "s3_bucket_policy", "ocp_virtualization", "aws"}
      BY <3>2, AcmIsSafe, DevspacesIsSafe, AcsIsSafe, OpenshiftVirtIsSafe, AwsIsSafe,
         OcpVirtualizationIsSafe DEF RulesOf
    <3>3. CASE c \in {"satellite", "cert_manager", "kafka", "eck", "idm", "stig"}
      BY <3>3, SatelliteIsSafe, CertManagerIsSafe, KafkaIsSafe, EckIsSafe, IdmServerIsSafe,
         StigIsSafe DEF RulesOf
    <3>4. CASE c \notin {"pega", "grafana", "gitlab", "zabbix", "dev_hub", "quay", "minio",
                         "bookstack", "netbox", "rhbk", "acm", "devspaces", "acs", "mtv",
                         "openshift_virt", "ec2_ami_copy", "ec2_instance", "s3_bucket_policy",
                         "ocp_virtualization", "aws", "satellite", "cert_manager", "kafka",
                         "eck", "idm", "stig"}
      BY <1>4, <3>4, NoRules DEF RulesOf
    <3>5. QED
      BY <3>1, <3>2, <3>3, <3>4
  <2>2. QED
    BY <1>1, <1>4, <2>1
<1>5. QED
  BY <1>2, <1>3, <1>4

\* The fields whose secrets a merge must not take for public ones: the job that looks
\* for Quay's key reads MinIO's form.
Veiled(w) == IF w = "quay_s3" THEN Blocks("minio") ELSE Unmarked(w)

LEMMA JobRulesAreSafe ==
    ASSUME NEW X, NEW w \in Jobs, NEW e, NEW s
    PROVE  AllSafe(Veiled(w), X, JobRules(w, e, s))
<1>1. CASE w = "openshift"
  BY <1>1, OpenShiftIsSafe DEF JobRules, Veiled
<1>2. CASE w = "quay_s3"
  BY <1>2, QuayS3IsSafe DEF JobRules
<1>3. CASE w \notin {"openshift", "quay_s3"}
  <2>1. Veiled(w) = {}
    BY <1>3 DEF Veiled, Unmarked, Jobs
  <2>2. AllSafe({}, X, JobRules(w, e, s))
    BY <1>3, LdapAuthIsSafe, OauthRhbkIsSafe, RoutesIsSafe, AapHubHardenIsSafe DEF JobRules, Jobs
  <2>3. QED
    BY <2>1, <2>2
<1>4. QED
  BY <1>1, <1>2, <1>3

-----------------------------------------------------------------------------
(***************************************************************************)
(* What a merge reads has its secrets where the assumption has them.       *)
(***************************************************************************)
FormFits(U, X, form) ==
    \A f \in DOMAIN form :
      form[f] \in X =>
        /\ f \in SecretFields \union U
        /\ f = "activation_key" => form[f] = "activation_key"

LEMMA BesideFits ==
    ASSUME NEW U, NEW X \in SUBSET Secrets, NEW f, NEW g, FormFits(U, X, f), FormFits(U, X, g)
    PROVE  FormFits(U, X, f ++ g)
BY DEF FormFits, ++

LEMMA HostedFits ==
    ASSUME NEW U, NEW X \in SUBSET Secrets, NEW c, NEW form, NEW apps, FormFits(U, X, form),
           c \in Routed => \A f \in DOMAIN DerivedHosts(c, apps) :
                             DerivedHosts(c, apps)[f] \notin Secrets
    PROVE  FormFits(U, X, WithHosts(c, form, apps))
<1>1. CASE WithHosts(c, form, apps) = form
  BY <1>1
<1>2. CASE c \in Routed /\ WithHosts(c, form, apps) = DerivedHosts(c, apps) ++ form
  <2>1. FormFits(U, X, DerivedHosts(c, apps))
    BY <1>2 DEF FormFits
  <2>2. QED
    BY <1>2, <2>1, BesideFits
<1>3. QED
  BY <1>1, <1>2, Zenon DEF WithHosts

\* AAP's form is filled from fields that are as secret as the ones they fill.
LEMMA FilledFits ==
    ASSUME NEW U, NEW X \in SUBSET Secrets, NEW form, NEW opts, NEW other, NEW asked, FormFits(U, X, form),
           \A f \in DOMAIN asked : asked[f][2] \in Secrets => f \in AskedSecrets,
           \A f \in DOMAIN other : other[f][2] \in Secrets => f \in OtherSecrets
    PROVE  FormFits(U, X, AapForm(form, opts, other, asked))
<1> DEFINE of == [hostname |-> "aap_hostname", admin_password |-> "aap_admin_password"]
           Mark(m) == [f \in m |-> "yes"]
           General(g) == [f \in g |-> other[of[f]][2]]
           Before(p) == [f \in p |-> asked[f][2]]
<1>1. \A m : "activation_key" \notin m => FormFits(U, X, Mark(m))
  BY DEF FormFits, Secrets, SecretFields, NestedSecrets, OtherSecrets
<1>2. \A g : (\A f \in g : f \in {"hostname", "admin_password"} /\ of[f] \in DOMAIN other)
             => FormFits(U, X, General(g))
  BY DEF FormFits, SecretFields, OtherSecrets
<1>3. \A p : (\A f \in p : f \in {"rhn_username", "rhn_password", "license_mode",
                                  "admin_password", "hostname", "namespace"} \intersect DOMAIN asked)
             => FormFits(U, X, Before(p))
  BY DEF FormFits, SecretFields, AskedSecrets
<1>4. \/ AapForm(form, opts, other, asked) = form
      \/ \E m, g, p :
           /\ "activation_key" \notin m
           /\ \A f \in g : f \in {"hostname", "admin_password"} /\ of[f] \in DOMAIN other
           /\ \A f \in p : f \in {"rhn_username", "rhn_password", "license_mode",
                                  "admin_password", "hostname", "namespace"} \intersect DOMAIN asked
           /\ AapForm(form, opts, other, asked)
                = Mark(m) ++ General(g) ++ Before(p) ++ form
  BY DEF AapForm
<1> HIDE DEF Mark, General, Before
<1>5. QED
  BY <1>1, <1>2, <1>3, <1>4, BesideFits

\* What a request says, whatever files are there, but for what its blocks hold.
LEMMA InputFits ==
    ASSUME NEW n \in Environments, NEW r \in Requests(n), NEW w, NEW fs,
           NEW X \in SUBSET Secrets, X \intersect Blocks(w) = {}
    PROVE  Fits(Veiled(w), X, Input(r, w, fs))
<1> DEFINE c == IF w = "quay_s3" THEN "minio" ELSE w
           U == Veiled(w)
           form == IF c \in DOMAIN r.forms THEN r.forms[c] ELSE <<>>
           hosted == WithHosts(c, form, r.apps)
           e == Input(r, w, fs)
<1>1. FormFits(U, X, form)
  <2>1. ASSUME c \in DOMAIN r.forms, NEW f \in DOMAIN r.forms[c], r.forms[c][f] \in X
        PROVE  /\ f \in SecretFields \union U
               /\ f = "activation_key" => r.forms[c][f] = "activation_key"
    <3>1. /\ f \in SecretFields \union Unmarked(c) \union Blocks(c)
          /\ f \in Blocks(c) => r.forms[c][f] = f
          /\ f = "activation_key" => r.forms[c][f] = "activation_key"
      BY <2>1, RequestAssumption
    <3>2. CASE w = "quay_s3"
      BY <3>1, <3>2 DEF Veiled, Unmarked
    <3>3. CASE w # "quay_s3"
      BY <2>1, <3>1, <3>3 DEF Veiled
    <3>4. QED
      BY <3>2, <3>3
  <2>2. QED
    BY <2>1 DEF FormFits
<1>3. FormFits(U, X, hosted)
  BY <1>1, RequestAssumption, HostedFits
<1>4. FormFits(U, X, FormOf(r, c))
  <2>1. CASE c = "aap"
    <3>1. FormFits(U, X, AapForm(hosted, Picked(r, c), r.other, r.pre))
      BY <1>3, RequestAssumption, FilledFits
    <3>2. FormOf(r, c) = AapForm(hosted, Picked(r, c), r.other, r.pre)
      BY <2>1 DEF FormOf
    <3>3. QED
      BY <3>1, <3>2
  <2>2. CASE c # "aap"
    BY <1>3, <2>2 DEF FormOf
  <2>3. QED
    BY <2>1, <2>2
<1>5. e.form = FormOf(r, c) /\ e.pre = r.pre
  BY DEF Input
<1>6. \A f \in DOMAIN e.other :
        f \in OtherSecrets \/ (f \in DOMAIN r.other /\ e.other[f] = r.other[f])
  BY DEF Input, ++, OtherSecrets
<1> HIDE DEF e, c, U
<1>7. QED
  BY <1>4, <1>5, <1>6, RequestAssumption DEF Fits, FormFits, e, U

-----------------------------------------------------------------------------
(***************************************************************************)
(* What a merge decides.                                                   *)
(***************************************************************************)
Hides(f) == Secrets \ Open(f)

\* What has been read and decided for file f.
Decided(f, s) == InHandOf(s) /\ Clean(Hides(f), s.vars)

\* A form never passes a secret into the vars.
LEMMA PassedIsClean ==
    ASSUME NEW c, NEW e, NEW X \in SUBSET Secrets, c # "openshift", Fits(Unmarked(c), X, e)
    PROVE  Clean(X, Passed(c, e))
<1>1. Unmarked(c) \subseteq HeldBack(c, e)
  <2>1. CASE c = "aap"
    BY <2>1 DEF Unmarked, HeldBack, LeftBehind, AapFields
  <2>2. CASE c # "aap"
    BY <2>2 DEF Unmarked
  <2>3. QED
    BY <2>1, <2>2
<1>2. \A k \in DOMAIN Passed(c, e) :
        /\ k \in DOMAIN e.form \ SecretFields /\ k \notin Unmarked(c)
        /\ Passed(c, e)[k] = Text(e.form[k])
  BY <1>1 DEF Passed, Without, Public
<1>3. QED
  BY <1>2 DEF Fits, Clean, Fine, Text

LEMMA EnteredIsClean ==
    ASSUME NEW X, NEW c, NEW e, NEW vars, NEW vault, Clean(X, vars)
    PROVE  InHandOf(Entered(c, e, vars, vault)) /\ Clean(X, Entered(c, e, vars, vault).vars)
<1>1. PICK b : b = IF c = "satellite" THEN Without(vault, SatelliteRaw) ELSE vault
  OBVIOUS
<1>2. PICK a : a = Without(vars, LeftBehind(c, e))
  OBVIOUS
<1>3. Entered(c, e, vars, vault) = [vars |-> a, vault |-> b, dirty |-> FALSE, used |-> {}]
  BY <1>1, <1>2, Zenon DEF Entered
<1> DEFINE s == [vars |-> a, vault |-> b, dirty |-> FALSE, used |-> {}]
<1>4. InHandOf(s) /\ s.vars = a
  BY DEF InHandOf
<1> HIDE DEF s
<1>5. Clean(X, a)
  BY <1>2, CleanWithout
<1>6. QED
  BY <1>3, <1>4, <1>5 DEF s

LEMMA MergedIsClean ==
    ASSUME NEW X \in SUBSET Secrets, NEW c, NEW e, NEW s, c # "openshift",
           Fits(Unmarked(c), X, e), InHandOf(s), Clean(X, s.vars)
    PROVE  InHandOf(MergedVars(c, e, s)) /\ Clean(X, MergedVars(c, e, s).vars)
<1> DEFINE a == Passed(c, e) ++ s.vars
           s0 == [s EXCEPT !.vars = a]
<1>1. Clean(X, a)
  BY PassedIsClean, CleanOver
<1>2. InHandOf(s0) /\ s0.vars = a
  BY HandVars
<1>3. AllSafe(Unmarked(c), X, RulesOf(c, e, s0))
  BY RulesAreSafe
<1>4. MergedVars(c, e, s) = RunRules(e, s0, RulesOf(c, e, s0))
  BY DEF MergedVars
<1> HIDE DEF s0, a
<1>5. QED
  BY <1>1, <1>2, <1>3, <1>4, RunRulesIsClean

\* A file read, and its first half decided.
LEMMA ReadIsClean ==
    ASSUME NEW n \in Environments, NEW r \in Requests(n), NEW w, NEW fs, NEW f \in Files(w),
           \A g \in DOMAIN fs.vars : Clean(Hides(g), fs.vars[g])
    PROVE  Decided(f, Read(w, Input(r, w, fs), fs, f))
<1> DEFINE X == Hides(f)
           e == Input(r, w, fs)
           vs == Load(fs.vars, f)
           vt == LoadVault(fs, f)
           job == [vars |-> vs, vault |-> vt, dirty |-> FALSE, used |-> {}]
           s == Entered(w, e, vs, vt)
<1>1. Clean(X, vs)
  BY DEF Load, Clean
<1>2. X \in SUBSET Secrets
  BY DEF Hides
<1>3. Fits(Veiled(w), X, e)
  <2>1. X \intersect Blocks(w) = {}
    BY DEF Hides, Open, Blocks, Files
  <2>2. QED
    BY <1>2, <2>1, InputFits
<1> HIDE DEF e, X, vs, vt
<1>4. CASE w \in Jobs
  <2>1. InHandOf(job) /\ Clean(X, job.vars)
    BY <1>1 DEF InHandOf
  <2>2. AllSafe(Veiled(w), X, JobRules(w, e, job))
    BY <1>4, JobRulesAreSafe
  <2>3. Read(w, e, fs, f) = RunRules(e, job, JobRules(w, e, job))
    BY <1>4 DEF Read, vs, vt
  <2> HIDE DEF job
  <2>4. InHandOf(Read(w, e, fs, f)) /\ Clean(X, Read(w, e, fs, f).vars)
    BY <1>2, <1>3, <2>1, <2>2, <2>3, RunRulesIsClean
  <2>5. QED
    BY <2>4 DEF Decided, X, e
<1>5. CASE w \notin Jobs
  <2>1. InHandOf(s) /\ Clean(X, s.vars)
    BY <1>1, EnteredIsClean
  <2>2. w # "openshift" /\ Veiled(w) = Unmarked(w)
    BY <1>5 DEF Jobs, Veiled
  <2>3. InHandOf(MergedVars(w, e, s)) /\ Clean(X, MergedVars(w, e, s).vars)
    BY <1>2, <1>3, <2>1, <2>2, MergedIsClean
  <2>4. \/ Read(w, e, fs, f) = s
        \/ Read(w, e, fs, f) = MergedVars(w, e, s)
    BY <1>5 DEF Read, vs, vt
  <2> HIDE DEF s
  <2>5. QED
    BY <2>1, <2>3, <2>4 DEF Decided, X, e
<1>6. QED
  BY <1>4, <1>5

\* The second half of Satellite, which alone writes vars once more.
LEMMA SecondHalfIsClean ==
    ASSUME NEW n \in Environments, NEW r \in Requests(n), NEW fs, NEW s,
           Decided("satellite", s)
    PROVE  Decided("satellite", MergedSecrets("satellite", Input(r, "satellite", fs), s))
<1> DEFINE c == "satellite"
           X == Hides(c)
           e == Input(r, c, fs)
           b == LeftSecrets(e, s) ++ s.vault
           s0 == [s EXCEPT !.vault = b]
           s1 == NamedSecrets(c, e, s)
<1>1. X \in SUBSET Secrets /\ "activation_key" \notin X
  BY DEF Hides, Open, KeyNames
<1>2. Fits({}, X, e)
  <2>1. Veiled(c) = {} /\ X \intersect Blocks(c) = {}
    BY DEF Veiled, Unmarked, Blocks
  <2>2. QED
    BY <1>1, <2>1, InputFits
<1>3. InHandOf(s0) /\ s0.vars = s.vars
  BY DEF Decided, InHandOf
<1>4. s1 = RunRules(e, s0, SecretNames(c, e))
  BY DEF NamedSecrets
<1>5. MergedSecrets(c, e, s) = RunRules(e, s1, SatelliteSecrets(e, s1))
  BY DEF MergedSecrets, AndSatellite
<1> HIDE DEF e, s0, s1, X
<1>6. InHandOf(s1) /\ Clean(X, s1.vars)
  <2>1. Clean(X, s0.vars)
    BY <1>3 DEF Decided, X
  <2>2. AllSafe({}, X, SecretNames(c, e))
    BY SecondHalfIsSafe
  <2>3. QED
    BY <1>1, <1>2, <1>3, <1>4, <2>1, <2>2, RunRulesIsClean
<1>7. AllSafe({}, X, SatelliteSecrets(e, s1))
  BY <1>1, SecondHalfIsSafe
<1>8. InHandOf(MergedSecrets(c, e, s)) /\ Clean(X, MergedSecrets(c, e, s).vars)
  BY <1>1, <1>2, <1>5, <1>6, <1>7, RunRulesIsClean
<1>9. QED
  BY <1>8 DEF Decided, X, e

-----------------------------------------------------------------------------
(***************************************************************************)
(* What the tasks and the script do to the files.                          *)
(***************************************************************************)
\* No vars file shows a secret; only vault files that are there are encrypted.
ShowsNone(vars) == \A f \in DOMAIN vars : Clean(Hides(f), vars[f])
GoodFiles(fs) ==
    /\ fs = [k \in {"vars", "vault", "sealed"} |-> fs[k]]
    /\ ShowsNone(fs.vars)
    /\ fs.sealed \subseteq DOMAIN fs.vault

LEMMA OverShowsNone ==
    ASSUME NEW a, NEW b, ShowsNone(a), ShowsNone(b)
    PROVE  ShowsNone(a ++ b)
BY DEF ShowsNone, ++

LEMMA CleanedIsGood ==
    ASSUME NEW fs, NEW r, GoodFiles(fs)
    PROVE  GoodFiles(Cleaned(fs, r))
<1> DEFINE vaults == HasFiles(r) \ AwsConsumers
           a == Kept(fs.vars, HasFiles(r))
           b == Kept(fs.vault, vaults)
           c == fs.sealed \intersect vaults
           new == [vars |-> a, vault |-> b, sealed |-> c]
<1>1. ShowsNone(a)
  BY DEF GoodFiles, ShowsNone, Kept
<1>2. c \subseteq DOMAIN b
  BY DEF GoodFiles, Kept
<1>3. Cleaned(fs, r) = new
  BY DEF Cleaned
<1> HIDE DEF a, b, c
<1>4. new = [k \in {"vars", "vault", "sealed"} |-> new[k]]
  OBVIOUS
<1>5. QED
  BY <1>1, <1>2, <1>3, <1>4 DEF GoodFiles

LEMMA TemplateIsClean ==
    ASSUME NEW X, NEW c
    PROVE  Clean(X, TemplateVars(c))
BY RefIsFine DEF TemplateVars, Clean

LEMMA TemplatedIsGood ==
    ASSUME NEW fs, NEW r, GoodFiles(fs)
    PROVE  GoodFiles(Templated(fs, r))
<1> DEFINE new == [c \in HasFiles(r) |-> TemplateVars(c)]
           a == fs.vars ++ new
           b == fs.vault ++ [c \in (HasFiles(r) \ AwsConsumers) \union {"openshift"} |->
                               TemplateVault(c, r)]
           t == [fs EXCEPT !.vars = a, !.vault = b]
<1>1. ShowsNone(new)
  BY TemplateIsClean DEF ShowsNone
<1>2. ShowsNone(a)
  BY <1>1, OverShowsNone DEF GoodFiles
<1>3. DOMAIN fs.vault \subseteq DOMAIN b
  BY DEF ++
<1>4. Templated(fs, r) = t
  BY DEF Templated
<1> HIDE DEF a, b
<1>5. t = [k \in {"vars", "vault", "sealed"} |-> t[k]] /\ t.vars = a /\ t.vault = b
      /\ t.sealed = fs.sealed
  BY DEF GoodFiles
<1>6. QED
  BY <1>2, <1>3, <1>4, <1>5 DEF GoodFiles

LEMMA PutVaultIsGood ==
    ASSUME NEW fs, NEW new, GoodFiles(fs)
    PROVE  GoodFiles(PutVault(fs, new)) /\ PutVault(fs, new).vars = fs.vars
<1> DEFINE b == new ++ fs.vault
           c == fs.sealed \ DOMAIN new
           t == [fs EXCEPT !.vault = b, !.sealed = c]
<1>1. c \subseteq DOMAIN b
  BY DEF ++, GoodFiles
<1>2. PutVault(fs, new) = t
  BY DEF PutVault
<1> HIDE DEF b, c
<1>3. t = [k \in {"vars", "vault", "sealed"} |-> t[k]] /\ t.vars = fs.vars /\ t.vault = b
      /\ t.sealed = c
  BY DEF GoodFiles
<1>4. QED
  BY <1>1, <1>2, <1>3 DEF GoodFiles

LEMMA PutVarsIsGood ==
    ASSUME NEW fs, NEW a, GoodFiles(fs), ShowsNone(a)
    PROVE  GoodFiles([fs EXCEPT !.vars = a])
<1> DEFINE t == [fs EXCEPT !.vars = a]
<1>1. t = [k \in {"vars", "vault", "sealed"} |-> t[k]] /\ t.vars = a /\ t.vault = fs.vault
      /\ t.sealed = fs.sealed
  BY DEF GoodFiles
<1>2. QED
  BY <1>1 DEF GoodFiles

\* The script has in hand what it read and decided, of every file of a step.
GoodHand(w, h) ==
    /\ h = [f \in Files(w) |-> h[f]]
    /\ \A f \in Files(w) : Decided(f, h[f])

LEMMA InHandIsGood ==
    ASSUME NEW n \in Environments, NEW r \in Requests(n), NEW w, NEW fs, GoodFiles(fs)
    PROVE  GoodHand(w, InHand(w, Input(r, w, fs), fs))
<1>1. \A f \in Files(w) : Decided(f, Read(w, Input(r, w, fs), fs, f))
  BY ReadIsClean DEF GoodFiles, ShowsNone
<1>2. QED
  BY <1>1 DEF GoodHand, InHand

LEMMA WithVarsIsGood ==
    ASSUME NEW w, NEW e, NEW fs, NEW h, GoodFiles(fs), GoodHand(w, h)
    PROVE  GoodFiles(WithVars(w, e, fs, h))
<1> DEFINE mine == [f \in DOMAIN h |-> h[f].vars]
           settings == Kept(h["openshift"].vars, {"htpasswd_action", "htpasswd_idp_name",
                                                  "htpasswd_idp", "htpasswd_secret"})
           both == {"htpass_admin", "admin_htpasswd"}
           theirs == [f \in both |-> settings]
           users == [k \in {"htpasswd_users", "htpasswd_pass"} |->
                       h["openshift"].vault["htpasswd_users"]]
           vaults == [f \in both |-> users ++ LoadVault(fs, f)]
<1>1. ShowsNone(mine)
  BY DEF ShowsNone, GoodHand, Decided
<1>2. GoodFiles([fs EXCEPT !.vars = mine ++ fs.vars])
  BY <1>1, OverShowsNone, PutVarsIsGood DEF GoodFiles
<1>3. ASSUME w = "openshift"
      PROVE  GoodFiles([fs EXCEPT !.vars = mine ++ theirs ++ fs.vars])
  <2>1. Clean(Hides("openshift"), h["openshift"].vars)
    BY <1>3 DEF GoodHand, Decided, Files
  <2>2. Clean(Hides("openshift"), settings)
    BY <2>1 DEF Clean, Kept
  <2>3. ShowsNone(theirs)
    BY <2>2 DEF ShowsNone, Hides, Open, KeyNames, Blocks
  <2> HIDE DEF mine, theirs
  <2>4. ShowsNone((mine ++ theirs) ++ fs.vars)
    BY <1>1, <2>3, OverShowsNone DEF GoodFiles
  <2>5. QED
    BY <2>4, PutVarsIsGood
<1>4. \/ w = "openshift"
         /\ WithVars(w, e, fs, h)
              = PutVault([fs EXCEPT !.vars = mine ++ theirs ++ fs.vars], vaults)
      \/ WithVars(w, e, fs, h) = [fs EXCEPT !.vars = mine ++ fs.vars]
      \/ WithVars(w, e, fs, h) = fs
  BY DEF WithVars
<1> HIDE DEF mine, theirs, vaults
<1>5. QED
  BY <1>2, <1>3, <1>4, PutVaultIsGood

LEMMA WithVaultIsGood ==
    ASSUME NEW w, NEW e, NEW fs, NEW h, GoodFiles(fs)
    PROVE  GoodFiles(WithVault(w, e, fs, h))
BY PutVaultIsGood DEF WithVault

LEMMA WithOwnIsGood ==
    ASSUME NEW w, NEW fs, NEW s, GoodFiles(fs)
    PROVE  GoodFiles(WithOwn(w, fs, s))
<1> DEFINE b == Without(fs.vault, {w})
           c == fs.sealed \ {w}
           t == [fs EXCEPT !.vault = b, !.sealed = c]
<1>1. GoodFiles(t)
  <2>1. c \subseteq DOMAIN b
    BY DEF Without, GoodFiles
  <2> HIDE DEF b, c
  <2>2. t = [k \in {"vars", "vault", "sealed"} |-> t[k]] /\ t.vars = fs.vars /\ t.vault = b
        /\ t.sealed = c
    BY DEF GoodFiles
  <2>3. QED
    BY <2>1, <2>2 DEF GoodFiles
<1> HIDE DEF t
<1>2. QED
  BY <1>1, PutVaultIsGood DEF WithOwn, t

LEMMA WithSecretsIsGood ==
    ASSUME NEW n \in Environments, NEW r \in Requests(n), NEW w, NEW fs, NEW h,
           GoodFiles(fs), GoodHand(w, h)
    PROVE  GoodFiles(WithSecrets(w, Input(r, w, fs), fs, h))
<1> DEFINE e == Input(r, w, fs)
           s == MergedSecrets(w, e, h[w])
           aws == SharedAws(e, AwsInHand(fs))
           one == WithFound(FoundKey(w, e, h), w, fs, s)
           two == WithShared(w, one, aws)
<1>1. ASSUME w = "satellite"
      PROVE  GoodFiles([fs EXCEPT !.vars[w] = s.vars])
  <2>1. Decided(w, h[w])
    BY <1>1 DEF GoodHand, Files
  <2>2. Decided(w, s)
    BY <1>1, <2>1, SecondHalfIsClean
  <2>3. Clean(Hides(w), s.vars)
    BY <2>2 DEF Decided
  <2> HIDE DEF s
  <2>4. ShowsNone([fs.vars EXCEPT ![w] = s.vars])
    BY <2>3 DEF GoodFiles, ShowsNone
  <2>5. [fs EXCEPT !.vars[w] = s.vars] = [fs EXCEPT !.vars = [fs.vars EXCEPT ![w] = s.vars]]
    OBVIOUS
  <2>6. QED
    BY <2>4, <2>5, PutVarsIsGood
<1>2. WithSecrets(w, e, fs, h) = WithOwn(w, two, s)
  BY DEF WithSecrets, SecondHalf
<1> HIDE DEF e, s, aws
<1>3. GoodFiles(one)
  BY <1>1 DEF WithFound, FoundKey
<1> HIDE DEF one
<1>4. GoodFiles(two)
  BY <1>3, PutVaultIsGood DEF WithShared
<1> HIDE DEF two
<1>5. QED
  BY <1>2, <1>4, WithOwnIsGood DEF e

-----------------------------------------------------------------------------
(***************************************************************************)
(* The run.                                                                *)
(***************************************************************************)
\* The shape of the state without the files, which GoodFiles has.
RunShape ==
    /\ pc \in {"idle", "clean", "template", "work", "vault", "secrets", "done", "failed"}
    /\ sent \in 0 .. MaxRequests(env) /\ stops \in 0 .. MaxStops
    /\ (hand # <<>>) <=> pc \in {"vault", "secrets"}
    /\ pc \in {"idle", "clean", "template", "done", "failed"} => todo = <<>>

OverlayInv ==
    /\ env \in Environments
    /\ pc # "idle" => request \in Requests(env)
    /\ GoodFiles(files)
    /\ pc \in {"vault", "secrets"} => GoodHand(Now, hand)
    /\ RunShape

LEMMA HandIsNotEmpty ==
    ASSUME NEW w, NEW h, GoodHand(w, h)
    PROVE  h # <<>> /\ DOMAIN h = Files(w)
<1> DEFINE none == <<>>
<1>1. DOMAIN none = {}
  OBVIOUS
<1>2. Files(w) # {}
  BY DEF Files
<1>3. DOMAIN h = Files(w)
  BY DEF GoodHand
<1>4. QED
  BY <1>1, <1>2, <1>3

LEMMA InvImplies == OverlayInv => OverlayTypeOK /\ SecretsStayInVaults
<1> SUFFICES ASSUME OverlayInv
             PROVE  OverlayTypeOK /\ SecretsStayInVaults
  OBVIOUS
<1>1. OverlayTypeOK
  BY HandIsNotEmpty DEF OverlayInv, RunShape, GoodFiles, OverlayTypeOK
<1>2. SecretsStayInVaults
  BY DEF OverlayInv, GoodFiles, ShowsNone, Clean, Fine, Hides, SecretsStayInVaults, Vars, Load
<1>3. QED
  BY <1>1, <1>2

LEMMA InvInitially == Init => OverlayInv
<1> SUFFICES ASSUME Init
             PROVE  OverlayInv
  OBVIOUS
<1> DEFINE none == <<>>
<1>1. DOMAIN none = {}
  OBVIOUS
<1>2. GoodFiles(files)
  <2>1. files = [k \in {"vars", "vault", "sealed"} |-> files[k]]
    BY DEF Init
  <2>2. files.vars = none /\ files.sealed = {}
    BY DEF Init
  <2>3. QED
    BY <1>1, <2>1, <2>2 DEF GoodFiles, ShowsNone
<1>3. RunShape
  BY BoundsAssumption DEF Init, RunShape
<1>4. QED
  BY <1>2, <1>3 DEF Init, OverlayInv

LEMMA InvKept == OverlayInv /\ [Next]_overlayVars => OverlayInv'
<1> SUFFICES ASSUME OverlayInv, [Next]_overlayVars
             PROVE  OverlayInv'
  OBVIOUS
<1> USE DEF OverlayInv, RunShape, Steps
<1> DEFINE Rest == (pc \in {"vault", "secrets"} => GoodHand(Now, hand))
<1>1. ASSUME NEW r \in Requests(env), Ask(r)
      PROVE  OverlayInv'
  BY <1>1, BoundsAssumption DEF Ask
<1>2. CASE Rerun
  BY <1>2 DEF Rerun
<1>3. CASE RemoveStale
  BY <1>3, CleanedIsGood DEF RemoveStale
<1>4. CASE WriteTemplates
  BY <1>4, TemplatedIsGood DEF WriteTemplates
<1>5. CASE WriteVars
  <2>1. env \in Environments /\ request \in Requests(env)
    BY <1>5 DEF WriteVars
  <2>2. GoodHand(Now, hand')
    BY <1>5, <2>1, InHandIsGood DEF WriteVars, E
  <2>3. GoodFiles(files')
    BY <1>5, <2>2, WithVarsIsGood DEF WriteVars
  <2>4. Now' = Now
    BY <1>5 DEF WriteVars, Now
  <2>5. hand' # <<>>
    BY <2>2, HandIsNotEmpty
  <2>6. QED
    BY <1>5, <2>1, <2>2, <2>3, <2>4, <2>5 DEF WriteVars
<1>6. CASE Refuse
  BY <1>6 DEF Refuse
<1>7. CASE WriteVault
  <2>1. GoodFiles(files')
    BY <1>7, WithVaultIsGood DEF WriteVault
  <2>2. CASE pc' = "secrets" /\ UNCHANGED <<todo, hand>>
    <3>1. Now' = Now
      BY <2>2 DEF Now
    <3>2. QED
      BY <1>7, <2>1, <2>2, <3>1 DEF WriteVault
  <2>3. CASE Advance
    BY <1>7, <2>1, <2>3 DEF WriteVault, Advance
  <2>4. QED
    BY <1>7, <2>2, <2>3 DEF WriteVault
<1>8. CASE WriteSecrets
  <2>1. GoodFiles(files')
    BY <1>8, WithSecretsIsGood DEF WriteSecrets, E
  <2>2. QED
    BY <1>8, <2>1 DEF WriteSecrets, Advance
<1>9. CASE Encrypt
  <2>1. GoodFiles([files EXCEPT !.sealed = DOMAIN files.vault])
    <3> DEFINE b == DOMAIN files.vault
               t == [files EXCEPT !.sealed = b]
    <3> HIDE DEF b
    <3>1. t = [k \in {"vars", "vault", "sealed"} |-> t[k]] /\ t.vars = files.vars
          /\ t.vault = files.vault /\ t.sealed = b
      BY DEF GoodFiles
    <3> HIDE DEF t
    <3>2. GoodFiles(t)
      BY <3>1 DEF GoodFiles, b
    <3>3. QED
      BY <3>2 DEF t, b
  <2>2. GoodFiles(files')
    BY <1>9, <2>1 DEF Encrypt
  <2>3. QED
    BY <1>9, <2>2 DEF Encrypt
<1>10. CASE Stop
  BY <1>10, BoundsAssumption DEF Stop
<1>11. CASE UNCHANGED overlayVars
  BY <1>11 DEF overlayVars, Now
<1>12. QED
  BY <1>1, <1>2, <1>3, <1>4, <1>5, <1>6, <1>7, <1>8, <1>9, <1>10, <1>11 DEF Next

LEMMA InvAlways == Spec => []OverlayInv
BY InvInitially, InvKept, PTL DEF Spec

\* The script has files in hand only between the two writes of one of its steps,
\* they are the files of that step, and only vault files that are there are
\* encrypted.
THEOREM TypeCorrect == Spec => []OverlayTypeOK
BY InvAlways, InvImplies, PTL

\* No secret of a preflight file is ever readable in a vars file, whichever
\* components and options are generated, in whatever order, with whatever files
\* left from before, and wherever a run stops.
THEOREM SecretsStay == Spec => []SecretsStayInVaults
BY InvAlways, InvImplies, PTL

-----------------------------------------------------------------------------
(***************************************************************************)
(* One list of users.  The cluster's step comes first; its rules store the *)
(* list, or drop it, and nothing else ever touches the three vaults.       *)
(***************************************************************************)
TurnAfter(r, g, i) == IF i = 0 THEN <<>> ELSE g[i - 1] \o Turn(r, r.order[i])
Turns(r) == CHOOSE g : g = [i \in 0 .. Len(r.order) |-> TurnAfter(r, g, i)]

LEMMA OneOrNone ==
    ASSUME NEW S, NEW cond, NEW x, cond => x \in S
    PROVE  If(cond, <<x>>) \in Seq(S)
<1>1. <<>> \in Seq(S)
  OBVIOUS
<1>2. CASE cond
  <2>1. <<x>> \in Seq(S)
    BY <1>2
  <2>2. QED
    BY <1>2, <2>1 DEF If
<1>3. CASE ~cond
  BY <1>1, <1>3 DEF If
<1>4. QED
  BY <1>2, <1>3

LEMMA TurnsUnfold ==
    ASSUME NEW r, Len(r.order) \in Nat
    PROVE  /\ Merged(r) = Turns(r)[Len(r.order)]
           /\ \A i \in 0 .. Len(r.order) : Turns(r)[i] = TurnAfter(r, Turns(r), i)
<1> DEFINE N == Len(r.order)
           Upto(g, n) == g = [i \in 0 .. n |-> TurnAfter(r, g, i)]
           P == {n \in Nat : \E g : Upto(g, n)}
<1>1. 0 \in P
  <2> DEFINE g == [i \in 0 .. 0 |-> <<>>]
  <2>1. \A i \in 0 .. 0 : TurnAfter(r, g, i) = <<>>
    BY DEF TurnAfter
  <2>2. g = [i \in 0 .. 0 |-> TurnAfter(r, g, i)]
    BY <2>1
  <2> HIDE DEF g
  <2>3. QED
    BY <2>2
<1>2. ASSUME NEW n \in Nat, n \in P
      PROVE  n + 1 \in P
  <2>1. PICK g : Upto(g, n)
    BY <1>2
  <2> DEFINE h == [i \in 0 .. n + 1 |-> TurnAfter(r, g, i)]
  <2>2. \A i \in 0 .. n : h[i] = g[i]
    <3>1. \A i \in 0 .. n : g[i] = TurnAfter(r, g, i)
      BY <2>1
    <3>2. QED
      BY <3>1
  <2>3. ASSUME NEW i \in 0 .. n + 1
        PROVE  TurnAfter(r, g, i) = TurnAfter(r, h, i)
    <3>1. CASE i = 0
      BY <3>1 DEF TurnAfter
    <3>2. CASE i # 0
      <4>1. i - 1 \in 0 .. n
        BY <3>2
      <4> HIDE DEF h
      <4>2. QED
        BY <2>2, <3>2, <4>1 DEF TurnAfter
    <3>3. QED
      BY <3>1, <3>2
  <2>4. Upto(h, n + 1)
    BY <2>3
  <2> HIDE DEF Upto, h
  <2>5. QED
    BY <2>4
<1>3. \A n \in Nat : n \in P
  <2> HIDE DEF P
  <2>1. QED
    BY <1>1, <1>2, SetInduction
<1>4. PICK g : Upto(g, N)
  BY <1>3
<1> DEFINE T == Turns(r)
<1>5. T = [i \in 0 .. N |-> TurnAfter(r, T, i)]
  BY <1>4 DEF Turns
<1>6. Merged(r) = T[N]
  BY DEF Merged, Turns, TurnAfter
<1> HIDE DEF T, N
<1>7. \A i \in 0 .. N : T[i] = TurnAfter(r, T, i)
  BY <1>5
<1>8. QED
  BY <1>6, <1>7 DEF T, N

\* The components merged are those the script merges.
LEMMA MergedAreMerges ==
    ASSUME NEW r, Len(r.order) \in Nat
    PROVE  Merged(r) \in Seq(Merges(r) \ Jobs)
<1> DEFINE S == Merges(r) \ Jobs
           N == Len(r.order)
           T == Turns(r)
<1>1. Merged(r) = T[N]
  BY TurnsUnfold
<1>2. \A i \in 0 .. N : T[i] = TurnAfter(r, T, i)
  BY TurnsUnfold
<1> HIDE DEF T, N
<1>3. \A c : Turn(r, c) \in Seq(S)
  BY OneOrNone DEF Turn
<1> HIDE DEF S
<1> DEFINE Q == {n \in Nat : n <= N => T[n] \in Seq(S)}
<1>4. 0 \in Q
  <2>1. T[0] = <<>>
    BY <1>2 DEF TurnAfter, N
  <2>2. <<>> \in Seq(S)
    OBVIOUS
  <2>3. QED
    BY <2>1, <2>2
<1>5. ASSUME NEW n \in Nat, n \in Q
       PROVE  n + 1 \in Q
  <2> SUFFICES ASSUME n + 1 <= N
               PROVE  T[n + 1] \in Seq(S)
    OBVIOUS
  <2>1. n + 1 \in 0 .. N /\ n + 1 # 0 /\ (n + 1) - 1 = n /\ T[n] \in Seq(S)
    BY <1>5 DEF N
  <2>2. T[n + 1] = T[n] \o Turn(r, r.order[n + 1])
    BY <1>2, <2>1 DEF TurnAfter
  <2>3. QED
    BY <1>3, <2>1, <2>2
<1>6. \A n \in Nat : n \in Q
  <2> HIDE DEF Q
  <2>1. QED
    BY <1>4, <1>5, SetInduction
<1>7. QED
  BY <1>1, <1>6 DEF S, N

\* What the script may have to do, and that the cluster comes first.
Tasks(r) == (Jobs \ {"openshift"}) \union (Merges(r) \ Jobs)
            \union (IF "openshift" \in r.selected THEN {"openshift"} ELSE {})

LEMMA WorkIsOfTasks ==
    ASSUME NEW r, NEW fs, Len(r.order) \in Nat
    PROVE  /\ Work(r, fs) \in Seq(Tasks(r))
           /\ "openshift" \in r.selected =>
                Work(r, fs) # <<>> /\ Head(Work(r, fs)) = "openshift"
<1> DEFINE S == Tasks(r)
           first == If("openshift" \in r.selected, <<"openshift">>)
           a == If(ClusterOption(r, "ldap_auth"), <<"ldap_auth">>)
           b == If(ClusterOption(r, "oauth_rhbk") /\ "rhbk" \in DOMAIN fs.vars, <<"oauth_rhbk">>)
           c == If("openshift" \in r.selected
                     /\ Picked(r, "openshift") \intersect RouteOptions # {}, <<"routes">>)
           d == If("dedicated_hub_postgres" \in Picked(r, "aap"), <<"aap_hub_harden">>)
           m == Merged(r)
           q == If("quay" \in DOMAIN fs.vars, <<"quay_s3">>)
<1>1. Work(r, fs) = ((((((first \o a) \o b) \o c) \o d) \o m) \o q)
  BY DEF Work
<1>2. /\ first \in Seq(S) /\ a \in Seq(S) /\ b \in Seq(S) /\ c \in Seq(S) /\ d \in Seq(S)
      /\ q \in Seq(S)
  <2>1. /\ {"ldap_auth", "oauth_rhbk", "routes", "aap_hub_harden", "quay_s3"} \subseteq S
        /\ "openshift" \in r.selected => "openshift" \in S
    BY DEF Tasks, Jobs
  <2> HIDE DEF S
  <2>2. QED
    BY <2>1, OneOrNone
<1>3. m \in Seq(S)
  <2>1. Merges(r) \ Jobs \subseteq S
    BY DEF Tasks
  <2>2. m \in Seq(Merges(r) \ Jobs)
    BY MergedAreMerges
  <2> HIDE DEF m, S
  <2>3. QED
    BY <2>1, <2>2
<1>4. "openshift" \in r.selected => first = <<"openshift">>
  BY DEF If
<1> HIDE DEF S, first, a, b, c, d, m, q
<1>5. ASSUME NEW x \in Seq(S), NEW y \in Seq(S)
      PROVE  /\ x \o y \in Seq(S)
             /\ Len(x) > 0 => Len(x \o y) > 0 /\ (x \o y)[1] = x[1]
  BY <1>5
<1> DEFINE w == Work(r, fs)
<1>6. w \in Seq(S) /\ (Len(first) > 0 => Len(w) > 0 /\ w[1] = first[1])
  <2>1. first \o a \in Seq(S) /\ (Len(first) > 0 => Len(first \o a) > 0 /\ (first \o a)[1] = first[1])
    BY <1>2, <1>5
  <2> DEFINE w1 == first \o a
             w2 == w1 \o b
             w3 == w2 \o c
             w4 == w3 \o d
             w5 == w4 \o m
             w6 == w5 \o q
  <2> HIDE DEF w1
  <2>2. w2 \in Seq(S) /\ (Len(first) > 0 => Len(w2) > 0 /\ w2[1] = first[1])
    BY <1>2, <1>5, <2>1 DEF w1
  <2> HIDE DEF w2
  <2>3. w3 \in Seq(S) /\ (Len(first) > 0 => Len(w3) > 0 /\ w3[1] = first[1])
    BY <1>2, <1>5, <2>2
  <2> HIDE DEF w3
  <2>4. w4 \in Seq(S) /\ (Len(first) > 0 => Len(w4) > 0 /\ w4[1] = first[1])
    BY <1>2, <1>5, <2>3
  <2> HIDE DEF w4
  <2>5. w5 \in Seq(S) /\ (Len(first) > 0 => Len(w5) > 0 /\ w5[1] = first[1])
    BY <1>3, <1>5, <2>4
  <2> HIDE DEF w5
  <2>6. w6 \in Seq(S) /\ (Len(first) > 0 => Len(w6) > 0 /\ w6[1] = first[1])
    BY <1>2, <1>5, <2>5
  <2>7. w = w6
    BY <1>1 DEF w1, w2, w3, w4, w5
  <2>8. QED
    BY <2>6, <2>7
<1> HIDE DEF w
<1>7. Len(<<"openshift">>) > 0 /\ <<"openshift">>[1] = "openshift"
  OBVIOUS
<1>8. Len(w) > 0 => w # <<>> /\ Head(w) = w[1]
  BY <1>6
<1>9. QED
  BY <1>4, <1>6, <1>7, <1>8 DEF w, S

\* A rule that says what becomes of the list, when no later one touches a vault.
LEMMA LastWordStays ==
    ASSUME NEW U, NEW X \in SUBSET Secrets, NEW e, NEW s, NEW rules, NEW m, NEW on,
           Fits(U, X, e), InHandOf(s), Clean(X, s.vars), AllSafe(U, X, rules),
           m \in 1 .. Len(rules),
           \A h : InHandOf(h) =>
             ("htpasswd_users" \in DOMAIN Apply(e, h, rules[m]).vault <=> on),
           \A i \in m + 1 .. Len(rules) : rules[i].kind \in {"copy", "drop"}
    PROVE  "htpasswd_users" \in DOMAIN RunRules(e, s, rules).vault <=> on
<1> DEFINE T == After(e, s, rules)
           Said(h) == "htpasswd_users" \in DOMAIN h.vault <=> on
           Good(h) == InHandOf(h) /\ Clean(X, h.vars)
           P == {n \in Nat : n <= Len(rules) => Good(T[n]) /\ (m <= n => Said(T[n]))}
<1>1. Len(rules) \in Nat /\ DOMAIN rules = 1 .. Len(rules) /\ m \in Nat /\ m > 0
  BY DEF AllSafe
<1>2. \A i \in 0 .. Len(rules) : T[i] = AfterRule(e, s, rules, T, i)
  BY <1>1, AfterUnfolds
<1>3. \A h, r : Good(h) /\ Safe(U, X, r) => Good(Apply(e, h, r))
  BY ApplyIsClean
<1>4. Good(s)
  OBVIOUS
<1>5. ASSUME NEW h, NEW r, InHandOf(h), r.kind \in {"copy", "drop"}
      PROVE  Apply(e, h, r).vault = h.vault
  <2> DEFINE v == FirstPresent(e, h, r.from)
             raw == Look(e, h, r.from[1])
  <2>1. \A a : [h EXCEPT !.vars = a].vault = h.vault
    BY <1>5 DEF InHandOf
  <2>2. Apply(e, h, r) = Applied(e, h, r, v, raw)
    BY DEF Apply
  <2> HIDE DEF v, raw
  <2>3. CASE r.kind = "copy"
    <3>1. \/ Applied(e, h, r, v, raw) = h
          \/ Applied(e, h, r, v, raw) = [h EXCEPT !.vars = SetAll(h.vars, r.to, v)]
      BY <2>3 DEF Applied
    <3>2. QED
      BY <2>1, <2>2, <3>1
  <2>4. CASE r.kind = "drop"
    <3>1. Applied(e, h, r, v, raw) = [h EXCEPT !.vars = Without(h.vars, r.to)]
      BY <2>4 DEF Applied
    <3>2. QED
      BY <2>1, <2>2, <3>1
  <2>5. QED
    BY <1>5, <2>3, <2>4
<1>6. \A h : InHandOf(h) => Said(Apply(e, h, rules[m]))
  OBVIOUS
<1>7. \A h, r : Said(h) /\ InHandOf(h) /\ r.kind \in {"copy", "drop"} => Said(Apply(e, h, r))
  BY <1>5
<1>8. \A h : Good(h) => InHandOf(h)
  OBVIOUS
<1> HIDE DEF T, Good, Said
<1>9. 0 \in P
  BY <1>1, <1>2, <1>4 DEF AfterRule
<1>10. ASSUME NEW n \in Nat, n \in P
       PROVE  n + 1 \in P
  <2> SUFFICES ASSUME n + 1 <= Len(rules)
               PROVE  Good(T[n + 1]) /\ (m <= n + 1 => Said(T[n + 1]))
    OBVIOUS
  <2>1. n + 1 \in 0 .. Len(rules) /\ n + 1 \in DOMAIN rules /\ n + 1 # 0
    BY <1>1
  <2>2. Good(T[n]) /\ (m <= n => Said(T[n]))
    BY <1>1, <1>10
  <2>3. T[n + 1] = Apply(e, T[n], rules[n + 1])
    <3>1. T[n + 1] = AfterRule(e, s, rules, T, n + 1)
      BY <1>2, <2>1
    <3>2. (n + 1) - 1 = n
      OBVIOUS
    <3>3. QED
      BY <2>1, <3>1, <3>2 DEF AfterRule
  <2>4. Safe(U, X, rules[n + 1])
    BY <2>1 DEF AllSafe
  <2>5. Good(T[n + 1])
    BY <1>3, <2>2, <2>3, <2>4
  <2>6. CASE m = n + 1
    BY <1>6, <1>8, <2>2, <2>3, <2>5, <2>6
  <2>7. CASE m <= n
    <3>1. n + 1 \in m + 1 .. Len(rules)
      BY <1>1, <2>7
    <3>2. rules[n + 1].kind \in {"copy", "drop"}
      BY <3>1
    <3>3. QED
      BY <1>7, <1>8, <2>2, <2>3, <2>5, <2>7, <3>2
  <2>8. QED
    BY <1>1, <2>5, <2>6, <2>7
<1>11. \A n \in Nat : n \in P
  <2> HIDE DEF P
  <2>1. QED
    BY <1>9, <1>10, SetInduction
<1>12. Said(T[Len(rules)])
  BY <1>1, <1>11
<1>13. QED
  BY <1>12, RunRulesIsAfter DEF T, Said

\* The last rule of Admin HTPasswd.
UsersRule(e) ==
    IF Chosen(e, "admin_htpasswd")
    THEN StashOnly(<<"htpasswd_users", "htpasswd_pass">>, Users)
    ELSE DropVault(KeySet(<<"htpasswd_users", "htpasswd_pass">>))

LEMMA UsersRuleIsLast ==
    ASSUME NEW e, NEW s
    PROVE  Len(AdminHtpasswd(e, s)) > 0 /\ Len(AdminHtpasswd(e, s)) \in Nat
           /\ AdminHtpasswd(e, s)[Len(AdminHtpasswd(e, s))] = UsersRule(e)
<1> DEFINE users == <<"htpasswd_users", "htpasswd_pass">>
<1>1. CASE Chosen(e, "admin_htpasswd")
  <2> DEFINE a == Copy({"htpasswd_action"}, <<Pub("htpasswd_action"), Const("add")>>)
             b == Copy({"htpasswd_idp_name", "htpasswd_idp"},
                       <<Pub("htpasswd_idp_name"), Const("htpasswd-admin")>>)
             c == Copy({"htpasswd_secret"},
                       Pubs(<<"htpasswd_secret", "htpasswd_idp_name">>)
                         \o <<Const("htpasswd-admin-secret")>>)
             d == StashOnly(users, Users)
  <2>1. AdminHtpasswd(e, s) = <<a, b, c, d>>
    BY <1>1 DEF AdminHtpasswd
  <2>2. UsersRule(e) = d
    BY <1>1 DEF UsersRule
  <2> HIDE DEF a, b, c, d
  <2>3. QED
    BY <2>1, <2>2
<1>2. CASE ~Chosen(e, "admin_htpasswd")
  <2> DEFINE a == Drop({"htpasswd_action", "htpasswd_idp_name", "htpasswd_idp",
                        "htpasswd_secret"})
             b == DropVault(KeySet(users))
  <2>1. AdminHtpasswd(e, s) = <<a, b>>
    BY <1>2 DEF AdminHtpasswd
  <2>2. UsersRule(e) = b
    BY <1>2 DEF UsersRule
  <2> HIDE DEF a, b
  <2>3. QED
    BY <2>1, <2>2
<1>3. QED
  BY <1>1, <1>2

LEMMA BannerKinds ==
    ASSUME NEW e, NEW s
    PROVE  /\ Len(ConsoleBanner(e, s)) \in Nat
           /\ \A i \in 1 .. Len(ConsoleBanner(e, s)) :
                ConsoleBanner(e, s)[i].kind \in {"copy", "drop"}
<1> DEFINE colors == {"location", "background_color", "text_color"}
           ocp(n) == "ocp_console_banner_" \o n
           text == {ocp("text"), "console_banner_text"}
           state == {"state", "console_banner_state", ocp("state")}
           gone == text \union {ocp(n) : n \in colors}
           a == Drop(gone \union state)
           b == Copy(state, <<Pub("banner_state"), Const("add")>>)
           c == Drop(gone \union {"console_banner_" \o n : n \in colors})
           d == Copy(text, <<Pub("banner_text")>>)
           f == Copy({ocp("location")}, <<Pub("banner_location")>>)
           g == Copy({ocp("background_color")}, <<Pub("banner_background_color")>>)
           h == Copy({ocp("text_color")}, <<Pub("banner_text_color")>>)
           B == ConsoleBanner(e, s)
           V == {a, b, c, d, f, g, h}
<1>1. \A r \in V : r.kind \in {"copy", "drop"}
  BY DEF Copy, Drop, Rule
<1>2. B = <<a>> \/ B = <<b>> \o <<c>> \/ B = <<b>> \o <<d, f, g, h>>
  BY DEF ConsoleBanner
<1>3. a \in V /\ b \in V /\ c \in V /\ d \in V /\ f \in V /\ g \in V /\ h \in V
  OBVIOUS
<1> HIDE DEF a, b, c, d, f, g, h, V, B
<1>4. /\ <<a>> \in Seq(V) /\ <<b>> \in Seq(V) /\ <<c>> \in Seq(V)
      /\ <<d, f, g, h>> \in Seq(V)
  BY <1>3
<1>5. B \in Seq(V)
  <2>1. \A x, y \in Seq(V) : x \o y \in Seq(V)
    OBVIOUS
  <2>2. QED
    BY <1>2, <1>4, <2>1
<1>6. QED
  BY <1>1, <1>5 DEF B

\* What the script has in hand of the cluster once its rules have run.
LEMMA UsersAreInHand ==
    ASSUME NEW n \in Environments, NEW r \in Requests(n), NEW fs, GoodFiles(fs),
           ~Refused(r, fs), "openshift" \in r.selected
    PROVE  "htpasswd_users"
             \in DOMAIN InHand("openshift", Input(r, "openshift", fs), fs)["openshift"].vault
           <=> ClusterJob(r, "admin_htpasswd")
<1> DEFINE w == "openshift"
           e == Input(r, w, fs)
           U == Unmarked(w)
           X == Hides(w)
           vs == Load(fs.vars, w)
           vt == LoadVault(fs, w)
           s == [vars |-> vs, vault |-> vt, dirty |-> FALSE, used |-> {}]
           A == BeforeUsers(e, s)
           B == AdminHtpasswd(e, s)
           C == ConsoleBanner(e, s)
           rules == (A \o B) \o C
           m == Len(A) + Len(B)
           on == ClusterJob(r, "admin_htpasswd")
<1>1. on <=> Chosen(e, "admin_htpasswd")
  BY DEF ClusterJob, ClusterOption, Chosen, Input, Jobs
<1>2. InHand(w, e, fs)[w] = RunRules(e, s, rules)
  <2>1. w \in Files(w) /\ w \in Jobs
    BY DEF Files, Jobs
  <2>2. InHand(w, e, fs)[w] = Read(w, e, fs, w)
    BY <2>1 DEF InHand
  <2>3. Read(w, e, fs, w) = RunRules(e, s, JobRules(w, e, s))
    BY <2>1 DEF Read
  <2>4. JobRules(w, e, s) = rules
    BY DEF JobRules, OpenShift, BeforeUsers
  <2>5. QED
    BY <2>2, <2>3, <2>4
<1>3. Fits(U, X, e)
  <2>1. U = Veiled(w) /\ X \in SUBSET Secrets /\ X \intersect Blocks(w) = {}
    BY DEF Veiled, Hides, Open
  <2>2. QED
    BY <2>1, InputFits
<1>4. Clean(X, vs)
  BY DEF GoodFiles, ShowsNone, Load, Clean
<1>5. X \in SUBSET Secrets
  BY DEF Hides
<1>6. Chosen(e, "admin_htpasswd") => \A h : FirstPresent(e, h, Users) # None
  <2> DEFINE none == [vars |-> <<>>, vault |-> <<>>]
  <2>1. Chosen(e, "admin_htpasswd") => FirstPresent(e, none, Users) # None
    BY DEF Refused, RefusesUsers
  <2>2. \A h : Look(e, h, Users[1]) = Look(e, none, Users[1])
                /\ Look(e, h, Users[2]) = Look(e, none, Users[2])
    BY DEF Look, Users, Pub
  <2>3. DOMAIN Users = {1, 2}
    BY DEF Users
  <2> HIDE DEF e, none
  <2>4. ASSUME NEW h
        PROVE  FirstPresent(e, h, Users) = FirstPresent(e, none, Users)
    <3> DEFINE given(x) == {i \in DOMAIN Users : Look(e, x, Users[i]) \notin Missing}
    <3>1. given(h) = given(none)
      BY <2>2, <2>3
    <3>2. ASSUME given(h) # {}
          PROVE  Min(given(h)) \in {1, 2}
      <4>1. given(h) \in SUBSET Nat /\ given(h) \subseteq {1, 2}
        BY <2>3
      <4> DEFINE G == given(h)
      <4> HIDE DEF G, given
      <4>2. PICK x \in G : \A y \in G : x <= y
        BY <3>2, <4>1, LeastNumber DEF G
      <4>3. Min(G) \in G
        BY <4>2 DEF Min
      <4>4. QED
        BY <4>1, <4>3 DEF G
    <3>3. QED
      BY <2>2, <3>1, <3>2 DEF FirstPresent, FirstBut
  <2>5. QED
    BY <2>1, <2>4
<1>7. \A h : InHandOf(h) =>
        ("htpasswd_users" \in DOMAIN Apply(e, h, UsersRule(e)).vault <=> on)
  <2> DEFINE keys == <<"htpasswd_users", "htpasswd_pass">>
             stash == StashOnly(keys, Users)
             drop == DropVault(KeySet(keys))
  <2>1. "htpasswd_users" \in KeySet(keys)
    BY DEF KeySet
  <2> HIDE DEF e, on, keys
  <2> SUFFICES ASSUME NEW h, InHandOf(h)
               PROVE  "htpasswd_users" \in DOMAIN Apply(e, h, UsersRule(e)).vault <=> on
    OBVIOUS
  <2>2. CASE on
    <3> DEFINE v == FirstPresent(e, h, Users)
               raw == Look(e, h, stash.from[1])
               a == SetAll(h.vault, KeySet(keys), v)
    <3>1. UsersRule(e) = stash
      BY <1>1, <2>2 DEF UsersRule, keys
    <3>2. stash.kind = "stashonly" /\ stash.from = Users /\ stash.keys = keys
      BY DEF StashOnly, Rule
    <3>3. Apply(e, h, stash) = Applied(e, h, stash, v, raw)
      BY <3>2 DEF Apply
    <3>4. v # None
      BY <1>1, <1>6, <2>2
    <3> HIDE DEF v, raw, stash
    <3>5. Applied(e, h, stash, v, raw) = [h EXCEPT !.vault = a, !.dirty = TRUE]
      BY <3>2, <3>4 DEF Applied
    <3>6. "htpasswd_users" \in DOMAIN a
      BY <2>1 DEF SetAll, ++
    <3> HIDE DEF a
    <3>7. [h EXCEPT !.vault = a, !.dirty = TRUE].vault = a
      BY DEF InHandOf
    <3>8. QED
      BY <2>2, <3>1, <3>3, <3>5, <3>6, <3>7
  <2>3. CASE ~on
    <3> DEFINE v == FirstPresent(e, h, drop.from)
               raw == Look(e, h, drop.from[1])
               a == Without(h.vault, KeySet(keys))
    <3>1. UsersRule(e) = drop
      BY <1>1, <2>3 DEF UsersRule, keys
    <3>2. drop.kind = "dropvault" /\ drop.to = KeySet(keys)
      BY DEF DropVault, Rule
    <3>3. Apply(e, h, drop) = Applied(e, h, drop, v, raw)
      BY DEF Apply
    <3> HIDE DEF v, raw, drop
    <3>4. \/ Applied(e, h, drop, v, raw) = h /\ KeySet(keys) \intersect DOMAIN h.vault = {}
          \/ Applied(e, h, drop, v, raw) = [h EXCEPT !.vault = a, !.dirty = TRUE]
      BY <3>2 DEF Applied
    <3>5. "htpasswd_users" \notin DOMAIN a
      BY <2>1 DEF Without
    <3> HIDE DEF a
    <3>6. [h EXCEPT !.vault = a, !.dirty = TRUE].vault = a
      BY DEF InHandOf
    <3>7. QED
      BY <2>1, <2>3, <3>1, <3>3, <3>4, <3>5, <3>6
  <2>4. QED
    BY <2>2, <2>3
<1>8. /\ AllSafe(U, X, A) /\ AllSafe(U, X, B) /\ AllSafe(U, X, C)
      /\ AllSafe(U, X, A \o B) /\ AllSafe(U, X, rules)
  BY OpenShiftIsSafe, BothSafe
<1>9. InHandOf(s) /\ Clean(X, s.vars)
  BY <1>4 DEF InHandOf
<1>10. Len(B) > 0 /\ Len(B) \in Nat /\ B[Len(B)] = UsersRule(e)
  BY UsersRuleIsLast
<1>11. Len(C) \in Nat /\ \A i \in 1 .. Len(C) : C[i].kind \in {"copy", "drop"}
  BY BannerKinds
<1> HIDE DEF e, s, A, B, C, U, X, on
<1>12. /\ m \in 1 .. Len(rules) /\ rules[m] = UsersRule(e)
       /\ \A i \in m + 1 .. Len(rules) : rules[i].kind \in {"copy", "drop"}
  <2> DEFINE V == {A[i] : i \in DOMAIN A} \union {B[i] : i \in DOMAIN B} \union {C[i] : i \in DOMAIN C}
  <2>1. A \in Seq(V) /\ B \in Seq(V) /\ C \in Seq(V)
    BY <1>8 DEF AllSafe
  <2> HIDE DEF V
  <2> DEFINE AB == A \o B
  <2>2. AB \in Seq(V) /\ Len(AB) = m /\ AB[m] = B[Len(B)]
    BY <1>10, <2>1
  <2> HIDE DEF AB
  <2>3. /\ Len(AB \o C) = Len(AB) + Len(C)
        /\ \A i \in 1 .. Len(AB) : (AB \o C)[i] = AB[i]
        /\ \A i \in 1 .. Len(C) : (AB \o C)[Len(AB) + i] = C[i]
    <3>1. ASSUME NEW x \in Seq(V), NEW y \in Seq(V)
          PROVE  Len(x \o y) = Len(x) + Len(y)
      OBVIOUS
    <3>2. ASSUME NEW x \in Seq(V), NEW y \in Seq(V), NEW i \in 1 .. Len(x)
          PROVE  (x \o y)[i] = x[i]
      OBVIOUS
    <3>3. ASSUME NEW x \in Seq(V), NEW y \in Seq(V), NEW i \in 1 .. Len(y)
          PROVE  (x \o y)[Len(x) + i] = y[i]
      OBVIOUS
    <3>4. QED
      BY <2>1, <2>2, <3>1, <3>2, <3>3
  <2>4. m \in Nat /\ m > 0
    BY <1>10, <2>1
  <2>5. rules = AB \o C
    BY DEF AB
  <2> HIDE DEF m, rules
  <2>6. m \in 1 .. Len(rules) /\ rules[m] = UsersRule(e)
    BY <1>10, <1>11, <2>2, <2>3, <2>4, <2>5
  <2>7. ASSUME NEW i \in m + 1 .. Len(rules)
        PROVE  rules[i].kind \in {"copy", "drop"}
    <3>1. i - m \in 1 .. Len(C) /\ m + (i - m) = i
      BY <1>11, <2>2, <2>3, <2>4, <2>5
    <3>2. rules[i] = C[i - m]
      BY <2>2, <2>3, <2>5, <3>1
    <3>3. QED
      BY <1>11, <3>1, <3>2
  <2>8. QED
    BY <2>6, <2>7
<1> HIDE DEF m, rules
<1>13. "htpasswd_users" \in DOMAIN RunRules(e, s, rules).vault <=> on
  BY <1>3, <1>5, <1>7, <1>8, <1>9, <1>12, LastWordStays
<1>14. QED
  BY <1>2, <1>13 DEF e, on

Keepers == {"openshift", "htpass_admin", "admin_htpasswd"}
Others == {"htpass_admin", "admin_htpasswd"}
UsersAt(fs, f) == At(Load(fs.vault, f), "htpasswd_users")
SameVaults(fs, gs) == \A f \in Keepers : Load(gs.vault, f) = Load(fs.vault, f)

UsersAgree(r, fs) ==
    \A f \in Keepers :
      UsersAt(fs, f) = IF ClusterJob(r, "admin_htpasswd") THEN UsersAt(fs, "openshift") ELSE None

\* No vault has users from a run before once the stale ones are removed, except
\* the cluster's, and that one only if its step is to come.
StaleUsersGone(r, fs) ==
    /\ ~ClusterJob(r, "admin_htpasswd") => Others \intersect DOMAIN fs.vault = {}
    /\ "openshift" \notin r.selected => "openshift" \notin DOMAIN fs.vault

OthersBare(r, fs) ==
    ~ClusterJob(r, "admin_htpasswd") => \A f \in Others : UsersAt(fs, f) = None

ThreeParts(fs) == fs = [k \in {"vars", "vault", "sealed"} |-> fs[k]]

LEMMA GoodHasThree == ASSUME NEW fs, GoodFiles(fs) PROVE ThreeParts(fs)
BY DEF GoodFiles, ThreeParts

LEMMA VaultOfPut ==
    ASSUME NEW fs, NEW new, ThreeParts(fs)
    PROVE  PutVault(fs, new).vault = new ++ fs.vault /\ ThreeParts(PutVault(fs, new))
<1> DEFINE a == new ++ fs.vault
           b == fs.sealed \ DOMAIN new
<1>1. PutVault(fs, new) = [fs EXCEPT !.vault = a, !.sealed = b]
  BY DEF PutVault
<1> HIDE DEF a, b
<1>2. [fs EXCEPT !.vault = a, !.sealed = b].vault = a
      /\ ThreeParts([fs EXCEPT !.vault = a, !.sealed = b])
  BY DEF ThreeParts
<1>3. QED
  BY <1>1, <1>2 DEF a

LEMMA PutElsewhere ==
    ASSUME NEW fs, NEW new, ThreeParts(fs), DOMAIN new \intersect Keepers = {}
    PROVE  SameVaults(fs, PutVault(fs, new))
<1> DEFINE vault == new ++ fs.vault
<1>1. \A f \in Keepers : (f \in DOMAIN vault <=> f \in DOMAIN fs.vault)
                         /\ (f \in DOMAIN vault => vault[f] = fs.vault[f])
  BY DEF ++
<1>2. PutVault(fs, new).vault = vault
  BY VaultOfPut
<1> HIDE DEF vault
<1>3. QED
  BY <1>1, <1>2 DEF SameVaults, Load

LEMMA FilesOfOthers ==
    ASSUME NEW w, w \notin Keepers
    PROVE  Files(w) \intersect Keepers = {}
BY DEF Files, Keepers

LEMMA TasksAreNoOthers ==
    ASSUME NEW n \in Environments, NEW r \in Requests(n), NEW w \in Tasks(r)
    PROVE  w \notin Others
BY RequestAssumption DEF Tasks, Jobs, Merges, Others

LEMMA CleanedOfUsers ==
    ASSUME NEW n \in Environments, NEW r \in Requests(n), NEW fs
    PROVE  StaleUsersGone(r, Cleaned(fs, r))
<1>1. DOMAIN Cleaned(fs, r).vault \subseteq HasFiles(r)
  BY DEF Cleaned, Kept
<1>2. ~ClusterJob(r, "admin_htpasswd") => Others \intersect HasFiles(r) = {}
  BY RequestAssumption DEF HasFiles, Others
<1>3. "openshift" \notin r.selected => "openshift" \notin HasFiles(r)
  BY DEF HasFiles
<1>4. QED
  BY <1>1, <1>2, <1>3 DEF StaleUsersGone

LEMMA TemplatesBringNoUsers ==
    ASSUME NEW n \in Environments, NEW r \in Requests(n), NEW fs, GoodFiles(fs),
           StaleUsersGone(r, fs)
    PROVE  /\ OthersBare(r, Templated(fs, r))
           /\ "openshift" \notin r.selected => UsersAgree(r, Templated(fs, r))
<1> DEFINE new == [c \in (HasFiles(r) \ AwsConsumers) \union {"openshift"} |-> TemplateVault(c, r)]
           gs == Templated(fs, r)
<1>1. gs.vault = fs.vault ++ new
  BY DEF Templated, GoodFiles
<1>2. "htpasswd_users" \notin DOMAIN TemplateVault("openshift", r)
  BY DEF TemplateVault
<1>3. ~ClusterJob(r, "admin_htpasswd") => Others \intersect DOMAIN new = {}
  BY RequestAssumption DEF HasFiles, Others
<1>4. new["openshift"] = TemplateVault("openshift", r) /\ "openshift" \in DOMAIN new
  OBVIOUS
<1> HIDE DEF new, gs
<1>5. OthersBare(r, gs)
  <2> DEFINE none == <<>>
  <2>1. DOMAIN none = {}
    OBVIOUS
  <2> SUFFICES ASSUME ~ClusterJob(r, "admin_htpasswd"), NEW f \in Others
               PROVE  UsersAt(gs, f) = None
    BY DEF OthersBare
  <2>2. f \notin DOMAIN gs.vault
    BY <1>1, <1>3 DEF StaleUsersGone, ++
  <2>3. Load(gs.vault, f) = none
    BY <2>2 DEF Load
  <2> HIDE DEF none
  <2>4. QED
    BY <2>1, <2>3 DEF UsersAt, At
<1>6. ASSUME "openshift" \notin r.selected
      PROVE  UsersAgree(r, gs)
  <2>1. ~ClusterJob(r, "admin_htpasswd")
    BY <1>6 DEF ClusterJob
  <2>2. gs.vault["openshift"] = TemplateVault("openshift", r) /\ "openshift" \in DOMAIN gs.vault
    BY <1>1, <1>4, <1>6 DEF StaleUsersGone, ++
  <2>3. UsersAt(gs, "openshift") = None
    BY <1>2, <2>2 DEF UsersAt, At, Load
  <2>4. QED
    BY <1>5, <2>1, <2>3 DEF UsersAgree, OthersBare, Keepers, Others
<1>7. QED
  BY <1>5, <1>6 DEF gs

LEMMA WithVarsOfUsers ==
    ASSUME NEW w, NEW e, NEW fs, NEW h, GoodFiles(fs)
    PROVE  /\ ~(w = "openshift" /\ Chosen(e, "admin_htpasswd")) =>
                WithVars(w, e, fs, h).vault = fs.vault
           /\ w = "openshift" /\ Chosen(e, "admin_htpasswd") =>
                \A f \in Others :
                  UsersAt(WithVars(w, e, fs, h), f) = h["openshift"].vault["htpasswd_users"]
<1> DEFINE users == [k \in {"htpasswd_users", "htpasswd_pass"} |->
                       h["openshift"].vault["htpasswd_users"]]
           settings == Kept(h["openshift"].vars, {"htpasswd_action", "htpasswd_idp_name",
                                                  "htpasswd_idp", "htpasswd_secret"})
           mine == [f \in DOMAIN h |-> h[f].vars]
           a == mine ++ [f \in Others |-> settings] ++ fs.vars
           one == [fs EXCEPT !.vars = a]
           new == [f \in Others |-> users ++ LoadVault(fs, f)]
<1>1. CASE ~(w = "openshift" /\ Chosen(e, "admin_htpasswd"))
  <2>1. \A b : [fs EXCEPT !.vars = b].vault = fs.vault
    BY DEF GoodFiles
  <2>2. WithVars(w, e, fs, h) = fs
        \/ WithVars(w, e, fs, h) = [fs EXCEPT !.vars = mine ++ fs.vars]
    BY <1>1 DEF WithVars
  <2>3. QED
    BY <1>1, <2>1, <2>2
<1>2. CASE w = "openshift" /\ Chosen(e, "admin_htpasswd")
  <2>1. WithVars(w, e, fs, h) = PutVault(one, new)
    BY <1>2 DEF WithVars, Others
  <2>2. PutVault(one, new).vault = new ++ one.vault
    BY DEF PutVault, GoodFiles
  <2>3. \A f \in Others : "htpasswd_users" \in DOMAIN new[f]
          /\ new[f]["htpasswd_users"] = h["openshift"].vault["htpasswd_users"]
    BY DEF ++
  <2>4. DOMAIN new = Others
    OBVIOUS
  <2> HIDE DEF new, one
  <2>5. \A f \in Others : Load(PutVault(one, new).vault, f) = new[f]
    BY <2>2, <2>4 DEF Load, ++
  <2>6. QED
    BY <1>2, <2>1, <2>3, <2>5 DEF UsersAt, At
<1>3. QED
  BY <1>1, <1>2

\* A step of another component or job writes none of the three vaults.
LEMMA WithVaultElsewhere ==
    ASSUME NEW w, NEW e, NEW fs, NEW h, GoodFiles(fs), DOMAIN h = Files(w), w \notin Keepers
    PROVE  SameVaults(fs, WithVault(w, e, fs, h))
<1> DEFINE new == [f \in DOMAIN h |-> h[f].vault]
<1>1. SameVaults(fs, fs)
  BY DEF SameVaults
<1>2. SameVaults(fs, PutVault(fs, new))
  BY PutElsewhere, FilesOfOthers, GoodHasThree
<1> HIDE DEF new
<1>3. WithVault(w, e, fs, h) = fs \/ WithVault(w, e, fs, h) = PutVault(fs, new)
  BY DEF WithVault, new
<1>4. QED
  BY <1>1, <1>2, <1>3

LEMMA WithVaultOfUsers ==
    ASSUME NEW e, NEW fs, NEW h, GoodFiles(fs), DOMAIN h = {"openshift"}
    PROVE  /\ UsersAt(WithVault("openshift", e, fs, h), "openshift")
                = At(h["openshift"].vault, "htpasswd_users")
           /\ \A f \in Others : UsersAt(WithVault("openshift", e, fs, h), f) = UsersAt(fs, f)
<1> DEFINE new == [f \in DOMAIN h |-> h[f].vault]
           vault == new ++ fs.vault
<1>1. WithVault("openshift", e, fs, h) = PutVault(fs, new)
  BY DEF WithVault, Jobs, WrittenWhenChanged
<1>2. PutVault(fs, new).vault = vault
  BY VaultOfPut, GoodHasThree
<1>3. "openshift" \in DOMAIN vault /\ vault["openshift"] = h["openshift"].vault
  BY DEF ++
<1>4. \A f \in Others : (f \in DOMAIN vault <=> f \in DOMAIN fs.vault)
                        /\ (f \in DOMAIN vault => vault[f] = fs.vault[f])
  BY DEF ++, Others
<1> HIDE DEF new, vault
<1>5. QED
  BY <1>1, <1>2, <1>3, <1>4 DEF UsersAt, Load

LEMMA WithSecretsElsewhere ==
    ASSUME NEW w, NEW e, NEW fs, NEW h, GoodFiles(fs), w \notin Keepers
    PROVE  SameVaults(fs, WithSecrets(w, e, fs, h))
<1> DEFINE s == MergedSecrets(w, e, h[w])
           aws == SharedAws(e, AwsInHand(fs))
           one == WithFound(FoundKey(w, e, h), w, fs, s)
           two == WithShared(w, one, aws)
           shared == [f \in {"aws"} |-> aws.vault]
           own == [f \in {w} |-> s.vault]
<1>1. WithSecrets(w, e, fs, h) = WithOwn(w, two, s)
  BY DEF WithSecrets, SecondHalf
<1>2. DOMAIN shared \intersect Keepers = {} /\ DOMAIN own \intersect Keepers = {}
  BY DEF Keepers
<1>4. two = one \/ two = PutVault(one, shared)
  BY DEF WithShared
<1>5. one.vault = fs.vault /\ one.sealed = fs.sealed
      /\ one = [k \in {"vars", "vault", "sealed"} |-> one[k]]
  BY DEF WithFound, GoodFiles
<1>6. ThreeParts(one) /\ SameVaults(fs, one)
  BY <1>5 DEF ThreeParts, SameVaults
<1> HIDE DEF one, s, aws, own, shared
<1>7. ThreeParts(two) /\ SameVaults(fs, two)
  BY <1>2, <1>4, <1>6, PutElsewhere, VaultOfPut DEF SameVaults
<1> HIDE DEF two
<1>8. SameVaults(two, WithOwn(w, two, s))
  <2> DEFINE less == Without(two.vault, {w})
             sealed == two.sealed \ {w}
             t == [two EXCEPT !.vault = less, !.sealed = sealed]
  <2>1. \A f \in Keepers : (f \in DOMAIN less <=> f \in DOMAIN two.vault)
                          /\ (f \in DOMAIN less => less[f] = two.vault[f])
    BY DEF Without
  <2> HIDE DEF less, sealed
  <2>2. t.vault = less
    BY <1>7 DEF ThreeParts
  <2>3. SameVaults(two, t)
    BY <2>1, <2>2 DEF SameVaults, Load
  <2>4. WithOwn(w, two, s) = two \/ WithOwn(w, two, s) = t
        \/ WithOwn(w, two, s) = PutVault(two, own)
    BY DEF WithOwn, less, sealed, own
  <2> HIDE DEF t
  <2>5. SameVaults(two, two)
    BY DEF SameVaults
  <2>6. QED
    BY <1>2, <1>7, <2>3, <2>4, <2>5, PutElsewhere
<1>9. QED
  BY <1>1, <1>7, <1>8 DEF SameVaults

\* Where the list is while a run goes on: until the cluster's step is done the
\* three vaults may differ, and between its two writes the list is in hand.
ListInHand(r, fs, h) ==
    /\ "htpasswd_users" \in DOMAIN h["openshift"].vault <=> ClusterJob(r, "admin_htpasswd")
    /\ ClusterJob(r, "admin_htpasswd") =>
         \A f \in Others : UsersAt(fs, f) = h["openshift"].vault["htpasswd_users"]

UsersInv ==
    /\ pc = "template" => StaleUsersGone(request, files)
    /\ pc \in {"work", "vault", "secrets"} =>
         /\ todo \in Seq(Tasks(request))
         /\ OthersBare(request, files)
         /\ UsersAgree(request, files) \/ (todo # <<>> /\ Now = "openshift")
    /\ pc \in {"vault", "secrets"} => todo # <<>>
    /\ pc = "vault" /\ Now = "openshift" => ListInHand(request, files, hand)
    /\ pc = "secrets" => Now # "openshift"
    /\ pc = "done" => UsersAgree(request, files)

LEMMA SameKeepsUsers ==
    ASSUME NEW r, NEW fs, NEW gs, SameVaults(fs, gs)
    PROVE  /\ OthersBare(r, fs) => OthersBare(r, gs)
           /\ UsersAgree(r, fs) => UsersAgree(r, gs)
<1>1. \A f \in Keepers : UsersAt(gs, f) = UsersAt(fs, f)
  BY DEF SameVaults, UsersAt
<1>2. "openshift" \in Keepers /\ Others \subseteq Keepers
  BY DEF Keepers, Others
<1>3. QED
  BY <1>1, <1>2 DEF OthersBare, UsersAgree

LEMMA UsersKept == OverlayInv /\ UsersInv /\ [Next]_overlayVars => UsersInv'
<1> SUFFICES ASSUME OverlayInv, UsersInv, [Next]_overlayVars
             PROVE  UsersInv'
  OBVIOUS
<1> DEFINE on == ClusterJob(request, "admin_htpasswd")
<1>1. ASSUME NEW r \in Requests(env), Ask(r)
      PROVE  UsersInv'
  BY <1>1 DEF Ask, UsersInv
<1>2. CASE Rerun
  BY <1>2 DEF Rerun, UsersInv
<1>3. CASE RemoveStale
  <2>1. StaleUsersGone(request, Cleaned(files, request))
    BY <1>3, CleanedOfUsers DEF RemoveStale, OverlayInv
  <2>2. QED
    BY <1>3, <2>1 DEF RemoveStale, UsersInv
<1>4. CASE WriteTemplates
  <2>1. /\ OthersBare(request, files')
        /\ "openshift" \notin request.selected => UsersAgree(request, files')
    BY <1>4, TemplatesBringNoUsers DEF WriteTemplates, OverlayInv, UsersInv
  <2>2. Len(request.order) \in Nat
    BY <1>4, RequestAssumption DEF WriteTemplates, OverlayInv
  <2>3. /\ todo' \in Seq(Tasks(request))
        /\ "openshift" \in request.selected => todo' # <<>> /\ Head(todo') = "openshift"
    BY <1>4, <2>2, WorkIsOfTasks DEF WriteTemplates
  <2>4. QED
    BY <1>4, <2>1, <2>3 DEF WriteTemplates, UsersInv, Now
<1>5. CASE WriteVars
  <2>1. /\ env \in Environments /\ request \in Requests(env) /\ GoodFiles(files)
        /\ todo \in Seq(Tasks(request)) /\ todo # <<>> /\ Now \in Tasks(request)
        /\ pc' = "vault" /\ request' = request /\ todo' = todo /\ Now' = Now
        /\ files' = WithVars(Now, E, files, hand') /\ hand' = InHand(Now, E, files)
    BY <1>5 DEF WriteVars, OverlayInv, UsersInv, Steps, Now
  <2>2. CASE Now # "openshift" \/ ~on
    <3>1. ~(Now = "openshift" /\ Chosen(E, "admin_htpasswd"))
      <4>1. Now = "openshift" => "openshift" \in request.selected
        BY <2>1 DEF Tasks, Jobs
      <4>2. Now = "openshift" => (Chosen(E, "admin_htpasswd") <=> ClusterOption(request, "admin_htpasswd"))
        BY DEF E, Input, Chosen, ClusterOption, Jobs
      <4>3. QED
        BY <2>2, <4>1, <4>2 DEF ClusterJob
    <3>2. files'.vault = files.vault
      BY <2>1, <3>1, WithVarsOfUsers
    <3>3. SameVaults(files, files')
      BY <3>2 DEF SameVaults
    <3>4. Now = "openshift" => ListInHand(request, files', hand')
      <4> SUFFICES ASSUME Now = "openshift"
                   PROVE  ListInHand(request, files', hand')
        OBVIOUS
      <4>1. "openshift" \in request.selected
        BY <2>1 DEF Tasks, Jobs
      <4>2. ~Refused(request, files)
        BY <1>5 DEF WriteVars
      <4>3. "htpasswd_users" \in DOMAIN hand'["openshift"].vault <=> on
        BY <2>1, <4>1, <4>2, UsersAreInHand DEF E
      <4>4. QED
        BY <2>2, <4>3 DEF ListInHand
    <3>5. QED
      BY <1>5, <2>1, <3>3, <3>4, SameKeepsUsers DEF WriteVars, UsersInv
  <2>3. CASE Now = "openshift" /\ on
    <3>1. Chosen(E, "admin_htpasswd")
      BY <2>3 DEF E, Input, Chosen, ClusterJob, ClusterOption, Jobs
    <3>2. \A f \in Others : UsersAt(files', f) = hand'["openshift"].vault["htpasswd_users"]
      BY <2>1, <2>3, <3>1, WithVarsOfUsers
    <3>3. "htpasswd_users" \in DOMAIN hand'["openshift"].vault
      <4>1. ~Refused(request, files) /\ "openshift" \in request.selected
        BY <1>5, <2>3 DEF WriteVars, ClusterJob
      <4>2. QED
        BY <2>1, <2>3, <4>1, UsersAreInHand DEF E
    <3>4. ListInHand(request, files', hand') /\ OthersBare(request, files')
      BY <2>3, <3>2, <3>3 DEF ListInHand, OthersBare
    <3>5. QED
      BY <2>1, <2>3, <3>4 DEF UsersInv
  <2>4. QED
    BY <2>2, <2>3
<1>6. CASE Refuse
  BY <1>6 DEF Refuse, UsersInv
<1>7. CASE WriteVault
  <2>1. /\ env \in Environments /\ request \in Requests(env) /\ GoodFiles(files)
        /\ todo \in Seq(Tasks(request)) /\ todo # <<>> /\ Now \in Tasks(request)
        /\ request' = request /\ files' = WithVault(Now, E, files, hand)
        /\ DOMAIN hand = Files(Now) /\ OthersBare(request, files)
    BY <1>7, HandIsNotEmpty DEF WriteVault, OverlayInv, UsersInv, Steps, Now
  <2>2. OthersBare(request, files') /\ UsersAgree(request, files')
    <3>1. CASE Now = "openshift"
      <4>1. DOMAIN hand = {"openshift"} /\ ListInHand(request, files, hand)
        BY <1>7, <2>1, <3>1 DEF WriteVault, UsersInv, Files
      <4>2. /\ UsersAt(files', "openshift") = At(hand["openshift"].vault, "htpasswd_users")
            /\ \A f \in Others : UsersAt(files', f) = UsersAt(files, f)
        BY <2>1, <3>1, <4>1, WithVaultOfUsers
      <4>3. Keepers = {"openshift"} \union Others
        BY DEF Keepers, Others
      <4>4. OthersBare(request, files')
        BY <2>1, <4>2 DEF OthersBare
      <4>5. UsersAgree(request, files')
        <5>1. CASE on
          BY <4>1, <4>2, <4>3, <5>1 DEF UsersAgree, ListInHand, At
        <5>2. CASE ~on
          BY <4>1, <4>2, <4>3, <4>4, <5>2 DEF UsersAgree, ListInHand, At, OthersBare
        <5>3. QED
          BY <5>1, <5>2
      <4>6. QED
        BY <4>4, <4>5
    <3>2. CASE Now # "openshift"
      <4>1. Now \notin Keepers
        BY <2>1, <3>2, TasksAreNoOthers DEF Keepers, Others
      <4>2. SameVaults(files, files')
        BY <2>1, <4>1, WithVaultElsewhere
      <4>3. UsersAgree(request, files)
        BY <1>7, <3>2 DEF WriteVault, UsersInv
      <4>4. QED
        BY <2>1, <4>2, <4>3, SameKeepsUsers
    <3>3. QED
      BY <3>1, <3>2
  <2>3. CASE HasSecrets(Now, E, hand) /\ pc' = "secrets" /\ UNCHANGED <<todo, hand>>
    <3>1. Now # "openshift" /\ Now' = Now
      BY <2>3 DEF HasSecrets, Jobs, Now
    <3>2. QED
      BY <2>1, <2>2, <2>3, <3>1 DEF UsersInv
  <2>4. CASE Advance
    <3>1. todo' \in Seq(Tasks(request))
      BY <2>1, <2>4 DEF Advance
    <3>2. QED
      BY <2>1, <2>2, <2>4, <3>1 DEF UsersInv, Advance
  <2>5. QED
    BY <1>7, <2>3, <2>4 DEF WriteVault
<1>8. CASE WriteSecrets
  <2>1. /\ env \in Environments /\ request \in Requests(env) /\ GoodFiles(files)
        /\ todo \in Seq(Tasks(request)) /\ todo # <<>> /\ Now \in Tasks(request)
        /\ request' = request /\ files' = WithSecrets(Now, E, files, hand)
        /\ OthersBare(request, files) /\ Now # "openshift" /\ UsersAgree(request, files)
        /\ Advance
    BY <1>8 DEF WriteSecrets, OverlayInv, UsersInv, Steps, Now
  <2>2. Now \notin Keepers
    BY <2>1, TasksAreNoOthers DEF Keepers, Others
  <2>3. SameVaults(files, files')
    BY <2>1, <2>2, WithSecretsElsewhere
  <2>4. OthersBare(request, files') /\ UsersAgree(request, files')
    BY <2>1, <2>3, SameKeepsUsers
  <2>5. todo' \in Seq(Tasks(request))
    BY <2>1 DEF Advance
  <2>6. QED
    BY <2>1, <2>4, <2>5 DEF UsersInv, Advance
<1>9. CASE Encrypt
  <2>1. UsersAgree(request, files) /\ request' = request /\ pc' = "done" /\ GoodFiles(files)
    BY <1>9 DEF Encrypt, UsersInv, Steps, OverlayInv
  <2>2. files'.vault = files.vault
    BY <1>9, <2>1 DEF Encrypt, GoodFiles
  <2>3. SameVaults(files, files')
    BY <2>2 DEF SameVaults
  <2>4. QED
    BY <2>1, <2>3, SameKeepsUsers DEF UsersInv
<1>10. CASE Stop
  BY <1>10 DEF Stop, UsersInv
<1>11. CASE UNCHANGED overlayVars
  BY <1>11 DEF overlayVars, UsersInv, Now
<1>12. QED
  BY <1>1, <1>2, <1>3, <1>4, <1>5, <1>6, <1>7, <1>8, <1>9, <1>10, <1>11 DEF Next

\* The users of an Admin HTPasswd are the same in every vault a playbook may load
\* them from, and in none once the option is gone, after every run that ends,
\* however many were stopped or refused before, at whichever write.
THEOREM OneListForAll == Spec => []OneListOfUsers
<1>1. Init => UsersInv
  BY DEF Init, UsersInv
<1>2. UsersInv => OneListOfUsers
  BY DEF UsersInv, UsersAgree, UsersAt, Keepers, OneListOfUsers, Vault
<1>3. QED
  BY <1>1, <1>2, InvAlways, UsersKept, PTL DEF Spec

(***************************************************************************)
(* The issuer.  Of Keycloak's vars two matter, the host and the issuer of  *)
(* OpenShift's sign-on.  No rule writes a blank host or an issuer where    *)
(* there is no host; one copies the one to the other, and what follows it  *)
(* writes neither, or both the same.                                       *)
(***************************************************************************)
Host == "ocp_rhbk_hostname"
Iss == "openshift_oidc_auth_issuer"

Told(v) ==
    /\ At(v, Host) # Text(Blank)
    /\ At(v, Host) = None => At(v, Iss) = None
Agree(v) == At(v, Iss) = At(v, Host)

\* A rule that writes neither, one that writes both, the host's, the issuer's.
Aside(r) ==
    \/ r.kind \in {"stashonly", "dropvault"}
    \/ /\ r.kind \in {"copy", "flag", "put", "drop", "stash"}
       /\ Host \notin r.to /\ Iss \notin r.to
Keeps(r) == Aside(r) \/ (r.kind = "copy" /\ {Host, Iss} \subseteq r.to)
Issuing(r) == r = Copy({Iss}, <<Var(Host)>>)
Tells(r) == Keeps(r) \/ (r.kind = "copy" /\ Iss \notin r.to) \/ Issuing(r)

List(rules) == rules \in Seq({rules[i] : i \in DOMAIN rules})
AllKeep(rules) == List(rules) /\ \A i \in DOMAIN rules : Keeps(rules[i])
AllTell(rules) == List(rules) /\ \A i \in DOMAIN rules : Tells(rules[i])
Settles(rules) ==
    /\ AllTell(rules)
    /\ \E m \in DOMAIN rules :
         /\ Issuing(rules[m])
         /\ \A i \in DOMAIN rules : i > m => Keeps(rules[i])

LEMMA FirstIsGiven ==
    ASSUME NEW e, NEW s, NEW from, DOMAIN from \subseteq Nat
    PROVE  FirstPresent(e, s, from) = None \/ FirstPresent(e, s, from) \notin Missing
<1> DEFINE given == {i \in DOMAIN from : Look(e, s, from[i]) \notin Missing}
<1>1. CASE given = {}
  BY <1>1 DEF FirstPresent, FirstBut
<1>2. CASE given # {}
  <2>1. PICK i \in given : \A j \in given : i <= j
    BY <1>2, LeastNumber
  <2>2. Min(given) \in given
    BY <2>1 DEF Min
  <2>3. QED
    BY <1>2, <2>2 DEF FirstPresent, FirstBut
<1>3. QED
  BY <1>1, <1>2

LEMMA HostIsFirst ==
    ASSUME NEW e, NEW s
    PROVE  FirstPresent(e, s, <<Var(Host)>>)
             = IF At(s.vars, Host) \in Missing THEN None ELSE At(s.vars, Host)
<1> DEFINE from == <<Var(Host)>>
           given == {i \in DOMAIN from : Look(e, s, from[i]) \notin Missing}
<1>1. DOMAIN from = {1} /\ Look(e, s, from[1]) = At(s.vars, Host)
  BY DEF Var, Look
<1>2. CASE At(s.vars, Host) \in Missing
  <2>1. given = {}
    BY <1>1, <1>2
  <2>2. QED
    BY <1>2, <2>1 DEF FirstPresent, FirstBut
<1>3. CASE At(s.vars, Host) \notin Missing
  <2>1. given = {1}
    BY <1>1, <1>3
  <2>2. Min({1}) = 1
    BY DEF Min
  <2>3. QED
    BY <1>1, <1>3, <2>1, <2>2 DEF FirstPresent, FirstBut
<1>4. QED
  BY <1>2, <1>3

LEMMA AtOver ==
    ASSUME NEW f, NEW g, NEW k
    PROVE  /\ k \notin DOMAIN f => At(f ++ g, k) = At(g, k)
           /\ k \in DOMAIN f => At(f ++ g, k) = f[k]
BY DEF At, ++

LEMMA AtSetAll ==
    ASSUME NEW f, NEW names, NEW v, NEW k
    PROVE  At(SetAll(f, names, v), k) = IF k \in names THEN v ELSE At(f, k)
BY DEF At, SetAll, ++

LEMMA AtWithout ==
    ASSUME NEW f, NEW names, NEW k, k \notin names
    PROVE  At(Without(f, names), k) = At(f, k)
BY DEF At, Without

\* What a rule makes of a variable.
LEMMA ApplyAt ==
    ASSUME NEW e, NEW s, NEW r, NEW k, InHandOf(s),
           r.kind \in {"copy", "flag", "put", "drop", "stash", "stashonly", "dropvault"}
    PROVE  /\ r.kind \in {"stashonly", "dropvault"} \/ k \notin r.to =>
                At(Apply(e, s, r).vars, k) = At(s.vars, k)
           /\ r.kind = "copy" /\ k \in r.to =>
                At(Apply(e, s, r).vars, k)
                  = IF FirstPresent(e, s, r.from) = None THEN At(s.vars, k)
                    ELSE FirstPresent(e, s, r.from)
<1> DEFINE v == FirstPresent(e, s, r.from)
           raw == Look(e, s, r.from[1])
           t == Applied(e, s, r, v, raw)
           Same(h) == At(h.vars, k) = At(s.vars, k)
<1>1. Apply(e, s, r) = t
  BY DEF Apply
<1>2. \A a : [s EXCEPT !.vars = a].vars = a
  BY DEF InHandOf
<1>3. \A a, b : [s EXCEPT !.vault = a, !.dirty = b].vars = s.vars
  BY DEF InHandOf
<1>4. \A w : k \notin r.to => Same([s EXCEPT !.vars = SetAll(s.vars, r.to, w)])
  BY <1>2, AtSetAll
<1>5. k \notin r.to => Same([s EXCEPT !.vars = Without(s.vars, r.to)])
  BY <1>2, AtWithout
<1>6. \A a, b : Same([s EXCEPT !.vault = a, !.dirty = b])
  BY <1>3
<1>7. Same(s)
  OBVIOUS
<1>8. \A w : k \in r.to => At([s EXCEPT !.vars = SetAll(s.vars, r.to, w)].vars, k) = w
  BY <1>2, AtSetAll
<1>9. k \notin r.to => Same(Stored(s, r, v, TRUE))
  <2> DEFINE a == SetAll(s.vars, r.to, Ref(r.keys[1]))
             b == SetAll(s.vault, KeySet(r.keys), v)
  <2>1. PICK c : c = (s.dirty \/ TRUE)
    OBVIOUS
  <2>2. Stored(s, r, v, TRUE) = [s EXCEPT !.vars = a, !.vault = b, !.dirty = c]
    BY <2>1, Zenon DEF Stored
  <2>3. k \notin r.to => At(a, k) = At(s.vars, k)
    BY AtSetAll
  <2> HIDE DEF a, b
  <2>4. [s EXCEPT !.vars = a, !.vault = b, !.dirty = c].vars = a
    BY DEF InHandOf
  <2>5. QED
    BY <2>2, <2>3, <2>4
<1> HIDE DEF Same, v, raw
<1>a. CASE r.kind = "copy"
  <2>1. t = IF v = None THEN s ELSE [s EXCEPT !.vars = SetAll(s.vars, r.to, v)]
    BY <1>a, Zenon DEF Applied
  <2>2. k \notin r.to => Same(t)
    BY <1>4, <1>7, <2>1, Zenon
  <2>3. k \in r.to => At(t.vars, k) = IF v = None THEN At(s.vars, k) ELSE v
    BY <1>8, <2>1, Zenon
  <2> HIDE DEF t
  <2>4. QED
    BY <1>1, <1>a, <2>2, <2>3 DEF Same, v
<1>b. CASE r.kind = "flag"
  <2>1. k \notin r.to => Same(t)
    BY <1>4, <1>7, <1>b, Zenon DEF Applied
  <2> HIDE DEF t
  <2>2. QED
    BY <1>1, <1>b, <2>1 DEF Same
<1>c. CASE r.kind = "put"
  <2>1. k \notin r.to => Same(t)
    BY <1>4, <1>c, Zenon DEF Applied
  <2> HIDE DEF t
  <2>2. QED
    BY <1>1, <1>c, <2>1 DEF Same
<1>d. CASE r.kind = "drop"
  <2>1. k \notin r.to => Same(t)
    BY <1>5, <1>d, Zenon DEF Applied
  <2> HIDE DEF t
  <2>2. QED
    BY <1>1, <1>d, <2>1 DEF Same
<1>e. CASE r.kind = "stash"
  <2>1. k \notin r.to => Same(t)
    BY <1>7, <1>9, <1>e, Zenon DEF Applied, v
  <2> HIDE DEF t
  <2>2. QED
    BY <1>1, <1>e, <2>1 DEF Same
<1>f. CASE r.kind = "stashonly"
  <2>1. Same(t)
    BY <1>6, <1>7, <1>f, Zenon DEF Applied
  <2> HIDE DEF t
  <2>2. QED
    BY <1>1, <1>f, <2>1 DEF Same
<1>g. CASE r.kind = "dropvault"
  <2>1. Same(t)
    BY <1>6, <1>7, <1>g, Zenon DEF Applied
  <2> HIDE DEF t
  <2>2. QED
    BY <1>1, <1>g, <2>1 DEF Same
<1>z. QED
  BY <1>a, <1>b, <1>c, <1>d, <1>e, <1>f, <1>g

LEMMA RuleTells ==
    ASSUME NEW U, NEW X, NEW e, NEW s, NEW r, InHandOf(s), Safe(U, X, r)
    PROVE  LET t == Apply(e, s, r)
           IN  /\ Told(s.vars) /\ Tells(r) => Told(t.vars)
               /\ Agree(s.vars) /\ Keeps(r) => Agree(t.vars)
               /\ Told(s.vars) /\ Issuing(r) => Agree(t.vars)
<1> DEFINE t == Apply(e, s, r)
           v == FirstPresent(e, s, r.from)
<1>1. r.kind = "copy" => v = None \/ v \notin Missing
  <2>1. r.kind = "copy" => DOMAIN r.from \subseteq Nat
    BY DEF Safe, AllShown
  <2>2. QED
    BY <2>1, FirstIsGiven
<1>2. ASSUME Aside(r)
      PROVE  At(t.vars, Host) = At(s.vars, Host) /\ At(t.vars, Iss) = At(s.vars, Iss)
  BY <1>2, ApplyAt DEF Aside
<1>3. ASSUME r.kind = "copy"
      PROVE  \A k \in {Host, Iss} :
               At(t.vars, k) = IF k \notin r.to \/ v = None THEN At(s.vars, k) ELSE v
  BY <1>3, ApplyAt
<1>4. ASSUME Issuing(r)
      PROVE  /\ At(t.vars, Host) = At(s.vars, Host)
             /\ At(t.vars, Iss) = IF At(s.vars, Host) \in Missing THEN At(s.vars, Iss)
                                  ELSE At(s.vars, Host)
  <2>1. r.kind = "copy" /\ r.to = {Iss} /\ r.from = <<Var(Host)>>
    BY <1>4 DEF Issuing, Copy, Rule
  <2>2. v = IF At(s.vars, Host) \in Missing THEN None ELSE At(s.vars, Host)
    BY <2>1, HostIsFirst
  <2>3. Host # Iss /\ None \in Missing
    BY DEF Host, Iss, Missing
  <2> HIDE DEF t, v
  <2>4. QED
    BY <1>3, <2>1, <2>2, <2>3
<1>5. Missing = {None, Text(Blank)} /\ None # Text(Blank)
  BY DEF Missing, None, Text
<1> HIDE DEF t, v
<1>6. Told(s.vars) /\ Aside(r) => Told(t.vars)
  BY <1>2 DEF Told
<1>7. Told(s.vars) /\ r.kind = "copy" /\ {Host, Iss} \subseteq r.to => Told(t.vars)
  BY <1>1, <1>3, <1>5 DEF Told
<1>8. Told(s.vars) /\ r.kind = "copy" /\ Iss \notin r.to => Told(t.vars)
  BY <1>1, <1>3, <1>5 DEF Told
<1>9. Told(s.vars) /\ Issuing(r) => Told(t.vars) /\ Agree(t.vars)
  BY <1>4, <1>5 DEF Told, Agree
<1>10. Agree(s.vars) /\ Keeps(r) => Agree(t.vars)
  BY <1>2, <1>3 DEF Agree, Keeps
<1>11. QED
  BY <1>6, <1>7, <1>8, <1>9, <1>10 DEF Tells, Keeps, t
-----------------------------------------------------------------------------
(***************************************************************************)
(* Rules in order.                                                         *)
(***************************************************************************)
LEMMA RunRulesTells ==
    ASSUME NEW U, NEW e, NEW s, NEW rules, Fits(U, {}, e), InHandOf(s), AllSafe(U, {}, rules)
    PROVE  /\ InHandOf(RunRules(e, s, rules))
           /\ Told(s.vars) /\ AllTell(rules) => Told(RunRules(e, s, rules).vars)
           /\ Agree(s.vars) /\ AllKeep(rules) => Agree(RunRules(e, s, rules).vars)
           /\ Told(s.vars) /\ Settles(rules) =>
                Agree(RunRules(e, s, rules).vars)
<1> DEFINE T == After(e, s, rules)
           N == Len(rules)
           Good(n) == /\ InHandOf(T[n])
                      /\ Told(s.vars) /\ AllTell(rules) => Told(T[n].vars)
                      /\ Agree(s.vars) /\ AllKeep(rules) => Agree(T[n].vars)
                      /\ Told(s.vars) /\ AllTell(rules) =>
                           \A m \in DOMAIN rules :
                             m <= n /\ Issuing(rules[m])
                             /\ (\A i \in DOMAIN rules : i > m => Keeps(rules[i]))
                               => Agree(T[n].vars)
           P == {n \in Nat : n <= N => Good(n)}
<1>1. N \in Nat /\ DOMAIN rules = 1 .. N
  BY DEF AllSafe
<1>2. \A i \in 0 .. N : T[i] = AfterRule(e, s, rules, T, i)
  BY <1>1, AfterUnfolds
<1>3. Clean({}, s.vars) /\ {} \in SUBSET Secrets
  BY DEF Clean, Fine
<1>4. ASSUME NEW h, NEW r, InHandOf(h), Safe(U, {}, r)
      PROVE  InHandOf(Apply(e, h, r))
  <2>1. Clean({}, h.vars)
    BY DEF Clean, Fine
  <2>2. QED
    BY <1>3, <1>4, <2>1, ApplyIsClean
<1> HIDE DEF T, N
<1>5. 0 \in P
  <2>1. T[0] = s
    BY <1>1, <1>2 DEF AfterRule
  <2>2. QED
    BY <1>1, <2>1
<1>6. ASSUME NEW n \in Nat, n \in P
      PROVE  n + 1 \in P
  <2> SUFFICES ASSUME n + 1 <= N
               PROVE  Good(n + 1)
    OBVIOUS
  <2>1. n + 1 \in 0 .. N /\ n + 1 \in DOMAIN rules /\ n + 1 # 0 /\ n <= N
    BY <1>1
  <2>2. Good(n)
    BY <1>6, <2>1
  <2>3. T[n + 1] = Apply(e, T[n], rules[n + 1])
    <3>1. T[n + 1] = AfterRule(e, s, rules, T, n + 1)
      BY <1>2, <2>1
    <3>2. (n + 1) - 1 = n
      OBVIOUS
    <3>3. QED
      BY <2>1, <3>1, <3>2 DEF AfterRule
  <2>4. Safe(U, {}, rules[n + 1]) /\ InHandOf(T[n])
    BY <2>1, <2>2 DEF AllSafe
  <2>5. /\ Told(T[n].vars) /\ Tells(rules[n + 1]) => Told(T[n + 1].vars)
        /\ Agree(T[n].vars) /\ Keeps(rules[n + 1]) => Agree(T[n + 1].vars)
        /\ Told(T[n].vars) /\ Issuing(rules[n + 1]) => Agree(T[n + 1].vars)
    BY <2>3, <2>4, RuleTells
  <2>6. InHandOf(T[n + 1])
    BY <1>4, <2>3, <2>4
  <2>7. Told(s.vars) /\ AllTell(rules) => Told(T[n + 1].vars)
    BY <2>1, <2>2, <2>5 DEF AllTell
  <2>8. Agree(s.vars) /\ AllKeep(rules) => Agree(T[n + 1].vars)
    BY <2>1, <2>2, <2>5 DEF AllKeep
  <2>9. ASSUME Told(s.vars), AllTell(rules), NEW m \in DOMAIN rules, m <= n + 1,
               Issuing(rules[m]), \A i \in DOMAIN rules : i > m => Keeps(rules[i])
        PROVE  Agree(T[n + 1].vars)
    <3>1. CASE m = n + 1
      BY <2>2, <2>5, <2>9, <3>1
    <3>2. CASE m # n + 1
      <4>1. m <= n /\ n + 1 > m
        BY <1>1, <2>9, <3>2
      <4>2. Agree(T[n].vars)
        BY <2>2, <2>9, <4>1
      <4>3. QED
        BY <2>1, <2>5, <2>9, <4>1, <4>2
    <3>3. QED
      BY <3>1, <3>2
  <2>10. QED
    BY <2>6, <2>7, <2>8, <2>9
<1>7. \A n \in Nat : n \in P
  <2> HIDE DEF P
  <2>1. QED
    BY <1>5, <1>6, SetInduction
<1>8. Good(N)
  BY <1>1, <1>7
<1>9. T[N] = RunRules(e, s, rules)
  BY RunRulesIsAfter DEF T, N
<1>10. ASSUME Told(s.vars), Settles(rules)
       PROVE  Agree(RunRules(e, s, rules).vars)
  <2>1. PICK m \in DOMAIN rules :
               Issuing(rules[m]) /\ \A i \in DOMAIN rules : i > m => Keeps(rules[i])
    BY <1>10 DEF Settles
  <2>2. m <= N
    BY <1>1
  <2>3. QED
    BY <1>8, <1>9, <1>10, <2>1, <2>2 DEF Settles
<1>11. QED
  BY <1>8, <1>9, <1>10

\* One sequence of rules after another.
LEMMA ListsJoin ==
    ASSUME NEW a, NEW b, List(a), List(b)
    PROVE  /\ List(a \o b)
           /\ Len(a) \in Nat /\ DOMAIN a = 1 .. Len(a)
           /\ \A i \in DOMAIN a : i \in DOMAIN (a \o b) /\ (a \o b)[i] = a[i]
           /\ \A i \in DOMAIN b :
                Len(a) + i \in DOMAIN (a \o b) /\ (a \o b)[Len(a) + i] = b[i]
           /\ \A i \in DOMAIN (a \o b) :
                i \in DOMAIN a \/ (i - Len(a) \in DOMAIN b /\ i = Len(a) + (i - Len(a)))
<1> DEFINE V == {a[i] : i \in DOMAIN a} \union {b[i] : i \in DOMAIN b}
           m == Len(a)
           n == Len(b)
           c == a \o b
<1>1. a \in Seq(V) /\ b \in Seq(V)
  BY DEF List
<1> HIDE DEF V
<1>2. /\ m \in Nat /\ n \in Nat /\ DOMAIN a = 1 .. m /\ DOMAIN b = 1 .. n
      /\ DOMAIN c = 1 .. m + n
      /\ \A i \in 1 .. m : c[i] = a[i]
      /\ \A i \in m + 1 .. m + n : c[i] = b[i - m]
  BY <1>1
<1>3. c \in Seq(V)
  BY <1>1
<1> HIDE DEF c, m, n
<1>4. List(c)
  BY <1>3 DEF List
<1>5. \A i \in 1 .. n : m + i \in m + 1 .. m + n /\ (m + i) - m = i
  BY <1>2
<1>6. \A i \in 1 .. n : m + i \in 1 .. m + n
  BY <1>2
<1>7. \A i \in 1 .. m + n : i \in 1 .. m \/ (i - m \in 1 .. n /\ i = m + (i - m))
  BY <1>2
<1>8. \A i \in 1 .. m : i \in 1 .. m + n
  BY <1>2
<1>9. QED
  BY <1>2, <1>4, <1>5, <1>6, <1>7, <1>8 DEF c, m

LEMMA RulesJoin ==
    ASSUME NEW a, NEW b
    PROVE  /\ AllKeep(a) /\ AllKeep(b) => AllKeep(a \o b)
           /\ AllTell(a) /\ AllTell(b) => AllTell(a \o b)
           /\ Settles(a) /\ AllKeep(b) => Settles(a \o b)
           /\ AllTell(a) /\ Settles(b) => Settles(a \o b)
<1> DEFINE m == Len(a)
           c == a \o b
           Joined == /\ List(c) /\ m \in Nat /\ DOMAIN a = 1 .. m
                     /\ \A i \in DOMAIN a : i \in DOMAIN c /\ c[i] = a[i]
                     /\ \A i \in DOMAIN b : m + i \in DOMAIN c /\ c[m + i] = b[i]
                     /\ \A i \in DOMAIN c :
                          i \in DOMAIN a \/ (i - m \in DOMAIN b /\ i = m + (i - m))
<1>1. ASSUME List(a), List(b)
      PROVE  Joined
  <2>1. /\ List(a \o b) /\ Len(a) \in Nat /\ DOMAIN a = 1 .. Len(a)
        /\ \A i \in DOMAIN a : i \in DOMAIN (a \o b) /\ (a \o b)[i] = a[i]
    BY <1>1, ListsJoin
  <2>2. \A i \in DOMAIN b :
          Len(a) + i \in DOMAIN (a \o b) /\ (a \o b)[Len(a) + i] = b[i]
    BY <1>1, ListsJoin
  <2>3. \A i \in DOMAIN (a \o b) :
          i \in DOMAIN a \/ (i - Len(a) \in DOMAIN b /\ i = Len(a) + (i - Len(a)))
    BY <1>1, ListsJoin
  <2>4. QED
    BY <2>1, <2>2, <2>3
<1>2. List(b) => DOMAIN b \subseteq Nat
  BY DEF List
<1> HIDE DEF m, c
<1>3. AllKeep(a) /\ AllKeep(b) => AllKeep(c)
  BY <1>1 DEF AllKeep
<1>4. AllTell(a) /\ AllTell(b) => AllTell(c)
  BY <1>1 DEF AllTell
<1>5. ASSUME Settles(a), AllKeep(b)
      PROVE  Settles(c)
  <2>1. PICK k \in DOMAIN a : Issuing(a[k]) /\ \A i \in DOMAIN a : i > k => Keeps(a[i])
    BY <1>5 DEF Settles
  <2>2. Joined /\ AllTell(c)
    BY <1>1, <1>4, <1>5 DEF Settles, AllTell, AllKeep, Tells
  <2>3. \A i \in DOMAIN c : i > k => Keeps(c[i])
    BY <1>5, <2>1, <2>2 DEF AllKeep
  <2>4. QED
    BY <2>1, <2>2, <2>3 DEF Settles
<1>6. ASSUME AllTell(a), Settles(b)
      PROVE  Settles(c)
  <2>1. PICK k \in DOMAIN b : Issuing(b[k]) /\ \A i \in DOMAIN b : i > k => Keeps(b[i])
    BY <1>6 DEF Settles
  <2>2. Joined /\ AllTell(c) /\ DOMAIN b \subseteq Nat
    BY <1>1, <1>2, <1>4, <1>6 DEF Settles, AllTell
  <2>3. ASSUME NEW i \in DOMAIN c, i > m + k
        PROVE  Keeps(c[i])
    <3>1. i \notin DOMAIN a /\ k \in Nat
      BY <2>1, <2>2, <2>3
    <3>2. i - m \in DOMAIN b /\ i = m + (i - m) /\ i - m \in Nat
      BY <2>2, <3>1
    <3>3. i - m > k
      BY <2>2, <2>3, <3>1, <3>2
    <3>4. c[i] = b[i - m]
      BY <2>2, <3>2
    <3>5. QED
      BY <2>1, <3>2, <3>3, <3>4
  <2>4. QED
    BY <2>1, <2>2, <2>3 DEF Settles
<1>7. QED
  BY <1>3, <1>4, <1>5, <1>6 DEF c

LEMMA KeepersTell == ASSUME NEW rules, AllKeep(rules) PROVE AllTell(rules)
BY DEF AllKeep, AllTell, Tells

\* The rules that write neither the host nor the issuer.
LEMMA CopyKeeps ==
    ASSUME NEW to, NEW from, (Host \notin to /\ Iss \notin to) \/ {Host, Iss} \subseteq to
    PROVE  Keeps(Copy(to, from))
BY DEF Keeps, Aside, Copy, Rule

LEMMA OthersKeep ==
    ASSUME NEW to, NEW keys, NEW from, NEW v, Host \notin to, Iss \notin to
    PROVE  /\ Keeps(Flag(to, from)) /\ Keeps(Put(to, v)) /\ Keeps(Drop(to))
           /\ Keeps(Stash(to, keys, from))
BY DEF Keeps, Aside, Flag, Put, Drop, Stash, Rule

LEMMA VaultKeeps ==
    ASSUME NEW to, NEW keys, NEW from
    PROVE  Keeps(StashOnly(keys, from)) /\ Keeps(DropVault(to))
BY DEF Keeps, Aside, StashOnly, DropVault, Rule

LEMMA FewKeep ==
    /\ AllKeep(<<>>)
    /\ \A a : Keeps(a) => AllKeep(<<a>>)
    /\ \A a, b : Keeps(a) /\ Keeps(b) => AllKeep(<<a, b>>)
    /\ \A a, b, c : Keeps(a) /\ Keeps(b) /\ Keeps(c) => AllKeep(<<a, b, c>>)
    /\ \A a, b, c, d : Keeps(a) /\ Keeps(b) /\ Keeps(c) /\ Keeps(d) => AllKeep(<<a, b, c, d>>)
    /\ \A a, b, c, d, e, f :
         Keeps(a) /\ Keeps(b) /\ Keeps(c) /\ Keeps(d) /\ Keeps(e) /\ Keeps(f)
           => AllKeep(<<a, b, c, d, e, f>>)
BY DEF AllKeep, List

LEMMA NineTell ==
    ASSUME NEW a, NEW b, NEW c, NEW d, NEW e, NEW f, NEW g, NEW h, NEW i,
           Tells(a), Tells(b), Tells(c), Tells(d), Tells(e), Tells(f), Tells(g), Tells(h),
           Tells(i)
    PROVE  AllTell(<<a, b, c, d, e, f, g, h, i>>)
BY DEF AllTell, List

LEMMA LastSettles ==
    ASSUME NEW a, NEW b, NEW c, Keeps(a), Keeps(b), Issuing(c)
    PROVE  Settles(<<a, b, c>>)
<1>1. AllTell(<<a, b, c>>)
  BY DEF AllTell, List, Tells
<1>2. QED
  BY <1>1 DEF Settles

\* Keycloak's rules.
LEMMA RhbkSettles ==
    ASSUME NEW e, NEW s
    PROVE  /\ AllTell(Rhbk(e, s))
           /\ ~Chosen(e, "standalone") => Settles(Rhbk(e, s))
<1> DEFINE away == StandaloneFields \union StandaloneDerived("rhbk")
           last == If(~Chosen(e, "standalone"), << Drop(away) >>)
           standalone == If(Chosen(e, "standalone"), RhbkStandalone(e, s))
<1> USE FewKeep, RulesJoin, KeepersTell
<1>1. Host \notin away /\ Iss \notin away
  BY DEF StandaloneFields, StandaloneDerived, SecretFields, Host, Iss
<1>2. AllKeep(last)
  BY <1>1, OthersKeep DEF If
<1>3. AllTell(RhbkRealm(e, s))
  <2>1. AllKeep(If(~Chosen(e, "standalone"), << Drop(away) >>))
    BY <1>1, OthersKeep DEF If
  <2> HIDE DEF away
  <2>2. \A from : Tells(Copy({"rhbk_hostname", "rhbk_host", "ocp_rhbk_hostname", "rhbk_url",
                           "keycloak_login_events_keycloak_url"}, from))
    BY DEF Tells, Copy, Rule, Iss
  <2>3. \A rule : Keeps(rule) => Tells(rule)
    BY DEF Tells
  <2>4. QED
    BY <2>1, <2>2, <2>3, CopyKeeps, OthersKeep, NineTell DEF RhbkRealm, away, Host, Iss
<1>4. AllKeep(RhbkTls(e, s))
  BY CopyKeeps, OthersKeep DEF RhbkTls, If, Host, Iss
<1>5. AllTell(RhbkClients(e, s)) /\ (~Chosen(e, "standalone") => Settles(RhbkClients(e, s)))
  <2> DEFINE first == << Copy({"rhbk_clients"}, <<Pub("clients")>>),
                         Copy({"rhbk_client"}, <<Pub("client")>>) >>
             a == Copy({"openshift_oidc_auth_client"},
                       Pubs(<<"openshift_oidc_client_id", "client">>)
                         \o <<Var("rhbk_client"), Pub("clients"), Const("OpenshiftLab")>>)
             b == Copy({"openshift_oidc_auth_idp"},
                       <<Pub("openshift_oidc_idp_name"), Oth("oauth_rhbk_idp_name"),
                         Const("Keycloak")>>)
             c == Copy({"openshift_oidc_auth_issuer"}, <<Var("ocp_rhbk_hostname")>>)
  <2>1. AllKeep(first)
    BY CopyKeeps DEF Host, Iss
  <2>2. Keeps(a) /\ Keeps(b)
    BY CopyKeeps DEF Host, Iss
  <2>3. Issuing(c)
    BY DEF Issuing, Host, Iss
  <2>4. RhbkClients(e, s) = first \o If(~Chosen(e, "standalone"), <<a, b, c>>)
    BY DEF RhbkClients
  <2> HIDE DEF first, a, b, c
  <2>5. Settles(<<a, b, c>>)
    BY <2>2, <2>3, LastSettles
  <2>6. QED
    BY <2>1, <2>4, <2>5 DEF If, Settles
<1>6. AllKeep(RhbkStandalone(e, s))
  BY CopyKeeps, OthersKeep DEF RhbkStandalone, If, Host, Iss
<1>7. AllKeep(RhbkFederation(e, s))
  BY CopyKeeps, OthersKeep, VaultKeeps DEF RhbkFederation, If, Host, Iss
<1>8. QED
  <2> DEFINE c0 == RhbkRealm(e, s)
             c1 == c0 \o RhbkTls(e, s)
             c2 == c1 \o RhbkClients(e, s)
             c3 == c2 \o standalone
             c4 == c3 \o RhbkFederation(e, s)
             c5 == c4 \o last
  <2>1. Rhbk(e, s) = c5
    BY DEF Rhbk
  <2>2. AllKeep(standalone)
    BY <1>6 DEF If
  <2> HIDE DEF c0, last, standalone
  <2>3. AllTell(c0)
    BY <1>3 DEF c0
  <2>4. AllTell(c1)
    BY <1>4, <2>3
  <2> HIDE DEF c1
  <2>5. AllTell(c2) /\ (~Chosen(e, "standalone") => Settles(c2))
    BY <1>5, <2>4
  <2> HIDE DEF c2
  <2>6. AllTell(c3) /\ (~Chosen(e, "standalone") => Settles(c3))
    BY <2>2, <2>5
  <2> HIDE DEF c3
  <2>7. AllTell(c4) /\ (~Chosen(e, "standalone") => Settles(c4))
    BY <1>7, <2>6
  <2> HIDE DEF c4
  <2>8. AllTell(c5) /\ (~Chosen(e, "standalone") => Settles(c5))
    BY <1>2, <2>7
  <2>9. QED
    BY <2>1, <2>8

LEMMA OauthRhbkKeeps ==
    ASSUME NEW e, NEW s
    PROVE  AllKeep(OauthRhbk(e, s))
BY FewKeep, CopyKeeps, VaultKeeps DEF OauthRhbk, Host, Iss

-----------------------------------------------------------------------------
(***************************************************************************)
(* Keycloak's vars.                                                        *)
(***************************************************************************)
Keycloak(fs) == Load(fs.vars, "rhbk")

LEMMA RhbkFormIsApart ==
    ASSUME NEW n \in Environments, NEW r \in Requests(n)
    PROVE  Host \notin DOMAIN FormOf(r, "rhbk") /\ Iss \notin DOMAIN FormOf(r, "rhbk")
<1> DEFINE form == IF "rhbk" \in DOMAIN r.forms THEN r.forms["rhbk"] ELSE <<>>
           none == <<>>
<1>1. DOMAIN none = {}
  OBVIOUS
<1>2. Host \notin DOMAIN form /\ Iss \notin DOMAIN form
  BY <1>1, RequestAssumption DEF Host, Iss
<1>3. FormOf(r, "rhbk") = WithHosts("rhbk", form, r.apps)
  BY DEF FormOf
<1> HIDE DEF form
<1>4. \/ WithHosts("rhbk", form, r.apps) = form
      \/ WithHosts("rhbk", form, r.apps) = DerivedHosts("rhbk", r.apps) ++ form
  BY DEF WithHosts
<1>5. Host \notin DOMAIN DerivedHosts("rhbk", r.apps)
      /\ Iss \notin DOMAIN DerivedHosts("rhbk", r.apps)
  BY DEF DerivedHosts, Host, Iss
<1>6. DOMAIN (DerivedHosts("rhbk", r.apps) ++ form)
        = DOMAIN DerivedHosts("rhbk", r.apps) \union DOMAIN form
  BY DEF ++
<1>7. QED
  BY <1>2, <1>3, <1>4, <1>5, <1>6

\* What a merge of Keycloak has in hand.
LEMMA RhbkInHand ==
    ASSUME NEW n \in Environments, NEW r \in Requests(n), NEW fs, Told(Keycloak(fs)),
           DOMAIN Public(Input(r, "rhbk", fs)) # {}
    PROVE  LET h == InHand("rhbk", Input(r, "rhbk", fs), fs)
           IN  /\ Told(h["rhbk"].vars)
               /\ "standalone" \notin Picked(r, "rhbk") => Agree(h["rhbk"].vars)
<1> DEFINE e == Input(r, "rhbk", fs)
           vt == LoadVault(fs, "rhbk")
           s == Entered("rhbk", e, Keycloak(fs), vt)
           a == Passed("rhbk", e) ++ s.vars
           s0 == [s EXCEPT !.vars = a]
           h == InHand("rhbk", e, fs)
<1>1. h["rhbk"] = MergedVars("rhbk", e, s)
  BY DEF InHand, Files, Read, Jobs, Keycloak
<1>2. MergedVars("rhbk", e, s) = RunRules(e, s0, Rhbk(e, s0))
  BY DEF MergedVars, RulesOf
<1>3. Fits({}, {}, e)
  <2>1. Veiled("rhbk") = {}
    BY DEF Veiled, Unmarked
  <2>2. {} \in SUBSET Secrets /\ {} \intersect Blocks("rhbk") = {}
    OBVIOUS
  <2>3. Fits(Veiled("rhbk"), {}, Input(r, "rhbk", fs))
    BY <2>2, InputFits, Zenon
  <2>4. QED
    BY <2>1, <2>3
<1>4. Chosen(e, "standalone") <=> "standalone" \in Picked(r, "rhbk")
  BY DEF Chosen, Input, Jobs
<1>5. InHandOf(s) /\ s.vars = Without(Keycloak(fs), LeftBehind("rhbk", e))
  <2>1. Clean({}, Keycloak(fs))
    BY DEF Clean, Fine
  <2>2. InHandOf(s)
    BY <2>1, EnteredIsClean
  <2>3. QED
    BY <2>2 DEF Entered
<1>6. Told(s.vars)
  <2>1. Host \notin LeftBehind("rhbk", e) /\ Iss \notin LeftBehind("rhbk", e)
    BY DEF LeftBehind, StandaloneFields, SecretFields, Host, Iss
  <2> HIDE DEF s, e
  <2>2. At(s.vars, Host) = At(Keycloak(fs), Host) /\ At(s.vars, Iss) = At(Keycloak(fs), Iss)
    BY <1>5, <2>1, AtWithout
  <2>3. QED
    BY <2>2 DEF Told
<1>7. Host \notin DOMAIN Passed("rhbk", e) /\ Iss \notin DOMAIN Passed("rhbk", e)
  <2>1. e.form = FormOf(r, "rhbk")
    BY DEF Input
  <2>2. DOMAIN Passed("rhbk", e) \subseteq DOMAIN e.form
    BY DEF Passed, Without, Public
  <2>3. QED
    BY <2>1, <2>2, RhbkFormIsApart
<1> HIDE DEF s, e
<1>8. Told(a)
  BY <1>6, <1>7, AtOver DEF Told
<1>9. InHandOf(s0) /\ s0.vars = a
  BY <1>5, HandVars
<1> HIDE DEF s0, a
<1>10. AllSafe({}, {}, Rhbk(e, s0))
  BY RhbkIsSafe
<1>11. /\ AllTell(Rhbk(e, s0))
       /\ ~Chosen(e, "standalone") => Settles(Rhbk(e, s0))
  BY RhbkSettles
<1>12. /\ Told(RunRules(e, s0, Rhbk(e, s0)).vars)
       /\ ~Chosen(e, "standalone") => Agree(RunRules(e, s0, Rhbk(e, s0)).vars)
  BY <1>3, <1>8, <1>9, <1>10, <1>11, RunRulesTells
<1>13. QED
  BY <1>1, <1>2, <1>4, <1>12 DEF e

LEMMA OauthRhbkInHand ==
    ASSUME NEW n \in Environments, NEW r \in Requests(n), NEW fs
    PROVE  LET h == InHand("oauth_rhbk", Input(r, "oauth_rhbk", fs), fs)
           IN  /\ Told(Keycloak(fs)) => Told(h["rhbk"].vars)
               /\ Agree(Keycloak(fs)) => Agree(h["rhbk"].vars)
<1> DEFINE w == "oauth_rhbk"
           e == Input(r, w, fs)
           s == [vars |-> Keycloak(fs), vault |-> LoadVault(fs, "rhbk"), dirty |-> FALSE,
                 used |-> {}]
           h == InHand(w, e, fs)
<1>1. h["rhbk"] = RunRules(e, s, OauthRhbk(e, s))
  BY DEF InHand, Files, Read, Jobs, JobRules, Keycloak
<1>2. Fits({}, {}, e)
  <2>1. Veiled(w) = {}
    BY DEF Veiled, Unmarked
  <2>2. {} \in SUBSET Secrets /\ {} \intersect Blocks(w) = {}
    OBVIOUS
  <2>3. Fits(Veiled(w), {}, Input(r, w, fs))
    BY <2>2, InputFits, Zenon
  <2>4. QED
    BY <2>1, <2>3
<1>3. InHandOf(s) /\ s.vars = Keycloak(fs)
  BY DEF InHandOf
<1> HIDE DEF s, e
<1>4. AllSafe({}, {}, OauthRhbk(e, s))
  BY OauthRhbkIsSafe
<1>5. AllKeep(OauthRhbk(e, s)) /\ AllTell(OauthRhbk(e, s))
  BY OauthRhbkKeeps, KeepersTell
<1>6. /\ Told(s.vars) => Told(RunRules(e, s, OauthRhbk(e, s)).vars)
      /\ Agree(s.vars) => Agree(RunRules(e, s, OauthRhbk(e, s)).vars)
  BY <1>2, <1>3, <1>4, <1>5, RunRulesTells
<1>7. QED
  BY <1>1, <1>3, <1>6 DEF e

\* The writes.
LEMMA VarsOfFile ==
    ASSUME NEW w, NEW e, NEW fs, NEW h, ThreeParts(fs), DOMAIN h = Files(w),
           NEW c, c \notin Keepers
    PROVE  /\ c \notin Files(w) => Load(WithVars(w, e, fs, h).vars, c) = Load(fs.vars, c)
           /\ c \in Files(w) =>
                IF w \in Jobs \/ DOMAIN Public(e) # {}
                THEN Load(WithVars(w, e, fs, h).vars, c) = h[c].vars
                ELSE Load(WithVars(w, e, fs, h).vars, c) = Load(fs.vars, c)
<1> DEFINE users == [k \in {"htpasswd_users", "htpasswd_pass"} |->
                       h["openshift"].vault["htpasswd_users"]]
           settings == Kept(h["openshift"].vars, {"htpasswd_action", "htpasswd_idp_name",
                                                  "htpasswd_idp", "htpasswd_secret"})
           both == {"htpass_admin", "admin_htpasswd"}
           mine == [f \in DOMAIN h |-> h[f].vars]
           theirs == [f \in both |-> settings]
           a == mine ++ theirs ++ fs.vars
           one == [fs EXCEPT !.vars = a]
           new == [f \in both |-> users ++ LoadVault(fs, f)]
           two == [fs EXCEPT !.vars = mine ++ fs.vars]
           on == w = "openshift" /\ Chosen(e, "admin_htpasswd")
<1>1. on => WithVars(w, e, fs, h) = PutVault(one, new)
  BY DEF WithVars
<1>2. ~on => WithVars(w, e, fs, h) = IF w \in Jobs \/ DOMAIN Public(e) # {} THEN two ELSE fs
  BY DEF WithVars
<1>3. PutVault(one, new).vars = a
  BY DEF PutVault, ThreeParts
<1>4. two.vars = mine ++ fs.vars
  BY DEF ThreeParts
<1>5. c \notin Files(w) => Load(mine ++ fs.vars, c) = Load(fs.vars, c)
  BY DEF Load, ++
<1>6. c \in Files(w) => Load(mine ++ fs.vars, c) = h[c].vars
  BY DEF Load, ++
<1>7. c \notin Files(w) => Load(a, c) = Load(fs.vars, c)
  BY DEF Load, ++, Keepers
<1>8. on => c \notin Files(w)
  BY DEF Files, Keepers
<1> HIDE DEF one, new, two, a, mine
<1>9. QED
  BY <1>1, <1>2, <1>3, <1>4, <1>5, <1>6, <1>7, <1>8, Zenon

LEMMA VaultPutLeavesVars ==
    ASSUME NEW fs, NEW new, ThreeParts(fs)
    PROVE  PutVault(fs, new).vars = fs.vars /\ ThreeParts(PutVault(fs, new))
BY DEF PutVault, ThreeParts

LEMMA VaultLeavesVars ==
    ASSUME NEW w, NEW e, NEW fs, NEW h, ThreeParts(fs)
    PROVE  WithVault(w, e, fs, h).vars = fs.vars
BY VaultPutLeavesVars DEF WithVault

LEMMA SecretsLeaveVars ==
    ASSUME NEW w, NEW e, NEW fs, NEW h, ThreeParts(fs), NEW c, c # "satellite"
    PROVE  Load(WithSecrets(w, e, fs, h).vars, c) = Load(fs.vars, c)
<1> DEFINE found == FoundKey(w, e, h)
           s == MergedSecrets(w, e, h[w])
           aws == SharedAws(e, AwsInHand(fs))
           one == WithFound(found, w, fs, s)
           two == WithShared(w, one, aws)
<1>1. ThreeParts(one) /\ Load(one.vars, c) = Load(fs.vars, c)
  <2>1. CASE found
    <3>1. w = "satellite"
      BY <2>1 DEF FoundKey
    <3> DEFINE v == [fs.vars EXCEPT ![w] = s.vars]
    <3>2. one = [fs EXCEPT !.vars = v]
      BY <2>1 DEF WithFound
    <3>3. DOMAIN v = DOMAIN fs.vars
          /\ (c \in DOMAIN fs.vars => v[c] = fs.vars[c])
      BY <3>1
    <3> HIDE DEF v, one
    <3>4. one.vars = v /\ ThreeParts(one)
      BY <3>2 DEF ThreeParts
    <3>5. QED
      BY <3>3, <3>4 DEF Load
  <2>2. CASE ~found
    BY <2>2 DEF WithFound
  <2>3. QED
    BY <2>1, <2>2
<1>2. WithSecrets(w, e, fs, h) = WithOwn(w, two, s)
  BY DEF WithSecrets, SecondHalf
<1> HIDE DEF one, found, s, aws
<1>3. ThreeParts(two) /\ Load(two.vars, c) = Load(fs.vars, c)
  BY <1>1, VaultPutLeavesVars DEF WithShared
<1> HIDE DEF two
<1>4. WithOwn(w, two, s).vars = two.vars
  <2>1. \A b, d : [two EXCEPT !.vault = b, !.sealed = d].vars = two.vars
    BY <1>3 DEF ThreeParts
  <2>2. QED
    BY <1>3, <2>1, VaultPutLeavesVars DEF WithOwn
<1>5. QED
  BY <1>2, <1>3, <1>4

-----------------------------------------------------------------------------
(***************************************************************************)
(* Keycloak's turn comes, after that of the sign-on.                       *)
(***************************************************************************)
Has(w, x) == \E i \in DOMAIN w : w[i] = x

LEMMA HasJoin ==
    ASSUME NEW S, NEW a \in Seq(S), NEW b \in Seq(S), NEW x
    PROVE  a \o b \in Seq(S) /\ (Has(a, x) \/ Has(b, x) => Has(a \o b, x))
<1>1. List(a) /\ List(b)
  BY DEF List
<1>2. /\ \A i \in DOMAIN a : i \in DOMAIN (a \o b) /\ (a \o b)[i] = a[i]
      /\ \A i \in DOMAIN b :
           Len(a) + i \in DOMAIN (a \o b) /\ (a \o b)[Len(a) + i] = b[i]
  BY <1>1, ListsJoin
<1>3. a \o b \in Seq(S)
  OBVIOUS
<1> DEFINE c == a \o b
<1> HIDE DEF c
<1>4. Has(a, x) \/ Has(b, x) => Has(c, x)
  BY <1>2 DEF Has, c
<1>5. QED
  BY <1>3, <1>4 DEF c

LEMMA MergedInTurn ==
    ASSUME NEW r, Len(r.order) \in Nat, NEW j \in 1 .. Len(r.order), NEW c,
           Turn(r, r.order[j]) = <<c>>
    PROVE  Has(Merged(r), c)
<1> DEFINE S == (Merges(r) \ Jobs) \union {c}
           N == Len(r.order)
           T == Turns(r)
<1>1. Merged(r) = T[N]
  BY TurnsUnfold
<1>2. \A i \in 0 .. N : T[i] = TurnAfter(r, T, i)
  BY TurnsUnfold
<1> HIDE DEF T, N
<1>3. \A d : Turn(r, d) \in Seq(S)
  BY OneOrNone DEF Turn
<1> HIDE DEF S
<1> DEFINE P == {n \in Nat : n <= N => T[n] \in Seq(S) /\ (j <= n => Has(T[n], c))}
<1>4. 0 \in P
  <2>1. T[0] = <<>>
    BY <1>2 DEF TurnAfter, N
  <2>2. <<>> \in Seq(S)
    OBVIOUS
  <2>3. ~(j <= 0)
    OBVIOUS
  <2>4. QED
    BY <2>1, <2>2, <2>3
<1>5. ASSUME NEW n \in Nat, n \in P
      PROVE  n + 1 \in P
  <2> SUFFICES ASSUME n + 1 <= N
               PROVE  T[n + 1] \in Seq(S) /\ (j <= n + 1 => Has(T[n + 1], c))
    OBVIOUS
  <2>1. /\ n + 1 \in 0 .. N /\ n + 1 # 0 /\ (n + 1) - 1 = n
        /\ T[n] \in Seq(S) /\ (j <= n => Has(T[n], c))
    BY <1>5 DEF N
  <2> DEFINE d == Turn(r, r.order[n + 1])
  <2>2. T[n + 1] = T[n] \o d
    BY <1>2, <2>1 DEF TurnAfter
  <2>3. d \in Seq(S)
    BY <1>3
  <2>4. j = n + 1 => Has(d, c)
    <3>1. Has(<<c>>, c)
      BY DEF Has
    <3>2. QED
      BY <3>1
  <2> HIDE DEF d
  <2>5. T[n] \o d \in Seq(S) /\ (Has(T[n], c) \/ Has(d, c) => Has(T[n] \o d, c))
    BY <2>1, <2>3, HasJoin
  <2>6. j <= n + 1 => j <= n \/ j = n + 1
    OBVIOUS
  <2>7. QED
    BY <2>1, <2>2, <2>4, <2>5, <2>6
<1>6. \A n \in Nat : n \in P
  <2> HIDE DEF P
  <2>1. QED
    BY <1>4, <1>5, SetInduction
<1>7. QED
  BY <1>1, <1>6 DEF N

LEMMA SentIsAtWork ==
    ASSUME NEW r, NEW fs, Len(r.order) \in Nat, NEW x, x \notin Jobs, Sends(r, x)
    PROVE  Has(Work(r, fs), x)
<1> DEFINE S == Tasks(r)
           first == If("openshift" \in r.selected, <<"openshift">>)
           a == If(ClusterOption(r, "ldap_auth"), <<"ldap_auth">>)
           b == If(ClusterOption(r, "oauth_rhbk") /\ "rhbk" \in DOMAIN fs.vars, <<"oauth_rhbk">>)
           c == If("openshift" \in r.selected
                     /\ Picked(r, "openshift") \intersect RouteOptions # {}, <<"routes">>)
           d == If("dedicated_hub_postgres" \in Picked(r, "aap"), <<"aap_hub_harden">>)
           m == Merged(r)
           q == If("quay" \in DOMAIN fs.vars, <<"quay_s3">>)
           w1 == first \o a
           w2 == w1 \o b
           w3 == w2 \o c
           w4 == w3 \o d
           w5 == w4 \o m
           w6 == w5 \o q
<1>1. Work(r, fs) = w6
  BY DEF Work
<1>2. /\ first \in Seq(S) /\ a \in Seq(S) /\ b \in Seq(S) /\ c \in Seq(S) /\ d \in Seq(S)
      /\ q \in Seq(S)
  <2>1. /\ {"ldap_auth", "oauth_rhbk", "routes", "aap_hub_harden", "quay_s3"} \subseteq S
        /\ "openshift" \in r.selected => "openshift" \in S
    BY DEF Tasks, Jobs
  <2> HIDE DEF S
  <2>2. QED
    BY <2>1, OneOrNone
<1>3. m \in Seq(S)
  <2>1. Merges(r) \ Jobs \subseteq S
    BY DEF Tasks
  <2>2. m \in Seq(Merges(r) \ Jobs)
    BY MergedAreMerges
  <2> HIDE DEF m, S
  <2>3. QED
    BY <2>1, <2>2
<1>4. Has(m, x)
  <2>1. PICK j \in 1 .. Len(r.order) : r.order[j] = x
    BY DEF Sends
  <2>2. x \in Merges(r) \ Jobs /\ DOMAIN FormOf(r, x) # {}
    BY DEF Sends, Merges, Jobs
  <2>3. Turn(r, x) = <<x>>
    BY <2>2 DEF Turn, If
  <2>4. QED
    BY <2>1, <2>3, MergedInTurn
<1> HIDE DEF S, first, a, b, c, d, m, q
<1>5. w1 \in Seq(S)
  BY <1>2, HasJoin
<1> HIDE DEF w1
<1>6. w2 \in Seq(S)
  BY <1>2, <1>5, HasJoin
<1> HIDE DEF w2
<1>7. w3 \in Seq(S)
  BY <1>2, <1>6, HasJoin
<1> HIDE DEF w3
<1>8. w4 \in Seq(S)
  BY <1>2, <1>7, HasJoin
<1> HIDE DEF w4
<1>9. w5 \in Seq(S) /\ Has(w5, x)
  BY <1>3, <1>4, <1>8, HasJoin
<1> HIDE DEF w5
<1>10. Has(w6, x)
  BY <1>2, <1>9, HasJoin
<1>11. QED
  BY <1>1, <1>10

\* When its turn is over, the issuer is the route; until then it may be another.
KeycloakSent(r) == Sends(r, "rhbk") /\ "standalone" \notin Picked(r, "rhbk")

IssuerInv ==
    /\ Told(Keycloak(files))
    /\ KeycloakSent(request) =>
         /\ pc = "work" => Agree(Keycloak(files)) \/ Has(todo, "rhbk")
         /\ pc \in {"vault", "secrets"} => Agree(Keycloak(files)) \/ Has(Tail(todo), "rhbk")
         /\ pc = "done" => Agree(Keycloak(files))

LEMMA HasTail ==
    ASSUME NEW S, NEW w \in Seq(S), w # <<>>, NEW x, Has(w, x), Head(w) # x
    PROVE  Has(Tail(w), x)
<1>1. PICK i \in DOMAIN w : w[i] = x
  BY DEF Has
<1>2. i \in 1 .. Len(w) /\ i # 1
  BY <1>1
<1>3. i - 1 \in DOMAIN Tail(w) /\ Tail(w)[i - 1] = w[i]
  BY <1>2
<1>4. QED
  BY <1>1, <1>3 DEF Has

LEMMA NothingTold == Told(<<>>)
<1> DEFINE none == <<>>
<1>1. DOMAIN none = {}
  OBVIOUS
<1> HIDE DEF none
<1>2. Told(none)
  BY <1>1 DEF Told, At, None, Text, Blank
<1>3. QED
  BY <1>2 DEF none

LEMMA IssuerKept == OverlayInv /\ UsersInv /\ IssuerInv /\ [Next]_overlayVars => IssuerInv'
<1> SUFFICES ASSUME OverlayInv, UsersInv, IssuerInv, [Next]_overlayVars
             PROVE  IssuerInv'
  OBVIOUS
<1> DEFINE v == Keycloak(files)
<1>1. Told(v) /\ ThreeParts(files)
  BY GoodHasThree DEF IssuerInv, OverlayInv
<1>2. ASSUME NEW r \in Requests(env), Ask(r)
      PROVE  IssuerInv'
  BY <1>2 DEF Ask, IssuerInv
<1>3. CASE Rerun
  BY <1>3 DEF Rerun, IssuerInv
<1>4. CASE RemoveStale
  <2>1. Keycloak(files') = v \/ Keycloak(files') = <<>>
    BY <1>4 DEF RemoveStale, Cleaned, Kept, Keycloak, Load
  <2>2. QED
    BY <1>1, <1>4, <2>1, NothingTold DEF RemoveStale, IssuerInv
<1>5. CASE WriteTemplates
  <2>1. Keycloak(files') = v \/ Keycloak(files') = <<>>
    <3> DEFINE a == files.vars ++ [c \in HasFiles(request) |-> TemplateVars(c)]
               b == files.vault ++ [c \in (HasFiles(request) \ AwsConsumers)
                                            \union {"openshift"} |-> TemplateVault(c, request)]
    <3>1. Load(a, "rhbk") = v \/ Load(a, "rhbk") = TemplateVars("rhbk")
          \/ Load(a, "rhbk") = <<>>
      BY DEF Load, Keycloak, ++
    <3>2. TemplateVars("rhbk") = <<>>
      BY DEF TemplateVars
    <3>3. files' = [files EXCEPT !.vars = a, !.vault = b]
      BY <1>5 DEF WriteTemplates, Templated
    <3> HIDE DEF a, b
    <3>4. files'.vars = a
      BY <1>1, <3>3 DEF ThreeParts
    <3>5. QED
      BY <3>1, <3>2, <3>4 DEF Keycloak
  <2>2. KeycloakSent(request) => Has(todo', "rhbk")
    <3>1. Len(request.order) \in Nat
      BY <1>5, RequestAssumption DEF WriteTemplates, OverlayInv
    <3>2. QED
      BY <1>5, <3>1, SentIsAtWork DEF WriteTemplates, KeycloakSent, Jobs
  <2>3. QED
    BY <1>1, <1>5, <2>1, <2>2, NothingTold DEF WriteTemplates, IssuerInv
<1>6. CASE WriteVars
  <2>1. /\ env \in Environments /\ request \in Requests(env) /\ GoodFiles(files)
        /\ todo \in Seq(Tasks(request)) /\ todo # <<>>
        /\ pc' = "vault" /\ request' = request /\ todo' = todo
        /\ files' = WithVars(Now, E, files, hand') /\ hand' = InHand(Now, E, files)
        /\ DOMAIN hand' = Files(Now)
    BY <1>6 DEF WriteVars, OverlayInv, UsersInv, Steps, InHand
  <2>2. KeycloakSent(request) => Agree(v) \/ Has(todo, "rhbk")
    BY <1>6 DEF WriteVars, IssuerInv
  <2>3. /\ "rhbk" \notin Files(Now) => Keycloak(files') = v
        /\ "rhbk" \in Files(Now) =>
             IF Now \in Jobs \/ DOMAIN Public(E) # {}
             THEN Keycloak(files') = hand'["rhbk"].vars
             ELSE Keycloak(files') = v
    <3>1. "rhbk" \notin Keepers
      BY DEF Keepers
    <3>2. QED
      BY <1>1, <2>1, <3>1, VarsOfFile DEF Keycloak
  <2>4. Now = Head(todo)
    BY DEF Now
  <2>5. CASE Now = "rhbk" /\ DOMAIN Public(E) # {}
    <3>1. Keycloak(files') = hand'["rhbk"].vars
      BY <2>3, <2>5 DEF Files
    <3>2. Told(Keycloak(files')) /\ (KeycloakSent(request) => Agree(Keycloak(files')))
      BY <1>1, <2>1, <2>5, <3>1, RhbkInHand DEF E, KeycloakSent
    <3>3. QED
      BY <2>1, <3>2 DEF IssuerInv
  <2>6. CASE Now = "rhbk" /\ DOMAIN Public(E) = {}
    <3>1. Keycloak(files') = v
      BY <2>3, <2>6 DEF Files, Jobs
    <3>2. ~KeycloakSent(request)
      <4>1. DOMAIN Public(E) = DOMAIN FormOf(request, "rhbk") \ SecretFields
        BY <2>6 DEF E, Input, Public
      <4>2. QED
        BY <2>6, <4>1 DEF KeycloakSent, Sends
    <3>3. QED
      BY <1>1, <2>1, <3>1, <3>2 DEF IssuerInv
  <2>7. CASE Now = "oauth_rhbk"
    <3>1. Keycloak(files') = hand'["rhbk"].vars
      BY <2>3, <2>7 DEF Files, Jobs
    <3>2. Told(Keycloak(files')) /\ (Agree(v) => Agree(Keycloak(files')))
      BY <1>1, <2>1, <2>7, <3>1, OauthRhbkInHand DEF E
    <3>3. Has(todo, "rhbk") => Has(Tail(todo), "rhbk")
      BY <2>1, <2>4, <2>7, HasTail
    <3>4. QED
      BY <2>1, <2>2, <3>2, <3>3 DEF IssuerInv
  <2>8. CASE Now \notin {"rhbk", "oauth_rhbk"}
    <3>1. Keycloak(files') = v
      BY <2>3, <2>8 DEF Files
    <3>2. Has(todo, "rhbk") => Has(Tail(todo), "rhbk")
      BY <2>1, <2>4, <2>8, HasTail
    <3>3. QED
      BY <1>1, <2>1, <2>2, <3>1, <3>2 DEF IssuerInv
  <2>9. QED
    BY <2>5, <2>6, <2>7, <2>8
<1>7. CASE Refuse
  BY <1>7 DEF Refuse, IssuerInv, Steps
<1>8. CASE WriteVault
  <2>1. Keycloak(files') = v
    BY <1>1, <1>8, VaultLeavesVars DEF WriteVault, Keycloak
  <2>2. KeycloakSent(request) => Agree(v) \/ Has(Tail(todo), "rhbk")
    BY <1>8 DEF WriteVault, IssuerInv
  <2>3. CASE pc' = "secrets" /\ UNCHANGED <<todo, hand>>
    BY <1>1, <1>8, <2>1, <2>2, <2>3 DEF WriteVault, IssuerInv, Steps
  <2>4. CASE Advance
    BY <1>1, <1>8, <2>1, <2>2, <2>4 DEF WriteVault, IssuerInv, Steps, Advance
  <2>5. QED
    BY <1>8, <2>3, <2>4 DEF WriteVault
<1>9. CASE WriteSecrets
  <2>1. Keycloak(files') = v
    BY <1>1, <1>9, SecretsLeaveVars DEF WriteSecrets, Keycloak
  <2>2. KeycloakSent(request) => Agree(v) \/ Has(Tail(todo), "rhbk")
    BY <1>9 DEF WriteSecrets, IssuerInv
  <2>3. QED
    BY <1>1, <1>9, <2>1, <2>2 DEF WriteSecrets, IssuerInv, Steps, Advance
<1>10. CASE Encrypt
  <2>1. \A b : [files EXCEPT !.sealed = b].vars = files.vars
    BY <1>1 DEF ThreeParts
  <2>2. Keycloak(files') = v
    BY <1>10, <2>1 DEF Encrypt, Keycloak
  <2>3. KeycloakSent(request) => Agree(v)
    BY <1>10 DEF Encrypt, IssuerInv, Has
  <2>4. QED
    BY <1>1, <1>10, <2>2, <2>3 DEF Encrypt, IssuerInv, Steps
<1>11. CASE Stop
  BY <1>11 DEF Stop, IssuerInv, Steps
<1>12. CASE UNCHANGED overlayVars
  BY <1>12 DEF overlayVars, IssuerInv
<1>13. QED
  BY <1>2, <1>3, <1>4, <1>5, <1>6, <1>7, <1>8, <1>9, <1>10, <1>11, <1>12 DEF Next

\* Wherever a form of Keycloak on OpenShift is sent, the issuer of OpenShift's
\* sign-on is the route of that Keycloak when the run is done: whatever standalone
\* or stopped runs left, and whether or not the sign-on wrote both before.
THEOREM IssuerForAll == Spec => []IssuerIsKeycloak
<1>1. Init => IssuerInv
  <2> SUFFICES ASSUME Init
               PROVE  IssuerInv
    OBVIOUS
  <2>1. Keycloak(files) = <<>>
    <3> DEFINE none == <<>>
    <3>1. files.vars = none /\ DOMAIN none = {}
      BY DEF Init
    <3> HIDE DEF none
    <3>2. Load(none, "rhbk") = <<>>
      BY <3>1 DEF Load
    <3>3. QED
      BY <3>1, <3>2 DEF Keycloak
  <2>2. QED
    BY <2>1, NothingTold DEF Init, IssuerInv
<1>2. IssuerInv => IssuerIsKeycloak
  BY DEF IssuerInv, IssuerIsKeycloak, KeycloakSent, Agree, Keycloak, Vars, Host, Iss
<1>3. Init => UsersInv
  BY DEF Init, UsersInv
<1>4. QED
  BY <1>1, <1>2, <1>3, InvAlways, UsersKept, IssuerKept, PTL DEF Spec

-----------------------------------------------------------------------------
(***************************************************************************)
(* What only a standalone install is told.  `Away' are the fields that say *)
(* it; C are the variables of a file that may hold any of it, D the        *)
(* entries of its vault.  A rule is tame if it takes it to no others.      *)
(***************************************************************************)
Away == StandaloneFields
Plain(D, v) == v[2] \notin Away /\ (v[1] = "ref" => v[2] \notin D)
VarsPlain(C, D, f) == \A k \in DOMAIN f : k \notin C => Plain(D, f[k])
VaultPlain(D, g) == \A k \in DOMAIN g : k \notin D => g[k][2] \notin Away

\* What a merge has in hand, which read v0 in the vault.
Apart(C, D, v0, s) ==
    /\ InHandOf(s)
    /\ VarsPlain(C, D, s.vars) /\ VaultPlain(D, s.vault)
    /\ s.dirty \/ s.vault = v0

\* The form tells it in its own fields alone, the rest of the file not at all.
OwnForm(e) ==
    /\ \A f \in DOMAIN e.form : e.form[f] \in Away => f \in Away
    /\ \A k \in DOMAIN e.other \ OtherSecrets :
         e.other[k][1] = "text" /\ e.other[k][2] \notin Away

Pure(C, src) ==
    \/ src[1] \in {"public", "secret"} /\ src[2] \notin Away
    \/ src[1] = "other" /\ src[2] \notin OtherSecrets
    \/ src[1] = "vars" /\ src[2] \notin C
    \/ src[1] = "const" /\ src[2] \notin Away

AllPure(C, from) ==
    /\ from \in Seq({from[i] : i \in DOMAIN from})
    /\ \A i \in DOMAIN from : Pure(C, from[i])

Stores(C, D, r) == KeySet(r.keys) \subseteq D \/ AllPure(C, r.from)
Tame(C, D, r) ==
    \/ r.kind = "copy" /\ (r.to \subseteq C \/ AllPure(C, r.from))
    \/ r.kind = "present" /\ (r.to \subseteq C \/ Pure(C, r.from[1]))
    \/ r.kind \in {"put", "default"}
       /\ (r.to \subseteq C \/ (r.value[1] = "text" /\ r.value[2] \notin Away))
    \/ r.kind \in {"each", "eachpresent"} /\ r.to \intersect Away = {}
    \/ r.kind \in {"flag", "flagpresent", "drop", "dropvault"}
    \/ r.kind = "stash" /\ r.keys[1] \notin Away
       /\ (r.to \subseteq C \/ r.keys[1] \notin D) /\ Stores(C, D, r)
    \/ r.kind = "stashonly" /\ Stores(C, D, r)

LEMMA NoneIsPlain == ASSUME NEW D PROVE Plain(D, None)
BY DEF Plain, None, Blank, Away, StandaloneFields, SecretFields

LEMMA LookIsPlain ==
    ASSUME NEW C, NEW D, NEW e, NEW s, NEW src,
           OwnForm(e), VarsPlain(C, D, s.vars), Pure(C, src)
    PROVE  Plain(D, Look(e, s, src))
<1>1. CASE src[1] = "public" /\ src[2] \notin Away
  BY <1>1, NoneIsPlain DEF Look, At, Public, Text, OwnForm, Plain
<1>2. CASE src[1] = "secret" /\ src[2] \notin Away
  BY <1>2, NoneIsPlain DEF Look, At, Secret, Text, OwnForm, Plain
<1>3. CASE src[1] = "other" /\ src[2] \notin OtherSecrets
  BY <1>3, NoneIsPlain DEF Look, At, OwnForm, Plain
<1>4. CASE src[1] = "vars" /\ src[2] \notin C
  BY <1>4, NoneIsPlain DEF Look, At, VarsPlain
<1>5. CASE src[1] = "const" /\ src[2] \notin Away
  BY <1>5 DEF Look, Text, Plain
<1>6. QED
  BY <1>1, <1>2, <1>3, <1>4, <1>5 DEF Pure

LEMMA FirstIsPlain ==
    ASSUME NEW C, NEW D, NEW e, NEW s, NEW from,
           OwnForm(e), VarsPlain(C, D, s.vars), AllPure(C, from)
    PROVE  Plain(D, FirstPresent(e, s, from))
<1>1. DOMAIN from \subseteq Nat
  BY DEF AllPure
<1>2. \A i \in DOMAIN from : Plain(D, Look(e, s, from[i]))
  BY LookIsPlain DEF AllPure
<1>3. QED
  BY <1>1, <1>2, NoneIsPlain, FirstIsOneOf

LEMMA BoolIsPlain == ASSUME NEW D, NEW v PROVE Plain(D, AsBool(v))
BY DEF Plain, AsBool, Yes, No, Text, Away, StandaloneFields, SecretFields

\* A name written over, dropped, or left as it was.
LEMMA PlainSet ==
    ASSUME NEW C, NEW D, NEW f, NEW names, NEW v, VarsPlain(C, D, f),
           names \subseteq C \/ Plain(D, v)
    PROVE  VarsPlain(C, D, SetAll(f, names, v))
BY DEF VarsPlain, SetAll, ++

LEMMA PlainVaultSet ==
    ASSUME NEW D, NEW g, NEW keys, NEW v, VaultPlain(D, g),
           keys \subseteq D \/ v[2] \notin Away
    PROVE  VaultPlain(D, SetAll(g, keys, v))
BY DEF VaultPlain, SetAll, ++

LEMMA PlainWithout ==
    ASSUME NEW C, NEW D, NEW f, NEW names
    PROVE  /\ VarsPlain(C, D, f) => VarsPlain(C, D, Without(f, names))
           /\ VarsPlain(C, D, f) => VarsPlain(C \ names, D, Without(f, names))
           /\ VaultPlain(D, f) => VaultPlain(D, Without(f, names))
BY DEF VarsPlain, VaultPlain, Without

LEMMA PlainNamed ==
    ASSUME NEW C, NEW D, NEW e, NEW r, NEW f,
           OwnForm(e), VarsPlain(C, D, f), r.to \intersect Away = {}
    PROVE  VarsPlain(C, D, Named(e, r, f))
<1> DEFINE blank == IF r.kind = "each" THEN {Blank} ELSE {}
           fields == {g \in r.to \intersect DOMAIN Public(e) : e.form[g] \notin blank}
           new == [k \in {r.keys[1] \o g : g \in fields} |->
                     Text(e.form[CHOOSE g \in fields : r.keys[1] \o g = k])]
<1>1. \A g \in fields : e.form[g] \notin Away
  BY DEF OwnForm, Public
<1>2. Named(e, r, f) = new ++ f
  BY DEF Named
<1> HIDE DEF fields
<1>3. \A k \in DOMAIN new : \E g \in fields : new[k] = Text(e.form[g])
  OBVIOUS
<1>4. \A k \in DOMAIN new : Plain(D, new[k])
  BY <1>1, <1>3 DEF Plain, Text
<1> HIDE DEF new
<1>5. QED
  BY <1>2, <1>4 DEF VarsPlain, ++

\* What a change of the vars, of the vault, of both leaves in hand.
LEMMA ApartVars ==
    ASSUME NEW C, NEW C2, NEW D, NEW v0, NEW s, NEW a, Apart(C, D, v0, s), VarsPlain(C2, D, a)
    PROVE  Apart(C2, D, v0, [s EXCEPT !.vars = a])
<1>1. /\ InHandOf([s EXCEPT !.vars = a]) /\ [s EXCEPT !.vars = a].vars = a
      /\ [s EXCEPT !.vars = a].vault = s.vault /\ [s EXCEPT !.vars = a].dirty = s.dirty
  BY DEF InHandOf, Apart
<1>2. QED
  BY <1>1, Zenon DEF Apart

LEMMA ApartVault ==
    ASSUME NEW C, NEW D, NEW v0, NEW s, NEW b, Apart(C, D, v0, s), VaultPlain(D, b)
    PROVE  Apart(C, D, v0, [s EXCEPT !.vault = b, !.dirty = TRUE])
<1> DEFINE t == [s EXCEPT !.vault = b, !.dirty = TRUE]
<1>1. InHandOf(t) /\ t.vars = s.vars /\ t.vault = b /\ t.dirty = TRUE
  BY DEF InHandOf, Apart
<1> HIDE DEF t
<1>2. Apart(C, D, v0, t)
  BY <1>1, Zenon DEF Apart
<1>3. QED
  BY <1>2 DEF t

LEMMA ApartStored ==
    ASSUME NEW C, NEW C2, NEW D, NEW D2, NEW v0, NEW s, NEW r, NEW v, Apart(C, D, v0, s),
           VarsPlain(C2, D2, SetAll(s.vars, r.to, Ref(r.keys[1]))),
           VaultPlain(D2, SetAll(s.vault, KeySet(r.keys), v))
    PROVE  Apart(C2, D2, v0, Stored(s, r, v, TRUE))
<1> DEFINE a == SetAll(s.vars, r.to, Ref(r.keys[1]))
           b == SetAll(s.vault, KeySet(r.keys), v)
           c == (s.dirty \/ TRUE)
           t == [s EXCEPT !.vars = a, !.vault = b, !.dirty = c]
<1>1. Stored(s, r, v, TRUE) = t
  BY Zenon DEF Stored
<1>2. VarsPlain(C2, D2, a) /\ VaultPlain(D2, b) /\ c
  OBVIOUS
<1> HIDE DEF a, b, c
<1>3. InHandOf(t) /\ t.vars = a /\ t.vault = b /\ t.dirty = c
  BY DEF InHandOf, Apart
<1> HIDE DEF t
<1>4. Apart(C2, D2, v0, t)
  BY <1>2, <1>3, Zenon DEF Apart
<1>5. QED
  BY <1>1, <1>4

\* A tame rule leaves apart what is apart.
LEMMA ApplyIsApart ==
    ASSUME NEW C, NEW D, NEW v0, NEW e, NEW s, NEW r,
           OwnForm(e), Apart(C, D, v0, s), Tame(C, D, r)
    PROVE  Apart(C, D, v0, Apply(e, s, r))
<1> DEFINE v == FirstPresent(e, s, r.from)
           raw == Look(e, s, r.from[1])
           t == Applied(e, s, r, v, raw)
           Good(h) == Apart(C, D, v0, h)
           Fit(w) == r.to \subseteq C \/ Plain(D, w)
<1> SUFFICES Good(t)
  BY DEF Apply
<1>1. VarsPlain(C, D, s.vars) /\ VaultPlain(D, s.vault) /\ Good(s)
  BY DEF Apart
<1>2. \A w : Fit(w) => Good([s EXCEPT !.vars = SetAll(s.vars, r.to, w)])
  BY <1>1, ApartVars, PlainSet
<1>3. \A w : KeySet(r.keys) \subseteq D \/ w[2] \notin Away =>
         Good([s EXCEPT !.vault = SetAll(s.vault, KeySet(r.keys), w), !.dirty = TRUE])
  BY <1>1, ApartVault, PlainVaultSet
<1>4. \A w : Fit(AsBool(w))
  BY BoolIsPlain
<1>5. AllPure(C, r.from) => Plain(D, v)
  BY <1>1, FirstIsPlain
<1>6. Stores(C, D, r) => KeySet(r.keys) \subseteq D \/ v[2] \notin Away
  BY <1>5 DEF Stores, Plain
<1>7. Pure(C, r.from[1]) => Plain(D, raw)
  BY <1>1, LookIsPlain
<1>8. Good([s EXCEPT !.vars = Without(s.vars, r.to)])
  BY <1>1, ApartVars, PlainWithout
<1>9. Good([s EXCEPT !.vault = Without(s.vault, r.to), !.dirty = TRUE])
  BY <1>1, ApartVault, PlainWithout
<1>10. r.to \intersect Away = {} => Good([s EXCEPT !.vars = Named(e, r, s.vars)])
  BY <1>1, ApartVars, PlainNamed
<1>11. r.keys[1] \notin Away /\ (r.to \subseteq C \/ r.keys[1] \notin D) /\ Stores(C, D, r)
         => Good(Stored(s, r, v, TRUE))
  <2>1. Ref(r.keys[1]) = <<"ref", r.keys[1]>>
    BY DEF Ref
  <2>2. r.keys[1] \notin Away /\ (r.to \subseteq C \/ r.keys[1] \notin D) =>
          VarsPlain(C, D, SetAll(s.vars, r.to, Ref(r.keys[1])))
    BY <1>1, <2>1, PlainSet DEF Plain
  <2>3. Stores(C, D, r) => VaultPlain(D, SetAll(s.vault, KeySet(r.keys), v))
    BY <1>1, <1>6, PlainVaultSet
  <2>4. QED
    BY <2>2, <2>3, ApartStored
<1> HIDE DEF v, raw, Good
<1>a. CASE r.kind = "copy" /\ (r.to \subseteq C \/ AllPure(C, r.from))
  BY <1>1, <1>2, <1>5, <1>a, Zenon DEF Applied
<1>b. CASE r.kind = "present" /\ (r.to \subseteq C \/ Pure(C, r.from[1]))
  BY <1>1, <1>2, <1>7, <1>b, Zenon DEF Applied
<1>c. CASE /\ r.kind \in {"put", "default"}
           /\ r.to \subseteq C \/ (r.value[1] = "text" /\ r.value[2] \notin Away)
  <2>1. Fit(r.value)
    BY <1>c DEF Plain
  <2>2. Good([s EXCEPT !.vars = SetAll(s.vars, r.to, r.value)])
    BY <1>2, <2>1
  <2>3. CASE r.kind = "put"
    BY <2>2, <2>3, Zenon DEF Applied
  <2>4. CASE r.kind = "default"
    BY <1>1, <2>2, <2>4, Zenon DEF Applied
  <2>5. QED
    BY <1>c, <2>3, <2>4
<1>d. CASE r.kind \in {"each", "eachpresent"} /\ r.to \intersect Away = {}
  BY <1>10, <1>d, Zenon DEF Applied
<1>e. CASE r.kind = "flag"
  BY <1>1, <1>2, <1>4, <1>e, Zenon DEF Applied
<1>f. CASE r.kind = "flagpresent"
  BY <1>1, <1>2, <1>4, <1>f, Zenon DEF Applied
<1>g. CASE r.kind = "drop"
  BY <1>8, <1>g, Zenon DEF Applied
<1>h. CASE r.kind = "dropvault"
  BY <1>1, <1>9, <1>h, Zenon DEF Applied
<1>i. CASE /\ r.kind = "stash" /\ r.keys[1] \notin Away
           /\ (r.to \subseteq C \/ r.keys[1] \notin D) /\ Stores(C, D, r)
  BY <1>1, <1>11, <1>i, Zenon DEF Applied
<1>j. CASE r.kind = "stashonly" /\ Stores(C, D, r)
  BY <1>1, <1>3, <1>6, <1>j, Zenon DEF Applied
<1>z. QED
  BY <1>a, <1>b, <1>c, <1>d, <1>e, <1>f, <1>g, <1>h, <1>i, <1>j DEF Tame

(***************************************************************************)
(* Rules that leave less: a first value that is there and is plain stands  *)
(* where another may have stood.                                           *)
(***************************************************************************)
Moves(e, v0, C, D, r, C2, D2) ==
    \A s : Apart(C, D, v0, s) => Apart(C2, D2, v0, Apply(e, s, r))

LEMMA TameMoves ==
    ASSUME NEW C, NEW D, NEW v0, NEW e, NEW r, OwnForm(e), Tame(C, D, r)
    PROVE  Moves(e, v0, C, D, r, C, D)
BY ApplyIsApart DEF Moves

LEMMA DropMoves ==
    ASSUME NEW C, NEW D, NEW v0, NEW e, NEW names
    PROVE  Moves(e, v0, C, D, Drop(names), C \ names, D)
<1> SUFFICES ASSUME NEW s, Apart(C, D, v0, s)
             PROVE  Apart(C \ names, D, v0, Apply(e, s, Drop(names)))
  BY DEF Moves
<1> DEFINE r == Drop(names)
           v == FirstPresent(e, s, r.from)
           raw == Look(e, s, r.from[1])
<1>1. r.kind = "drop" /\ r.to = names
  BY DEF Drop, Rule
<1>2. Apply(e, s, r) = Applied(e, s, r, v, raw)
  BY DEF Apply
<1> HIDE DEF r, v, raw
<1>3. Applied(e, s, r, v, raw) = [s EXCEPT !.vars = Without(s.vars, names)]
  BY <1>1, Zenon DEF Applied
<1>4. VarsPlain(C \ names, D, Without(s.vars, names))
  BY PlainWithout DEF Apart
<1>5. Apart(C \ names, D, v0, Apply(e, s, r))
  BY <1>2, <1>3, <1>4, ApartVars
<1>6. QED
  BY <1>5 DEF r

\* What is given first is what is found.
LEMMA GivenFirst ==
    ASSUME NEW e, NEW s, NEW from, DOMAIN from \subseteq Nat \ {0}, 1 \in DOMAIN from,
           Look(e, s, from[1]) \notin Missing
    PROVE  FirstPresent(e, s, from) = Look(e, s, from[1])
<1> DEFINE given == {i \in DOMAIN from : Look(e, s, from[i]) \notin Missing}
<1>1. 1 \in given /\ \A i \in given : 1 <= i
  OBVIOUS
<1>2. Min(given) = 1
  <2>1. \A i \in given : (\A j \in given : i <= j) => i = 1
    BY <1>1
  <2> HIDE DEF given
  <2>2. QED
    BY <1>1, <2>1 DEF Min
<1>3. QED
  BY <1>1, <1>2 DEF FirstPresent, FirstBut

\* The values a form says, which no run changes.
Said(e, src) ==
    \/ src[1] \in {"public", "secret"} /\ src[2] \notin Away
       /\ (src[1] = "secret" <=> src[2] \in SecretFields)
       /\ src[2] \in DOMAIN e.form /\ e.form[src[2]] # Blank
    \/ src[1] = "const" /\ src[2] \notin Away \union {Blank}
Found(C, e, from) ==
    /\ DOMAIN from \subseteq Nat \ {0}
    /\ \/ 1 \in DOMAIN from /\ Said(e, from[1])
       \/ AllPure(C, from) /\ \E i \in DOMAIN from : Said(e, from[i])

LEMMA SaidIsGiven ==
    ASSUME NEW e, NEW s, NEW src, OwnForm(e), Said(e, src)
    PROVE  /\ Look(e, s, src) \notin Missing
           /\ \A D : Plain(D, Look(e, s, src))
<1>1. CASE src[1] = "public"
  BY <1>1 DEF Said, Look, At, Public, Text, Missing, None, Plain, OwnForm
<1>2. CASE src[1] = "secret"
  BY <1>2 DEF Said, Look, At, Secret, Text, Missing, None, Plain, OwnForm
<1>3. CASE src[1] = "const"
  BY <1>3 DEF Said, Look, Text, Missing, None, Plain
<1>4. QED
  BY <1>1, <1>2, <1>3 DEF Said

LEMMA FoundIsPlain ==
    ASSUME NEW C, NEW D, NEW e, NEW s, NEW from,
           OwnForm(e), VarsPlain(C, D, s.vars), Found(C, e, from)
    PROVE  FirstPresent(e, s, from) # None /\ Plain(D, FirstPresent(e, s, from))
<1> DEFINE v == FirstPresent(e, s, from)
           given == {i \in DOMAIN from : Look(e, s, from[i]) \notin Missing}
<1>1. CASE 1 \in DOMAIN from /\ Said(e, from[1])
  <2>1. Look(e, s, from[1]) \notin Missing /\ Plain(D, Look(e, s, from[1]))
    BY <1>1, SaidIsGiven
  <2>2. v = Look(e, s, from[1])
    BY <1>1, <2>1, GivenFirst DEF Found
  <2>3. QED
    BY <2>1, <2>2 DEF Missing
<1>2. CASE AllPure(C, from) /\ \E i \in DOMAIN from : Said(e, from[i])
  <2>1. Plain(D, v)
    BY <1>2, FirstIsPlain
  <2>2. given # {} /\ given \subseteq Nat
    BY <1>2, SaidIsGiven DEF Found
  <2>3. PICK i \in given : \A j \in given : i <= j
    BY <2>2, LeastNumber
  <2>4. Min(given) \in given
    BY <2>3 DEF Min
  <2>5. v \notin Missing
    BY <2>2, <2>4 DEF FirstPresent, FirstBut
  <2>6. QED
    BY <2>1, <2>5 DEF Missing
<1>3. QED
  BY <1>1, <1>2 DEF Found

LEMMA CopyMoves ==
    ASSUME NEW C, NEW D, NEW v0, NEW e, NEW to, NEW from, OwnForm(e), Found(C, e, from)
    PROVE  Moves(e, v0, C, D, Copy(to, from), C \ to, D)
<1> SUFFICES ASSUME NEW s, Apart(C, D, v0, s)
             PROVE  Apart(C \ to, D, v0, Apply(e, s, Copy(to, from)))
  BY DEF Moves
<1> DEFINE r == Copy(to, from)
           v == FirstPresent(e, s, from)
           raw == Look(e, s, r.from[1])
<1>1. r.kind = "copy" /\ r.to = to /\ r.from = from
  BY DEF Copy, Rule
<1>2. Apply(e, s, r) = Applied(e, s, r, v, raw)
  BY <1>1 DEF Apply
<1>3. v # None /\ Plain(D, v)
  BY FoundIsPlain DEF Apart
<1> HIDE DEF r, v, raw
<1>4. Applied(e, s, r, v, raw) = [s EXCEPT !.vars = SetAll(s.vars, to, v)]
  BY <1>1, <1>3, Zenon DEF Applied
<1>5. VarsPlain(C \ to, D, SetAll(s.vars, to, v))
  BY <1>3 DEF Apart, VarsPlain, SetAll, ++
<1>6. Apart(C \ to, D, v0, Apply(e, s, r))
  BY <1>2, <1>4, <1>5, ApartVars
<1>7. QED
  BY <1>6 DEF r

LEMMA StashMoves ==
    ASSUME NEW C, NEW D, NEW v0, NEW e, NEW to, NEW keys, NEW from,
           OwnForm(e), Found(C, e, from), keys[1] \notin Away, 1 \in DOMAIN keys
    PROVE  Moves(e, v0, C, D, Stash(to, keys, from), C \ to, D \ KeySet(keys))
<1> SUFFICES ASSUME NEW s, Apart(C, D, v0, s)
             PROVE  Apart(C \ to, D \ KeySet(keys), v0, Apply(e, s, Stash(to, keys, from)))
  BY DEF Moves
<1> DEFINE r == Stash(to, keys, from)
           v == FirstPresent(e, s, from)
           raw == Look(e, s, r.from[1])
           D2 == D \ KeySet(keys)
<1>1. r.kind = "stash" /\ r.to = to /\ r.from = from /\ r.keys = keys
  BY DEF Stash, Rule
<1>2. Apply(e, s, r) = Applied(e, s, r, v, raw)
  BY <1>1 DEF Apply
<1>3. v # None /\ Plain(D, v)
  BY FoundIsPlain DEF Apart
<1> HIDE DEF r, v, raw
<1>4. Applied(e, s, r, v, raw) = Stored(s, r, v, TRUE)
  BY <1>1, <1>3, Zenon DEF Applied
<1>5. VarsPlain(C \ to, D2, SetAll(s.vars, r.to, Ref(r.keys[1])))
  <2>1. keys[1] \notin D2
    BY DEF KeySet
  <2>2. Plain(D2, Ref(keys[1]))
    BY <2>1 DEF Plain, Ref
  <2>3. \A w : Plain(D, w) => Plain(D2, w)
    BY DEF Plain
  <2> HIDE DEF D2
  <2>4. QED
    BY <1>1, <2>2, <2>3 DEF Apart, VarsPlain, SetAll, ++
<1>6. VaultPlain(D2, SetAll(s.vault, KeySet(r.keys), v))
  BY <1>1, <1>3 DEF Apart, VaultPlain, Plain, SetAll, ++
<1>7. Apart(C \ to, D2, v0, Apply(e, s, r))
  BY <1>2, <1>4, <1>5, <1>6, ApartStored
<1>8. QED
  BY <1>7 DEF r

(***************************************************************************)
(* Rules in order.                                                         *)
(***************************************************************************)
\* One sequence after another.
LEMMA RunJoin ==
    ASSUME NEW e, NEW s, NEW a, NEW b, List(a), List(b)
    PROVE  RunRules(e, s, a \o b) = RunRules(e, RunRules(e, s, a), b)
<1> DEFINE c == a \o b
           m == Len(a)
           n == Len(b)
           F == After(e, s, c)
           G == After(e, s, a)
           t == RunRules(e, s, a)
           H == After(e, t, b)
<1>1. /\ m \in Nat /\ n \in Nat /\ Len(c) = m + n
      /\ DOMAIN a = 1 .. m /\ DOMAIN b = 1 .. n
      /\ \A i \in 1 .. m : c[i] = a[i]
      /\ \A i \in 1 .. n : c[m + i] = b[i]
  <2> DEFINE V == {a[i] : i \in DOMAIN a} \union {b[i] : i \in DOMAIN b}
  <2>1. a \in Seq(V) /\ b \in Seq(V)
    BY DEF List
  <2> HIDE DEF V
  <2>2. m \in Nat /\ n \in Nat /\ Len(c) = m + n /\ DOMAIN a = 1 .. m /\ DOMAIN b = 1 .. n
    BY <2>1
  <2>3. \A i \in DOMAIN a : c[i] = a[i]
    BY ListsJoin
  <2>4. \A i \in DOMAIN b : c[m + i] = b[i]
    BY ListsJoin
  <2>5. QED
    BY <2>2, <2>3, <2>4
<1> HIDE DEF c, m, n
<1>2. \A i \in 0 .. m + n : F[i] = AfterRule(e, s, c, F, i)
  <2>1. Len(c) \in Nat /\ 0 .. Len(c) = 0 .. m + n
    BY <1>1
  <2>2. QED
    BY <2>1, AfterUnfolds
<1>3. \A i \in 0 .. m : G[i] = AfterRule(e, s, a, G, i)
  BY <1>1, AfterUnfolds DEF m
<1> HIDE DEF t
<1>4. \A i \in 0 .. n : H[i] = AfterRule(e, t, b, H, i)
  BY <1>1, AfterUnfolds DEF n
<1>5. t = G[m]
  BY RunRulesIsAfter DEF m, t
<1>6. RunRules(e, s, c) = F[m + n] /\ RunRules(e, t, b) = H[n]
  BY <1>1, RunRulesIsAfter DEF n
<1> HIDE DEF F, G, H
<1> DEFINE P == {i \in Nat : i <= m => F[i] = G[i]}
           Q == {i \in Nat : i <= n => F[m + i] = H[i]}
<1>7. 0 \in P
  BY <1>1, <1>2, <1>3 DEF AfterRule
<1>8. ASSUME NEW i \in Nat, i \in P
      PROVE  i + 1 \in P
  <2> SUFFICES ASSUME i + 1 <= m
               PROVE  F[i + 1] = G[i + 1]
    OBVIOUS
  <2>1. /\ i + 1 \in 0 .. m + n /\ i + 1 \in 0 .. m /\ i + 1 \in 1 .. m /\ i + 1 # 0
        /\ (i + 1) - 1 = i /\ i <= m
    BY <1>1
  <2>2. F[i + 1] = AfterRule(e, s, c, F, i + 1) /\ G[i + 1] = AfterRule(e, s, a, G, i + 1)
    BY <1>2, <1>3, <2>1
  <2>3. F[i] = G[i] /\ c[i + 1] = a[i + 1]
    BY <1>1, <1>8, <2>1
  <2>4. QED
    BY <2>1, <2>2, <2>3 DEF AfterRule
<1>9. \A i \in Nat : i \in P
  <2> HIDE DEF P
  <2>1. QED
    BY <1>7, <1>8, SetInduction
<1>10. 0 \in Q
  <2>1. F[m] = G[m]
    BY <1>1, <1>9
  <2>2. m + 0 = m /\ H[0] = t
    BY <1>1, <1>4 DEF AfterRule
  <2>3. QED
    BY <1>5, <2>1, <2>2
<1>11. ASSUME NEW i \in Nat, i \in Q
       PROVE  i + 1 \in Q
  <2> SUFFICES ASSUME i + 1 <= n
               PROVE  F[m + (i + 1)] = H[i + 1]
    OBVIOUS
  <2>1. /\ m + (i + 1) \in 0 .. m + n /\ i + 1 \in 0 .. n /\ i + 1 \in 1 .. n
        /\ i + 1 # 0 /\ m + (i + 1) # 0 /\ (i + 1) - 1 = i
        /\ (m + (i + 1)) - 1 = m + i /\ i <= n
    BY <1>1
  <2>2. /\ F[m + (i + 1)] = AfterRule(e, s, c, F, m + (i + 1))
        /\ H[i + 1] = AfterRule(e, t, b, H, i + 1)
    BY <1>2, <1>4, <2>1
  <2>3. F[m + i] = H[i] /\ c[m + (i + 1)] = b[i + 1]
    BY <1>1, <1>11, <2>1
  <2>4. QED
    BY <2>1, <2>2, <2>3 DEF AfterRule
<1>12. \A i \in Nat : i \in Q
  <2> HIDE DEF Q
  <2>1. QED
    BY <1>10, <1>11, SetInduction
<1>13. F[m + n] = H[n]
  BY <1>1, <1>12
<1>14. QED
  BY <1>6, <1>13 DEF c, t

LEMMA RunNone == ASSUME NEW e, NEW s PROVE List(<<>>) /\ RunRules(e, s, <<>>) = s
<1> DEFINE none == <<>>
<1>1. Len(none) = 0 /\ List(none)
  BY DEF List
<1> HIDE DEF none
<1>2. RunRules(e, s, none) = s
  BY <1>1, RunRulesIsAfter, AfterUnfolds DEF AfterRule
<1>3. QED
  BY <1>1, <1>2 DEF none

LEMMA RunOne == ASSUME NEW e, NEW s, NEW r
                PROVE  List(<<r>>) /\ RunRules(e, s, <<r>>) = Apply(e, s, r)
<1> DEFINE one == <<r>>
           T == After(e, s, one)
<1>1. Len(one) = 1 /\ one[1] = r /\ List(one)
  BY DEF List
<1> HIDE DEF one
<1>2. RunRules(e, s, one) = T[1] /\ \A i \in 0 .. 1 : T[i] = AfterRule(e, s, one, T, i)
  <2>1. Len(one) \in Nat /\ 0 .. Len(one) = 0 .. 1
    BY <1>1
  <2>2. QED
    BY <1>1, <2>1, RunRulesIsAfter, AfterUnfolds
<1> HIDE DEF T
<1>3. T[0] = s /\ T[1] = Apply(e, T[0], one[1])
  BY <1>2 DEF AfterRule
<1>4. QED
  BY <1>1, <1>2, <1>3 DEF one

Leads(e, v0, C, D, rules, C2, D2) ==
    /\ List(rules)
    /\ \A s : Apart(C, D, v0, s) => Apart(C2, D2, v0, RunRules(e, s, rules))

AllTame(C, D, rules) == List(rules) /\ \A i \in DOMAIN rules : Tame(C, D, rules[i])

LEMMA LeadsJoin ==
    ASSUME NEW e, NEW v0, NEW C, NEW D, NEW C1, NEW D1, NEW C2, NEW D2, NEW a, NEW b,
           Leads(e, v0, C, D, a, C1, D1), Leads(e, v0, C1, D1, b, C2, D2)
    PROVE  Leads(e, v0, C, D, a \o b, C2, D2)
<1>1. List(a) /\ List(b)
  BY DEF Leads
<1>2. List(a \o b) /\ \A s : RunRules(e, s, a \o b) = RunRules(e, RunRules(e, s, a), b)
  BY <1>1, ListsJoin, RunJoin
<1> DEFINE c == a \o b
<1> HIDE DEF c
<1>3. Leads(e, v0, C, D, c, C2, D2)
  BY <1>2 DEF Leads, c
<1>4. QED
  BY <1>3 DEF c

\* Fewer variables may hold any, of the same entries of the vault.
LEMMA LeadsWiden ==
    ASSUME NEW e, NEW v0, NEW C, NEW D, NEW C1, NEW C2, NEW D2, NEW rules,
           Leads(e, v0, C, D, rules, C1, D2), C1 \subseteq C2
    PROVE  Leads(e, v0, C, D, rules, C2, D2)
BY DEF Leads, Apart, VarsPlain

LEMMA NoneLeads == ASSUME NEW e, NEW v0, NEW C, NEW D PROVE Leads(e, v0, C, D, <<>>, C, D)
<1> DEFINE none == <<>>
<1>1. List(none) /\ \A s : RunRules(e, s, none) = s
  BY RunNone
<1> HIDE DEF none
<1>2. Leads(e, v0, C, D, none, C, D)
  BY <1>1 DEF Leads
<1>3. QED
  BY <1>2 DEF none

LEMMA OneLeads ==
    ASSUME NEW e, NEW v0, NEW C, NEW D, NEW C2, NEW D2, NEW r, Moves(e, v0, C, D, r, C2, D2)
    PROVE  Leads(e, v0, C, D, <<r>>, C2, D2)
<1> DEFINE one == <<r>>
<1>1. List(one) /\ \A s : RunRules(e, s, one) = Apply(e, s, r)
  BY RunOne
<1> HIDE DEF one
<1>2. Leads(e, v0, C, D, one, C2, D2)
  BY <1>1 DEF Leads, Moves
<1>3. QED
  BY <1>2 DEF one

\* Rules one after the other, each from where the one before it led.
LEMMA ChainLeads ==
    ASSUME NEW e, NEW v0, NEW rules, List(rules), NEW Cs, NEW Ds,
           \A i \in 1 .. Len(rules) :
             Moves(e, v0, Cs[i - 1], Ds[i - 1], rules[i], Cs[i], Ds[i])
    PROVE  Leads(e, v0, Cs[0], Ds[0], rules, Cs[Len(rules)], Ds[Len(rules)])
<1> SUFFICES ASSUME NEW s, Apart(Cs[0], Ds[0], v0, s)
             PROVE  Apart(Cs[Len(rules)], Ds[Len(rules)], v0, RunRules(e, s, rules))
  BY DEF Leads
<1> DEFINE T == After(e, s, rules)
           N == Len(rules)
           Good(i, h) == Apart(Cs[i], Ds[i], v0, h)
           P == {n \in Nat : n <= N => Good(n, T[n])}
<1>1. N \in Nat
  BY DEF List
<1>2. \A i \in 0 .. N : T[i] = AfterRule(e, s, rules, T, i)
  BY <1>1, AfterUnfolds
<1>3. \A i \in 1 .. N : \A h : Good(i - 1, h) => Good(i, Apply(e, h, rules[i]))
  BY DEF Moves
<1>4. Good(0, s)
  OBVIOUS
<1>5. RunRules(e, s, rules) = T[N]
  BY RunRulesIsAfter
<1> HIDE DEF T, N, Good
<1>6. 0 \in P
  BY <1>1, <1>2, <1>4 DEF AfterRule
<1>7. ASSUME NEW n \in Nat, n \in P
      PROVE  n + 1 \in P
  <2> SUFFICES ASSUME n + 1 <= N
               PROVE  Good(n + 1, T[n + 1])
    OBVIOUS
  <2>1. n + 1 \in 0 .. N /\ n + 1 \in 1 .. N /\ n + 1 # 0 /\ (n + 1) - 1 = n /\ n <= N
    BY <1>1
  <2>2. T[n + 1] = Apply(e, T[n], rules[n + 1])
    BY <1>2, <2>1 DEF AfterRule
  <2>3. Good(n, T[n])
    BY <1>7, <2>1
  <2>4. QED
    BY <1>3, <2>1, <2>2, <2>3
<1>8. \A n \in Nat : n \in P
  <2> HIDE DEF P
  <2>1. QED
    BY <1>6, <1>7, SetInduction
<1>9. QED
  BY <1>1, <1>5, <1>8 DEF Good, N

\* Tame rules lead nowhere else.
LEMMA TameLeads ==
    ASSUME NEW e, NEW v0, NEW C, NEW D, NEW rules, OwnForm(e), AllTame(C, D, rules)
    PROVE  Leads(e, v0, C, D, rules, C, D)
<1> SUFFICES ASSUME NEW s, Apart(C, D, v0, s)
             PROVE  Apart(C, D, v0, RunRules(e, s, rules))
  BY DEF Leads, AllTame
<1> DEFINE T == After(e, s, rules)
           N == Len(rules)
           Good(h) == Apart(C, D, v0, h)
           P == {n \in Nat : n <= N => Good(T[n])}
<1>1. N \in Nat /\ DOMAIN rules = 1 .. N
  BY DEF AllTame, List
<1>2. \A i \in 0 .. N : T[i] = AfterRule(e, s, rules, T, i)
  BY <1>1, AfterUnfolds
<1>3. \A h, r : Good(h) /\ Tame(C, D, r) => Good(Apply(e, h, r))
  BY ApplyIsApart
<1>4. Good(s)
  OBVIOUS
<1>5. RunRules(e, s, rules) = T[N]
  BY RunRulesIsAfter
<1> HIDE DEF T, N, Good
<1>6. 0 \in P
  BY <1>1, <1>2, <1>4 DEF AfterRule
<1>7. ASSUME NEW n \in Nat, n \in P
      PROVE  n + 1 \in P
  <2> SUFFICES ASSUME n + 1 <= N
               PROVE  Good(T[n + 1])
    OBVIOUS
  <2>1. /\ n + 1 \in 0 .. N /\ n + 1 \in DOMAIN rules /\ n + 1 # 0 /\ (n + 1) - 1 = n
        /\ n <= N
    BY <1>1
  <2>2. T[n + 1] = Apply(e, T[n], rules[n + 1])
    BY <1>2, <2>1 DEF AfterRule
  <2>3. Tame(C, D, rules[n + 1]) /\ Good(T[n])
    BY <1>7, <2>1 DEF AllTame
  <2>4. QED
    BY <1>3, <2>2, <2>3
<1>8. \A n \in Nat : n \in P
  <2> HIDE DEF P
  <2>1. QED
    BY <1>6, <1>7, SetInduction
<1>9. QED
  BY <1>1, <1>5, <1>8 DEF Good

-----------------------------------------------------------------------------
(***************************************************************************)
(* Which sources are pure and which rules are tame.                        *)
(***************************************************************************)
LEMMA PurePlaces ==
    ASSUME NEW C
    PROVE  /\ \A f : f \notin Away => Pure(C, Pub(f)) /\ Pure(C, Sec(f))
           /\ \A k : k \notin OtherSecrets => Pure(C, Oth(k))
           /\ \A k : k \notin C => Pure(C, Var(k))
           /\ \A v : v \notin Away => Pure(C, Const(v))
BY DEF Pure, Pub, Sec, Oth, Var, Const

LEMMA FewPure ==
    ASSUME NEW C
    PROVE  /\ \A a : Pure(C, a) => AllPure(C, <<a>>)
           /\ \A a, b : Pure(C, a) /\ Pure(C, b) => AllPure(C, <<a, b>>)
           /\ \A a, b, c : Pure(C, a) /\ Pure(C, b) /\ Pure(C, c) => AllPure(C, <<a, b, c>>)
           /\ \A a, b, c, d : Pure(C, a) /\ Pure(C, b) /\ Pure(C, c) /\ Pure(C, d)
                => AllPure(C, <<a, b, c, d>>)
BY DEF AllPure

LEMMA PairPure ==
    ASSUME NEW C, NEW a, NEW b, a \notin Away, b \notin Away
    PROVE  AllPure(C, Pubs(<<a, b>>)) /\ AllPure(C, Secs(<<a, b>>))
<1>1. Pubs(<<a, b>>) = <<Pub(a), Pub(b)>> /\ Secs(<<a, b>>) = <<Sec(a), Sec(b)>>
  BY DEF Pubs, Secs
<1>2. QED
  BY <1>1, PurePlaces, FewPure

LEMMA TameRules ==
    ASSUME NEW C, NEW D
    PROVE  /\ \A to, from : to \subseteq C \/ AllPure(C, from) => Tame(C, D, Copy(to, from))
           /\ \A to, f : to \subseteq C \/ f \notin Away => Tame(C, D, CopyPresent(to, f))
           /\ \A to, v : to \subseteq C \/ v \notin Away => Tame(C, D, Put(to, Text(v)))
           /\ \A to, v, from : v \notin Away => Tame(C, D, Default(to, v, from))
           /\ \A p, fields : fields \intersect Away = {} => Tame(C, D, Each(p, fields))
           /\ \A to, from : Tame(C, D, Flag(to, from))
           /\ \A to, f : Tame(C, D, FlagPresent(to, f))
           /\ \A names : Tame(C, D, Drop(names)) /\ Tame(C, D, DropVault(names))
BY PurePlaces DEF Tame, Copy, CopyPresent, Put, Default, Each, Flag, FlagPresent, Drop,
                  DropVault, Rule, Text

LEMMA TameStash ==
    ASSUME NEW C, NEW D, NEW to, NEW keys, NEW from, keys[1] \notin Away,
           to \subseteq C \/ keys[1] \notin D,
           KeySet(keys) \subseteq D \/ AllPure(C, from)
    PROVE  Tame(C, D, Stash(to, keys, from))
BY DEF Tame, Stores, Stash, Rule

LEMMA TameStashOnly ==
    ASSUME NEW C, NEW D, NEW keys, NEW from, AllPure(C, from)
    PROVE  Tame(C, D, StashOnly(keys, from))
BY DEF Tame, Stores, StashOnly, Rule

LEMMA YesIsText == Yes = Text("yes") /\ No = Text("no") /\ "yes" \notin Away /\ "no" \notin Away
BY DEF Yes, No, Away, StandaloneFields, SecretFields

LEMMA FewTame ==
    ASSUME NEW C, NEW D
    PROVE  /\ AllTame(C, D, <<>>)
           /\ \A a : Tame(C, D, a) => AllTame(C, D, <<a>>)
           /\ \A a, b : Tame(C, D, a) /\ Tame(C, D, b) => AllTame(C, D, <<a, b>>)
           /\ \A a, b, c : Tame(C, D, a) /\ Tame(C, D, b) /\ Tame(C, D, c)
                => AllTame(C, D, <<a, b, c>>)
           /\ \A a, b, c, d : Tame(C, D, a) /\ Tame(C, D, b) /\ Tame(C, D, c) /\ Tame(C, D, d)
                => AllTame(C, D, <<a, b, c, d>>)
BY DEF AllTame, List

LEMMA TameJoin ==
    ASSUME NEW C, NEW D, NEW a, NEW b, AllTame(C, D, a), AllTame(C, D, b)
    PROVE  AllTame(C, D, a \o b)
<1> DEFINE V == {r \in {a[i] : i \in DOMAIN a} \union {b[i] : i \in DOMAIN b} : Tame(C, D, r)}
           c == a \o b
<1>1. a \in Seq(V) /\ b \in Seq(V)
  BY DEF AllTame, List
<1>2. \A r \in V : Tame(C, D, r)
  OBVIOUS
<1> HIDE DEF V
<1>3. c \in Seq(V)
  BY <1>1
<1> HIDE DEF c
<1>4. List(c) /\ \A i \in DOMAIN c : c[i] \in V
  BY <1>3 DEF List
<1>5. AllTame(C, D, c)
  BY <1>2, <1>4 DEF AllTame
<1>6. QED
  BY <1>5 DEF c

-----------------------------------------------------------------------------
(***************************************************************************)
(* The files that may hold what a standalone install is told, and where.   *)
(***************************************************************************)
Movers == {"grafana", "gitlab", "rhbk"}

Hosts(c) ==
    CASE c = "grafana" -> {"grafana_hostname"}
      [] c = "gitlab" -> {"gitlab_hostname"}
      [] OTHER -> {"rhbk_hostname", "rhbk_host", "rhbk_url", "ocp_rhbk_hostname",
                   "keycloak_login_events_keycloak_url"}
Admins(c) == IF c = "rhbk" THEN {"rhbk_admin_user", "ocp_rhbk_admin_user"} ELSE {}
Passwords(c) ==
    CASE c = "grafana" -> {"grafana_admin_password", "grafana_install_admin_password"}
      [] c = "gitlab" -> {"gitlab_root_password", "gitlab_install_root_password",
                          "root_password"}
      [] OTHER -> {"rhbk_admin_password", "ocp_rhbk_admin_password"}
PasswordKeys(c) ==
    CASE c = "grafana" -> {"vault_grafana_admin_password", "grafana_admin_password"}
      [] c = "gitlab" -> {"vault_gitlab_root_password", "gitlab_root_password"}
      [] OTHER -> {"vault_rhbk_admin_password", "rhbk_admin_password",
                   "ocp_rhbk_admin_password"}
Password(c) == IF c = "gitlab" THEN "root_password" ELSE "admin_password"

\* The issuer is the route's in the end, and certificates are not dropped.
Lasting(c) == IF c = "rhbk" THEN {Iss, "tls_crt", "tls_key"} ELSE {}
Dropped(c) == Away \union StandaloneDerived(c)
Carriers(c) ==
    Dropped(c) \union Hosts(c) \union Admins(c) \union Passwords(c) \union Lasting(c)
    \union IF c = "grafana" THEN {"grafana_admin_user", "grafana_install_admin_user"} ELSE {}
Keys(c) ==
    Away \union PasswordKeys(c)
    \union CASE c = "grafana" -> {"vault_grafana_rhn_activation_key"}
             [] c = "gitlab" -> {"vault_gitlab_tls_crt", "gitlab_tls_crt",
                                 "vault_gitlab_tls_key", "gitlab_tls_key",
                                 "vault_gitlab_rhn_activation_key"}
             [] OTHER -> {"vault_rhbk_standalone_tls_crt", "vault_rhbk_standalone_tls_key"}

\* What a form of OpenShift leaves: what both platforms use and it does not say.
InForm(form, field) == field \in DOMAIN form /\ form[field] # Blank
LeftNames(c, form) ==
    Lasting(c)
    \union (IF InForm(form, "hostname") THEN {} ELSE Hosts(c))
    \union (IF InForm(form, "admin_user") THEN {} ELSE Admins(c))
    \union (IF InForm(form, Password(c)) THEN {} ELSE Passwords(c))
LeftKeys(c, form) ==
    IF InForm(form, Password(c)) THEN Keys(c) \ PasswordKeys(c) ELSE Keys(c)

LEMMA DatabaseIsTame ==
    ASSUME NEW C, NEW D, NEW e, NEW s, NEW prefix
    PROVE  AllTame(C, D, Database(e, s, prefix,
                          Pubs(<<"postgres_storage", "postgres_storage_class">>)))
<1>1. \A f \in {"postgres_host", "postgres_storage", "postgres_storage_class",
                "postgres_storage_size", "postgres_image"} : f \notin Away
  BY DEF Away, StandaloneFields, SecretFields
<1>2. AllPure(C, Pubs(<<"postgres_storage", "postgres_storage_class">>))
  BY <1>1, PairPure
<1>3. \A to : \A f \in {"postgres_host", "postgres_storage_size", "postgres_image"} :
         Tame(C, D, Copy(to, <<Pub(f)>>))
  BY <1>1, PurePlaces, FewPure, TameRules
<1>4. \A to, from : Tame(C, D, Flag(to, from)) /\ Tame(C, D, Put(to, No))
  BY YesIsText, TameRules
<1>5. \A to : Tame(C, D, Copy(to, Pubs(<<"postgres_storage", "postgres_storage_class">>)))
  BY <1>2, TameRules
<1>6. \A a, b, c, d, g : Tame(C, D, a) /\ Tame(C, D, b) /\ Tame(C, D, c) /\ Tame(C, D, d)
                         /\ Tame(C, D, g) => AllTame(C, D, <<a, b, c, d, g>>)
  BY DEF AllTame, List
<1>7. QED
  BY <1>3, <1>4, <1>5, <1>6 DEF Database

(***************************************************************************)
(* Grafana.                                                                *)
(***************************************************************************)
LEMMA GrafanaPlaces ==
    /\ \A f \in {"storage", "folders", "datasources", "datasources.bearer_token",
                 "datasource_sources", "email", "email.password", "oidc", "alert_folders", "api_key",
                 "grafana_api_key", "database_type", "postgres_database", "postgres_user",
                 "postgres_ssl_mode", "postgres_password", "hostname", "admin_user",
                 "admin_password", "sqlite", "admin", "redhat123", "v5",
                 "vault_grafana_ds_0_bearer_token", "vault_grafana_api_key",
                 "vault_grafana_postgres_password"} : f \notin Away /\ f # Blank
    /\ \A n \in {"oidc", "ocp_rhbk_hostname", "rhbk_hostname"} : n \notin Carriers("grafana")
    /\ \A k \in {"vault_grafana_ds_0_bearer_token", "vault_grafana_api_key",
                 "vault_grafana_postgres_password"} : k \notin Keys("grafana")
    /\ \A k \in {"vault_grafana_rhn_activation_key", "vault_grafana_admin_password"} :
         k \notin Away
<1>1. Carriers("grafana") = Away \union StandaloneDerived("grafana")
        \union {"grafana_hostname", "grafana_admin_password", "grafana_install_admin_password",
                "grafana_admin_user", "grafana_install_admin_user"}
  BY DEF Carriers, Dropped, Hosts, Admins, Passwords, Lasting
<1>2. Keys("grafana") = Away \union {"vault_grafana_admin_password", "grafana_admin_password",
                                     "vault_grafana_rhn_activation_key"}
  BY DEF Keys, PasswordKeys
<1>3. QED
  BY <1>1, <1>2 DEF Away, StandaloneFields, SecretFields, StandaloneDerived, Blank

\* All but the host's name, the administrator and the password.
LEMMA GrafanaIsTame ==
    ASSUME NEW C, NEW D, NEW e, NEW s, C \subseteq Carriers("grafana"), D \subseteq Keys("grafana")
    PROVE  /\ AllTame(C, D, GrafanaContent(e, s))
           /\ AllTame(C, D, GrafanaAccess(e, s))
           /\ AllTame(C, D, GrafanaDatabase(e, s))
<1> DEFINE plain == {"storage", "folders", "datasources", "datasources.bearer_token",
                     "datasource_sources", "email", "email.password", "oidc", "alert_folders", "api_key",
                     "grafana_api_key", "database_type", "postgres_database",
                     "postgres_user", "postgres_ssl_mode", "postgres_password", "sqlite",
                     "vault_grafana_ds_0_bearer_token", "vault_grafana_api_key",
                     "vault_grafana_postgres_password"}
           keys == {"vault_grafana_ds_0_bearer_token", "vault_grafana_api_key",
                    "vault_grafana_postgres_password"}
<1>1. /\ \A f \in plain : f \notin Away
      /\ \A k \in keys : k \notin D
      /\ \A n \in {"oidc", "ocp_rhbk_hostname", "rhbk_hostname"} : n \notin C
  BY GrafanaPlaces
<1>2. \A to : \A f \in plain : /\ Tame(C, D, Copy(to, <<Pub(f)>>))
                               /\ Tame(C, D, CopyPresent(to, f))
  BY <1>1, PurePlaces, FewPure, TameRules
<1>3. ASSUME NEW to, NEW k \in keys, NEW from, AllPure(C, from)
      PROVE  Tame(C, D, Stash(to, <<k>>, from))
  BY <1>1, <1>3, TameStash
<1>4. AllTame(C, D, GrafanaContent(e, s))
  <2>1. Tame(C, D, Stash({"grafana_datasource_bearer_token"},
                         <<"vault_grafana_ds_0_bearer_token">>,
                         <<Pub("datasources.bearer_token")>>))
    BY <1>1, <1>3, PurePlaces, FewPure
  <2>2. AllTame(C, D, << Storage("grafana", <<Pub("storage")>>) >>)
    BY <1>2, FewTame DEF Storage
  <2>3. \A from : AllTame(C, D, << Flag({"grafana_include_builtin_dashboards"}, from),
                                   CopyPresent({"grafana_folders"}, "folders") >>)
    BY <1>2, FewTame, TameRules
  <2>4. AllTame(C, D, << Drop({"grafana_datasource_bearer_token"}),
             Stash({"grafana_datasource_bearer_token"},
                   <<"vault_grafana_ds_0_bearer_token">>,
                   <<Pub("datasources.bearer_token")>>),
             CopyPresent({"grafana_datasources"}, "datasources") >>)
    BY <1>2, <2>1, FewTame, TameRules
  <2>5. AllTame(C, D, << CopyPresent({"grafana_datasource_sources"}, "datasource_sources") >>)
    BY <1>2, FewTame
  <2>6. QED
    BY <2>2, <2>3, <2>4, <2>5, FewTame, TameJoin, Zenon DEF GrafanaContent, If
<1>5. AllTame(C, D, GrafanaAccess(e, s))
  <2>1. AllPure(C, Issuer)
    <3>1. "rhbk_hostname" \notin OtherSecrets /\ "keycloak_route" \notin OtherSecrets
      BY DEF OtherSecrets
    <3>2. QED
      BY <1>1, <3>1, PurePlaces, FewPure DEF Issuer
  <2>2. \A given : Tame(C, D, Copy({"oidc"}, IF given THEN <<Var("oidc")>> ELSE Issuer))
    BY <1>1, <2>1, PurePlaces, FewPure, TameRules
  <2>3. Tame(C, D, Stash({"grafana_api_key"}, <<"vault_grafana_api_key">>,
                         Secs(<<"api_key", "grafana_api_key">>)))
    BY <1>1, <1>3, PairPure
  <2>4. AllTame(C, D, << CopyPresent({"grafana_email"}, "email"),
                         CopyPresent({"grafana_email.password"}, "email.password"),
                         CopyPresent({"oidc"}, "oidc"),
                         CopyPresent({"grafana_alert_folders"}, "alert_folders") >>)
    BY <1>2, FewTame
  <2>5. \A test : Tame(C, D, IF test THEN Put({"grafana_alerts_enabled"}, Yes)
                             ELSE FlagPresent({"grafana_alerts_enabled"}, "alerts_enabled"))
    BY YesIsText, TameRules
  <2>6. \A test : AllTame(C, D,
          << IF test THEN Put({"grafana_alerts_enabled"}, Yes)
             ELSE FlagPresent({"grafana_alerts_enabled"}, "alerts_enabled"),
             Stash({"grafana_api_key"}, <<"vault_grafana_api_key">>,
                   Secs(<<"api_key", "grafana_api_key">>)),
             FlagPresent({"grafana_group_cluster_dashboards"}, "group_cluster_dashboards") >>)
    BY <2>3, <2>5, FewTame, TameRules
  <2>7. \A given : AllTame(C, D, << Copy({"oidc"}, IF given THEN <<Var("oidc")>> ELSE Issuer) >>)
    BY <2>2, FewTame
  <2>8. QED
    BY <2>4, <2>6, <2>7, FewTame, TameJoin DEF GrafanaAccess, If
<1>6. AllTame(C, D, GrafanaDatabase(e, s))
  <2>1. Tame(C, D, Copy({"grafana_database_type"}, <<Pub("database_type"), Const("sqlite")>>))
    BY <1>1, PurePlaces, FewPure, TameRules
  <2>2. Tame(C, D, Each("grafana_", {"postgres_database", "postgres_user",
                                     "postgres_ssl_mode"}))
    BY <1>1, TameRules
  <2>3. Tame(C, D, Stash({"grafana_postgres_password"}, <<"vault_grafana_postgres_password">>,
                         <<Sec("postgres_password")>>))
    BY <1>1, <1>3, PurePlaces, FewPure
  <2>4. QED
    BY <2>1, <2>2, <2>3, FewTame, DatabaseIsTame, TameJoin DEF GrafanaDatabase
<1>7. QED
  BY <1>4, <1>5, <1>6

LEMMA ThreeLead ==
    ASSUME NEW e, NEW v0, NEW C, NEW D, NEW C1, NEW D1, NEW C2, NEW D2, NEW C3, NEW D3,
           NEW a, NEW b, NEW c, Moves(e, v0, C, D, a, C1, D1), Moves(e, v0, C1, D1, b, C2, D2),
           Moves(e, v0, C2, D2, c, C3, D3)
    PROVE  Leads(e, v0, C, D, <<a, b, c>>, C3, D3)
<1> DEFINE rules == <<a, b, c>>
           Cs == [i \in 0 .. 3 |-> <<C, C1, C2, C3>>[i + 1]]
           Ds == [i \in 0 .. 3 |-> <<D, D1, D2, D3>>[i + 1]]
<1>1. List(rules) /\ Len(rules) = 3 /\ rules[1] = a /\ rules[2] = b /\ rules[3] = c
  BY DEF List
<1>2. Cs[0] = C /\ Cs[1] = C1 /\ Cs[2] = C2 /\ Cs[3] = C3
  OBVIOUS
<1>3. Ds[0] = D /\ Ds[1] = D1 /\ Ds[2] = D2 /\ Ds[3] = D3
  OBVIOUS
<1> HIDE DEF rules, Cs, Ds
<1>4. \A i \in 1 .. 3 : Moves(e, v0, Cs[i - 1], Ds[i - 1], rules[i], Cs[i], Ds[i])
  <2> TAKE i \in 1 .. 3
  <2>1. CASE i = 1
    BY <1>1, <1>2, <1>3, <2>1
  <2>2. CASE i = 2
    BY <1>1, <1>2, <1>3, <2>2
  <2>3. CASE i = 3
    BY <1>1, <1>2, <1>3, <2>3
  <2>4. QED
    BY <2>1, <2>2, <2>3
<1>5. Leads(e, v0, Cs[0], Ds[0], rules, Cs[3], Ds[3])
  BY <1>1, <1>4, ChainLeads
<1>6. QED
  BY <1>2, <1>3, <1>5 DEF rules

\* A name the form tells is written, another is written as it was or left.
LEMMA CopyTold ==
    ASSUME NEW e, NEW v0, NEW C, NEW D, NEW to, NEW from, NEW f, OwnForm(e),
           f \notin Away, f \notin SecretFields, to \subseteq C \/ AllPure(C, from),
           DOMAIN from \subseteq Nat \ {0}, 1 \in DOMAIN from, from[1] = Pub(f)
    PROVE  Moves(e, v0, C, D, Copy(to, from),
                 IF InForm(e.form, f) THEN C \ to ELSE C, D)
<1>1. CASE InForm(e.form, f)
  <2>1. Said(e, from[1])
    BY <1>1 DEF Said, Pub, InForm
  <2>2. Found(C, e, from)
    BY <2>1 DEF Found
  <2>3. QED
    BY <1>1, <2>2, CopyMoves
<1>2. CASE ~InForm(e.form, f)
  <2>1. Tame(C, D, Copy(to, from))
    BY TameRules
  <2>2. QED
    BY <1>2, <2>1, TameMoves
<1>3. QED
  BY <1>1, <1>2

\* A password the form tells is stored, and takes the variables off another one.
LEMMA StashTold ==
    ASSUME NEW e, NEW v0, NEW C, NEW D, NEW to, NEW keys, NEW from, NEW f, OwnForm(e),
           f \notin Away, f \in SecretFields, to \subseteq C, KeySet(keys) \subseteq D,
           keys[1] \notin Away, 1 \in DOMAIN keys,
           DOMAIN from \subseteq Nat \ {0}, 1 \in DOMAIN from, from[1] = Sec(f)
    PROVE  Moves(e, v0, C, D, Stash(to, keys, from),
                 IF InForm(e.form, f) THEN C \ to ELSE C,
                 IF InForm(e.form, f) THEN D \ KeySet(keys) ELSE D)
<1>1. CASE InForm(e.form, f)
  <2>1. Said(e, from[1])
    BY <1>1 DEF Said, Sec, InForm
  <2>2. Found(C, e, from)
    BY <2>1 DEF Found
  <2>3. QED
    BY <1>1, <2>2, StashMoves
<1>2. CASE ~InForm(e.form, f)
  <2>1. Tame(C, D, Stash(to, keys, from))
    BY TameStash
  <2>2. QED
    BY <1>2, <2>1, TameMoves
<1>3. QED
  BY <1>1, <1>2

LEMMA GrafanaStands ==
    ASSUME NEW e, NEW s
    PROVE  AllTame(Carriers("grafana"), Keys("grafana"), Grafana(e, s))
<1> DEFINE C == Carriers("grafana")
           D == Keys("grafana")
           carried == {"grafana_hostname", "install_grafana_hostname", "grafana_rpm_path",
                       "install_grafana_rpm_path", "grafana_rpm_url",
                       "install_grafana_rpm_url", "install_grafana_rhn_org_id",
                       "install_grafana_rhn_activation_key", "grafana_admin_user",
                       "grafana_install_admin_user", "grafana_admin_password",
                       "grafana_install_admin_password"}
           keys == {"vault_grafana_rhn_activation_key", "vault_grafana_admin_password",
                    "grafana_admin_password"}
           plain == {"hostname", "redhat123", "v5"}
<1>1. carried \subseteq C /\ keys \subseteq D
  BY DEF Carriers, Dropped, StandaloneDerived, Hosts, Passwords, Keys, PasswordKeys
<1>2. (\A f \in plain : f \notin Away) /\ \A k \in keys : k # "grafana_admin_password" => k \notin Away
  BY GrafanaPlaces
<1>3. /\ KeySet(<<"vault_grafana_rhn_activation_key">>) \subseteq keys
      /\ KeySet(<<"vault_grafana_admin_password", "grafana_admin_password">>) \subseteq keys
  BY DEF KeySet
<1> HIDE DEF C, D
<1>4. \A to : \A from : to \subseteq carried => Tame(C, D, Copy(to, from))
  BY <1>1, TameRules
<1>5. \A from : /\ Tame(C, D, Stash({"install_grafana_rhn_activation_key"},
                                    <<"vault_grafana_rhn_activation_key">>, from))
                /\ Tame(C, D, Stash({"grafana_admin_password", "grafana_install_admin_password"},
                                    <<"vault_grafana_admin_password",
                                      "grafana_admin_password">>, from))
  BY <1>1, <1>2, <1>3, TameStash
<1>6. Tame(C, D, HostName({"grafana_hostname", "grafana_install_hostname"}))
  BY <1>2, PurePlaces, FewPure, TameRules DEF HostName
<1>7. Tame(C, D, Put({"operator_channel"}, Text("v5")))
      /\ \A to, from : Tame(C, D, Default(to, "redhat123", from))
      /\ \A names : Tame(C, D, Drop(names))
  BY <1>2, TameRules
<1>8. AllTame(C, D, GrafanaInstall(e, s))
  BY <1>4, <1>5, <1>6, <1>7, FewTame, TameJoin DEF GrafanaInstall, If
<1>9. /\ AllTame(C, D, GrafanaContent(e, s)) /\ AllTame(C, D, GrafanaAccess(e, s))
      /\ AllTame(C, D, GrafanaDatabase(e, s))
  BY GrafanaIsTame DEF C, D
<1>10. QED
  BY <1>8, <1>9, TameJoin DEF Grafana, C, D

LEMMA ToldPlaces ==
    /\ \A f \in {"hostname", "admin_password", "root_password", "admin_user", "admin", "v5",
                 "redhat123", "vault_grafana_admin_password"} : f \notin Away /\ f # Blank
    /\ "hostname" \notin SecretFields /\ "admin_user" \notin SecretFields
    /\ "admin_password" \in SecretFields /\ "root_password" \in SecretFields
BY DEF Away, StandaloneFields, SecretFields, Blank

LEMMA PairJoins == ASSUME NEW a, NEW b PROVE <<a>> \o <<b>> = <<a, b>>
<1> DEFINE q == <<a>> \o <<b>>
           r == <<a, b>>
<1>1. q \in Seq({a, b}) /\ r \in Seq({a, b}) /\ Len(q) = 2 /\ Len(r) = 2
  OBVIOUS
<1>2. q[1] = a /\ q[2] = b /\ r[1] = a /\ r[2] = b
  OBVIOUS
<1> HIDE DEF q, r
<1>3. q = [i \in 1 .. 2 |-> q[i]] /\ r = [i \in 1 .. 2 |-> r[i]]
  BY <1>1
<1>4. \A i \in 1 .. 2 : q[i] = r[i]
  BY <1>2
<1>5. q = r
  BY <1>3, <1>4
<1>6. QED
  BY <1>5 DEF q, r

\* The form of an OpenShift install: its own host, administrator and password.
LEMMA GrafanaMoves ==
    ASSUME NEW e, NEW v0, NEW s, OwnForm(e), ~Chosen(e, "standalone")
    PROVE  Leads(e, v0, Carriers("grafana"), Keys("grafana"), Grafana(e, s),
                 LeftNames("grafana", e.form), LeftKeys("grafana", e.form))
<1> DEFINE C0 == Carriers("grafana")
           D0 == Keys("grafana")
           hosts == {"grafana_hostname", "grafana_install_hostname"} \union {"hostname"}
           admins == {"grafana_admin_user", "grafana_install_admin_user"}
           passwords == {"grafana_admin_password", "grafana_install_admin_password"}
           keys == <<"vault_grafana_admin_password", "grafana_admin_password">>
           away == StandaloneFields \union StandaloneDerived("grafana")
           C1 == IF InForm(e.form, "hostname") THEN C0 \ hosts ELSE C0
           C2 == C1 \ admins
           C3 == IF InForm(e.form, "admin_password") THEN C2 \ passwords ELSE C2
           D3 == IF InForm(e.form, "admin_password") THEN D0 \ KeySet(keys) ELSE D0
           C4 == C3 \ away
           host == HostName({"grafana_hostname", "grafana_install_hostname"})
           channel == Put({"operator_channel"}, Text("v5"))
           names == <<Pub("admin_user")>> \o <<>> \o <<Const("admin")>>
           texts == <<Sec("admin_password")>> \o <<>>
           admin == Copy(admins, names)
           password == Stash(passwords, keys, texts)
           lab == Default(passwords, "redhat123",
                          <<Var("grafana_admin_password"),
                            Vlt("vault_grafana_admin_password"),
                            Vlt("grafana_admin_password")>>)
           content == GrafanaContent(e, s) \o GrafanaAccess(e, s) \o GrafanaDatabase(e, s)
           install == <<host>> \o <<channel>> \o <<admin, password, lab>> \o << Drop(away) >>
<1>1. Grafana(e, s) = content \o install
  <2>1. GrafanaInstall(e, s) = <<host>> \o <<>> \o <<channel>> \o <<>>
                               \o <<admin, password, lab>> \o << Drop(away) >>
    BY DEF GrafanaInstall, If
  <2>2. <<host>> \o <<>> = <<host>> /\ <<host>> \o <<channel>> \o <<>> = <<host>> \o <<channel>>
    OBVIOUS
  <2>3. GrafanaInstall(e, s) = install
    BY <2>1, <2>2
  <2>4. QED
    BY <2>3 DEF Grafana
<1>2. AllTame(C0, D0, content)
  BY GrafanaIsTame, TameJoin
<1>3. Leads(e, v0, C0, D0, content, C0, D0)
  BY <1>2, TameLeads
<1>4. /\ \A f \in {"hostname", "admin_password", "admin_user", "admin", "v5", "redhat123",
                    "vault_grafana_admin_password"} : f \notin Away /\ f # Blank
      /\ "hostname" \notin SecretFields /\ "admin_password" \in SecretFields
      /\ "admin_user" \notin SecretFields
  BY ToldPlaces
<1>5. Leads(e, v0, C0, D0, <<host>>, C1, D0)
  <2>1. \A C : AllPure(C, <<Pub("hostname")>>)
    BY <1>4, PurePlaces, FewPure
  <2> DEFINE from == <<Pub("hostname")>>
  <2>2. /\ from[1] = Pub("hostname") /\ 1 \in DOMAIN from /\ DOMAIN from \subseteq Nat \ {0}
        /\ host = Copy(hosts, from) /\ AllPure(C0, from)
        /\ "hostname" \notin Away /\ "hostname" \notin SecretFields
    BY <1>4, <2>1 DEF HostName
  <2> HIDE DEF host, hosts, C0, D0, from
  <2>3. Moves(e, v0, C0, D0, host, C1, D0)
    BY <1>4, <2>1, <2>2, CopyTold
  <2>4. QED
    BY <2>3, OneLeads
<1>6. Leads(e, v0, C1, D0, <<channel>>, C1, D0)
  BY <1>4, TameRules, TameMoves, OneLeads
<1>7. Leads(e, v0, C1, D0, <<admin, password, lab>>, C3, D3)
  <2>1. names = <<Pub("admin_user"), Const("admin")>> /\ texts = <<Sec("admin_password")>>
    <3>1. texts = <<Sec("admin_password")>> /\ <<Pub("admin_user")>> \o <<>> = <<Pub("admin_user")>>
      OBVIOUS
    <3>2. QED
      BY <3>1, PairJoins
  <2>2. Found(C1, e, names)
    <3>1. AllPure(C1, names)
      BY <1>4, <2>1, PurePlaces, FewPure
    <3>2. Said(e, names[2]) /\ 2 \in DOMAIN names /\ DOMAIN names \subseteq Nat \ {0}
      BY <1>4, <2>1 DEF Said, Const
    <3>3. QED
      BY <3>1, <3>2 DEF Found
  <2>3. Moves(e, v0, C1, D0, admin, C2, D0)
    BY <2>2, CopyMoves
  <2>4. Moves(e, v0, C2, D0, password, C3, D3)
    <3>1. passwords \subseteq C2 /\ KeySet(keys) \subseteq D0
      BY DEF Carriers, Dropped, Hosts, Passwords, Keys, PasswordKeys, KeySet
    <3>2. /\ keys[1] \notin Away /\ 1 \in DOMAIN keys
          /\ "admin_password" \notin Away /\ "admin_password" \in SecretFields
          /\ texts[1] = Sec("admin_password") /\ 1 \in DOMAIN texts
          /\ DOMAIN texts \subseteq Nat \ {0}
      BY <1>4, <2>1
    <3> HIDE DEF passwords, keys, texts, C2, D0
    <3>3. QED
      BY <1>4, <3>1, <3>2, StashTold
  <2>5. Moves(e, v0, C3, D3, lab, C3, D3)
    BY <1>4, TameRules, TameMoves
  <2> HIDE DEF admin, password, lab, C1, C2, C3, D0, D3
  <2>6. QED
    BY <2>3, <2>4, <2>5, ThreeLead
<1>8. Leads(e, v0, C3, D3, << Drop(away) >>, C4, D3)
  BY DropMoves, OneLeads
<1>9. C4 \subseteq LeftNames("grafana", e.form) /\ D3 = LeftKeys("grafana", e.form)
  <2>1. Carriers("grafana") \subseteq away \union hosts \union admins \union passwords
        /\ Hosts("grafana") = {"grafana_hostname"} /\ Passwords("grafana") = passwords
        /\ KeySet(keys) = PasswordKeys("grafana") /\ Password("grafana") = "admin_password"
    BY DEF Carriers, Dropped, Hosts, Admins, Passwords, PasswordKeys, Lasting, KeySet,
           Password, Away
  <2>2. "hostname" \notin Carriers("grafana") /\ "grafana_install_hostname" \notin Carriers("grafana")
    BY DEF Carriers, Dropped, Hosts, Admins, Passwords, Lasting, Away, StandaloneFields,
           SecretFields, StandaloneDerived
  <2>3. C4 \subseteq LeftNames("grafana", e.form)
    <3> HIDE DEF away, admins, passwords
    <3>1. QED
      BY <2>1, <2>2 DEF LeftNames
  <2>4. QED
    BY <2>1, <2>3 DEF LeftKeys
<1> HIDE DEF C0, D0, C1, C3, D3, C4, host, channel, admin, password, lab, content, away
<1>10. Leads(e, v0, C0, D0, install, C4, D3)
  BY <1>5, <1>6, <1>7, <1>8, LeadsJoin
<1> HIDE DEF install
<1>11. Leads(e, v0, C0, D0, content \o install, C4, D3)
  BY <1>3, <1>10, LeadsJoin
<1>12. QED
  BY <1>1, <1>9, <1>11, LeadsWiden DEF C0, D0

(***************************************************************************)
(* GitLab.                                                                 *)
(***************************************************************************)
LEMMA NineTame ==
    ASSUME NEW C, NEW D, NEW a, NEW b, NEW c, NEW d, NEW e, NEW f, NEW g, NEW h, NEW i,
           Tame(C, D, a), Tame(C, D, b), Tame(C, D, c), Tame(C, D, d), Tame(C, D, e),
           Tame(C, D, f), Tame(C, D, g), Tame(C, D, h), Tame(C, D, i)
    PROVE  AllTame(C, D, <<a, b, c, d, e, f, g, h, i>>)
BY DEF AllTame, List

LEMMA TenTame ==
    ASSUME NEW C, NEW D, NEW a, NEW b, NEW c, NEW d, NEW e, NEW f, NEW g, NEW h, NEW i, NEW j,
           Tame(C, D, a), Tame(C, D, b), Tame(C, D, c), Tame(C, D, d), Tame(C, D, e),
           Tame(C, D, f), Tame(C, D, g), Tame(C, D, h), Tame(C, D, i), Tame(C, D, j)
    PROVE  AllTame(C, D, <<a, b, c, d, e, f, g, h, i, j>>)
BY DEF AllTame, List

GitlabPassword == {"gitlab_root_password", "gitlab_install_root_password", "root_password"}
GitlabLab == Default(GitlabPassword, "redhat123",
                     <<Var("gitlab_install_root_password"), Var("gitlab_root_password"),
                       Vlt("vault_gitlab_root_password"), Vlt("gitlab_root_password")>>)

LEMMA GitlabPlaces ==
    /\ \A f \in {"hostname", "storage", "root_password", "postgres_password", "redhat123",
                 "vault_gitlab_root_password", "vault_gitlab_postgres_password",
                 "vault_gitlab_tls_crt", "vault_gitlab_tls_key",
                 "vault_gitlab_rhn_activation_key"} : f \notin Away
    /\ "vault_gitlab_postgres_password" \notin Keys("gitlab")
    /\ {"vault_gitlab_root_password", "gitlab_root_password", "vault_gitlab_tls_crt",
        "gitlab_tls_crt", "vault_gitlab_tls_key", "gitlab_tls_key",
        "vault_gitlab_rhn_activation_key"} \subseteq Keys("gitlab")
    /\ {"gitlab_hostname", "install_gitlab_hostname", "gitlab_external_url",
        "install_gitlab_external_url", "gitlab_edition", "install_gitlab_edition",
        "gitlab_rpm_path", "install_gitlab_rpm_path", "gitlab_rpm_url",
        "install_gitlab_rpm_url", "gitlab_tls_crt", "gitlab_tls_key", "gitlab_rhn_org_id",
        "install_gitlab_rhn_org_id", "install_gitlab_rhn_activation_key"}
         \union GitlabPassword \subseteq Carriers("gitlab")
    /\ "gitlab_install_hostname" \notin Carriers("gitlab")
    /\ "hostname" \notin Carriers("gitlab")
<1>1. Carriers("gitlab") = Away \union StandaloneDerived("gitlab")
        \union {"gitlab_hostname"} \union GitlabPassword
  BY DEF Carriers, Dropped, Hosts, Admins, Passwords, Lasting, GitlabPassword
<1>2. Keys("gitlab") = Away \union {"vault_gitlab_root_password", "gitlab_root_password",
          "vault_gitlab_tls_crt", "gitlab_tls_crt", "vault_gitlab_tls_key",
          "gitlab_tls_key", "vault_gitlab_rhn_activation_key"}
  BY DEF Keys, PasswordKeys
<1>3. QED
  BY <1>1, <1>2 DEF Away, StandaloneFields, SecretFields, StandaloneDerived, GitlabPassword

\* The host, the storage and the database, at any time.
LEMMA GitlabIsTame ==
    ASSUME NEW C, NEW D, NEW e, NEW s, D \subseteq Keys("gitlab")
    PROVE  /\ Tame(C, D, HostName({"gitlab_hostname", "gitlab_install_hostname"}))
           /\ Tame(C, D, Storage("gitlab", <<Pub("storage")>>))
           /\ Tame(C, D, GitlabLab)
           /\ AllTame(C, D, Database(e, s, "gitlab_install_",
                              Pubs(<<"postgres_storage", "postgres_storage_class">>)))
           /\ Tame(C, D, Stash({"gitlab_install_postgres_password"},
                               <<"vault_gitlab_postgres_password">>,
                               <<Sec("postgres_password")>>))
           /\ \A names : Tame(C, D, Drop(names))
<1>1. /\ \A f \in {"hostname", "storage", "redhat123", "postgres_password",
                   "vault_gitlab_postgres_password"} : f \notin Away
      /\ "vault_gitlab_postgres_password" \notin D
  BY GitlabPlaces
<1>2. \A to : \A f \in {"hostname", "storage"} : Tame(C, D, Copy(to, <<Pub(f)>>))
  BY <1>1, PurePlaces, FewPure, TameRules
<1>3. AllPure(C, <<Sec("postgres_password")>>)
  BY <1>1, PurePlaces, FewPure
<1>4. Tame(C, D, Stash({"gitlab_install_postgres_password"},
                       <<"vault_gitlab_postgres_password">>, <<Sec("postgres_password")>>))
  BY <1>1, <1>3, TameStash
<1>5. Tame(C, D, GitlabLab) /\ \A names : Tame(C, D, Drop(names))
  BY <1>1, TameRules DEF GitlabLab
<1>6. QED
  BY <1>2, <1>4, <1>5, DatabaseIsTame DEF HostName, Storage

LEMMA GitlabStands ==
    ASSUME NEW e, NEW s
    PROVE  AllTame(Carriers("gitlab"), Keys("gitlab"), Gitlab(e, s))
<1> DEFINE C == Carriers("gitlab")
           D == Keys("gitlab")
           carried == {"gitlab_hostname", "install_gitlab_hostname", "gitlab_external_url",
               "install_gitlab_external_url", "gitlab_edition", "install_gitlab_edition",
               "gitlab_rpm_path", "install_gitlab_rpm_path", "gitlab_rpm_url",
               "install_gitlab_rpm_url", "gitlab_tls_crt", "gitlab_tls_key",
               "gitlab_rhn_org_id", "install_gitlab_rhn_org_id",
               "install_gitlab_rhn_activation_key"} \union GitlabPassword
           host == HostName({"gitlab_hostname", "gitlab_install_hostname"})
           storage == Storage("gitlab", <<Pub("storage")>>)
           database == Database(e, s, "gitlab_install_",
                                Pubs(<<"postgres_storage", "postgres_storage_class">>))
           away == StandaloneFields \union StandaloneDerived("gitlab")
           postgres == Stash({"gitlab_install_postgres_password"},
                             <<"vault_gitlab_postgres_password">>,
                             <<Sec("postgres_password")>>)
<1>1. carried \subseteq C
  BY GitlabPlaces
<1>2. /\ Tame(C, D, host) /\ Tame(C, D, storage) /\ Tame(C, D, postgres)
      /\ Tame(C, D, GitlabLab) /\ AllTame(C, D, database) /\ Tame(C, D, Drop(away))
  BY GitlabIsTame
<1>3. \A to : \A from : to \subseteq carried => Tame(C, D, Copy(to, from))
  BY <1>1, TameRules
<1>4. \A to : \A from : to \subseteq carried =>
        /\ Tame(C, D, Stash(to, <<"vault_gitlab_root_password", "gitlab_root_password">>, from))
        /\ Tame(C, D, Stash(to, <<"vault_gitlab_tls_crt", "gitlab_tls_crt">>, from))
        /\ Tame(C, D, Stash(to, <<"vault_gitlab_tls_key", "gitlab_tls_key">>, from))
        /\ Tame(C, D, Stash(to, <<"vault_gitlab_rhn_activation_key">>, from))
  <2> SUFFICES ASSUME NEW to, NEW from, to \subseteq C
               PROVE  \A keys \in {<<"vault_gitlab_root_password", "gitlab_root_password">>,
                                   <<"vault_gitlab_tls_crt", "gitlab_tls_crt">>,
                                   <<"vault_gitlab_tls_key", "gitlab_tls_key">>,
                                   <<"vault_gitlab_rhn_activation_key">>} :
                        Tame(C, D, Stash(to, keys, from))
    BY <1>1
  <2> TAKE keys \in {<<"vault_gitlab_root_password", "gitlab_root_password">>,
                     <<"vault_gitlab_tls_crt", "gitlab_tls_crt">>,
                     <<"vault_gitlab_tls_key", "gitlab_tls_key">>,
                     <<"vault_gitlab_rhn_activation_key">>}
  <2>1. keys[1] \notin Away /\ KeySet(keys) \subseteq D
    BY GitlabPlaces DEF KeySet
  <2>2. QED
    BY <2>1, TameStash
<1>5. AllTame(C, D, GitlabStandalone(e, s))
  BY <1>3, <1>4, TenTame DEF GitlabStandalone, GitlabPassword
<1>6. AllTame(C, D, GitlabOpenShift(e, s))
  <2>1. Tame(C, D, Stash(GitlabPassword, <<"vault_gitlab_root_password",
                                           "gitlab_root_password">>, <<Sec("root_password")>>))
    BY <1>4
  <2>2. AllTame(C, D, << Stash(GitlabPassword, <<"vault_gitlab_root_password",
                           "gitlab_root_password">>, <<Sec("root_password")>>), GitlabLab >>)
    BY <1>2, <2>1, FewTame
  <2>3. AllTame(C, D, << postgres, Drop(away) >>)
    BY <1>2, FewTame
  <2>4. QED
    BY <1>2, <2>2, <2>3, TameJoin DEF GitlabOpenShift, GitlabPassword, GitlabLab
<1>7. AllTame(C, D, << host, storage >>)
  BY <1>2, FewTame
<1> HIDE DEF C, D, host, storage
<1>8. AllTame(C, D, << host, storage >> \o IF Chosen(e, "standalone") THEN GitlabStandalone(e, s)
                                                                 ELSE GitlabOpenShift(e, s))
  BY <1>5, <1>6, <1>7, TameJoin
<1>9. QED
  BY <1>8 DEF Gitlab, C, D, host, storage

LEMMA TwoLead ==
    ASSUME NEW e, NEW v0, NEW C, NEW D, NEW C1, NEW D1, NEW C2, NEW D2, NEW a, NEW b,
           Moves(e, v0, C, D, a, C1, D1), Moves(e, v0, C1, D1, b, C2, D2)
    PROVE  Leads(e, v0, C, D, <<a, b>>, C2, D2)
<1>1. Leads(e, v0, C, D, <<a>>, C1, D1) /\ Leads(e, v0, C1, D1, <<b>>, C2, D2)
  BY OneLeads
<1>2. Leads(e, v0, C, D, <<a>> \o <<b>>, C2, D2)
  BY <1>1, LeadsJoin
<1>3. QED
  BY <1>2, PairJoins

LEMMA GitlabMoves ==
    ASSUME NEW e, NEW v0, NEW s, OwnForm(e), ~Chosen(e, "standalone")
    PROVE  Leads(e, v0, Carriers("gitlab"), Keys("gitlab"), Gitlab(e, s),
                 LeftNames("gitlab", e.form), LeftKeys("gitlab", e.form))
<1> DEFINE C0 == Carriers("gitlab")
           D0 == Keys("gitlab")
           hosts == {"gitlab_hostname", "gitlab_install_hostname"} \union {"hostname"}
           keys == <<"vault_gitlab_root_password", "gitlab_root_password">>
           away == StandaloneFields \union StandaloneDerived("gitlab")
           C1 == IF InForm(e.form, "hostname") THEN C0 \ hosts ELSE C0
           C2 == IF InForm(e.form, "root_password") THEN C1 \ GitlabPassword ELSE C1
           D2 == IF InForm(e.form, "root_password") THEN D0 \ KeySet(keys) ELSE D0
           C3 == C2 \ away
           host == HostName({"gitlab_hostname", "gitlab_install_hostname"})
           storage == Storage("gitlab", <<Pub("storage")>>)
           texts == <<Sec("root_password")>>
           password == Stash(GitlabPassword, keys, texts)
           database == Database(e, s, "gitlab_install_",
                                Pubs(<<"postgres_storage", "postgres_storage_class">>))
           postgres == Stash({"gitlab_install_postgres_password"},
                             <<"vault_gitlab_postgres_password">>,
                             <<Sec("postgres_password")>>)
<1>1. Gitlab(e, s) = << host, storage >>
        \o (<< password, GitlabLab >> \o database \o << postgres, Drop(away) >>)
  BY DEF Gitlab, GitlabOpenShift, GitlabPassword, GitlabLab
<1>2. /\ Tame(C1, D0, storage)
      /\ Tame(C2, D2, GitlabLab) /\ AllTame(C2, D2, database) /\ Tame(C2, D2, postgres)
  <2>1. D0 \subseteq Keys("gitlab") /\ D2 \subseteq Keys("gitlab")
    OBVIOUS
  <2> HIDE DEF C1, C2, D0, D2
  <2>2. QED
    BY <2>1, GitlabIsTame
<1>3. Moves(e, v0, C0, D0, host, C1, D0)
  <2> DEFINE from == <<Pub("hostname")>>
  <2>1. AllPure(C0, from) /\ "hostname" \notin Away /\ "hostname" \notin SecretFields
    BY ToldPlaces, PurePlaces, FewPure
  <2>2. /\ from[1] = Pub("hostname") /\ 1 \in DOMAIN from /\ DOMAIN from \subseteq Nat \ {0}
        /\ host = Copy(hosts, from)
    BY DEF HostName
  <2> HIDE DEF host, hosts, C0, D0, from
  <2>3. QED
    BY <2>1, <2>2, CopyTold
<1>4. Moves(e, v0, C1, D0, password, C2, D2)
  <2>1. GitlabPassword \subseteq C1 /\ KeySet(keys) \subseteq D0
    BY GitlabPlaces DEF KeySet, GitlabPassword
  <2>2. /\ keys[1] \notin Away /\ 1 \in DOMAIN keys
        /\ "root_password" \notin Away /\ "root_password" \in SecretFields
        /\ texts[1] = Sec("root_password") /\ 1 \in DOMAIN texts
        /\ DOMAIN texts \subseteq Nat \ {0}
    BY GitlabPlaces, ToldPlaces
  <2> HIDE DEF keys, texts, C1, D0
  <2>3. QED
    BY <2>1, <2>2, StashTold
<1>5. C3 \subseteq LeftNames("gitlab", e.form) /\ D2 = LeftKeys("gitlab", e.form)
  <2>1. /\ Carriers("gitlab") \subseteq away \union hosts \union GitlabPassword
        /\ Hosts("gitlab") = {"gitlab_hostname"} /\ Passwords("gitlab") = GitlabPassword
        /\ KeySet(keys) = PasswordKeys("gitlab") /\ Password("gitlab") = "root_password"
    BY DEF Carriers, Dropped, Hosts, Admins, Passwords, PasswordKeys, Lasting, KeySet,
           Password, Away, GitlabPassword
  <2>2. "hostname" \notin Carriers("gitlab") /\ "gitlab_install_hostname" \notin Carriers("gitlab")
    BY GitlabPlaces
  <2>3. C3 \subseteq LeftNames("gitlab", e.form)
    <3> HIDE DEF away
    <3>1. QED
      BY <2>1, <2>2 DEF LeftNames
  <2>4. QED
    BY <2>1, <2>3 DEF LeftKeys
<1> HIDE DEF C0, D0, C1, C2, D2, C3, host, storage, password, database, postgres, away
<1>6. Leads(e, v0, C0, D0, << host, storage >>, C1, D0)
  BY <1>2, <1>3, TameMoves, TwoLead
<1>7. Leads(e, v0, C1, D0, << password, GitlabLab >>, C2, D2)
  BY <1>2, <1>4, TameMoves, TwoLead
<1>8. Leads(e, v0, C2, D2, database, C2, D2)
  BY <1>2, TameLeads
<1>9. Leads(e, v0, C2, D2, << postgres, Drop(away) >>, C3, D2)
  BY <1>2, TameMoves, DropMoves, TwoLead DEF C3
<1>10. Leads(e, v0, C1, D0, << password, GitlabLab >> \o database \o << postgres, Drop(away) >>,
             C3, D2)
  BY <1>7, <1>8, <1>9, LeadsJoin
<1>11. Leads(e, v0, C0, D0, << host, storage >>
          \o (<< password, GitlabLab >> \o database \o << postgres, Drop(away) >>), C3, D2)
  BY <1>6, <1>10, LeadsJoin
<1>12. QED
  BY <1>1, <1>5, <1>11, LeadsWiden DEF C0, D0

(***************************************************************************)
(* Keycloak.                                                               *)
(***************************************************************************)
LEMMA BothPure ==
    ASSUME NEW C, NEW a, NEW b, AllPure(C, a), AllPure(C, b)
    PROVE  AllPure(C, a \o b)
<1> DEFINE V == {src \in {a[i] : i \in DOMAIN a} \union {b[i] : i \in DOMAIN b} : Pure(C, src)}
           c == a \o b
<1>1. a \in Seq(V) /\ b \in Seq(V)
  BY DEF AllPure
<1>2. \A src \in V : Pure(C, src)
  OBVIOUS
<1> HIDE DEF V
<1>3. c \in Seq(V)
  BY <1>1
<1> HIDE DEF c
<1>4. c \in Seq({c[i] : i \in DOMAIN c}) /\ \A i \in DOMAIN c : c[i] \in V
  BY <1>3
<1>5. AllPure(C, c)
  BY <1>2, <1>4 DEF AllPure
<1>6. QED
  BY <1>5 DEF c

LEMMA RhbkPlaces ==
    /\ \A f \in {"realm", "hostname", "openshift", "rhel", "Lab", "yes", "no", "tls_crt",
                 "tls_key", "issuer_kind", "issuer_name", "ClusterIssuer", "idm-acme", "edge",
                 "cert_manager", "ingress_copy", "manual", "clients", "client", "LDAP",
                 "openshift_oidc_client_id", "OpenshiftLab", "openshift_oidc_idp_name",
                 "Keycloak", "federation_name", "client_scope_name", "groups",
                 "federation_ldap_url", "federation_bind_dn", "federation_bind_password",
                 "federation_users_dn", "idp_name", "client_id", "rhlab", "keycloak_hostname",
                 "extra_scopes", "vault_rhbk_tls_crt", "vault_rhbk_tls_key",
                 "vault_rhbk_admin_password", "vault_rhbk_standalone_tls_crt",
                 "vault_rhbk_standalone_tls_key"} : f \notin Away
    /\ \A n \in {"rhbk_client", "rhbk_realm", "ocp_rhbk_realm"} : n \notin Carriers("rhbk")
    /\ \A k \in {"vault_rhbk_tls_crt", "vault_rhbk_tls_key"} : k \notin Keys("rhbk")
    /\ {"oauth_rhbk_idp_name", "keycloak_route"} \intersect OtherSecrets = {}
<1>1. Carriers("rhbk") = Away \union StandaloneDerived("rhbk")
        \union {"rhbk_hostname", "rhbk_host", "rhbk_url", "ocp_rhbk_hostname",
                "keycloak_login_events_keycloak_url", "rhbk_admin_user",
                "ocp_rhbk_admin_user", "rhbk_admin_password", "ocp_rhbk_admin_password",
                "openshift_oidc_auth_issuer", "tls_crt", "tls_key"}
  BY DEF Carriers, Dropped, Hosts, Admins, Passwords, Lasting, Iss
<1>2. Keys("rhbk") = Away \union {"vault_rhbk_admin_password", "rhbk_admin_password",
        "ocp_rhbk_admin_password", "vault_rhbk_standalone_tls_crt",
        "vault_rhbk_standalone_tls_key"}
  BY DEF Keys, PasswordKeys
<1>3. QED
  BY <1>1, <1>2 DEF Away, StandaloneFields, SecretFields, StandaloneDerived, OtherSecrets

\* All but the realm and a standalone install.
LEMMA RhbkIsTame ==
    ASSUME NEW C, NEW D, NEW e, NEW s, Lasting("rhbk") \subseteq C,
           C \subseteq Carriers("rhbk"), D \subseteq Keys("rhbk")
    PROVE  /\ AllTame(C, D, RhbkTls(e, s))
           /\ AllTame(C, D, RhbkClients(e, s))
           /\ AllTame(C, D, RhbkFederation(e, s))
<1> DEFINE plain == {"issuer_kind", "issuer_name", "ClusterIssuer", "idm-acme", "edge",
                     "cert_manager", "ingress_copy", "manual", "clients", "client", "LDAP",
                     "openshift_oidc_client_id", "OpenshiftLab", "openshift_oidc_idp_name",
                     "Keycloak", "federation_name", "client_scope_name", "groups",
                     "federation_ldap_url", "federation_bind_dn",
                     "federation_bind_password", "federation_users_dn"}
<1>1. /\ \A f \in plain : f \notin Away
      /\ "rhbk_client" \notin C /\ "oauth_rhbk_idp_name" \notin OtherSecrets
      /\ Iss \in C
  BY RhbkPlaces DEF Lasting
<1>2. \A f \in plain : Pure(C, Pub(f)) /\ Pure(C, Sec(f)) /\ Pure(C, Const(f))
  BY <1>1, PurePlaces
<1>3. Pure(C, Var("rhbk_client")) /\ Pure(C, Oth("oauth_rhbk_idp_name"))
  BY <1>1, PurePlaces
<1>4. \A keys : \A f \in plain : Tame(C, D, StashOnly(keys, <<Pub(f)>>))
                          /\ Tame(C, D, StashOnly(keys, <<Sec(f)>>))
                          /\ Tame(C, D, StashOnly(keys, <<Const(f)>>))
  BY <1>2, FewPure, TameStashOnly
<1>5. AllTame(C, D, RhbkTls(e, s))
  <2> DEFINE pair == Given(e, s, Sec("tls_crt")) /\ Given(e, s, Sec("tls_key"))
             mode == TlsMode(e, pair)
             on(m) == IF mode = m THEN Yes ELSE No
             own == << Stash({"tls_crt"}, <<"vault_rhbk_tls_crt", "tls_crt">>, <<Sec("tls_crt")>>),
                       Stash({"tls_key"}, <<"vault_rhbk_tls_key", "tls_key">>, <<Sec("tls_key")>>) >>
  <2>1. mode \notin Away
    <3>1. mode \in TlsModes
      BY DEF TlsMode, TlsModes
    <3>2. QED
      BY <1>1, <3>1 DEF TlsModes
  <2>2. \A m, to : Tame(C, D, Put(to, on(m))) /\ Tame(C, D, Put(to, Text(mode)))
    BY <2>1, YesIsText, TameRules
  <2>3. AllTame(C, D, own)
    <3>1. AllPure(C, <<Sec("tls_crt")>>) /\ AllPure(C, <<Sec("tls_key")>>)
      BY RhbkPlaces, PurePlaces, FewPure
    <3>2. /\ "vault_rhbk_tls_crt" \notin Away /\ "vault_rhbk_tls_key" \notin Away
          /\ "vault_rhbk_tls_crt" \notin D /\ "vault_rhbk_tls_key" \notin D
      BY RhbkPlaces
    <3>3. QED
      BY <3>1, <3>2, TameStash, FewTame
  <2>4. AllTame(C, D, << Copy({"ocp_rhbk_issuer_kind"},
                              <<Pub("issuer_kind"), Const("ClusterIssuer")>>),
                         Copy({"ocp_rhbk_issuer_name"},
                              <<Pub("issuer_name"), Const("idm-acme")>>) >>)
    BY <1>2, FewPure, TameRules, FewTame
  <2>5. AllTame(C, D, << Put({"tls_mode"}, Text(mode)),
                         Put({"cert_manager"}, on("cert_manager")),
                         Put({"ocp_rhbk_http_edge"}, on("edge")),
                         Put({"ocp_rhbk_use_default_ingress_cert"}, on("ingress_copy")) >>)
    <3> HIDE DEF mode, on
    <3>1. QED
      BY <2>2, FewTame
  <2>6. QED
    BY <2>3, <2>4, <2>5, FewTame, TameJoin DEF RhbkTls, If
<1>6. AllTame(C, D, RhbkClients(e, s))
  <2>1. AllPure(C, Pubs(<<"openshift_oidc_client_id", "client">>)
                     \o <<Var("rhbk_client"), Pub("clients"), Const("OpenshiftLab")>>)
    BY <1>1, <1>2, <1>3, PairPure, FewPure, BothPure
  <2>2. AllPure(C, <<Pub("openshift_oidc_idp_name"), Oth("oauth_rhbk_idp_name"),
                     Const("Keycloak")>>)
    BY <1>2, <1>3, FewPure
  <2>3. Tame(C, D, Copy({"openshift_oidc_auth_issuer"}, <<Var("ocp_rhbk_hostname")>>))
    BY <1>1, TameRules DEF Iss
  <2>4. AllTame(C, D, << Copy({"rhbk_clients"}, <<Pub("clients")>>),
                         Copy({"rhbk_client"}, <<Pub("client")>>) >>)
    BY <1>2, FewPure, TameRules, FewTame
  <2>5. QED
    BY <2>1, <2>2, <2>3, <2>4, TameRules, FewTame, TameJoin DEF RhbkClients, If
<1>7. AllTame(C, D, RhbkFederation(e, s))
  <2> DEFINE scopes == <<Pub("client_scope_name")>>
                         \o IF Chosen(e, "client_scopes") THEN <<Const("groups")>> ELSE <<>>
             no == <<>>
  <2>1. AllPure(C, scopes)
    <3>1. AllPure(C, no)
      BY DEF AllPure
    <3>2. QED
      BY <1>2, <3>1, FewPure, BothPure
  <2>2. AllTame(C, D, << Copy({"rhbk_federation_name"}, <<Pub("federation_name")>>),
                         Copy({"client_scope_name", "rhbk_client_scope_name"}, scopes) >>)
    <3> HIDE DEF scopes
    <3>1. QED
      BY <1>2, <2>1, FewPure, TameRules, FewTame
  <2>3. AllTame(C, D, << StashOnly(<<"ldap_config_url">>, <<Pub("federation_ldap_url")>>),
             StashOnly(<<"ldap_config_bind_dn">>, <<Pub("federation_bind_dn")>>),
             StashOnly(<<"ldap_config_bind_credential">>,
                       <<Sec("federation_bind_password")>>),
             StashOnly(<<"ldap_config_users_dn">>, <<Pub("federation_users_dn")>>) >>)
    BY <1>4, FewTame
  <2>4. AllTame(C, D, << StashOnly(<<"rhbk_federation_name">>, <<Pub("federation_name")>>) >>)
    BY <1>4, FewTame
  <2>5. AllTame(C, D, << Put({"federation_name", "rhbk_federation_name"}, Text("LDAP")),
                         StashOnly(<<"rhbk_federation_name">>, <<Const("LDAP")>>) >>)
    BY <1>1, <1>4, TameRules, FewTame
  <2>6. QED
    BY <2>2, <2>3, <2>4, <2>5, FewTame, TameJoin DEF RhbkFederation, If
<1>8. QED
  BY <1>5, <1>6, <1>7

LEMMA RealmLeads ==
    ASSUME NEW e, NEW v0, NEW C1, NEW C2, NEW C3, NEW C4, NEW D1, NEW D4,
           NEW a, NEW b, NEW c, NEW d, NEW f, NEW g, NEW h, NEW i, NEW j,
           Moves(e, v0, C1, D1, a, C1, D1), Moves(e, v0, C1, D1, b, C1, D1),
           Moves(e, v0, C1, D1, c, C1, D1), Moves(e, v0, C1, D1, d, C2, D1),
           Moves(e, v0, C2, D1, f, C2, D1), Moves(e, v0, C2, D1, g, C2, D1),
           Moves(e, v0, C2, D1, h, C2, D1), Moves(e, v0, C2, D1, i, C3, D1),
           Moves(e, v0, C3, D1, j, C4, D4)
    PROVE  Leads(e, v0, C1, D1, <<a, b, c, d, f, g, h, i, j>>, C4, D4)
<1> DEFINE rules == <<a, b, c, d, f, g, h, i, j>>
           Cs == [n \in 0 .. 9 |-> IF n < 4 THEN C1 ELSE IF n < 8 THEN C2
                                   ELSE IF n = 8 THEN C3 ELSE C4]
           Ds == [n \in 0 .. 9 |-> IF n < 9 THEN D1 ELSE D4]
<1>1. List(rules) /\ Len(rules) = 9
  BY DEF List
<1>2. /\ rules[1] = a /\ rules[2] = b /\ rules[3] = c /\ rules[4] = d /\ rules[5] = f
      /\ rules[6] = g /\ rules[7] = h /\ rules[8] = i /\ rules[9] = j
  OBVIOUS
<1>3. /\ \A n \in 0 .. 3 : Cs[n] = C1
      /\ \A n \in 4 .. 7 : Cs[n] = C2
      /\ Cs[8] = C3 /\ Cs[9] = C4
  OBVIOUS
<1>4. (\A n \in 0 .. 8 : Ds[n] = D1) /\ Ds[9] = D4
  OBVIOUS
<1> HIDE DEF rules, Cs, Ds
<1>5. \A n \in 1 .. 9 : Moves(e, v0, Cs[n - 1], Ds[n - 1], rules[n], Cs[n], Ds[n])
  <2> TAKE n \in 1 .. 9
  <2>1. CASE n \in 1 .. 3
    <3>1. Cs[n - 1] = C1 /\ Cs[n] = C1 /\ Ds[n - 1] = D1 /\ Ds[n] = D1
          /\ rules[n] \in {a, b, c}
      BY <1>2, <1>3, <1>4, <2>1
    <3>2. QED
      BY <3>1
  <2>2. CASE n = 4
    <3>1. Cs[n - 1] = C1 /\ Cs[n] = C2 /\ Ds[n - 1] = D1 /\ Ds[n] = D1 /\ rules[n] = d
      BY <1>2, <1>3, <1>4, <2>2
    <3>2. QED
      BY <3>1
  <2>3. CASE n \in 5 .. 7
    <3>1. Cs[n - 1] = C2 /\ Cs[n] = C2 /\ Ds[n - 1] = D1 /\ Ds[n] = D1
          /\ rules[n] \in {f, g, h}
      BY <1>2, <1>3, <1>4, <2>3
    <3>2. QED
      BY <3>1
  <2>4. CASE n = 8
    <3>1. Cs[n - 1] = C2 /\ Cs[n] = C3 /\ Ds[n - 1] = D1 /\ Ds[n] = D1 /\ rules[n] = i
      BY <1>2, <1>3, <1>4, <2>4
    <3>2. QED
      BY <3>1
  <2>5. CASE n = 9
    <3>1. Cs[n - 1] = C3 /\ Cs[n] = C4 /\ Ds[n - 1] = D1 /\ Ds[n] = D4 /\ rules[n] = j
      BY <1>2, <1>3, <1>4, <2>5
    <3>2. QED
      BY <3>1
  <2>6. QED
    BY <2>1, <2>2, <2>3, <2>4, <2>5
<1>6. Leads(e, v0, Cs[0], Ds[0], rules, Cs[9], Ds[9])
  BY <1>1, <1>5, ChainLeads
<1>7. QED
  BY <1>3, <1>4, <1>6 DEF rules

\* The rules of the realm, by what they may change.
RealmSet(e) ==
    << Put({"rhbk_platform", "install_rhbk_platform"},
           Text(IF Chosen(e, "standalone") THEN "rhel" ELSE "openshift")),
       Copy({"rhbk_realm", "ocp_rhbk_realm", "keycloak_login_events_realms"},
            <<Pub("realm"), Const("Lab")>>),
       Flag({"rhbk_enabled"}, <<Pub("realm_enabled"), Const("yes")>>) >>
RealmHost(e) ==
    Copy({"rhbk_hostname", "rhbk_host", "ocp_rhbk_hostname", "rhbk_url",
          "keycloak_login_events_keycloak_url"},
         (IF Chosen(e, "standalone") THEN <<Pub("standalone_hostname")>> ELSE <<>>)
           \o <<Pub("hostname"), Oth("keycloak_route")>>)
RealmFlags ==
    << Flag({"rhbk_event_metrics_user_enabled", "install_rhbk_event_metrics_user_enabled",
             "event_metrics_user_enabled"},
            <<Pub("event_metrics_user_enabled"), Const("no")>>),
       Put({"rhbk_metrics_enabled", "install_rhbk_metrics_enabled"}, Yes),
       Flag({"keycloak_login_events_exporter_enabled"},
            <<Pub("login_events_exporter_enabled"), Const("yes")>>) >>
RealmAdmin ==
    Copy({"rhbk_admin_user", "ocp_rhbk_admin_user"},
         Pubs(<<"admin_user", "standalone_admin_user">>) \o <<Const("admin")>>)
RhbkKeys == <<"vault_rhbk_admin_password", "rhbk_admin_password", "ocp_rhbk_admin_password">>
RealmPassword ==
    Stash({"rhbk_admin_password", "ocp_rhbk_admin_password"}, RhbkKeys,
          Secs(<<"admin_password", "standalone_admin_password">>))
RealmRules(e) ==
    << RealmSet(e)[1], RealmSet(e)[2], RealmSet(e)[3], RealmHost(e), RealmFlags[1],
       RealmFlags[2], RealmFlags[3], RealmAdmin, RealmPassword >>
RhbkAway == StandaloneFields \union StandaloneDerived("rhbk")

LEMMA RealmIs ==
    ASSUME NEW e, NEW s
    PROVE  RhbkRealm(e, s) = If(~Chosen(e, "standalone"), << Drop(RhbkAway) >>) \o RealmRules(e)
<1>1. RealmRules(e) =
        << Put({"rhbk_platform", "install_rhbk_platform"},
               Text(IF Chosen(e, "standalone") THEN "rhel" ELSE "openshift")),
           Copy({"rhbk_realm", "ocp_rhbk_realm", "keycloak_login_events_realms"},
                <<Pub("realm"), Const("Lab")>>),
           Flag({"rhbk_enabled"}, <<Pub("realm_enabled"), Const("yes")>>),
           RealmHost(e),
           Flag({"rhbk_event_metrics_user_enabled",
                 "install_rhbk_event_metrics_user_enabled", "event_metrics_user_enabled"},
                <<Pub("event_metrics_user_enabled"), Const("no")>>),
           Put({"rhbk_metrics_enabled", "install_rhbk_metrics_enabled"}, Yes),
           Flag({"keycloak_login_events_exporter_enabled"},
                <<Pub("login_events_exporter_enabled"), Const("yes")>>),
           RealmAdmin, RealmPassword >>
  BY DEF RealmRules, RealmSet, RealmFlags
<1>2. QED
  BY <1>1 DEF RhbkRealm, RealmHost, RealmAdmin, RealmPassword, RhbkKeys, RhbkAway

LEMMA RealmSetIsTame ==
    ASSUME NEW C, NEW D, NEW e
    PROVE  \A i \in 1 .. 3 : Tame(C, D, RealmSet(e)[i]) /\ Tame(C, D, RealmFlags[i])
<1>1. Tame(C, D, RealmSet(e)[1])
  BY RhbkPlaces, TameRules DEF RealmSet
<1>2. Tame(C, D, RealmSet(e)[2])
  BY RhbkPlaces, PurePlaces, FewPure, TameRules DEF RealmSet
<1>3. Tame(C, D, RealmSet(e)[3])
  BY TameRules DEF RealmSet
<1>4. Tame(C, D, RealmFlags[1]) /\ Tame(C, D, RealmFlags[2]) /\ Tame(C, D, RealmFlags[3])
  BY YesIsText, TameRules DEF RealmFlags
<1>5. \A i \in 1 .. 3 : i = 1 \/ i = 2 \/ i = 3
  OBVIOUS
<1>6. QED
  BY <1>1, <1>2, <1>3, <1>4, <1>5

LEMMA RhbkCarried ==
    LET C == Carriers("rhbk")
    IN  /\ Hosts("rhbk") \union Admins("rhbk") \union Passwords("rhbk") \union Lasting("rhbk")
             \union StandaloneDerived("rhbk") \subseteq C
        /\ C \subseteq RhbkAway \union Hosts("rhbk") \union Admins("rhbk")
                         \union Passwords("rhbk") \union Lasting("rhbk")
        /\ Hosts("rhbk") = {"rhbk_hostname", "rhbk_host", "ocp_rhbk_hostname", "rhbk_url",
                            "keycloak_login_events_keycloak_url"}
        /\ Admins("rhbk") = {"rhbk_admin_user", "ocp_rhbk_admin_user"}
        /\ Passwords("rhbk") = {"rhbk_admin_password", "ocp_rhbk_admin_password"}
        /\ Lasting("rhbk") = {Iss, "tls_crt", "tls_key"}
        /\ PasswordKeys("rhbk") = KeySet(RhbkKeys) /\ PasswordKeys("rhbk") \subseteq Keys("rhbk")
        /\ Password("rhbk") = "admin_password"
BY DEF Carriers, Dropped, Hosts, Admins, Passwords, PasswordKeys, Lasting, KeySet, Password, Away,
       RhbkAway, RhbkKeys, Keys

LEMMA RhbkApart ==
    RhbkAway \intersect (Hosts("rhbk") \union Admins("rhbk") \union Passwords("rhbk")
                           \union Lasting("rhbk")) = {}
BY RhbkCarried DEF RhbkAway, StandaloneFields, SecretFields, StandaloneDerived, Iss

LEMMA RhbkStands ==
    ASSUME NEW e, NEW s
    PROVE  AllTame(Carriers("rhbk"), Keys("rhbk"), Rhbk(e, s))
<1> DEFINE C == Carriers("rhbk")
           D == Keys("rhbk")
           derived == {"rhbk_standalone_hostname", "install_rhbk_standalone_hostname",
                       "rhbk_standalone_zip_source", "install_rhbk_standalone_zip_source",
                       "rhbk_standalone_zip_url", "rhbk_standalone_zip_git_repo",
                       "install_rhbk_standalone_zip_git_repo", "rhbk_standalone_zip_git_path",
                       "install_rhbk_standalone_zip_git_path",
                       "rhbk_standalone_zip_git_branch",
                       "install_rhbk_standalone_zip_git_branch", "rhbk_standalone_zip",
                       "rhbk_standalone_tls_crt", "rhbk_standalone_tls_key",
                       "rhbk_standalone_https_enabled",
                       "install_rhbk_standalone_https_enabled"}
           drop == << Drop(RhbkAway) >>
<1>1. Hosts("rhbk") \union Admins("rhbk") \union Passwords("rhbk") \union Lasting("rhbk")
        \union derived \subseteq C
  BY RhbkCarried DEF StandaloneDerived
<1>2. KeySet(RhbkKeys) \subseteq D
  BY RhbkCarried
<1>3. AllTame(C, D, drop)
  BY TameRules, FewTame
<1>4. AllTame(C, D, RealmRules(e))
  <2>1. \A i \in 1 .. 3 : Tame(C, D, RealmSet(e)[i]) /\ Tame(C, D, RealmFlags[i])
    BY RealmSetIsTame
  <2>2. Tame(C, D, RealmHost(e)) /\ Tame(C, D, RealmAdmin)
    BY <1>1, RhbkCarried, TameRules DEF RealmHost, RealmAdmin
  <2>3. Tame(C, D, RealmPassword)
    <3>1. RhbkKeys[1] \notin Away
      BY RhbkPlaces DEF RhbkKeys
    <3>2. {"rhbk_admin_password", "ocp_rhbk_admin_password"} \subseteq C
      BY <1>1, RhbkCarried
    <3>3. QED
      BY <1>2, <3>1, <3>2, TameStash DEF RealmPassword
  <2> HIDE DEF C, D
  <2>4. QED
    BY <2>1, <2>2, <2>3, NineTame DEF RealmRules
<1>5. AllTame(C, D, RhbkTls(e, s)) /\ AllTame(C, D, RhbkClients(e, s))
      /\ AllTame(C, D, RhbkFederation(e, s))
  BY <1>1, RhbkIsTame
<1>6. AllTame(C, D, RhbkStandalone(e, s))
  <2> DEFINE carried == {"rhbk_hostname", "rhbk_host", "rhbk_admin_user", "rhbk_admin_password",
                         "tls_crt", "tls_key"} \union derived
  <2>1. carried \subseteq C
    BY <1>1, RhbkCarried
  <2>2. \A to : \A from : to \subseteq carried => Tame(C, D, Copy(to, from))
    BY <2>1, TameRules
  <2>3. \A to : \A v : to \subseteq carried => Tame(C, D, Put(to, Text(v)))
    BY <2>1, TameRules
  <2>4. \A to : \A from : to \subseteq carried =>
          /\ Tame(C, D, Stash(to, <<"vault_rhbk_admin_password">>, from))
          /\ Tame(C, D, Stash(to, <<"vault_rhbk_standalone_tls_crt">>, from))
          /\ Tame(C, D, Stash(to, <<"vault_rhbk_standalone_tls_key">>, from))
    <3> SUFFICES ASSUME NEW to, NEW from, to \subseteq C
                 PROVE  \A k \in {"vault_rhbk_admin_password", "vault_rhbk_standalone_tls_crt",
                                  "vault_rhbk_standalone_tls_key"} :
                          Tame(C, D, Stash(to, <<k>>, from))
      BY <2>1
    <3> TAKE k \in {"vault_rhbk_admin_password", "vault_rhbk_standalone_tls_crt",
                    "vault_rhbk_standalone_tls_key"}
    <3>1. k \notin Away /\ k \in D
      <4>1. k \notin Away
        BY RhbkPlaces
      <4>2. k \in D
        BY DEF Keys, PasswordKeys
      <4>3. QED
        BY <4>1, <4>2
    <3>2. KeySet(<<k>>) \subseteq D /\ <<k>>[1] \notin Away
      BY <3>1 DEF KeySet
    <3>3. QED
      BY <3>2, TameStash
  <2>5. \A to : to \subseteq carried => Tame(C, D, Put(to, Yes))
    BY YesIsText, TameRules
  <2> HIDE DEF C, D
  <2> DEFINE s1 == << Copy({"rhbk_standalone_hostname", "install_rhbk_standalone_hostname",
                            "rhbk_hostname", "rhbk_host"}, <<Pub("standalone_hostname")>>) >>
             s2(v) == << Put({"rhbk_standalone_zip_source",
                              "install_rhbk_standalone_zip_source"}, Text(v)) >>
             s3 == << Copy({"rhbk_standalone_zip_url"}, <<Pub("standalone_zip_url")>>) >>
             s4 == << Copy({"rhbk_standalone_zip_git_repo",
                            "install_rhbk_standalone_zip_git_repo"},
                           <<Pub("standalone_zip_git_repo")>>),
                      Copy({"rhbk_standalone_zip_git_path",
                            "install_rhbk_standalone_zip_git_path"},
                           <<Pub("standalone_zip_git_path")>>),
                      Copy({"rhbk_standalone_zip_git_branch",
                            "install_rhbk_standalone_zip_git_branch"},
                           <<Pub("standalone_zip_git_branch")>>) >>
             s5 == << Copy({"rhbk_standalone_zip"}, <<Pub("standalone_zip_file")>>) >>
             s6 == << Copy({"rhbk_admin_user"}, <<Pub("standalone_admin_user")>>),
                      Stash({"rhbk_admin_password"}, <<"vault_rhbk_admin_password">>,
                            <<Sec("standalone_admin_password")>>),
                      Stash({"rhbk_standalone_tls_crt", "tls_crt"},
                            <<"vault_rhbk_standalone_tls_crt">>,
                            <<Sec("standalone_tls_crt")>>),
                      Stash({"rhbk_standalone_tls_key", "tls_key"},
                            <<"vault_rhbk_standalone_tls_key">>,
                            <<Sec("standalone_tls_key")>>) >>
             s7 == << Put({"rhbk_standalone_https_enabled",
                           "install_rhbk_standalone_https_enabled"}, Yes) >>
  <2>6. AllTame(C, D, s1) /\ AllTame(C, D, s3) /\ AllTame(C, D, s5)
    BY <2>2, FewTame
  <2>7. AllTame(C, D, s4)
    BY <2>2, FewTame
  <2>8. (\A v : AllTame(C, D, s2(v))) /\ AllTame(C, D, s7)
    BY <2>3, <2>5, FewTame
  <2>9. AllTame(C, D, s6)
    BY <2>2, <2>4, FewTame
  <2>10. RhbkStandalone(e, s) =
           s1 \o If(ZipSource(e) # Blank, s2(ZipSource(e)))
              \o If(ZipSource(e) \in {Blank, "url"}, s3)
              \o If(ZipSource(e) = "git", s4) \o If(ZipSource(e) \in {Blank, "upload"}, s5)
              \o s6 \o If(Given(e, s, Sec("standalone_tls_crt"))
                          /\ Given(e, s, Sec("standalone_tls_key")), s7)
    BY DEF RhbkStandalone
  <2> HIDE DEF s1, s2, s3, s4, s5, s6, s7
  <2>11. \A cond, rules : AllTame(C, D, rules) => AllTame(C, D, If(cond, rules))
    BY FewTame DEF If
  <2>12. QED
    BY <2>6, <2>7, <2>8, <2>9, <2>10, <2>11, TameJoin
<1>7. RhbkRealm(e, s) = If(~Chosen(e, "standalone"), drop) \o RealmRules(e)
  BY RealmIs
<1>8. Rhbk(e, s) = RhbkRealm(e, s) \o RhbkTls(e, s) \o RhbkClients(e, s)
         \o If(Chosen(e, "standalone"), RhbkStandalone(e, s)) \o RhbkFederation(e, s)
         \o If(~Chosen(e, "standalone"), drop)
  BY DEF Rhbk, RhbkAway
<1> HIDE DEF C, D, drop
<1>9. \A cond, rules : AllTame(C, D, rules) => AllTame(C, D, If(cond, rules))
  BY FewTame DEF If
<1>10. AllTame(C, D, RhbkRealm(e, s))
  BY <1>3, <1>4, <1>7, <1>9, TameJoin
<1>11. AllTame(C, D, Rhbk(e, s))
  BY <1>3, <1>5, <1>6, <1>8, <1>9, <1>10, TameJoin
<1>12. QED
  BY <1>11 DEF C, D

LEMMA RhbkMoves ==
    ASSUME NEW e, NEW v0, NEW s, OwnForm(e), ~Chosen(e, "standalone")
    PROVE  Leads(e, v0, Carriers("rhbk"), Keys("rhbk"), Rhbk(e, s),
                 LeftNames("rhbk", e.form), LeftKeys("rhbk", e.form))
<1> DEFINE C0 == Carriers("rhbk")
           D0 == Keys("rhbk")
           C1 == C0 \ RhbkAway
           C2 == IF InForm(e.form, "hostname") THEN C1 \ Hosts("rhbk") ELSE C1
           C3 == IF InForm(e.form, "admin_user") THEN C2 \ Admins("rhbk") ELSE C2
           C4 == IF InForm(e.form, "admin_password") THEN C3 \ Passwords("rhbk") ELSE C3
           D4 == IF InForm(e.form, "admin_password") THEN D0 \ KeySet(RhbkKeys) ELSE D0
           C5 == C4 \ RhbkAway
           drop == << Drop(RhbkAway) >>
<1>1. Rhbk(e, s) = (drop \o RealmRules(e)) \o RhbkTls(e, s) \o RhbkClients(e, s) \o <<>>
                   \o RhbkFederation(e, s) \o drop
  BY RealmIs DEF Rhbk, RhbkAway, If
<1>2. /\ C4 \subseteq Carriers("rhbk") /\ Lasting("rhbk") \subseteq C4 /\ D4 \subseteq Keys("rhbk")
      /\ Hosts("rhbk") \subseteq C1 /\ Admins("rhbk") \subseteq C2 /\ Passwords("rhbk") \subseteq C3
      /\ C5 \subseteq LeftNames("rhbk", e.form) /\ D4 = LeftKeys("rhbk", e.form)
  <2>1. /\ Iss \notin Hosts("rhbk") \union Admins("rhbk") \union Passwords("rhbk")
        /\ Hosts("rhbk") \intersect Admins("rhbk") = {}
        /\ Hosts("rhbk") \intersect Passwords("rhbk") = {}
        /\ Admins("rhbk") \intersect Passwords("rhbk") = {}
        /\ {"tls_crt", "tls_key"} \intersect
             (Hosts("rhbk") \union Admins("rhbk") \union Passwords("rhbk")) = {}
    BY RhbkCarried DEF Iss
  <2>2. Lasting("rhbk") \intersect
          (Hosts("rhbk") \union Admins("rhbk") \union Passwords("rhbk")) = {}
    BY <2>1, RhbkCarried
  <2>3. D4 = LeftKeys("rhbk", e.form)
    BY RhbkCarried DEF LeftKeys
  <2>4. C5 \subseteq LeftNames("rhbk", e.form)
    BY RhbkCarried DEF LeftNames
  <2>5. Hosts("rhbk") \subseteq C1 /\ Lasting("rhbk") \subseteq C1
        /\ Admins("rhbk") \subseteq C1 /\ Passwords("rhbk") \subseteq C1
    BY RhbkCarried, RhbkApart
  <2>6. QED
    BY <2>1, <2>2, <2>3, <2>4, <2>5
<1>3. Leads(e, v0, C0, D0, drop, C1, D0)
  BY DropMoves, OneLeads
<1>4. Leads(e, v0, C1, D0, RealmRules(e), C4, D4)
  <2> HIDE DEF C0, D0, C1
  <2>1. \A C, D : \A i \in 1 .. 3 : Moves(e, v0, C, D, RealmSet(e)[i], C, D)
                                    /\ Moves(e, v0, C, D, RealmFlags[i], C, D)
    BY RealmSetIsTame, TameMoves
  <2>2. Moves(e, v0, C1, D0, RealmHost(e), C2, D0)
    <3> DEFINE from == <<>> \o <<Pub("hostname"), Oth("keycloak_route")>>
    <3>1. RealmHost(e) = Copy(Hosts("rhbk"), from)
      BY RhbkCarried DEF RealmHost
    <3>2. from[1] = Pub("hostname") /\ 1 \in DOMAIN from /\ DOMAIN from \subseteq Nat \ {0}
      OBVIOUS
    <3>3. "hostname" \notin Away /\ "hostname" \notin SecretFields
      BY ToldPlaces
    <3> HIDE DEF from
    <3>4. QED
      BY <1>2, <3>1, <3>2, <3>3, CopyTold
  <2>3. Moves(e, v0, C2, D0, RealmAdmin, C3, D0)
    <3> DEFINE from == Pubs(<<"admin_user", "standalone_admin_user">>) \o <<Const("admin")>>
    <3>1. RealmAdmin = Copy(Admins("rhbk"), from)
      BY RhbkCarried DEF RealmAdmin
    <3>2. from[1] = Pub("admin_user") /\ 1 \in DOMAIN from /\ DOMAIN from \subseteq Nat \ {0}
      BY DEF Pubs
    <3>3. "admin_user" \notin Away /\ "admin_user" \notin SecretFields
      BY ToldPlaces
    <3> HIDE DEF from, C2
    <3>4. QED
      BY <1>2, <3>1, <3>2, <3>3, CopyTold
  <2>4. Moves(e, v0, C3, D0, RealmPassword, C4, D4)
    <3> DEFINE from == Secs(<<"admin_password", "standalone_admin_password">>)
    <3>1. RealmPassword = Stash(Passwords("rhbk"), RhbkKeys, from)
      BY RhbkCarried DEF RealmPassword
    <3>2. from[1] = Sec("admin_password") /\ 1 \in DOMAIN from /\ DOMAIN from \subseteq Nat \ {0}
      BY DEF Secs
    <3>3. "admin_password" \notin Away /\ "admin_password" \in SecretFields
      BY ToldPlaces
    <3>4. RhbkKeys[1] \notin Away /\ 1 \in DOMAIN RhbkKeys /\ KeySet(RhbkKeys) \subseteq D0
      BY RhbkPlaces, RhbkCarried DEF RhbkKeys, D0
    <3> HIDE DEF from, C3
    <3>5. QED
      BY <1>2, <3>1, <3>2, <3>3, <3>4, StashTold
  <2> HIDE DEF C2, C3, C4, D4
  <2>5. QED
    BY <2>1, <2>2, <2>3, <2>4, RealmLeads DEF RealmRules
<1>5. Leads(e, v0, C4, D4, RhbkTls(e, s), C4, D4)
      /\ Leads(e, v0, C4, D4, RhbkClients(e, s), C4, D4)
      /\ Leads(e, v0, C4, D4, RhbkFederation(e, s), C4, D4)
  <2> HIDE DEF C4, D4
  <2>1. QED
    BY <1>2, RhbkIsTame, TameLeads
<1>6. Leads(e, v0, C4, D4, drop, C5, D4)
  BY DropMoves, OneLeads
<1> HIDE DEF C0, D0, C1, C2, C3, C4, D4, C5, drop
<1>7. Leads(e, v0, C0, D0, drop \o RealmRules(e), C4, D4)
  BY <1>3, <1>4, LeadsJoin
<1>8. Leads(e, v0, C0, D0, (drop \o RealmRules(e)) \o RhbkTls(e, s) \o RhbkClients(e, s), C4, D4)
  BY <1>5, <1>7, LeadsJoin
<1>9. Leads(e, v0, C0, D0, (drop \o RealmRules(e)) \o RhbkTls(e, s) \o RhbkClients(e, s)
                             \o <<>>, C4, D4)
  BY <1>8, NoneLeads, LeadsJoin
<1>10. Leads(e, v0, C0, D0, (drop \o RealmRules(e)) \o RhbkTls(e, s) \o RhbkClients(e, s)
               \o <<>> \o RhbkFederation(e, s) \o drop, C5, D4)
  BY <1>5, <1>6, <1>9, LeadsJoin
<1>11. QED
  BY <1>1, <1>2, <1>10, LeadsWiden DEF C0, D0

(***************************************************************************)
(* Where the sign-on of OpenShift, the templates and the second half keep  *)
(* it: all the places there are, or those a form of OpenShift leaves.      *)
(***************************************************************************)
Within(c, C, D) ==
    /\ C \subseteq Carriers(c) /\ Away \subseteq D /\ D \subseteq Keys(c)
    /\ c = "rhbk" =>
         /\ Iss \in C
         /\ \/ {"ocp_rhbk_hostname", "rhbk_hostname"} \subseteq C
            \/ {"ocp_rhbk_hostname", "rhbk_hostname"} \intersect C = {}

LEMMA AllIsWithin == ASSUME NEW c \in Movers PROVE Within(c, Carriers(c), Keys(c))
<1>1. Away \subseteq Keys(c)
  BY DEF Keys
<1>2. c = "rhbk" => Iss \in Carriers(c) /\ {"ocp_rhbk_hostname", "rhbk_hostname"} \subseteq Carriers(c)
  BY RhbkCarried
<1>3. QED
  BY <1>1, <1>2 DEF Within

LEMMA LeftIsWithin ==
    ASSUME NEW c \in Movers, NEW form
    PROVE  Within(c, LeftNames(c, form), LeftKeys(c, form))
<1>1. LeftNames(c, form) \subseteq Carriers(c)
  BY DEF LeftNames, Carriers
<1>2. LeftKeys(c, form) \subseteq Keys(c)
  BY DEF LeftKeys
<1>3. Away \subseteq LeftKeys(c, form)
  <2>1. PasswordKeys(c) \intersect Away = {}
    BY DEF PasswordKeys, Away, StandaloneFields, SecretFields
  <2>2. Away \subseteq Keys(c)
    BY DEF Keys
  <2>3. QED
    BY <2>1, <2>2 DEF LeftKeys
<1>4. ASSUME c = "rhbk"
      PROVE  /\ Iss \in LeftNames(c, form)
             /\ \/ {"ocp_rhbk_hostname", "rhbk_hostname"} \subseteq LeftNames(c, form)
                \/ {"ocp_rhbk_hostname", "rhbk_hostname"} \intersect LeftNames(c, form) = {}
  <2> DEFINE two == {"ocp_rhbk_hostname", "rhbk_hostname"}
  <2>1. Iss \in Lasting(c) /\ two \subseteq Hosts(c)
        /\ two \intersect (Lasting(c) \union Admins(c) \union Passwords(c)) = {}
    BY <1>4, RhbkCarried DEF Iss
  <2> HIDE DEF two
  <2>2. CASE InForm(form, "hostname")
    BY <2>1, <2>2 DEF LeftNames, two
  <2>3. CASE ~InForm(form, "hostname")
    BY <2>1, <2>3 DEF LeftNames, two
  <2>4. QED
    BY <2>2, <2>3
<1>5. QED
  BY <1>1, <1>2, <1>3, <1>4 DEF Within

LEMMA SixTame ==
    ASSUME NEW C, NEW D, NEW a, NEW b, NEW c, NEW d, NEW g, NEW h,
           Tame(C, D, a), Tame(C, D, b), Tame(C, D, c), Tame(C, D, d), Tame(C, D, g),
           Tame(C, D, h)
    PROVE  AllTame(C, D, <<a, b, c, d, g, h>>)
BY DEF AllTame, List

LEMMA OauthIsTame ==
    ASSUME NEW C, NEW D, NEW e, NEW s, Within("rhbk", C, D)
    PROVE  AllTame(C, D, OauthRhbk(e, s))
<1>1. /\ \A f \in {"idp_name", "Keycloak", "client_id", "realm", "rhlab", "keycloak_hostname",
                   "extra_scopes", "groups"} : f \notin Away
      /\ \A n \in {"rhbk_client", "rhbk_realm", "ocp_rhbk_realm"} : n \notin C
  BY RhbkPlaces DEF Within
<1>2. \A to : /\ Tame(C, D, Copy(to, <<Pub("idp_name"), Const("Keycloak")>>))
              /\ Tame(C, D, Copy(to, <<Pub("client_id"), Var("rhbk_client")>>))
              /\ Tame(C, D, Copy(to, <<Pub("extra_scopes"), Const("groups")>>))
              /\ Tame(C, D, Copy(to, <<Pub("realm"), Var("rhbk_realm"), Var("ocp_rhbk_realm"),
                                       Const("rhlab")>>))
  BY <1>1, PurePlaces, FewPure, TameRules
<1> DEFINE hosts == {"ocp_rhbk_hostname", "rhbk_hostname", "openshift_oidc_auth_issuer"}
           from == <<Pub("keycloak_hostname"), Var("ocp_rhbk_hostname"), Var("rhbk_hostname")>>
<1>3. Tame(C, D, Copy(hosts, from))
  <2>1. hosts \subseteq C \/ AllPure(C, from)
    <3>1. CASE {"ocp_rhbk_hostname", "rhbk_hostname"} \subseteq C
      BY <3>1 DEF Within, Iss
    <3>2. CASE {"ocp_rhbk_hostname", "rhbk_hostname"} \intersect C = {}
      <4>1. AllPure(C, from)
        BY <1>1, <3>2, PurePlaces, FewPure
      <4>2. QED
        BY <4>1
    <3>3. QED
      BY <3>1, <3>2 DEF Within
  <2> HIDE DEF hosts, from
  <2>2. QED
    BY <2>1, TameRules
<1>4. \A names : Tame(C, D, DropVault(names))
  BY TameRules
<1>5. QED
  BY <1>2, <1>3, <1>4, SixTame DEF OauthRhbk

\* What a request says is told in its fields alone, whatever files are there.
OwnFields(form) == \A f \in DOMAIN form : form[f] \in Away => f \in Away

LEMMA HostedIsOwn ==
    ASSUME NEW c, NEW form, NEW apps, OwnFields(form),
           c \in Routed => \A f \in DOMAIN DerivedHosts(c, apps) :
                             DerivedHosts(c, apps)[f] \notin Away
    PROVE  OwnFields(WithHosts(c, form, apps))
<1>1. CASE WithHosts(c, form, apps) = form
  BY <1>1
<1>2. CASE c \in Routed /\ WithHosts(c, form, apps) = DerivedHosts(c, apps) ++ form
  BY <1>2 DEF OwnFields, ++
<1>3. QED
  BY <1>1, <1>2, Zenon DEF WithHosts

LEMMA InputIsOwn ==
    ASSUME NEW n \in Environments, NEW r \in Requests(n), NEW w \in Movers \union {"oauth_rhbk"},
           NEW fs
    PROVE  OwnForm(Input(r, w, fs)) /\ Input(r, w, fs).form = FormOf(r, w)
<1> DEFINE form == IF w \in DOMAIN r.forms THEN r.forms[w] ELSE <<>>
           e == Input(r, w, fs)
<1>1. w \notin {"aap", "quay_s3"}
  BY DEF Movers
<1>2. OwnFields(form)
  <2> DEFINE none == <<>>
  <2>1. DOMAIN none = {}
    OBVIOUS
  <2> HIDE DEF none
  <2>2. OwnFields(none)
    BY <2>1 DEF OwnFields
  <2>3. w \in DOMAIN r.forms => OwnFields(r.forms[w])
    BY RequestAssumption DEF OwnFields, Away
  <2>4. QED
    BY <2>2, <2>3 DEF none
<1>3. FormOf(r, w) = WithHosts(w, form, r.apps)
  BY <1>1 DEF FormOf
<1> HIDE DEF form
<1>4. OwnFields(FormOf(r, w))
  <2>1. w \in Routed => \A f \in DOMAIN DerivedHosts(w, r.apps) :
                          DerivedHosts(w, r.apps)[f] \notin Away
    BY RequestAssumption DEF Away
  <2>2. QED
    BY <1>2, <1>3, <2>1, HostedIsOwn
<1>5. e.form = FormOf(r, w)
  BY <1>1 DEF Input
<1>6. \A f \in DOMAIN e.other :
        f \in OtherSecrets \/ (f \in DOMAIN r.other /\ e.other[f] = r.other[f])
  BY DEF Input, ++, OtherSecrets
<1> HIDE DEF e
<1>7. \A f \in DOMAIN r.other : r.other[f][1] = "text" /\ r.other[f][2] \notin Away
  BY RequestAssumption DEF Away
<1>8. OwnForm(e)
  BY <1>4, <1>5, <1>6, <1>7 DEF OwnForm, OwnFields
<1>9. QED
  BY <1>5, <1>8 DEF e

(***************************************************************************)
(* What a merge has in hand.                                               *)
(***************************************************************************)
PlainFile(c, C, D, fs) == VarsPlain(C, D, Load(fs.vars, c)) /\ VaultPlain(D, Load(fs.vault, c))
AllPlain(c, fs) == PlainFile(c, Carriers(c), Keys(c), fs)
LeftPlain(r, c, fs) == PlainFile(c, LeftNames(c, FormOf(r, c)), LeftKeys(c, FormOf(r, c)), fs)

LEMMA NothingIsPlain == ASSUME NEW C, NEW D PROVE VarsPlain(C, D, <<>>) /\ VaultPlain(D, <<>>)
<1> DEFINE none == <<>>
<1>1. DOMAIN none = {}
  OBVIOUS
<1> HIDE DEF none
<1>2. VarsPlain(C, D, none) /\ VaultPlain(D, none)
  BY <1>1 DEF VarsPlain, VaultPlain
<1>3. QED
  BY <1>2 DEF none

LEMMA LoadedIsPlain ==
    ASSUME NEW c, NEW D, NEW fs, VaultPlain(D, Load(fs.vault, c))
    PROVE  VaultPlain(D, LoadVault(fs, c))
BY NothingIsPlain DEF LoadVault

\* The rules of the three, on any platform and on OpenShift.
LEMMA MoverRules ==
    ASSUME NEW c \in Movers, NEW e, NEW s, NEW v0, OwnForm(e)
    PROVE  LET C == Carriers(c)
               D == Keys(c)
           IN  /\ Leads(e, v0, C, D, RulesOf(c, e, s), C, D)
               /\ ~Chosen(e, "standalone") =>
                    Leads(e, v0, C, D, RulesOf(c, e, s), LeftNames(c, e.form), LeftKeys(c, e.form))
<1>1. CASE c = "grafana"
  <2>1. RulesOf(c, e, s) = Grafana(e, s)
    BY <1>1 DEF RulesOf
  <2>2. AllTame(Carriers(c), Keys(c), Grafana(e, s))
    BY <1>1, GrafanaStands
  <2>3. Leads(e, v0, Carriers(c), Keys(c), Grafana(e, s), Carriers(c), Keys(c))
    BY <2>2, TameLeads
  <2>4. QED
    BY <1>1, <2>1, <2>3, GrafanaMoves
<1>2. CASE c = "gitlab"
  <2>1. RulesOf(c, e, s) = Gitlab(e, s)
    BY <1>2 DEF RulesOf
  <2>2. AllTame(Carriers(c), Keys(c), Gitlab(e, s))
    BY <1>2, GitlabStands
  <2>3. Leads(e, v0, Carriers(c), Keys(c), Gitlab(e, s), Carriers(c), Keys(c))
    BY <2>2, TameLeads
  <2>4. QED
    BY <1>2, <2>1, <2>3, GitlabMoves
<1>3. CASE c = "rhbk"
  <2>1. RulesOf(c, e, s) = Rhbk(e, s)
    BY <1>3 DEF RulesOf
  <2>2. AllTame(Carriers(c), Keys(c), Rhbk(e, s))
    BY <1>3, RhbkStands
  <2>3. Leads(e, v0, Carriers(c), Keys(c), Rhbk(e, s), Carriers(c), Keys(c))
    BY <2>2, TameLeads
  <2>4. QED
    BY <1>3, <2>1, <2>3, RhbkMoves
<1>4. QED
  BY <1>1, <1>2, <1>3 DEF Movers

LEMMA MoverInHand ==
    ASSUME NEW n \in Environments, NEW r \in Requests(n), NEW c \in Movers, NEW fs,
           AllPlain(c, fs)
    PROVE  LET e == Input(r, c, fs)
               s == InHand(c, e, fs)[c]
           IN  /\ VaultPlain(Keys(c), s.vault)
               /\ DOMAIN Public(e) # {} =>
                    /\ Apart(Carriers(c), Keys(c), LoadVault(fs, c), s)
                    /\ "standalone" \notin Picked(r, c) =>
                         Apart(LeftNames(c, FormOf(r, c)), LeftKeys(c, FormOf(r, c)),
                               LoadVault(fs, c), s)
<1> DEFINE e == Input(r, c, fs)
           v0 == LoadVault(fs, c)
           f == Load(fs.vars, c)
           less == Without(f, LeftBehind(c, e))
           s == Entered(c, e, f, v0)
           a == Passed(c, e) ++ less
           s0 == [s EXCEPT !.vars = a]
           h == InHand(c, e, fs)
           C == Carriers(c)
           D == Keys(c)
<1>1. h[c] = IF DOMAIN Public(e) = {} THEN s ELSE RunRules(e, s0, RulesOf(c, e, s0))
  <2>1. c \notin Jobs /\ Files(c) = {c}
    BY DEF Movers, Jobs, Files
  <2>2. s.vars = less
    BY DEF Entered
  <2>3. h[c] = IF DOMAIN Public(e) = {} THEN s ELSE MergedVars(c, e, s)
    BY <2>1 DEF InHand, Read
  <2> HIDE DEF s, h, e, less
  <2>4. MergedVars(c, e, s) = RunRules(e, s0, RulesOf(c, e, s0))
    BY <2>2 DEF MergedVars
  <2>5. QED
    BY <2>3, <2>4
<1>2. OwnForm(e) /\ e.form = FormOf(r, c)
  BY InputIsOwn
<1>3. Chosen(e, "standalone") <=> "standalone" \in Picked(r, c)
  BY DEF Chosen, Input, Movers, Jobs
<1>4. s = [vars |-> less, vault |-> v0, dirty |-> FALSE, used |-> {}]
  BY DEF Entered, Movers
<1>5. VarsPlain(C, D, f) /\ VaultPlain(D, v0)
  BY LoadedIsPlain DEF AllPlain, PlainFile
<1>6. VarsPlain(C, D, Passed(c, e))
  <2>1. Away \subseteq C
    BY DEF Carriers, Dropped
  <2> HIDE DEF C, D, e
  <2>2. \A k \in DOMAIN Passed(c, e) : k \in DOMAIN e.form /\ Passed(c, e)[k] = Text(e.form[k])
    BY DEF Passed, Without, Public
  <2>3. \A k \in DOMAIN Passed(c, e) : k \notin C => Plain(D, Passed(c, e)[k])
    BY <1>2, <2>1, <2>2 DEF OwnForm, Plain, Text
  <2>4. QED
    BY <2>3 DEF VarsPlain
<1>7. VarsPlain(C, D, less)
  BY <1>5, PlainWithout
<1> HIDE DEF less, v0, f, s
<1>8. InHandOf(s) /\ s.vars = less /\ s.vault = v0
  BY <1>4 DEF InHandOf
<1> HIDE DEF e, C, D
<1>9. VarsPlain(C, D, a)
  BY <1>6, <1>7 DEF VarsPlain, ++
<1>10. InHandOf(s0) /\ s0.vars = a /\ s0.vault = v0
  BY <1>8 DEF InHandOf
<1> HIDE DEF a, s0
<1>11. Apart(C, D, v0, s0)
  BY <1>5, <1>9, <1>10, Zenon DEF Apart
<1> DEFINE t == RunRules(e, s0, RulesOf(c, e, s0))
<1>12. /\ Apart(C, D, v0, t)
       /\ ~Chosen(e, "standalone") => Apart(LeftNames(c, e.form), LeftKeys(c, e.form), v0, t)
  BY <1>2, <1>11, MoverRules DEF Leads, C, D
<1> HIDE DEF t
<1>13. VaultPlain(D, h[c].vault)
  BY <1>1, <1>5, <1>8, <1>12 DEF Apart, t
<1>14. QED
  BY <1>1, <1>2, <1>3, <1>12, <1>13 DEF t, e, v0, C, D

\* The sign-on reads and changes the file of Keycloak.
LEMMA OauthInHand ==
    ASSUME NEW n \in Environments, NEW r \in Requests(n), NEW fs, NEW C, NEW D,
           Within("rhbk", C, D), PlainFile("rhbk", C, D, fs)
    PROVE  Apart(C, D, LoadVault(fs, "rhbk"),
                 InHand("oauth_rhbk", Input(r, "oauth_rhbk", fs), fs)["rhbk"])
<1> DEFINE w == "oauth_rhbk"
           e == Input(r, w, fs)
           v0 == LoadVault(fs, "rhbk")
           f == Load(fs.vars, "rhbk")
           s == [vars |-> f, vault |-> v0, dirty |-> FALSE, used |-> {}]
           h == InHand(w, e, fs)
<1>1. h["rhbk"] = RunRules(e, s, OauthRhbk(e, s))
  BY DEF InHand, Files, Read, Jobs, JobRules
<1>2. OwnForm(e)
  BY InputIsOwn
<1>3. VarsPlain(C, D, f) /\ VaultPlain(D, v0)
  BY LoadedIsPlain DEF PlainFile
<1> HIDE DEF v0, f, e
<1>4. InHandOf(s) /\ s.vars = f /\ s.vault = v0
  BY DEF InHandOf
<1> HIDE DEF s
<1>5. Apart(C, D, v0, s)
  BY <1>3, <1>4, Zenon DEF Apart
<1>6. Leads(e, v0, C, D, OauthRhbk(e, s), C, D)
  BY <1>2, OauthIsTame, TameLeads
<1>7. Apart(C, D, v0, RunRules(e, s, OauthRhbk(e, s)))
  BY <1>5, <1>6 DEF Leads
<1>8. QED
  BY <1>1, <1>7 DEF e, v0

(***************************************************************************)
(* What the tasks and the writes do to the files of the three.             *)
(***************************************************************************)
LEMMA PutAt ==
    ASSUME NEW fs, NEW new, NEW c, ThreeParts(fs)
    PROVE  /\ c \in DOMAIN new => Load(PutVault(fs, new).vault, c) = new[c]
           /\ c \notin DOMAIN new => Load(PutVault(fs, new).vault, c) = Load(fs.vault, c)
           /\ PutVault(fs, new).sealed = fs.sealed \ DOMAIN new
           /\ ThreeParts(PutVault(fs, new))
<1> DEFINE a == new ++ fs.vault
           b == fs.sealed \ DOMAIN new
<1>1. PutVault(fs, new) = [fs EXCEPT !.vault = a, !.sealed = b]
  BY DEF PutVault
<1>2. Load(a, c) = IF c \in DOMAIN new THEN new[c] ELSE Load(fs.vault, c)
  BY DEF Load, ++
<1> HIDE DEF a
<1>3. PutVault(fs, new).vault = a /\ PutVault(fs, new).sealed = b
  BY <1>1 DEF ThreeParts
<1>4. QED
  BY <1>2, <1>3, VaultOfPut

LEMMA PutOrNot ==
    ASSUME NEW fs, NEW new, NEW gs, NEW c, ThreeParts(fs), c \notin DOMAIN new,
           gs = fs \/ gs = PutVault(fs, new)
    PROVE  Load(gs.vault, c) = Load(fs.vault, c) /\ gs.sealed \subseteq fs.sealed /\ ThreeParts(gs)
<1>1. CASE gs = fs
  BY <1>1
<1>2. CASE gs = PutVault(fs, new)
  <2>1. Load(PutVault(fs, new).vault, c) = Load(fs.vault, c)
    <3> DEFINE a == new ++ fs.vault
    <3>1. PutVault(fs, new).vault = a
      BY VaultOfPut
    <3>2. Load(a, c) = Load(fs.vault, c)
      BY DEF Load, ++
    <3> HIDE DEF a
    <3>3. QED
      BY <3>1, <3>2
  <2>2. PutVault(fs, new).sealed = fs.sealed \ DOMAIN new /\ ThreeParts(PutVault(fs, new))
    BY PutAt, Zenon
  <2>3. QED
    BY <1>2, <2>1, <2>2
<1>3. QED
  BY <1>1, <1>2

LEMMA PutOwn ==
    ASSUME NEW fs, NEW new, NEW c, ThreeParts(fs), c \in DOMAIN new
    PROVE  Load(PutVault(fs, new).vault, c) = new[c] /\ PutVault(fs, new).sealed \subseteq fs.sealed
<1>1. Load(PutVault(fs, new).vault, c) = new[c]
  <2> DEFINE a == new ++ fs.vault
  <2>1. PutVault(fs, new).vault = a
    BY VaultOfPut
  <2>2. Load(a, c) = new[c]
    BY DEF Load, ++
  <2> HIDE DEF a
  <2>3. QED
    BY <2>1, <2>2
<1>2. PutVault(fs, new).sealed = fs.sealed \ DOMAIN new
  BY PutAt, Zenon
<1>3. QED
  BY <1>1, <1>2

LEMMA VarsLeaveVault ==
    ASSUME NEW w, NEW e, NEW fs, NEW h, ThreeParts(fs), NEW c, c \notin Keepers
    PROVE  LET gs == WithVars(w, e, fs, h)
           IN  /\ Load(gs.vault, c) = Load(fs.vault, c)
               /\ LoadVault(gs, c) = LoadVault(fs, c)
               /\ gs.sealed \subseteq fs.sealed
<1> DEFINE both == {"htpass_admin", "admin_htpasswd"}
           users == [k \in {"htpasswd_users", "htpasswd_pass"} |->
                       h["openshift"].vault["htpasswd_users"]]
           new == [f \in both |-> users ++ LoadVault(fs, f)]
           gs == WithVars(w, e, fs, h)
<1>1. \/ \E a : gs = [fs EXCEPT !.vars = a]
      \/ \E a : gs = PutVault([fs EXCEPT !.vars = a], new)
      \/ gs = fs
  BY DEF WithVars
<1>2. DOMAIN new = both /\ c \notin both
  BY DEF Keepers
<1>3. \A a : LET one == [fs EXCEPT !.vars = a]
             IN  ThreeParts(one) /\ one.vault = fs.vault /\ one.sealed = fs.sealed
  BY DEF ThreeParts
<1> HIDE DEF gs, new, both
<1>4. Load(gs.vault, c) = Load(fs.vault, c) /\ gs.sealed \subseteq fs.sealed
      /\ (c \in gs.sealed <=> c \in fs.sealed)
  <2>1. ASSUME NEW a, gs = [fs EXCEPT !.vars = a]
        PROVE  gs.vault = fs.vault /\ gs.sealed = fs.sealed
    BY <1>3, <2>1
  <2>2. ASSUME NEW a, gs = PutVault([fs EXCEPT !.vars = a], new)
        PROVE  Load(gs.vault, c) = Load(fs.vault, c) /\ gs.sealed = fs.sealed \ both
    <3> DEFINE one == [fs EXCEPT !.vars = a]
    <3>1. ThreeParts(one) /\ one.vault = fs.vault /\ one.sealed = fs.sealed
      BY <1>3
    <3> HIDE DEF one
    <3>2. /\ c \notin DOMAIN new => Load(PutVault(one, new).vault, c) = Load(one.vault, c)
          /\ PutVault(one, new).sealed = one.sealed \ DOMAIN new
      BY <3>1, PutAt
    <3>3. gs = PutVault(one, new)
      BY <2>2 DEF one
    <3>4. QED
      BY <1>2, <3>1, <3>2, <3>3
  <2>3. QED
    BY <1>1, <1>2, <2>1, <2>2
<1>5. LoadVault(gs, c) = LoadVault(fs, c)
  BY <1>4 DEF LoadVault
<1>6. QED
  BY <1>4, <1>5 DEF gs

LEMMA VaultOfFile ==
    ASSUME NEW w, NEW e, NEW fs, NEW h, ThreeParts(fs), DOMAIN h = Files(w), NEW c
    PROVE  LET gs == WithVault(w, e, fs, h)
           IN  /\ c \notin Files(w) => Load(gs.vault, c) = Load(fs.vault, c)
               /\ Load(gs.vault, c) \in {Load(fs.vault, c), h[c].vault}
               /\ c \in Files(w) /\ h[c].dirty /\ (w \in Jobs \/ DOMAIN Public(e) # {}) =>
                    Load(gs.vault, c) = h[c].vault
               /\ gs.sealed \subseteq fs.sealed
<1> DEFINE new == [f \in DOMAIN h |-> h[f].vault]
           on == \/ w \in Jobs \ WrittenWhenChanged
                 \/ DOMAIN Public(e) # {} /\ \E f \in DOMAIN h : h[f].dirty
                 \/ w \in WrittenWhenChanged /\ \E f \in DOMAIN h : h[f].dirty
<1>1. WithVault(w, e, fs, h) = IF on THEN PutVault(fs, new) ELSE fs
  BY DEF WithVault
<1>2. c \in Files(w) /\ h[c].dirty /\ (w \in Jobs \/ DOMAIN Public(e) # {}) => on
  OBVIOUS
<1>3. DOMAIN new = Files(w) /\ (c \in Files(w) => new[c] = h[c].vault)
  OBVIOUS
<1> HIDE DEF new, on
<1>4. /\ c \in DOMAIN new => Load(PutVault(fs, new).vault, c) = new[c]
      /\ c \notin DOMAIN new => Load(PutVault(fs, new).vault, c) = Load(fs.vault, c)
      /\ PutVault(fs, new).sealed = fs.sealed \ DOMAIN new
  BY PutAt
<1> DEFINE gs == WithVault(w, e, fs, h)
<1> HIDE DEF gs
<1>5. gs = IF on THEN PutVault(fs, new) ELSE fs
  BY <1>1 DEF gs
<1>6. /\ Load(gs.vault, c) = IF on /\ c \in Files(w) THEN h[c].vault ELSE Load(fs.vault, c)
      /\ gs.sealed \subseteq fs.sealed
  BY <1>3, <1>4, <1>5
<1>7. QED
  BY <1>2, <1>6 DEF gs

LEMMA SecretsOfFile ==
    ASSUME NEW w, NEW e, NEW fs, NEW h, ThreeParts(fs), NEW c \in Movers
    PROVE  LET gs == WithSecrets(w, e, fs, h)
           IN  /\ Load(gs.vault, c) = IF w = c THEN MergedSecrets(c, e, h[c]).vault
                                      ELSE Load(fs.vault, c)
               /\ gs.sealed \subseteq fs.sealed
<1> DEFINE s == MergedSecrets(w, e, h[w])
           aws == SharedAws(e, AwsInHand(fs))
           one == WithFound(FoundKey(w, e, h), w, fs, s)
           two == WithShared(w, one, aws)
           shared == [f \in {"aws"} |-> aws.vault]
           own == [f \in {w} |-> s.vault]
           gs == WithSecrets(w, e, fs, h)
<1>1. gs = WithOwn(w, two, s)
  BY DEF WithSecrets, SecondHalf
<1>2. c \notin DOMAIN shared /\ DOMAIN own = {w} /\ own[w] = s.vault
  BY DEF Movers
<1>3. two = one \/ two = PutVault(one, shared)
  BY DEF WithShared
<1>4. one.vault = fs.vault /\ one.sealed = fs.sealed /\ ThreeParts(one)
  BY DEF WithFound, ThreeParts
<1>5. w = c => s.vault = MergedSecrets(c, e, h[c]).vault
  OBVIOUS
<1>6. w = c => w # "aws" /\ w \notin AwsConsumers
  BY DEF Movers, AwsConsumers
<1> DEFINE less == Without(two.vault, {w})
           sealed == two.sealed \ {w}
           t == [two EXCEPT !.vault = less, !.sealed = sealed]
<1>7. gs = IF w = "aws" THEN two ELSE IF w \in AwsConsumers THEN t ELSE PutVault(two, own)
  BY <1>1 DEF WithOwn
<1> HIDE DEF one, s, aws, own, shared, gs
<1>8. Load(two.vault, c) = Load(fs.vault, c) /\ two.sealed \subseteq fs.sealed /\ ThreeParts(two)
  <2>1. c \notin DOMAIN shared
    BY <1>2
  <2> HIDE DEF two
  <2>2. Load(two.vault, c) = Load(one.vault, c) /\ two.sealed \subseteq one.sealed
        /\ ThreeParts(two)
    BY <1>3, <1>4, <2>1, PutOrNot
  <2>3. QED
    BY <1>4, <2>2
<1> HIDE DEF two
<1>9. w # c => Load(less, c) = Load(two.vault, c)
  BY DEF Load, Without
<1> HIDE DEF less
<1>10. t.vault = less /\ t.sealed = sealed
  BY <1>8 DEF ThreeParts
<1> HIDE DEF t
<1>11. CASE w = c
  <2>1. gs = PutVault(two, own) /\ c \in DOMAIN own /\ own[c] = MergedSecrets(c, e, h[c]).vault
    BY <1>2, <1>5, <1>6, <1>7, <1>11
  <2>2. Load(gs.vault, c) = own[c] /\ gs.sealed \subseteq two.sealed
    BY <1>8, <2>1, PutOwn
  <2>3. QED
    BY <1>8, <1>11, <2>1, <2>2 DEF gs
<1>12. CASE w # c
  <2>1. CASE gs = t
    BY <1>8, <1>9, <1>10, <1>12, <2>1 DEF gs
  <2>2. CASE gs = two \/ gs = PutVault(two, own)
    <3>1. c \notin DOMAIN own
      BY <1>2, <1>12
    <3>2. Load(gs.vault, c) = Load(two.vault, c) /\ gs.sealed \subseteq two.sealed
      BY <1>8, <2>2, <3>1, PutOrNot
    <3>3. QED
      BY <1>8, <1>12, <3>2 DEF gs
  <2>3. QED
    BY <1>7, <2>1, <2>2
<1>13. QED
  BY <1>11, <1>12 DEF gs

\* The second half stores every secret under its own name.
LEMMA SecondHalfIsPlain ==
    ASSUME NEW c \in Movers, NEW e, NEW s, NEW D, OwnForm(e), Away \subseteq D,
           InHandOf(s), VaultPlain(D, s.vault)
    PROVE  VaultPlain(D, MergedSecrets(c, e, s).vault)
<1> DEFINE b == LeftSecrets(e, s) ++ s.vault
           t == [s EXCEPT !.vault = b]
<1>1. MergedSecrets(c, e, s) = t
  <2>1. SecretNames(c, e) = <<>> /\ c # "satellite"
    BY DEF SecretNames, Movers
  <2>2. NamedSecrets(c, e, s) = RunRules(e, t, SecretNames(c, e))
    BY DEF NamedSecrets
  <2>3. MergedSecrets(c, e, s) = NamedSecrets(c, e, s)
    BY <2>1 DEF MergedSecrets, AndSatellite
  <2> HIDE DEF t
  <2>4. QED
    BY <2>1, <2>2, <2>3, RunNone
<1>2. \A k \in DOMAIN LeftSecrets(e, s) : k \in DOMAIN e.form
        /\ LeftSecrets(e, s)[k] = Text(e.form[k])
  BY DEF LeftSecrets, Without, Secret
<1>3. VaultPlain(D, LeftSecrets(e, s))
  BY <1>2 DEF VaultPlain, OwnForm, Text
<1>4. VaultPlain(D, b)
  BY <1>3 DEF VaultPlain, ++
<1> HIDE DEF b
<1>5. t.vault = b
  BY DEF InHandOf
<1>6. QED
  BY <1>1, <1>4, <1>5

LEMMA CleanedIsPlain ==
    ASSUME NEW fs, NEW r, NEW c, NEW C, NEW D, PlainFile(c, C, D, fs)
    PROVE  PlainFile(c, C, D, Cleaned(fs, r)) /\ Cleaned(fs, r).sealed \subseteq fs.sealed
<1> DEFINE gs == Cleaned(fs, r)
<1>1. /\ Load(gs.vars, c) = Load(fs.vars, c) \/ Load(gs.vars, c) = <<>>
      /\ Load(gs.vault, c) = Load(fs.vault, c) \/ Load(gs.vault, c) = <<>>
      /\ gs.sealed \subseteq fs.sealed
  BY DEF Cleaned, Kept, Load
<1> HIDE DEF gs
<1>2. PlainFile(c, C, D, gs)
  BY <1>1, NothingIsPlain DEF PlainFile
<1>3. QED
  BY <1>1, <1>2 DEF gs

\* The templates bring the lab's password, and GitLab's that of a standalone
\* install, to the entries both platforms use.
LEMMA TemplateVaultIsPlain ==
    ASSUME NEW c \in Movers, NEW r
    PROVE  VaultPlain(Keys(c), TemplateVault(c, r))
<1>1. \A v \in {Text("redhat123"), Text(""), Text("lab directory"),
                Ref("vault_gitlab_root_password")} : v[2] \notin Away
  <2>1. {"redhat123", "", "lab directory", "vault_gitlab_root_password"} \intersect Away = {}
    BY DEF Away, StandaloneFields, SecretFields
  <2>2. \A x : Text(x)[2] = x /\ Ref(x)[2] = x
    BY DEF Text, Ref
  <2>3. QED
    BY <2>1, <2>2
<1>2. CASE c = "grafana"
  <2> DEFINE t == [k \in {"grafana_admin_password"} |-> Text("redhat123")]
                  ++ [k \in {"vault_grafana_api_key", "vault_grafana_postgres_password"} |->
                        Text("")]
  <2>1. TemplateVault(c, r) = t
    BY <1>2 DEF TemplateVault
  <2>2. \A k \in DOMAIN t : t[k] \in {Text("redhat123"), Text("")}
    BY DEF ++
  <2> HIDE DEF t
  <2>3. QED
    BY <1>1, <2>1, <2>2 DEF VaultPlain
<1>3. CASE c = "gitlab"
  <2> DEFINE first == FirstPresent([form |-> FormOf(r, c), pre |-> r.pre, other |-> r.other],
                                   [vars |-> <<>>, vault |-> <<>>],
                                   Secs(<<"root_password", "standalone_root_password">>)
                                     \o <<Const("redhat123")>>)
             keys == {"gitlab_root_password", "vault_gitlab_root_password"}
             t == [k \in keys |-> first]
                  ++ [k \in {"gitlab_install_root_password"} |-> Ref("vault_gitlab_root_password")]
                  ++ [k \in {"gitlab_tls_crt", "gitlab_tls_key"} |-> Text("")]
  <2>1. TemplateVault(c, r) = t
    BY <1>3 DEF TemplateVault
  <2> HIDE DEF first
  <2>2. \A k \in DOMAIN t : k \in keys \/ t[k] \in {Ref("vault_gitlab_root_password"), Text("")}
    BY DEF ++
  <2>3. keys \subseteq Keys(c)
    BY <1>3 DEF Keys, PasswordKeys
  <2> HIDE DEF t, keys
  <2>4. QED
    BY <1>1, <2>1, <2>2, <2>3 DEF VaultPlain
<1>4. CASE c = "rhbk"
  <2> DEFINE t == [k \in {"rhbk_admin_password", "ocp_rhbk_admin_password"} |-> Text("redhat123")]
                  ++ [k \in {"ldap_config", "ldap_config_bind_credential"} |->
                        Text("lab directory")]
  <2>1. TemplateVault(c, r) = t
    BY <1>4 DEF TemplateVault
  <2>2. \A k \in DOMAIN t : t[k] \in {Text("redhat123"), Text("lab directory")}
    BY DEF ++
  <2> HIDE DEF t
  <2>3. QED
    BY <1>1, <2>1, <2>2 DEF VaultPlain
<1>5. QED
  BY <1>2, <1>3, <1>4 DEF Movers

LEMMA TemplatedIsPlain ==
    ASSUME NEW c \in Movers, NEW r, NEW fs, ThreeParts(fs), AllPlain(c, fs)
    PROVE  AllPlain(c, Templated(fs, r)) /\ Templated(fs, r).sealed = fs.sealed
<1> DEFINE a == fs.vars ++ [f \in HasFiles(r) |-> TemplateVars(f)]
           b == fs.vault ++ [f \in (HasFiles(r) \ AwsConsumers) \union {"openshift"} |->
                               TemplateVault(f, r)]
           gs == Templated(fs, r)
           C == Carriers(c)
           D == Keys(c)
<1>1. gs = [fs EXCEPT !.vars = a, !.vault = b]
  BY DEF Templated
<1>2. Load(a, c) \in {Load(fs.vars, c), TemplateVars(c), <<>>}
  BY DEF Load, ++
<1>3. Load(b, c) \in {Load(fs.vault, c), TemplateVault(c, r), <<>>}
  BY DEF Load, ++
<1>4. TemplateVars(c) = <<>>
  BY DEF TemplateVars, Movers
<1> HIDE DEF a, b, gs, C, D
<1>5. gs.vars = a /\ gs.vault = b /\ gs.sealed = fs.sealed
  BY <1>1 DEF ThreeParts
<1>6. VarsPlain(C, D, Load(gs.vars, c))
  BY <1>2, <1>4, <1>5, NothingIsPlain DEF AllPlain, PlainFile, C, D
<1>7. VaultPlain(D, Load(gs.vault, c))
  BY <1>3, <1>5, NothingIsPlain, TemplateVaultIsPlain DEF AllPlain, PlainFile, D
<1>8. QED
  BY <1>5, <1>6, <1>7 DEF AllPlain, PlainFile, C, D, gs

\* A form of an OpenShift install is sent.
Moved(r, c) == Sends(r, c) /\ "standalone" \notin Picked(r, c)

\* Between the two writes of a step the vault is in hand.
LeftRead(r, w, c, fs, h) ==
    LET D == LeftKeys(c, FormOf(r, c))
    IN  /\ VarsPlain(LeftNames(c, FormOf(r, c)), D, Load(fs.vars, c))
        /\ c \notin Files(w) => VaultPlain(D, Load(fs.vault, c))
        /\ c \in Files(w) =>
             VaultPlain(D, h[c].vault) /\ (h[c].dirty \/ h[c].vault = LoadVault(fs, c))

LEMMA FilesOfMover ==
    ASSUME NEW c \in Movers, NEW w, c \in Files(w)
    PROVE  w = c \/ (w = "oauth_rhbk" /\ c = "rhbk")
BY DEF Files, Movers

LEMMA MoverIsApart ==
    ASSUME NEW c \in Movers
    PROVE  c \notin Keepers /\ c # "satellite" /\ c \notin Jobs /\ Files(c) = {c}
BY DEF Movers, Keepers, Jobs, Files

LEMMA VarsStep ==
    ASSUME NEW n \in Environments, NEW r \in Requests(n), NEW c \in Movers, NEW w, NEW fs,
           ThreeParts(fs), AllPlain(c, fs)
    PROVE  LET e == Input(r, w, fs)
               h == InHand(w, e, fs)
               gs == WithVars(w, e, fs, h)
           IN  /\ AllPlain(c, gs)
               /\ c \in Files(w) => VaultPlain(Keys(c), h[c].vault)
               /\ Moved(r, c) /\ (w = c \/ LeftPlain(r, c, fs)) => LeftRead(r, w, c, gs, h)
               /\ gs.sealed \subseteq fs.sealed
<1> DEFINE e == Input(r, w, fs)
           h == InHand(w, e, fs)
           gs == WithVars(w, e, fs, h)
           C0 == Carriers(c)
           D0 == Keys(c)
           C1 == LeftNames(c, FormOf(r, c))
           D1 == LeftKeys(c, FormOf(r, c))
           v0 == LoadVault(fs, c)
<1>1. DOMAIN h = Files(w)
  BY DEF InHand
<1>2. c \notin Keepers /\ c \notin Jobs /\ Files(c) = {c}
  BY MoverIsApart
<1> HIDE DEF h, e
<1>3. /\ c \notin Files(w) => Load(gs.vars, c) = Load(fs.vars, c)
      /\ c \in Files(w) =>
           IF w \in Jobs \/ DOMAIN Public(e) # {}
           THEN Load(gs.vars, c) = h[c].vars
           ELSE Load(gs.vars, c) = Load(fs.vars, c)
  BY <1>1, <1>2, VarsOfFile
<1>4. /\ Load(gs.vault, c) = Load(fs.vault, c) /\ LoadVault(gs, c) = v0
      /\ gs.sealed \subseteq fs.sealed
  BY <1>2, VarsLeaveVault
<1> HIDE DEF gs
<1>5. VarsPlain(C0, D0, Load(fs.vars, c)) /\ VaultPlain(D0, Load(fs.vault, c))
  BY DEF AllPlain, PlainFile
<1>6. LeftPlain(r, c, fs) <=> VarsPlain(C1, D1, Load(fs.vars, c)) /\ VaultPlain(D1, Load(fs.vault, c))
  BY DEF LeftPlain, PlainFile
<1>7. AllPlain(c, gs) <=> VarsPlain(C0, D0, Load(gs.vars, c)) /\ VaultPlain(D0, Load(gs.vault, c))
  BY DEF AllPlain, PlainFile
<1>8. LeftRead(r, w, c, gs, h)
        <=> /\ VarsPlain(C1, D1, Load(gs.vars, c))
            /\ c \notin Files(w) => VaultPlain(D1, Load(gs.vault, c))
            /\ c \in Files(w) =>
                 VaultPlain(D1, h[c].vault) /\ (h[c].dirty \/ h[c].vault = LoadVault(gs, c))
  BY DEF LeftRead
<1>9. w = c => DOMAIN Public(e) = DOMAIN FormOf(r, c) \ SecretFields
  <2>1. w = c => e.form = FormOf(r, c)
    BY InputIsOwn DEF e
  <2>2. QED
    BY <2>1 DEF Public
<1>10. CASE w = c
  <2>1. /\ VaultPlain(D0, h[c].vault)
        /\ DOMAIN Public(e) # {} =>
             /\ Apart(C0, D0, v0, h[c])
             /\ "standalone" \notin Picked(r, c) => Apart(C1, D1, v0, h[c])
    BY <1>10, MoverInHand DEF h, e
  <2>2. CASE DOMAIN Public(e) # {}
    <3>1. Load(gs.vars, c) = h[c].vars
      BY <1>2, <1>3, <1>10, <2>2
    <3>2. VarsPlain(C0, D0, h[c].vars)
          /\ ("standalone" \notin Picked(r, c) =>
                VarsPlain(C1, D1, h[c].vars) /\ VaultPlain(D1, h[c].vault)
                /\ (h[c].dirty \/ h[c].vault = v0))
      BY <2>1, <2>2 DEF Apart
    <3> HIDE DEF C0, D0, C1, D1, v0
    <3>3. AllPlain(c, gs)
      BY <1>4, <1>5, <1>7, <3>1, <3>2
    <3>4. Moved(r, c) => LeftRead(r, w, c, gs, h)
      BY <1>2, <1>4, <1>8, <1>10, <3>1, <3>2 DEF Moved
    <3>5. QED
      BY <1>4, <2>1, <3>3, <3>4 DEF h, gs, e, D0
  <2>3. CASE DOMAIN Public(e) = {}
    <3>1. Load(gs.vars, c) = Load(fs.vars, c)
      BY <1>2, <1>3, <1>10, <2>3
    <3>2. ~Moved(r, c)
      BY <1>9, <1>10, <2>3 DEF Moved, Sends
    <3> HIDE DEF C0, D0, C1, D1, v0
    <3>3. AllPlain(c, gs)
      BY <1>4, <1>5, <1>7, <3>1
    <3>4. QED
      BY <1>4, <2>1, <3>2, <3>3 DEF h, gs, e, D0
  <2>4. QED
    BY <2>2, <2>3
<1>11. CASE w = "oauth_rhbk" /\ c = "rhbk"
  <2>1. w \in Jobs /\ c \in Files(w)
    BY <1>11 DEF Jobs, Files
  <2>2. Load(gs.vars, c) = h[c].vars
    BY <1>3, <2>1
  <2>3. Apart(C0, D0, v0, h[c])
    <3>1. Within("rhbk", C0, D0) /\ PlainFile("rhbk", C0, D0, fs)
      BY <1>11, AllIsWithin DEF AllPlain
    <3> HIDE DEF C0, D0
    <3>2. QED
      BY <1>11, <3>1, OauthInHand DEF h, e
  <2>4. LeftPlain(r, c, fs) => Apart(C1, D1, v0, h[c])
    <3>1. Within("rhbk", C1, D1) /\ (LeftPlain(r, c, fs) => PlainFile("rhbk", C1, D1, fs))
      BY <1>11, LeftIsWithin DEF LeftPlain
    <3> HIDE DEF C1, D1
    <3>2. QED
      BY <1>11, <3>1, OauthInHand DEF h, e
  <2> HIDE DEF C0, D0, C1, D1, v0
  <2>5. AllPlain(c, gs) /\ VaultPlain(D0, h[c].vault)
    BY <1>4, <1>5, <1>7, <2>2, <2>3 DEF Apart
  <2>6. LeftPlain(r, c, fs) => LeftRead(r, w, c, gs, h)
    BY <1>4, <1>8, <2>1, <2>2, <2>4 DEF Apart
  <2>7. w # c
    BY <1>11
  <2>8. QED
    BY <1>4, <2>5, <2>6, <2>7 DEF h, gs, e, D0
<1>12. CASE c \notin Files(w)
  <2> HIDE DEF C0, D0, C1, D1, v0
  <2>1. Load(gs.vars, c) = Load(fs.vars, c) /\ w # c
    BY <1>2, <1>3, <1>12
  <2>2. AllPlain(c, gs)
    BY <1>4, <1>5, <1>7, <2>1
  <2>3. LeftPlain(r, c, fs) => LeftRead(r, w, c, gs, h)
    BY <1>4, <1>6, <1>8, <1>12, <2>1
  <2>4. QED
    BY <1>4, <1>12, <2>1, <2>2, <2>3 DEF h, gs, e
<1>13. QED
  BY <1>10, <1>11, <1>12, FilesOfMover

LEMMA VaultStep ==
    ASSUME NEW r, NEW c \in Movers, NEW w, NEW e, NEW fs, NEW h, ThreeParts(fs),
           DOMAIN h = Files(w), AllPlain(c, fs),
           c \in Files(w) => VaultPlain(Keys(c), h[c].vault)
    PROVE  LET gs == WithVault(w, e, fs, h)
           IN  /\ AllPlain(c, gs)
               /\ /\ fs.sealed = {}
                  /\ LeftRead(r, w, c, fs, h)
                  /\ w = c => DOMAIN Public(e) # {}
                  => LeftPlain(r, c, gs)
               /\ gs.sealed \subseteq fs.sealed
<1> DEFINE gs == WithVault(w, e, fs, h)
           C0 == Carriers(c)
           D0 == Keys(c)
           C1 == LeftNames(c, FormOf(r, c))
           D1 == LeftKeys(c, FormOf(r, c))
<1>1. /\ c \notin Files(w) => Load(gs.vault, c) = Load(fs.vault, c)
      /\ Load(gs.vault, c) \in {Load(fs.vault, c), h[c].vault}
      /\ c \in Files(w) /\ h[c].dirty /\ (w \in Jobs \/ DOMAIN Public(e) # {}) =>
           Load(gs.vault, c) = h[c].vault
      /\ gs.sealed \subseteq fs.sealed
  BY VaultOfFile
<1>2. gs.vars = fs.vars
  BY VaultLeavesVars
<1>3. fs.sealed = {} => LoadVault(fs, c) = Load(fs.vault, c)
  BY DEF LoadVault
<1>4. c \in Files(w) => w = c \/ w \in Jobs
  BY FilesOfMover DEF Jobs
<1> HIDE DEF gs
<1>5. /\ VarsPlain(C0, D0, Load(gs.vars, c))
      /\ VaultPlain(D0, Load(gs.vault, c))
  BY <1>1, <1>2 DEF AllPlain, PlainFile
<1>6. ASSUME fs.sealed = {}, LeftRead(r, w, c, fs, h), w = c => DOMAIN Public(e) # {}
      PROVE  VarsPlain(C1, D1, Load(gs.vars, c)) /\ VaultPlain(D1, Load(gs.vault, c))
  <2>1. /\ VarsPlain(C1, D1, Load(fs.vars, c))
        /\ c \notin Files(w) => VaultPlain(D1, Load(fs.vault, c))
        /\ c \in Files(w) =>
             VaultPlain(D1, h[c].vault) /\ (h[c].dirty \/ h[c].vault = Load(fs.vault, c))
    BY <1>3, <1>6 DEF LeftRead
  <2> HIDE DEF C1, D1
  <2>2. CASE c \notin Files(w)
    BY <1>1, <1>2, <2>1, <2>2
  <2>3. CASE c \in Files(w)
    <3>1. h[c].dirty => Load(gs.vault, c) = h[c].vault
      BY <1>1, <1>4, <1>6, <2>3
    <3>2. ~h[c].dirty => h[c].vault = Load(fs.vault, c)
      BY <2>1, <2>3
    <3>3. VaultPlain(D1, h[c].vault)
      BY <2>1, <2>3
    <3>4. QED
      BY <1>1, <1>2, <2>1, <3>1, <3>2, <3>3
  <2>4. QED
    BY <2>2, <2>3
<1>7. QED
  BY <1>1, <1>5, <1>6 DEF gs, AllPlain, LeftPlain, PlainFile

LEMMA SecretsStep ==
    ASSUME NEW n \in Environments, NEW r \in Requests(n), NEW c \in Movers, NEW w, NEW fs,
           NEW h, ThreeParts(fs), GoodHand(w, h), NEW C, NEW D, Within(c, C, D),
           PlainFile(c, C, D, fs), w = c => VaultPlain(D, h[c].vault)
    PROVE  LET gs == WithSecrets(w, Input(r, w, fs), fs, h)
           IN  PlainFile(c, C, D, gs) /\ gs.sealed \subseteq fs.sealed
<1> DEFINE e == Input(r, w, fs)
           gs == WithSecrets(w, e, fs, h)
<1> HIDE DEF e
<1>1. /\ Load(gs.vault, c) = IF w = c THEN MergedSecrets(c, e, h[c]).vault
                             ELSE Load(fs.vault, c)
      /\ gs.sealed \subseteq fs.sealed
  BY SecretsOfFile
<1>2. Load(gs.vars, c) = Load(fs.vars, c)
  <2>1. c # "satellite"
    BY MoverIsApart
  <2>2. QED
    BY <2>1, SecretsLeaveVars
<1> HIDE DEF gs
<1>3. ASSUME w = c
      PROVE  VaultPlain(D, MergedSecrets(c, e, h[c]).vault)
  <2>1. OwnForm(e)
    BY <1>3, InputIsOwn DEF e
  <2>2. InHandOf(h[c])
    <3>1. c \in Files(w)
      BY <1>3, MoverIsApart
    <3>2. QED
      BY <3>1 DEF GoodHand, Decided
  <2>3. QED
    BY <1>3, <2>1, <2>2, SecondHalfIsPlain DEF Within
<1>4. VaultPlain(D, Load(gs.vault, c))
  BY <1>1, <1>3 DEF PlainFile
<1>5. QED
  BY <1>1, <1>2, <1>4 DEF PlainFile, gs, e

(***************************************************************************)
(* Where it is at every step.  Whatever was sent, the three files hold it  *)
(* in the places of Carriers and Keys; where a form of an OpenShift        *)
(* install is sent and no vault was read as an empty one, they hold it in  *)
(* the places that form leaves once its turn has come.                     *)
(***************************************************************************)
LeftInv ==
    /\ \A c \in Movers : AllPlain(c, files)
    /\ pc \in {"vault", "secrets"} =>
         \A c \in Movers : c \in Files(Now) => VaultPlain(Keys(c), hand[c].vault)
    /\ ~blind /\ pc \notin {"idle", "done"} => files.sealed = {}
    /\ ~blind => \A c \in Movers : Moved(request, c) =>
         /\ pc = "work" => Has(todo, c) \/ LeftPlain(request, c, files)
         /\ pc = "vault" => Has(Tail(todo), c) \/ LeftRead(request, Now, c, files, hand)
         /\ pc = "secrets" =>
              \/ Has(Tail(todo), c)
              \/ /\ LeftPlain(request, c, files)
                 /\ Now = c => VaultPlain(LeftKeys(c, FormOf(request, c)), hand[c].vault)
         /\ pc = "done" => LeftPlain(request, c, files)

LEMMA LeftInitially == Init => LeftInv
<1> SUFFICES ASSUME Init
             PROVE  LeftInv
  OBVIOUS
<1> DEFINE none == <<>>
<1>1. files.vars = none /\ files.vault = none /\ files.sealed = {} /\ DOMAIN none = {}
  BY DEF Init
<1>2. \A c : Load(none, c) = <<>>
  <2> HIDE DEF none
  <2>1. QED
    BY <1>1 DEF Load
<1>3. \A c : AllPlain(c, files)
  BY <1>1, <1>2, NothingIsPlain DEF AllPlain, PlainFile
<1>4. QED
  BY <1>1, <1>3 DEF Init, LeftInv

LEMMA LeftKept ==
    OverlayInv /\ UsersInv /\ LeftInv /\ [Next]_overlayVars => LeftInv'
<1> SUFFICES ASSUME OverlayInv, UsersInv, LeftInv, [Next]_overlayVars
             PROVE  LeftInv'
  OBVIOUS
<1>1. ThreeParts(files)
  BY GoodHasThree DEF OverlayInv
<1>2. ASSUME NEW r \in Requests(env), Ask(r)
      PROVE  LeftInv'
  BY <1>2 DEF Ask, LeftInv
<1>3. CASE Rerun
  BY <1>3 DEF Rerun, LeftInv
<1>4. CASE RemoveStale
  <2>1. /\ files' = Cleaned(files, request) /\ pc = "clean" /\ pc' = "template"
        /\ UNCHANGED <<request, blind>>
    BY <1>4 DEF RemoveStale
  <2>2. (\A c \in Movers : AllPlain(c, files')) /\ files'.sealed \subseteq files.sealed
    BY <2>1, CleanedIsPlain DEF LeftInv, AllPlain, Movers
  <2>3. QED
    BY <2>1, <2>2 DEF LeftInv
<1>5. CASE WriteTemplates
  <2>1. /\ files' = Templated(files, request) /\ pc = "template" /\ pc' = "work"
        /\ todo' = Work(request, files') /\ UNCHANGED <<request, blind>>
        /\ env \in Environments /\ request \in Requests(env)
    BY <1>5 DEF WriteTemplates, OverlayInv
  <2>2. (\A c \in Movers : AllPlain(c, files')) /\ files'.sealed = files.sealed
    BY <1>1, <2>1, TemplatedIsPlain DEF LeftInv, Movers
  <2>3. \A c \in Movers : Moved(request, c) => Has(todo', c)
    <3>1. Len(request.order) \in Nat
      BY <2>1, RequestAssumption
    <3>2. QED
      BY <2>1, <3>1, MoverIsApart, SentIsAtWork DEF Moved
  <2>4. QED
    BY <2>1, <2>2, <2>3 DEF LeftInv
<1>6. CASE WriteVars
  <2>1. /\ env \in Environments /\ request \in Requests(env)
        /\ todo \in Seq(Tasks(request)) /\ todo # <<>>
        /\ pc = "work" /\ pc' = "vault" /\ UNCHANGED <<request, todo, blind>> /\ Now' = Now
        /\ hand' = InHand(Now, E, files) /\ files' = WithVars(Now, E, files, hand')
    BY <1>6 DEF WriteVars, OverlayInv, UsersInv, Steps, Now
  <2>2. ASSUME NEW c \in Movers
        PROVE  /\ AllPlain(c, files')
               /\ c \in Files(Now) => VaultPlain(Keys(c), hand'[c].vault)
               /\ Moved(request, c) /\ (Now = c \/ LeftPlain(request, c, files)) =>
                    LeftRead(request, Now, c, files', hand')
               /\ files'.sealed \subseteq files.sealed
    <3>1. AllPlain(c, files)
      BY DEF LeftInv
    <3>2. E = Input(request, Now, files)
      BY DEF E
    <3>3. QED
      BY <1>1, <2>1, <3>1, <3>2, VarsStep
  <2>3. ASSUME NEW c \in Movers, ~blind, Moved(request, c)
        PROVE  Has(Tail(todo), c) \/ LeftRead(request, Now, c, files', hand')
    <3>1. Has(todo, c) \/ LeftPlain(request, c, files)
      BY <2>1, <2>3 DEF LeftInv
    <3>2. Has(todo, c) /\ Now # c => Has(Tail(todo), c)
      BY <2>1, HasTail DEF Now
    <3>3. QED
      BY <2>2, <2>3, <3>1, <3>2
  <2>4. files'.sealed \subseteq files.sealed
    BY <2>2 DEF Movers
  <2>5. ~blind => files.sealed = {}
    BY <2>1 DEF LeftInv
  <2>6. QED
    BY <2>1, <2>2, <2>3, <2>4, <2>5 DEF LeftInv
<1>7. CASE Refuse
  BY <1>7 DEF Refuse, LeftInv, Steps
<1>8. CASE WriteVault
  <2>1. /\ env \in Environments /\ request \in Requests(env) /\ GoodHand(Now, hand)
        /\ pc = "vault" /\ UNCHANGED <<request, blind>>
        /\ files' = WithVault(Now, E, files, hand)
    BY <1>8 DEF WriteVault, OverlayInv, Steps
  <2>2. DOMAIN hand = Files(Now)
    BY <2>1, HandIsNotEmpty
  <2>3. ASSUME NEW c \in Movers
        PROVE  /\ AllPlain(c, files')
               /\ Moved(request, c) /\ files.sealed = {}
                    /\ LeftRead(request, Now, c, files, hand) => LeftPlain(request, c, files')
               /\ files'.sealed \subseteq files.sealed
    <3>1. AllPlain(c, files) /\ (c \in Files(Now) => VaultPlain(Keys(c), hand[c].vault))
      BY <2>1 DEF LeftInv
    <3>2. Moved(request, c) => (Now = c => DOMAIN Public(E) # {})
      <4>1. Now = c => E.form = FormOf(request, c)
        BY <2>1, InputIsOwn DEF E
      <4>2. QED
        BY <4>1 DEF Moved, Sends, Public
    <3>3. QED
      BY <1>1, <2>1, <2>2, <3>1, <3>2, VaultStep
  <2>4. files'.sealed \subseteq files.sealed /\ (~blind => files.sealed = {})
    BY <2>1, <2>3 DEF LeftInv, Movers
  <2>5. ASSUME NEW c \in Movers, ~blind, Moved(request, c)
        PROVE  \/ Has(Tail(todo), c)
               \/ /\ LeftPlain(request, c, files')
                  /\ Now = c => VaultPlain(LeftKeys(c, FormOf(request, c)), hand[c].vault)
    <3>1. Has(Tail(todo), c) \/ LeftRead(request, Now, c, files, hand)
      BY <2>1, <2>5 DEF LeftInv
    <3>2. LeftRead(request, Now, c, files, hand) =>
            (Now = c => VaultPlain(LeftKeys(c, FormOf(request, c)), hand[c].vault))
      BY MoverIsApart DEF LeftRead
    <3>3. QED
      BY <2>3, <2>4, <2>5, <3>1, <3>2
  <2>6. CASE pc' = "secrets" /\ UNCHANGED <<todo, hand>>
    <3>1. Now' = Now
      BY <2>6 DEF Now
    <3>2. \A c \in Movers : c \in Files(Now) => VaultPlain(Keys(c), hand[c].vault)
      BY <2>1 DEF LeftInv
    <3>3. QED
      BY <2>1, <2>3, <2>4, <2>5, <2>6, <3>1, <3>2 DEF LeftInv
  <2>7. CASE Advance
    BY <2>1, <2>3, <2>4, <2>5, <2>7 DEF LeftInv, Advance
  <2>8. QED
    BY <1>8, <2>6, <2>7 DEF WriteVault
<1>9. CASE WriteSecrets
  <2>1. /\ env \in Environments /\ request \in Requests(env) /\ GoodHand(Now, hand)
        /\ pc = "secrets" /\ pc' = "work" /\ todo' = Tail(todo) /\ UNCHANGED <<request, blind>>
        /\ files' = WithSecrets(Now, E, files, hand)
    BY <1>9 DEF WriteSecrets, OverlayInv, Steps, Advance
  <2>2. ASSUME NEW c \in Movers, NEW C, NEW D, Within(c, C, D), PlainFile(c, C, D, files),
               Now = c => VaultPlain(D, hand[c].vault)
        PROVE  PlainFile(c, C, D, files') /\ files'.sealed \subseteq files.sealed
    <3>1. E = Input(request, Now, files)
      BY DEF E
    <3>2. QED
      BY <1>1, <2>1, <2>2, <3>1, SecretsStep
  <2>3. ASSUME NEW c \in Movers
        PROVE  AllPlain(c, files') /\ files'.sealed \subseteq files.sealed
    <3> DEFINE C == Carriers(c)
               D == Keys(c)
    <3>1. Within(c, C, D) /\ PlainFile(c, C, D, files)
      BY AllIsWithin DEF LeftInv, AllPlain
    <3>2. Now = c => VaultPlain(D, hand[c].vault)
      BY <2>1, MoverIsApart DEF LeftInv
    <3> HIDE DEF C, D
    <3>3. PlainFile(c, C, D, files') /\ files'.sealed \subseteq files.sealed
      BY <2>2, <3>1, <3>2
    <3>4. QED
      BY <3>3 DEF AllPlain, C, D
  <2>4. ASSUME NEW c \in Movers, ~blind, Moved(request, c)
        PROVE  Has(todo', c) \/ LeftPlain(request, c, files')
    <3> DEFINE C == LeftNames(c, FormOf(request, c))
               D == LeftKeys(c, FormOf(request, c))
    <3>1. \/ Has(Tail(todo), c)
          \/ LeftPlain(request, c, files) /\ (Now = c => VaultPlain(D, hand[c].vault))
      BY <2>1, <2>4 DEF LeftInv
    <3>2. Within(c, C, D)
      BY LeftIsWithin
    <3>3. /\ LeftPlain(request, c, files) <=> PlainFile(c, C, D, files)
          /\ LeftPlain(request, c, files') <=> PlainFile(c, C, D, files')
      BY <2>1 DEF LeftPlain
    <3> HIDE DEF C, D
    <3>4. QED
      BY <2>1, <2>2, <3>1, <3>2, <3>3
  <2>5. files'.sealed \subseteq files.sealed /\ (~blind => files.sealed = {})
    BY <2>1, <2>3 DEF LeftInv, Movers
  <2>6. QED
    BY <2>1, <2>3, <2>4, <2>5 DEF LeftInv
<1>10. CASE Encrypt
  <2>1. /\ pc = "work" /\ pc' = "done" /\ UNCHANGED <<request, blind>> /\ todo = <<>>
        /\ files' = files \/ files' = [files EXCEPT !.sealed = DOMAIN files.vault]
    BY <1>10 DEF Encrypt, Steps
  <2>2. \A b : [files EXCEPT !.sealed = b].vars = files.vars
               /\ [files EXCEPT !.sealed = b].vault = files.vault
    BY <1>1 DEF ThreeParts
  <2>3. files'.vars = files.vars /\ files'.vault = files.vault
    BY <2>1, <2>2
  <2>4. ~Has(todo, "rhbk") /\ \A c : ~Has(todo, c)
    BY <2>1 DEF Has
  <2>5. \A c \in Movers : AllPlain(c, files') /\ (LeftPlain(request, c, files) =>
                                                    LeftPlain(request, c, files'))
    BY <2>3 DEF LeftInv, AllPlain, LeftPlain, PlainFile
  <2>6. QED
    BY <2>1, <2>4, <2>5 DEF LeftInv
<1>11. CASE Stop
  BY <1>11 DEF Stop, LeftInv, Steps
<1>12. CASE UNCHANGED overlayVars
  BY <1>12 DEF overlayVars, LeftInv, Now
<1>13. QED
  BY <1>2, <1>3, <1>4, <1>5, <1>6, <1>7, <1>8, <1>9, <1>10, <1>11, <1>12 DEF Next

\* When a run is done a variable that holds it is one of those the form leaves,
\* and the issuer of the sign-on, one of them, is the route.
LEMMA LeftImplies == LeftInv /\ IssuerIsKeycloak => NothingStandaloneLeft
<1> SUFFICES ASSUME LeftInv, IssuerIsKeycloak, AtRest, NEW c \in Movers, Moved(request, c),
                    NEW k \in DOMAIN Vars(c), OfStandalone(c, k)
             PROVE  \/ \E field \in {"hostname", "admin_user", "admin_password",
                                     "root_password"} :
                         <<c, k, field>> \in SharedByPlatforms /\ Unsaid(request, c, field)
                    \/ <<c, k>> \in Certificate
  BY DEF NothingStandaloneLeft, Movers, Moved
<1> DEFINE form == FormOf(request, c)
           C == LeftNames(c, form)
           D == LeftKeys(c, form)
<1>1. VarsPlain(C, D, Vars(c)) /\ VaultPlain(D, Vault(c))
  BY DEF LeftInv, LeftPlain, PlainFile, AtRest, Vars, Vault
<1> HIDE DEF C, D, form
<1>2. \A n \in DOMAIN Vars(c) : OfStandalone(c, n) => n \in C
  <2> SUFFICES ASSUME NEW n \in DOMAIN Vars(c), n \notin C
               PROVE  ~OfStandalone(c, n)
    OBVIOUS
  <2> DEFINE v == Vars(c)[n]
  <2>1. v[2] \notin Away /\ (v[1] = "ref" => v[2] \notin D)
    BY <1>1 DEF VarsPlain, Plain
  <2>2. v[1] = "ref" => At(Vault(c), v[2])[2] \notin Away
    <3>1. None[2] \notin Away
      BY NoneIsPlain DEF Plain
    <3>2. QED
      BY <1>1, <2>1, <3>1 DEF VaultPlain, At
  <2>3. QED
    BY <2>1, <2>2 DEF OfStandalone, Away
<1>3. \A field : Unsaid(request, c, field) <=> ~InForm(form, field)
  BY DEF Unsaid, InForm, form
<1>4. k \in C
  BY <1>2
<1>5. C = Lasting(c)
          \union (IF InForm(form, "hostname") THEN {} ELSE Hosts(c))
          \union (IF InForm(form, "admin_user") THEN {} ELSE Admins(c))
          \union (IF InForm(form, Password(c)) THEN {} ELSE Passwords(c))
  BY DEF C, LeftNames
<1>6. CASE k \in Hosts(c) /\ ~InForm(form, "hostname")
  <2>1. <<c, k, "hostname">> \in SharedByPlatforms
    BY <1>6 DEF SharedByPlatforms, Hosts, Movers
  <2>2. QED
    BY <1>3, <1>6, <2>1
<1>7. CASE k \in Admins(c) /\ ~InForm(form, "admin_user")
  <2>1. <<c, k, "admin_user">> \in SharedByPlatforms
    BY <1>7 DEF SharedByPlatforms, Admins, Movers
  <2>2. QED
    BY <1>3, <1>7, <2>1
<1>8. CASE k \in Passwords(c) /\ ~InForm(form, Password(c))
  <2>1. <<c, k, Password(c)>> \in SharedByPlatforms
    BY <1>8 DEF SharedByPlatforms, Passwords, Password, Movers
  <2>2. Password(c) \in {"admin_password", "root_password"}
    BY DEF Password
  <2>3. QED
    BY <1>3, <1>8, <2>1, <2>2
<1>9. CASE k \in Lasting(c)
  <2>1. c = "rhbk" /\ k \in {Iss, "tls_crt", "tls_key"}
    BY <1>9 DEF Lasting
  <2>2. CASE k # Iss
    BY <2>1, <2>2 DEF Certificate
  <2>3. CASE k = Iss
    <3>1. At(Vars(c), Iss) = At(Vars(c), Host)
      BY <2>1 DEF IssuerIsKeycloak, AtRest, Moved, Iss, Host
    <3>2. Vars(c)[Iss] = At(Vars(c), Host)
      BY <2>3, <3>1 DEF At
    <3>3. CASE Host \notin DOMAIN Vars(c)
      <4>1. Vars(c)[k] = None
        BY <2>3, <3>2, <3>3 DEF At
      <4>2. None[2] \notin Away /\ None[1] # "ref"
        BY NoneIsPlain DEF Plain, None
      <4>3. QED
        BY <4>1, <4>2 DEF OfStandalone, Away
    <3>4. CASE Host \in DOMAIN Vars(c)
      <4>1. OfStandalone(c, Host)
        BY <2>3, <3>2, <3>4 DEF OfStandalone, At
      <4>2. Host \in C
        BY <1>2, <3>4, <4>1
      <4>3. Host \notin Lasting(c) \union Admins(c) \union Passwords(c)
        BY <2>1, RhbkCarried DEF Host, Iss
      <4>4. ~InForm(form, "hostname")
        BY <1>5, <4>2, <4>3
      <4>5. <<c, k, "hostname">> \in SharedByPlatforms
        BY <2>1, <2>3 DEF SharedByPlatforms, Iss
      <4>6. QED
        BY <1>3, <4>4, <4>5
    <3>5. QED
      BY <3>3, <3>4
  <2>4. QED
    BY <2>2, <2>3
<1>10. QED
  BY <1>4, <1>5, <1>6, <1>7, <1>8, <1>9

\* "OpenShift installs must not carry RHEL/standalone install fields": whichever
\* standalone, OpenShift and stopped runs came before, and whatever they told, the
\* variables of the three hold nothing of a standalone install once a form of an
\* OpenShift install is merged, but what both platforms use and it says nothing
\* of, and Keycloak's certificate.
THEOREM NothingLeftForAll == Spec => []NothingStandaloneLeft
<1>1. Init => UsersInv
  BY DEF Init, UsersInv
<1>2. QED
  BY <1>1, InvAlways, UsersKept, LeftInitially, LeftKept, LeftImplies, IssuerForAll, PTL DEF Spec
=============================================================================
