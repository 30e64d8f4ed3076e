--------------------------- MODULE ProjectSyncProofs ---------------------------
(***************************************************************************)
(* Project synchronization for any projects, sources, retries, failures    *)
(* and updates of others.  Synced is the inductive invariant.  Queues says *)
(* what holds of every project's updates because they run in order and no  *)
(* source ever changes back; Positions and Recorded say what the play      *)
(* knows of them at each task.                                             *)
(***************************************************************************)
EXTENDS ProjectSync, FiniteSetTheorems, TLAPS

Typed ==
  /\ source \in [Project -> Source \cup {None}]
  /\ updates \in [Project -> Seq(Update)]
  /\ content \in [Project -> Source \cup {None}]

\* Updates end in the order of their launch.
Ordered(q) ==
  \A i, j \in 1..Len(q) : i < j /\ q[j].status # "active" => q[i].status # "active"

\* Once an update is of the desired source, so are the project and all later ones.
Forward(q, s) ==
  \A i \in 1..Len(q) :
    q[i].src = Desired =>
      s = Desired /\ \A j \in 1..Len(q) : i < j => q[j].src = Desired

\* Nothing undoes a success with the desired source.
Fetched(q, c) ==
  \A i \in 1..Len(q) : q[i].src = Desired /\ q[i].status = "successful" => c = Desired

InShape(q, s, c) == Ordered(q) /\ Forward(q, s) /\ Fetched(q, c)

Queues == \A p \in Project : InShape(updates[p], source[p], content[p])

\* q1 has the updates of q, none rewritten or revived, and perhaps more.
Extends(q1, q) ==
  /\ Len(q) <= Len(q1)
  /\ \A i \in 1..Len(q) :
       /\ q1[i].src = q[i].src
       /\ q[i].status # "active" => q1[i] = q[i]

Grows ==
  \A p \in Project :
    /\ Extends(updates'[p], updates[p])
    /\ source[p] = Desired => source'[p] = Desired

Syncing == {"lookup", "wait", "start", "await"}
AtUpdate == {"wait", "start", "await"}

PlayTyped ==
  /\ phase \in Phase /\ pos \in 1..Len(Projects) /\ try \in 1..(Tries + 1)
  /\ ok \in BOOLEAN /\ broken \in BOOLEAN
  /\ current \in Nat /\ existing \in Answer
  /\ results \in [Project -> Answer]
  /\ used \in [Project -> Nat] /\ finished \in [Project -> Nat]

BoundsTyped == others \in 0..MaxOthers /\ faults \in 0..MaxFaults /\ runs \in 1..MaxRuns

\* Whatever has been aligned has the desired source.
Aligned ==
  /\ phase = "align" /\ ~broken =>
       \A k \in 1..Len(Projects) :
         k < pos /\ Projects[k] \in Scm => source[Projects[k]] = Desired
  /\ phase \in Syncing =>
       \A k \in 1..Len(Projects) : Projects[k] \in Scm => source[Projects[k]] = Desired

\* What the play knows of the update it is at: it was not over at the lookup,
\* and an end that was seen is what has come of it.
Positions ==
  /\ phase \notin AtUpdate => current = 0
  /\ phase \notin {"start", "await"} => existing = "none"
  /\ phase = "wait" => current # 0
  /\ phase \in AtUpdate =>
       /\ cur \in Scm
       /\ current <= Len(updates[cur])
       /\ current # 0 => finished[cur] < current
  /\ phase = "start" /\ existing \in {"successful", "failed"} =>
       current # 0 /\ updates[cur][current].status = existing
  /\ phase = "await" => current # 0 /\ updates[cur][current].src = Desired

\* What is yet to be recorded, and what is recorded.
Unrecorded ==
  /\ phase \in {"apply", "align"} => \A p \in Project : results[p] = "none"
  /\ phase \in Syncing =>
       \A k \in 1..Len(Projects) : pos <= k => results[Projects[k]] = "none"

Recorded ==
  \A p \in Project :
    /\ used[p] <= Len(updates[p]) /\ finished[p] <= Len(updates[p])
    /\ results[p] = "successful" =>
         /\ used[p] > finished[p]
         /\ updates[p][used[p]].src = Desired
         /\ updates[p][used[p]].status = "successful"

Verdict ==
  phase = "passed" =>
    \A k \in 1..Len(Projects) :
      Projects[k] \in Scm => results[Projects[k]] = "successful"

Books == PlayTyped /\ Aligned /\ Positions /\ Unrecorded /\ Recorded /\ Verdict
Synced == Typed /\ Queues /\ BoundsTyped /\ Books

-----------------------------------------------------------------------------
(* One queue.                                                              *)

\* A queue left alone extends itself.
LEMMA ExtendsItself == ASSUME NEW q \in Seq(Update) PROVE Extends(q, q)
  <1>1. Len(q) \in Nat
    OBVIOUS
  <1>2. QED BY <1>1 DEF Extends

\* A launch keeps a queue in shape.
LEMMA AppendShape ==
  ASSUME NEW q \in Seq(Update), NEW s, NEW c, NEW t \in Source, InShape(q, s, c),
         s = Desired => t = Desired
  PROVE  LET q1 == Append(q, [src |-> t, status |-> "active"])
         IN  q1 \in Seq(Update) /\ Len(q1) = Len(q) + 1
             /\ q1[Len(q) + 1] = [src |-> t, status |-> "active"]
             /\ InShape(q1, t, c) /\ Extends(q1, q)
  <1> DEFINE u == [src |-> t, status |-> "active"]
             q1 == Append(q, u)
             n == Len(q)
  <1>1. u \in Update /\ u.src = t /\ u.status = "active" /\ n \in Nat
    BY DEF Update, Status
  <1> HIDE DEF u
  <1>2. /\ q1 \in Seq(Update) /\ Len(q1) = n + 1 /\ q1[n + 1] = u
        /\ \A i \in 1..n : q1[i] = q[i]
    BY <1>1
  <1> HIDE DEF q1, n
  <1>3. Ordered(q1)
    <2> SUFFICES ASSUME NEW i \in 1..n + 1, NEW j \in 1..n + 1, i < j,
                        q1[j].status # "active"
                 PROVE  q1[i].status # "active"
      BY <1>2 DEF Ordered
    <2>1. i \in 1..n /\ j \in 1..n
      BY <1>1, <1>2
    <2>2. QED BY <1>2, <2>1 DEF InShape, Ordered, n
  <1>4. Forward(q1, t)
    <2> SUFFICES ASSUME NEW i \in 1..n + 1, q1[i].src = Desired
                 PROVE  t = Desired /\ \A j \in 1..n + 1 : i < j => q1[j].src = Desired
      BY <1>2 DEF Forward
    <2>1. CASE i = n + 1
      BY <1>1, <1>2, <2>1
    <2>2. CASE i \in 1..n
      <3>1. s = Desired /\ \A j \in 1..n : i < j => q[j].src = Desired
        BY <1>2, <2>2 DEF InShape, Forward, n
      <3>2. ASSUME NEW j \in 1..n + 1, i < j PROVE q1[j].src = Desired
        <4>1. CASE j = n + 1
          BY <1>1, <1>2, <3>1, <4>1
        <4>2. CASE j \in 1..n
          BY <1>2, <3>1, <3>2, <4>2
        <4>3. QED BY <1>1, <4>1, <4>2
      <3>3. QED BY <3>1, <3>2
    <2>3. QED BY <1>1, <2>1, <2>2
  <1>5. Fetched(q1, c)
    <2> SUFFICES ASSUME NEW i \in 1..n + 1, q1[i].src = Desired,
                        q1[i].status = "successful"
                 PROVE  c = Desired
      BY <1>2 DEF Fetched
    <2>1. i \in 1..n
      BY <1>1, <1>2
    <2>2. QED BY <1>2, <2>1 DEF InShape, Fetched, n
  <1>6. Extends(q1, q)
    BY <1>1, <1>2 DEF Extends, n
  <1>7. QED BY <1>2, <1>3, <1>4, <1>5, <1>6 DEF InShape, u, q1, n

\* So does the end of its oldest active update.
LEMMA EndShape ==
  ASSUME NEW q \in Seq(Update), NEW s, NEW c, NEW d, InShape(q, s, c),
         NEW i \in 1..Len(q), q[i].status = "active",
         \A j \in 1..Len(q) : q[j].status = "active" => i <= j,
         NEW st \in {"successful", "failed"},
         d \in {c, q[i].src}, st = "successful" => d = q[i].src
  PROVE  LET q1 == [q EXCEPT ![i].status = st]
         IN  q1 \in Seq(Update) /\ InShape(q1, s, d) /\ Extends(q1, q)
  <1> DEFINE u == [q[i] EXCEPT !.status = st]
             q1 == [q EXCEPT ![i] = u]
             n == Len(q)
  <1>1. q[i] \in Update /\ n \in Nat
    OBVIOUS
  <1>2. u \in Update /\ u.src = q[i].src /\ u.status = st
    BY <1>1 DEF Update, Status
  <1> HIDE DEF u
  <1>3. /\ q1 \in Seq(Update) /\ Len(q1) = n /\ q1[i] = u
        /\ \A j \in 1..n : j # i => q1[j] = q[j]
    BY <1>2
  <1> HIDE DEF q1, n
  <1>4. i \in 1..n /\ \A j \in 1..n : q[j].status = "active" => i <= j
    BY DEF n
  <1>5. Ordered(q1)
    <2> SUFFICES ASSUME NEW k \in 1..n, NEW j \in 1..n, k < j, q1[j].status # "active"
                 PROVE  q1[k].status # "active"
      BY <1>3 DEF Ordered
    <2>1. CASE k = i
      BY <1>2, <1>3, <2>1
    <2>2. CASE k # i /\ j = i
      BY <1>1, <1>3, <1>4, <2>2
    <2>3. CASE k # i /\ j # i
      BY <1>3, <2>3 DEF InShape, Ordered, n
    <2>4. QED BY <2>1, <2>2, <2>3
  <1>6. Forward(q1, s)
    <2>1. \A j \in 1..n : q1[j].src = q[j].src
      BY <1>2, <1>3
    <2>2. QED BY <1>3, <2>1 DEF InShape, Forward, n
  <1>7. Fetched(q1, d)
    <2> SUFFICES ASSUME NEW k \in 1..n, q1[k].src = Desired, q1[k].status = "successful"
                 PROVE  d = Desired
      BY <1>3 DEF Fetched
    <2>1. CASE k = i
      BY <1>2, <1>3, <2>1
    <2>2. CASE k # i
      <3>1. q[k].src = Desired /\ q[k].status = "successful"
        BY <1>3, <2>2
      <3>2. c = Desired
        BY <3>1 DEF InShape, Fetched, n
      <3>3. k < i
        <4>1. ~(i < k)
          BY <3>1, <1>4 DEF InShape, Ordered, n
        <4>2. QED BY <1>1, <1>4, <2>2, <4>1
      <3>4. q[i].src = Desired
        BY <1>4, <3>1, <3>3 DEF InShape, Forward, n
      <3>5. QED BY <3>2, <3>4
    <2>3. QED BY <2>1, <2>2
  <1>8. Extends(q1, q)
    BY <1>1, <1>2, <1>3, <1>4 DEF Extends, n
  <1>9. QED BY <1>3, <1>5, <1>6, <1>7, <1>8 DEF InShape, u, q1

-----------------------------------------------------------------------------
(* All queues: what each kind of step does to them.                        *)

\* p gets the source s, if that is not a step back, and an update of it.
LEMMA LaunchKeeps ==
  ASSUME Typed, Queues, NEW p \in Project, NEW s \in Source, Launched(p, s),
         source' \in [Project -> Source \cup {None}], content' = content,
         source'[p] = s, source[p] = Desired => s = Desired,
         \A q \in Project \ {p} : source'[q] = source[q]
  PROVE  /\ Typed' /\ Queues' /\ Grows
         /\ Len(updates'[p]) = Len(updates[p]) + 1
         /\ updates'[p][Len(updates[p]) + 1].src = s
  <1> DEFINE q0 == updates[p]
             q1 == Append(q0, [src |-> s, status |-> "active"])
  <1>1. q0 \in Seq(Update) /\ InShape(q0, source[p], content[p])
    BY DEF Typed, Queues
  <1>2. /\ q1 \in Seq(Update) /\ Len(q1) = Len(q0) + 1
        /\ q1[Len(q0) + 1] = [src |-> s, status |-> "active"]
        /\ InShape(q1, s, content[p]) /\ Extends(q1, q0)
    <2> HIDE DEF q0
    <2>1. source[p] = Desired => s = Desired
      OBVIOUS
    <2>2. QED BY <1>1, <2>1, AppendShape
  <1>3. updates' = [updates EXCEPT ![p] = q1]
    BY DEF Launched
  <1> HIDE DEF q1
  <1>4. updates' \in [Project -> Seq(Update)] /\ updates'[p] = q1
        /\ \A q \in Project \ {p} : updates'[q] = updates[q]
    BY <1>2, <1>3 DEF Typed
  <1>5. Typed'
    BY <1>4 DEF Typed
  <1>6. Queues'
    <2>1. InShape(updates'[p], source'[p], content'[p])
      BY <1>2, <1>4
    <2>2. ASSUME NEW q \in Project \ {p}
          PROVE  InShape(updates'[q], source'[q], content'[q])
      BY <1>4, <2>2 DEF Queues
    <2>3. QED BY <2>1, <2>2 DEF Queues
  <1>7. Grows
    BY <1>2, <1>4, ExtendsItself DEF Grows, Typed
  <1>8. QED BY <1>2, <1>4, <1>5, <1>6, <1>7

\* At most, projects get the desired source.
LEMMA QuietKeeps ==
  ASSUME Typed, Queues, UNCHANGED <<updates, content>>,
         source' \in [Project -> Source \cup {None}],
         \A q \in Project : source'[q] \in {source[q], Desired}
  PROVE  Typed' /\ Queues' /\ Grows
  <1>1. Queues'
    BY DEF Queues, InShape, Forward
  <1>2. Grows
    BY ExtendsItself DEF Grows, Typed
  <1>3. QED BY <1>1, <1>2 DEF Typed

\* The Controller takes the desired source of p.
LEMMA ConfiguredKeeps ==
  ASSUME ProjectSyncAssumption, Typed, Queues, NEW p \in Project, Configured(p)
  PROVE  Typed' /\ Queues' /\ Grows /\ source'[p] = Desired
  <1> USE DEF ProjectSyncAssumption
  <1>1. /\ source' \in [Project -> Source \cup {None}]
        /\ source'[p] = Desired
        /\ content' = content
        /\ \A q \in Project \ {p} : source'[q] = source[q]
    BY DEF Configured, Typed
  <1>2. CASE UNCHANGED updates
    BY <1>1, <1>2, QuietKeeps
  <1>3. CASE Launched(p, Desired)
    BY <1>1, <1>3, LaunchKeeps
  <1>4. QED BY <1>1, <1>2, <1>3 DEF Configured

\* The oldest active update of p ends.
LEMMA EndKeeps ==
  ASSUME Typed, Queues, NEW p \in Project, NEW i \in Active(p), Oldest(p, i),
         NEW st \in {"successful", "failed"},
         updates' = [updates EXCEPT ![p][i].status = st], source' = source,
         \/ st = "failed" /\ content' = content
         \/ content' = [content EXCEPT ![p] = updates[p][i].src]
  PROVE  Typed' /\ Queues' /\ Grows
  <1> DEFINE q1 == [updates[p] EXCEPT ![i].status = st]
  <1>1. /\ updates[p] \in Seq(Update) /\ InShape(updates[p], source[p], content[p])
        /\ i \in 1..Len(updates[p]) /\ updates[p][i].status = "active"
        /\ \A j \in 1..Len(updates[p]) : updates[p][j].status = "active" => i <= j
    BY DEF Typed, Queues, Active, Oldest
  <1>2. updates[p][i] \in Update
    BY <1>1
  <1>3. /\ content' \in [Project -> Source \cup {None}]
        /\ content'[p] \in {content[p], updates[p][i].src}
        /\ st = "successful" => content'[p] = updates[p][i].src
        /\ \A q \in Project \ {p} : content'[q] = content[q]
    BY <1>2 DEF Typed, Update
  <1>4. q1 \in Seq(Update) /\ InShape(q1, source[p], content'[p]) /\ Extends(q1, updates[p])
    BY <1>1, <1>3, EndShape
  <1>5. updates' = [updates EXCEPT ![p] = q1]
    OBVIOUS
  <1> HIDE DEF q1
  <1>6. updates' \in [Project -> Seq(Update)] /\ updates'[p] = q1
        /\ \A q \in Project \ {p} : updates'[q] = updates[q]
    BY <1>4, <1>5 DEF Typed
  <1>7. Typed'
    BY <1>3, <1>6 DEF Typed
  <1>8. Queues'
    BY <1>3, <1>4, <1>6 DEF Queues
  <1>9. Grows
    BY <1>4, <1>6, ExtendsItself DEF Grows, Typed
  <1>10. QED BY <1>7, <1>8, <1>9

-----------------------------------------------------------------------------
(* The books of the play.                                                  *)

\* The loop variable is a project.
LEMMA CurIsProject ==
  ASSUME ProjectSyncAssumption, PlayTyped
  PROVE  cur \in Project /\ Len(Projects) \in Nat
         /\ \A k \in 1..Len(Projects) : Projects[k] \in Project
  BY DEF ProjectSyncAssumption, PlayTyped, cur

\* What is recorded stays true, whatever happens to the queues.
LEMMA RecordedKeeps ==
  ASSUME Typed, PlayTyped, Recorded, Typed', Grows, UNCHANGED <<results, used, finished>>
  PROVE  Recorded'
  <1> SUFFICES ASSUME NEW p \in Project
               PROVE  /\ used[p] <= Len(updates'[p]) /\ finished[p] <= Len(updates'[p])
                      /\ results[p] = "successful" =>
                           /\ used[p] > finished[p]
                           /\ updates'[p][used[p]].src = Desired
                           /\ updates'[p][used[p]].status = "successful"
    BY DEF Recorded
  <1>1. used[p] \in Nat /\ finished[p] \in Nat
    BY DEF PlayTyped
  <1>2. /\ Len(updates[p]) \in Nat /\ Len(updates'[p]) \in Nat
        /\ Len(updates[p]) <= Len(updates'[p])
    BY DEF Typed, Grows, Extends
  <1>3. used[p] <= Len(updates'[p]) /\ finished[p] <= Len(updates'[p])
    BY <1>1, <1>2 DEF Recorded
  <1>4. ASSUME results[p] = "successful"
        PROVE  /\ used[p] > finished[p]
               /\ updates'[p][used[p]].src = Desired
               /\ updates'[p][used[p]].status = "successful"
    <2>1. used[p] \in 1..Len(updates[p])
      BY <1>1, <1>2, <1>4 DEF Recorded
    <2>2. updates'[p][used[p]] = updates[p][used[p]]
      BY <1>4, <2>1 DEF Recorded, Grows, Extends
    <2>3. QED BY <1>4, <2>2 DEF Recorded
  <1>5. QED BY <1>3, <1>4

\* Whatever happens to the queues, the books of a play at rest stay right.
LEMMA RestKeeps ==
  ASSUME ProjectSyncAssumption, Typed, Books, Typed', Grows, UNCHANGED playVars
  PROVE  Books'
  <1> USE DEF Books
  <1>1. UNCHANGED <<phase, pos, try, ok, broken, current, existing, results, used, finished, runs>>
    BY DEF playVars, syncVars
  <1>2. cur \in Project /\ cur' = cur /\ \A k \in 1..Len(Projects) : Projects[k] \in Project
    BY <1>1, CurIsProject DEF cur
  <1>3. PlayTyped'
    BY <1>1 DEF PlayTyped
  <1>4. Aligned'
    BY <1>1, <1>2 DEF Aligned, Grows
  <1>5. \A p \in Project : Len(updates[p]) \in Nat /\ Len(updates'[p]) \in Nat
    BY DEF Typed
  <1>6. Positions'
    <2>1. Len(updates[cur]) <= Len(updates'[cur])
      BY <1>2 DEF Grows, Extends
    <2>2. \A i \in 1..Len(updates[cur]) :
            /\ updates'[cur][i].src = updates[cur][i].src
            /\ updates[cur][i].status # "active" => updates'[cur][i] = updates[cur][i]
      BY <1>2 DEF Grows, Extends
    <2>3. phase \in AtUpdate /\ current # 0 => current \in 1..Len(updates[cur])
      BY <1>2, <1>5 DEF Positions, PlayTyped
    <2>4. phase' \in AtUpdate => cur' \in Scm /\ current' <= Len(updates'[cur'])
      BY <1>1, <1>2, <1>5, <2>1 DEF Positions, PlayTyped
    <2>5. phase' = "start" /\ existing' \in {"successful", "failed"} =>
            current' # 0 /\ updates'[cur'][current'].status = existing'
      BY <1>1, <1>2, <2>2, <2>3 DEF Positions, AtUpdate
    <2>6. phase' = "await" => current' # 0 /\ updates'[cur'][current'].src = Desired
      BY <1>1, <1>2, <2>2, <2>3 DEF Positions, AtUpdate
    <2>7. QED BY <1>1, <1>2, <2>4, <2>5, <2>6 DEF Positions
  <1>7. Unrecorded' /\ Verdict'
    BY <1>1 DEF Unrecorded, Verdict
  <1>8. Recorded'
    BY <1>1, RecordedKeeps
  <1>9. QED BY <1>3, <1>4, <1>6, <1>7, <1>8

\* As long as nothing has been recorded and no update is at hand, the books
\* need types and the alignment.
LEMMA EarlyBooks ==
  ASSUME ProjectSyncAssumption, Typed, Books, Typed', Grows, PlayTyped', Aligned',
         phase \in {"apply", "align"}, phase' \in {"apply", "align", "lookup", "failed"},
         UNCHANGED syncVars
  PROVE  Books'
  <1> USE DEF Books
  <1>1. UNCHANGED <<current, existing, results, used, finished>>
    BY DEF syncVars
  <1>2. Positions'
    BY <1>1 DEF Positions, AtUpdate
  <1>3. Unrecorded'
    BY <1>1, CurIsProject DEF Unrecorded
  <1>4. Recorded'
    BY <1>1, RecordedKeeps
  <1>5. Verdict'
    BY DEF Verdict
  <1>6. QED BY <1>2, <1>3, <1>4, <1>5

\* An attempt at a project.
LEMMA ApplyKeeps ==
  ASSUME ProjectSyncAssumption, Synced, Apply
  PROVE  Typed' /\ Queues' /\ Books'
  <1> USE DEF Synced, Books
  <1>1. cur \in Project /\ Len(Projects) \in Nat
    BY CurIsProject
  <1>2. Typed' /\ Queues' /\ Grows
    <2>1. CASE Configured(cur)
      BY <1>1, <2>1, ConfiguredKeeps
    <2>2. CASE UNCHANGED controllerVars
      BY <2>2, QuietKeeps DEF controllerVars, Typed
    <2>3. QED BY <2>1, <2>2 DEF Apply
  <1>3. UNCHANGED syncVars /\ broken' = broken /\ phase = "apply"
    BY DEF Apply
  <1>4. /\ phase' \in {"apply", "align", "failed"} /\ pos' \in 1..Len(Projects)
        /\ try' \in 1..(Tries + 1)
        /\ phase' = "align" => pos' = 1
    <2>1. CASE NextTry
      BY <1>1, <1>3, <2>1 DEF NextTry, Last, PlayTyped, ProjectSyncAssumption
    <2>2. CASE phase' = "failed" /\ UNCHANGED <<pos, try>>
      BY <2>2 DEF PlayTyped
    <2>3. QED BY <2>1, <2>2 DEF Apply
  <1>5. ok' \in BOOLEAN
    BY DEF Apply, PlayTyped
  <1>6. PlayTyped'
    BY <1>3, <1>4, <1>5 DEF PlayTyped, Phase, syncVars
  <1>7. Aligned'
    BY <1>4 DEF Aligned, Syncing
  <1>8. Books'
    BY <1>2, <1>3, <1>4, <1>6, <1>7, EarlyBooks
  <1>9. QED BY <1>2, <1>8

\* An item of the align loop: past the last one, every project with an
\* scm_type has the desired source, or the play has failed.
LEMMA AlignKeeps ==
  ASSUME ProjectSyncAssumption, Synced, Align
  PROVE  Typed' /\ Queues' /\ Books'
  <1> USE DEF Synced, Books
  <1>1. cur \in Project /\ Len(Projects) \in Nat /\ pos \in 1..Len(Projects)
        /\ \A k \in 1..Len(Projects) : Projects[k] \in Project
    BY CurIsProject DEF PlayTyped
  <1>2. Typed' /\ Queues' /\ Grows
    <2>1. CASE Configured(cur)
      BY <1>1, <2>1, ConfiguredKeeps
    <2>2. CASE UNCHANGED controllerVars
      BY <2>2, QuietKeeps DEF controllerVars, Typed
    <2>3. QED BY <2>1, <2>2 DEF Align
  <1>3. UNCHANGED syncVars /\ ok' = ok /\ phase = "align"
    BY DEF Align
  <1>4. \/ try' = try + 1 /\ try <= Tries /\ UNCHANGED <<phase, pos, broken>>
        \/ NextItem(TRUE)
        \/ NextItem(FALSE) /\ (cur \in Scm => source'[cur] = Desired)
    BY <1>1, ConfiguredKeeps DEF Align
  <1>5. /\ phase' \in {"align", "lookup", "failed"} /\ pos' \in 1..Len(Projects)
        /\ try' \in 1..(Tries + 1) /\ broken' \in BOOLEAN
    <2>1. CASE try' = try + 1 /\ try <= Tries /\ UNCHANGED <<phase, pos, broken>>
      BY <1>3, <2>1 DEF PlayTyped, ProjectSyncAssumption
    <2>2. ASSUME NEW b \in BOOLEAN, NextItem(b)
          PROVE  /\ phase' \in {"align", "lookup", "failed"} /\ pos' \in 1..Len(Projects)
                 /\ try' \in 1..(Tries + 1) /\ broken' \in BOOLEAN
      <3>1. try' \in 1..(Tries + 1)
        BY <2>2 DEF NextItem, ProjectSyncAssumption
      <3>2. broken' \in BOOLEAN
        BY <2>2 DEF NextItem, PlayTyped
      <3>3. phase' \in {"align", "lookup", "failed"}
        BY <1>3, <2>2 DEF NextItem
      <3>4. pos' \in 1..Len(Projects)
        BY <1>1, <2>2 DEF NextItem, Last
      <3>5. QED BY <3>1, <3>2, <3>3, <3>4
    <2>3. QED BY <1>4, <2>1, <2>2
  <1>6. PlayTyped'
    BY <1>3, <1>5 DEF PlayTyped, Phase, syncVars
  <1>7. Aligned'
    <2>1. \A k \in 1..Len(Projects) :
            source[Projects[k]] = Desired => source'[Projects[k]] = Desired
      BY <1>1, <1>2 DEF Grows
    <2>2. CASE try' = try + 1 /\ try <= Tries /\ UNCHANGED <<phase, pos, broken>>
      BY <1>3, <2>1, <2>2 DEF Aligned, Syncing
    <2>3. CASE NextItem(TRUE)
      BY <1>3, <2>3 DEF NextItem, Aligned, Syncing
    <2>4. CASE NextItem(FALSE) /\ (cur \in Scm => source'[cur] = Desired)
      <3>1. broken' = broken
        BY <2>4 DEF NextItem, PlayTyped
      <3>2. ~broken => \A k \in 1..Len(Projects) :
              k <= pos /\ Projects[k] \in Scm => source'[Projects[k]] = Desired
        BY <1>1, <1>3, <2>1, <2>4 DEF Aligned, cur
      <3>3. CASE Last
        BY <1>1, <2>4, <3>1, <3>2, <3>3 DEF NextItem, Last, Aligned, Syncing
      <3>4. CASE ~Last
        BY <1>1, <1>3, <2>4, <3>1, <3>2, <3>4 DEF NextItem, Aligned, Syncing
      <3>5. QED BY <3>3, <3>4
    <2>5. QED BY <1>4, <2>2, <2>3, <2>4
  <1>8. Books'
    BY <1>2, <1>3, <1>5, <1>6, <1>7, EarlyBooks
  <1>9. QED BY <1>2, <1>8

\* The next project, or the verdict: what was recorded so far is right, and
\* nothing is recorded yet for the projects to come.
LEMMA AdvanceKeeps ==
  ASSUME ProjectSyncAssumption, PlayTyped, Aligned, Typed', Grows, Advance, Recorded',
         phase \in Syncing,
         results' \in [Project -> Answer], used' \in [Project -> Nat],
         finished' \in [Project -> Nat], UNCHANGED <<try, ok, broken>>,
         \A k \in 1..Len(Projects) : pos < k => results'[Projects[k]] = "none"
  PROVE  Books'
  <1>1. /\ pos \in 1..Len(Projects) /\ Len(Projects) \in Nat
        /\ \A k \in 1..Len(Projects) : Projects[k] \in Project
    BY CurIsProject DEF PlayTyped
  <1>2. \/ Last /\ phase' \in {"passed", "failed"} /\ pos' = pos
        \/ ~Last /\ phase' = "lookup" /\ pos' = pos + 1
    BY DEF Advance
  <1>3. current' = 0 /\ existing' = "none"
    BY DEF Advance
  <1>4. PlayTyped'
    <2>1. phase' \in Phase /\ pos' \in 1..Len(Projects)
      BY <1>1, <1>2 DEF Phase, Last
    <2>2. QED BY <1>3, <2>1 DEF PlayTyped, Answer
  <1>5. Aligned'
    <2>1. \A k \in 1..Len(Projects) : Projects[k] \in Scm => source'[Projects[k]] = Desired
      BY <1>1 DEF Aligned, Grows
    <2>2. QED BY <1>2, <2>1 DEF Aligned, Syncing
  <1>6. Positions'
    BY <1>2, <1>3 DEF Positions, AtUpdate
  <1>7. Unrecorded'
    BY <1>1, <1>2 DEF Unrecorded, Syncing
  <1>8. Verdict'
    BY DEF Advance, Verdict
  <1>9. QED BY <1>4, <1>5, <1>6, <1>7, <1>8 DEF Books

\* A result that is right when it is recorded.
LEMMA RecordKeeps ==
  ASSUME ProjectSyncAssumption, Typed, Books, Typed', Grows,
         phase \in {"start", "await"}, NEW answer \in Answer, NEW u \in Nat,
         Record(answer, u), UNCHANGED <<try, ok, broken>>,
         u <= Len(updates'[cur]),
         answer = "successful" =>
           /\ u > finished[cur]
           /\ updates'[cur][u].src = Desired
           /\ updates'[cur][u].status = "successful"
  PROVE  Books'
  <1> USE DEF Books
  <1>1. cur \in Project /\ \A k \in 1..Len(Projects) : Projects[k] \in Project
    BY CurIsProject
  <1>2. /\ results' = [results EXCEPT ![cur] = answer]
        /\ used' = [used EXCEPT ![cur] = u]
        /\ finished' = finished
        /\ Advance
    BY DEF Record
  <1>3. /\ results' \in [Project -> Answer] /\ used' \in [Project -> Nat]
        /\ finished' \in [Project -> Nat]
        /\ results'[cur] = answer /\ used'[cur] = u
        /\ \A p \in Project \ {cur} : results'[p] = results[p] /\ used'[p] = used[p]
    BY <1>1, <1>2 DEF PlayTyped
  <1>4. Recorded'
    <2> SUFFICES ASSUME NEW p \in Project
                 PROVE  /\ used'[p] <= Len(updates'[p]) /\ finished[p] <= Len(updates'[p])
                        /\ results'[p] = "successful" =>
                             /\ used'[p] > finished[p]
                             /\ updates'[p][used'[p]].src = Desired
                             /\ updates'[p][used'[p]].status = "successful"
      BY <1>2 DEF Recorded
    <2>1. /\ Len(updates[p]) \in Nat /\ Len(updates'[p]) \in Nat
          /\ Len(updates[p]) <= Len(updates'[p])
          /\ finished[p] \in Nat /\ used[p] \in Nat
      <3>1. finished[p] \in Nat /\ used[p] \in Nat
        BY DEF PlayTyped
      <3>2. Len(updates[p]) \in Nat /\ Len(updates'[p]) \in Nat
        BY DEF Typed
      <3>3. Len(updates[p]) <= Len(updates'[p])
        BY DEF Grows, Extends
      <3>4. QED BY <3>1, <3>2, <3>3
    <2>2. finished[p] <= Len(updates'[p])
      BY <2>1 DEF Recorded
    <2>3. CASE p = cur
      BY <1>3, <2>2, <2>3
    <2>4. CASE p # cur
      <3>1. used'[p] = used[p] /\ results'[p] = results[p]
        BY <1>3, <2>4
      <3>2. used[p] <= Len(updates'[p])
        BY <2>1 DEF Recorded
      <3>3. ASSUME results[p] = "successful"
            PROVE  /\ used[p] > finished[p]
                   /\ updates'[p][used[p]].src = Desired
                   /\ updates'[p][used[p]].status = "successful"
        <4>1. used[p] \in 1..Len(updates[p])
          BY <2>1, <3>3 DEF Recorded
        <4>2. updates'[p][used[p]] = updates[p][used[p]]
          BY <3>3, <4>1 DEF Recorded, Grows, Extends
        <4>3. QED BY <3>3, <4>2 DEF Recorded
      <3>4. QED BY <2>2, <3>1, <3>2, <3>3
    <2>5. QED BY <2>3, <2>4
  <1>5. \A k \in 1..Len(Projects) : pos < k => results'[Projects[k]] = "none"
    <2> SUFFICES ASSUME NEW k \in 1..Len(Projects), pos < k
                 PROVE  results'[Projects[k]] = "none"
      OBVIOUS
    <2>1. pos \in 1..Len(Projects)
      BY DEF PlayTyped
    <2>2. Projects[k] # cur
      BY <2>1 DEF ProjectSyncAssumption, cur
    <2>3. results[Projects[k]] = "none"
      BY <2>1 DEF Unrecorded, Syncing
    <2>4. QED BY <1>1, <1>3, <2>2, <2>3
  <1>6. phase \in Syncing
    BY DEF Syncing
  <1>7. QED BY <1>2, <1>3, <1>4, <1>5, <1>6, AdvanceKeeps

\* A project without an scm_type.
LEMMA SkipKeeps ==
  ASSUME ProjectSyncAssumption, Synced, Skip
  PROVE  Typed' /\ Queues' /\ Books'
  <1> USE DEF Synced, Books
  <1>1. Typed' /\ Queues' /\ Grows
    BY QuietKeeps DEF Skip, controllerVars, Typed
  <1>2. /\ UNCHANGED <<results, used, finished, try, ok, broken>>
        /\ phase \in Syncing /\ Advance
    BY DEF Skip, Syncing
  <1>3. Recorded'
    BY <1>1, <1>2, RecordedKeeps
  <1>4. \A k \in 1..Len(Projects) : pos < k => results'[Projects[k]] = "none"
    BY <1>2 DEF Unrecorded, PlayTyped
  <1>5. Books'
    BY <1>1, <1>2, <1>3, <1>4, AdvanceKeeps DEF PlayTyped
  <1>6. QED BY <1>1, <1>5

\* The updates that are over are the oldest ones: their number is less than
\* the index of any active one.
LEMMA OverCount ==
  ASSUME Typed, Queues, NEW p \in Project
  PROVE  /\ Cardinality(Over(p)) \in Nat /\ Cardinality(Over(p)) <= Len(updates[p])
         /\ \A i \in Active(p) : Cardinality(Over(p)) < i
  <1>1. Len(updates[p]) \in Nat
    BY DEF Typed
  <1>2. ASSUME NEW n \in Nat, Over(p) \subseteq 1..n
        PROVE  Cardinality(Over(p)) \in Nat /\ Cardinality(Over(p)) <= n
    <2>1. IsFiniteSet(1..n) /\ Cardinality(1..n) = n
      BY FS_Interval
    <2>2. QED BY <1>2, <2>1, FS_Subset, FS_CardinalityType
  <1>3. Over(p) \subseteq 1..Len(updates[p])
    BY DEF Over
  <1>4. ASSUME NEW i \in Active(p) PROVE Cardinality(Over(p)) < i
    <2>1. i \in 1..Len(updates[p]) /\ updates[p][i].status = "active" /\ i - 1 \in Nat
      BY <1>1 DEF Active
    <2>2. Over(p) \subseteq 1..(i - 1)
      <3> SUFFICES ASSUME NEW j \in Over(p) PROVE j < i
        BY <1>1, <2>1 DEF Over
      <3>1. j \in 1..Len(updates[p]) /\ updates[p][j].status # "active"
        BY DEF Over
      <3>2. ~(i < j)
        BY <2>1, <3>1 DEF Queues, InShape, Ordered
      <3>3. QED BY <1>1, <2>1, <3>1, <3>2
    <2>3. QED BY <1>2, <2>1, <2>2
  <1>5. QED BY <1>1, <1>2, <1>3, <1>4

\* The lookup takes an active update, if there is one.
LEMMA LookupKeeps ==
  ASSUME ProjectSyncAssumption, Synced, Lookup
  PROVE  Typed' /\ Queues' /\ Books'
  <1> USE DEF Synced, Books
  <1>1. /\ cur \in Project /\ cur \in Scm /\ phase = "lookup" /\ pos \in 1..Len(Projects)
        /\ \A k \in 1..Len(Projects) : Projects[k] \in Project
    BY CurIsProject DEF Lookup, PlayTyped
  <1>2. Typed' /\ Queues' /\ Grows
    BY QuietKeeps DEF Lookup, controllerVars, Typed
  <1>3. UNCHANGED <<source, updates, pos, try, ok, broken, existing, results, used>>
    BY DEF Lookup, controllerVars
  <1>4. CASE phase' = "failed" /\ UNCHANGED <<current, finished>>
    <2>1. PlayTyped'
      BY <1>3, <1>4 DEF PlayTyped, Phase
    <2>2. Recorded'
      BY <1>2, <1>3, <1>4, RecordedKeeps
    <2>3. Aligned' /\ Unrecorded' /\ Verdict'
      BY <1>4 DEF Aligned, Unrecorded, Verdict, Syncing
    <2>4. Positions'
      BY <1>1, <1>3, <1>4 DEF Positions, AtUpdate
    <2>5. QED BY <1>2, <2>1, <2>2, <2>3, <2>4
  <1>5. CASE /\ IF Active(cur) = {} THEN current' = 0 ELSE current' \in Active(cur)
             /\ finished' = [finished EXCEPT ![cur] = Cardinality(Over(cur))]
             /\ phase' = (IF current' = 0 THEN "start" ELSE "wait")
    <2> DEFINE c == Cardinality(Over(cur))
    <2>1. c \in Nat /\ c <= Len(updates[cur]) /\ \A i \in Active(cur) : c < i
      BY <1>1, OverCount
    <2> HIDE DEF c
    <2>2. Len(updates[cur]) \in Nat
      BY <1>1 DEF Typed
    <2>3. /\ current' \in Nat /\ current' <= Len(updates[cur])
          /\ current' # 0 => c < current'
      BY <1>5, <2>1, <2>2 DEF Active
    <2>4. /\ finished' \in [Project -> Nat] /\ finished'[cur] = c
          /\ \A p \in Project \ {cur} : finished'[p] = finished[p]
      BY <1>1, <1>5, <2>1 DEF PlayTyped, c
    <2>5. PlayTyped'
      BY <1>3, <1>5, <2>3, <2>4 DEF PlayTyped, Phase
    <2>6. Aligned'
      BY <1>1, <1>3, <1>5 DEF Aligned, Syncing
    <2>7. Positions'
      <3>1. cur' = cur
        BY <1>3 DEF cur
      <3>2. existing = "none"
        BY <1>1 DEF Positions
      <3>3. QED BY <1>1, <1>3, <1>5, <2>3, <2>4, <3>1, <3>2 DEF Positions, AtUpdate
    <2>8. Unrecorded' /\ Verdict'
      BY <1>1, <1>3, <1>5 DEF Unrecorded, Verdict, Syncing
    <2>9. Recorded'
      <3>1. results[cur] = "none"
        BY <1>1 DEF Unrecorded, Syncing, cur, PlayTyped
      <3>2. QED BY <1>3, <2>1, <2>4, <3>1 DEF Recorded
    <2>10. QED BY <1>2, <2>5, <2>6, <2>7, <2>8, <2>9
  <1>6. QED BY <1>4, <1>5 DEF Lookup

\* The wait for the current update.
LEMMA WaitKeeps ==
  ASSUME ProjectSyncAssumption, Synced, Wait
  PROVE  Typed' /\ Queues' /\ Books'
  <1> USE DEF Synced, Books
  <1>1. phase = "wait" /\ phase' = "start" /\ existing' \in Answer
    BY DEF Wait
  <1>2. Typed' /\ Queues' /\ Grows
    BY QuietKeeps DEF Wait, controllerVars, Typed
  <1>3. UNCHANGED <<source, updates, pos, try, ok, broken, current, results, used, finished>>
    BY DEF Wait, controllerVars
  <1>4. existing' \in {"successful", "failed"} => updates[cur][current].status = existing'
    BY DEF Wait, Waited
  <1>5. PlayTyped'
    BY <1>1, <1>3 DEF PlayTyped, Phase
  <1>6. Aligned' /\ Unrecorded' /\ Verdict'
    BY <1>1, <1>3 DEF Aligned, Unrecorded, Verdict, Syncing
  <1>7. Positions'
    BY <1>1, <1>3, <1>4 DEF Positions, AtUpdate, cur
  <1>8. Recorded'
    BY <1>2, <1>3, RecordedKeeps
  <1>9. QED BY <1>2, <1>5, <1>6, <1>7, <1>8

\* The update reused, or the one launched after the other is over.
LEMMA StartKeeps ==
  ASSUME ProjectSyncAssumption, Synced, Start
  PROVE  Typed' /\ Queues' /\ Books'
  <1> USE DEF Synced, Books
  <1>1. /\ cur \in Project /\ cur \in Scm /\ phase = "start" /\ pos \in 1..Len(Projects)
        /\ \A k \in 1..Len(Projects) : Projects[k] \in Project
    BY CurIsProject DEF Start, Positions, AtUpdate, PlayTyped
  <1>2. source[cur] = Desired /\ Desired \in Source
    BY <1>1 DEF Aligned, Syncing, cur, ProjectSyncAssumption
  <1>3. /\ Len(updates[cur]) \in Nat /\ current \in Nat /\ current <= Len(updates[cur])
        /\ current # 0 => finished[cur] < current
    BY <1>1 DEF Typed, Positions, PlayTyped, AtUpdate
  <1>4. UNCHANGED <<try, ok, broken>>
    BY DEF Start
  <1>5. CASE UNCHANGED controllerVars
    <2>1. Typed' /\ Queues' /\ Grows
      BY <1>5, QuietKeeps DEF controllerVars, Typed
    <2>2. CASE ~MayStart /\ Record(existing, current)
      <3>1. existing = "successful" =>
              /\ current # 0 /\ updates[cur][current].status = "successful"
              /\ updates[cur][current].src = Desired
        BY <1>1, <2>2 DEF Positions, MayStart, Reuse
      <3>2. existing \in Answer /\ updates' = updates
        BY <1>5 DEF PlayTyped, controllerVars
      <3>3. Books'
        BY <1>1, <1>3, <1>4, <2>1, <2>2, <3>1, <3>2, RecordKeeps
      <3>4. QED BY <2>1, <3>3
    <2>3. CASE Record("error", 0)
      <3>1. "error" \in Answer /\ updates' = updates
        BY <1>5 DEF Answer, controllerVars
      <3>2. Books'
        BY <1>1, <1>3, <1>4, <2>1, <2>3, <3>1, RecordKeeps
      <3>3. QED BY <2>1, <3>2
    <2>4. CASE Launched(cur, source[cur])
      <3>1. Len(updates'[cur]) = Len(updates[cur]) + 1
        BY <1>1, <1>2, <1>5, <2>4, LaunchKeeps DEF controllerVars, Typed
      <3>2. QED BY <1>3, <1>5, <3>1 DEF controllerVars
    <2>5. QED BY <1>5, <2>2, <2>3, <2>4 DEF Start
  <1>6. CASE Launched(cur, source[cur]) /\ UNCHANGED <<source, content>>
    <2>1. /\ Typed' /\ Queues' /\ Grows
          /\ Len(updates'[cur]) = Len(updates[cur]) + 1
          /\ updates'[cur][Len(updates[cur]) + 1].src = Desired
      BY <1>1, <1>2, <1>6, LaunchKeeps DEF Typed
    <2>2. CASE Record("error", 0)
      <3>1. "error" \in Answer
        BY DEF Answer
      <3>2. Books'
        BY <1>1, <1>3, <1>4, <2>1, <2>2, <3>1, RecordKeeps
      <3>3. QED BY <2>1, <3>2
    <2>3. CASE /\ current' = Len(updates[cur]) + 1 /\ phase' = "await"
               /\ UNCHANGED <<pos, existing, results, used, finished>>
      <3>1. cur' = cur
        BY <2>3 DEF cur
      <3>2. PlayTyped'
        BY <1>3, <1>4, <2>3 DEF PlayTyped, Phase
      <3>3. Aligned' /\ Unrecorded' /\ Verdict'
        BY <1>1, <1>6, <2>3 DEF Aligned, Unrecorded, Verdict, Syncing
      <3>4. finished[cur] \in Nat /\ finished[cur] <= Len(updates[cur])
        BY <1>1 DEF PlayTyped, Recorded
      <3>5. Positions'
        BY <1>1, <1>3, <2>1, <2>3, <3>1, <3>4 DEF Positions, AtUpdate
      <3>6. Recorded'
        BY <2>1, <2>3, RecordedKeeps
      <3>7. QED BY <2>1, <3>2, <3>3, <3>5, <3>6
    <2>4. CASE ~MayStart /\ UNCHANGED controllerVars
      BY <1>3, <2>1, <2>4 DEF controllerVars
    <2>5. CASE updates' = updates
      BY <1>3, <2>1, <2>5
    <2>6. QED BY <1>6, <2>2, <2>3, <2>4, <2>5 DEF Start
  <1>7. UNCHANGED controllerVars \/ (Launched(cur, source[cur]) /\ UNCHANGED <<source, content>>)
    BY DEF Start, controllerVars
  <1>8. QED BY <1>5, <1>6, <1>7

\* The wait for the update launched.
LEMMA AwaitKeeps ==
  ASSUME ProjectSyncAssumption, Synced, Await
  PROVE  Typed' /\ Queues' /\ Books'
  <1> USE DEF Synced, Books
  <1>1. phase = "await" /\ cur \in Project
    BY CurIsProject DEF Await
  <1>2. Typed' /\ Queues' /\ Grows
    BY QuietKeeps DEF Await, controllerVars, Typed
  <1>3. PICK answer \in Answer : Waited(current, answer) /\ Record(answer, current)
    BY DEF Await
  <1>4. answer = "successful" => updates[cur][current].status = "successful"
    BY <1>3 DEF Waited
  <1>5. /\ current \in Nat /\ current <= Len(updates[cur]) /\ finished[cur] < current
        /\ finished[cur] \in Nat /\ updates[cur][current].src = Desired
    BY <1>1 DEF Positions, PlayTyped, AtUpdate
  <1>6. updates' = updates /\ UNCHANGED <<try, ok, broken>>
    BY DEF Await, controllerVars
  <1>7. Books'
    BY <1>1, <1>2, <1>3, <1>4, <1>5, <1>6, RecordKeeps
  <1>8. QED BY <1>2, <1>7

\* There is a first project and a first try.
LEMMA FirstPosition ==
  ASSUME ProjectSyncAssumption
  PROVE  1 \in 1..Len(Projects) /\ 1 \in 1..(Tries + 1)
  <1>1. Len(Projects) \in Nat /\ Len(Projects) # 0
    BY DEF ProjectSyncAssumption
  <1>2. Tries \in Nat
    BY DEF ProjectSyncAssumption
  <1>3. QED BY <1>1, <1>2

\* At the start of a run.
LEMMA EmptyBooks ==
  ASSUME ProjectSyncAssumption, Typed',
         phase' = "apply", pos' = 1, try' = 1, ok' = FALSE, broken' = FALSE,
         current' = 0, existing' = "none", results' = [p \in Project |-> "none"],
         used' = [p \in Project |-> 0], finished' = [p \in Project |-> 0]
  PROVE  Books'
  <1>1. PlayTyped'
    BY FirstPosition DEF PlayTyped, Phase, Answer
  <1>2. Aligned' /\ Positions' /\ Unrecorded' /\ Verdict'
    BY DEF Aligned, Positions, Unrecorded, Verdict, AtUpdate, Syncing
  <1>3. \A p \in Project : Len(updates'[p]) \in Nat
    BY DEF Typed
  <1>4. Recorded'
    BY <1>3 DEF Recorded
  <1>5. QED BY <1>1, <1>2, <1>4 DEF Books

\* A stutter.
LEMMA SyncedRests ==
  ASSUME ProjectSyncAssumption, Synced, UNCHANGED vars
  PROVE  Synced'
  <1>1. UNCHANGED <<source, updates, content, playVars, others, faults, runs>>
    BY DEF vars, controllerVars, playVars
  <1>2. Typed' /\ Queues' /\ Grows
    BY <1>1, QuietKeeps DEF Synced, Typed
  <1>3. Books'
    BY <1>1, <1>2, RestKeeps DEF Synced
  <1>4. QED BY <1>1, <1>2, <1>3 DEF Synced, BoundsTyped

\* A task of the play.
LEMMA PlayKeeps ==
  ASSUME ProjectSyncAssumption, Synced, Play
  PROVE  Synced'
  <1>1. Typed' /\ Queues' /\ Books'
    BY ApplyKeeps, AlignKeeps, SkipKeeps, LookupKeeps, WaitKeeps, StartKeeps, AwaitKeeps
    DEF Play
  <1>2. UNCHANGED <<others, runs>>
    BY DEF Play, Apply, Align, Skip, Lookup, Wait, Start, Await
  <1>3. UNCHANGED faults \/ Fails
    BY DEF Play, Apply, Align, Skip, Lookup, Wait, Waited, Start, Await, Succeeds
  <1>4. BoundsTyped'
    BY <1>2, <1>3 DEF Synced, BoundsTyped, Fails, ProjectSyncAssumption
  <1>5. QED BY <1>1, <1>4 DEF Synced

\* A new run starts with empty books.
LEMMA RerunKeeps ==
  ASSUME ProjectSyncAssumption, Synced, Rerun
  PROVE  Synced'
  <1>1. UNCHANGED <<source, updates, content, others, faults>>
    BY DEF Rerun, controllerVars
  <1>2. Typed' /\ Queues'
    BY <1>1, QuietKeeps DEF Synced, Typed
  <1>3. /\ phase' = "apply" /\ pos' = 1 /\ try' = 1 /\ ok' = FALSE /\ broken' = FALSE
        /\ current' = 0 /\ existing' = "none"
        /\ results' = [p \in Project |-> "none"]
        /\ used' = [p \in Project |-> 0] /\ finished' = [p \in Project |-> 0]
        /\ runs' = runs + 1 /\ runs < MaxRuns
    BY DEF Rerun
  <1>4. BoundsTyped'
    BY <1>1, <1>3 DEF Synced, BoundsTyped, ProjectSyncAssumption
  <1>5. Books'
    BY <1>2, <1>3, EmptyBooks
  <1>6. QED BY <1>2, <1>4, <1>5 DEF Synced

\* The Controller and its other users.
LEMMA ControllerKeeps ==
  ASSUME ProjectSyncAssumption, Synced, NEW p \in Project, ControllerStep(p)
  PROVE  Synced'
  <1> USE DEF Synced
  <1>1. UNCHANGED <<source, playVars, faults>>
    BY DEF ControllerStep, UpdateSucceeds, UpdateFails, OtherLaunch
  <1>2. Typed' /\ Queues' /\ Grows
    <2>1. CASE UpdateSucceeds(p)
      <3>1. PICK i \in Active(p) :
              /\ Oldest(p, i)
              /\ updates' = [updates EXCEPT ![p][i].status = "successful"]
              /\ content' = [content EXCEPT ![p] = updates[p][i].src]
        BY <2>1 DEF UpdateSucceeds
      <3>2. QED BY <1>1, <3>1, EndKeeps
    <2>2. CASE UpdateFails(p)
      <3>1. PICK i \in Active(p) :
              /\ Oldest(p, i)
              /\ updates' = [updates EXCEPT ![p][i].status = "failed"]
              /\ \/ UNCHANGED content
                 \/ content' = [content EXCEPT ![p] = updates[p][i].src]
        BY <2>2 DEF UpdateFails
      <3>2. QED BY <1>1, <3>1, EndKeeps
    <2>3. CASE OtherLaunch(p)
      <3>1. source[p] \in Source /\ Launched(p, source[p]) /\ content' = content
        BY <2>3 DEF OtherLaunch, Typed
      <3>2. QED BY <1>1, <3>1, LaunchKeeps DEF Typed
    <2>4. QED BY <2>1, <2>2, <2>3 DEF ControllerStep
  <1>3. Books'
    BY <1>1, <1>2, RestKeeps
  <1>4. BoundsTyped'
    BY <1>1 DEF ControllerStep, UpdateSucceeds, UpdateFails, OtherLaunch, BoundsTyped,
                ProjectSyncAssumption, playVars
  <1>5. QED BY <1>2, <1>3, <1>4

-----------------------------------------------------------------------------
(* The invariant.                                                          *)

\* It holds at first.
LEMMA SyncedInit ==
  ASSUME ProjectSyncAssumption, Init
  PROVE  Synced
  <1>1. Histories \subseteq Seq(Update)
    <2>1. ASSUME NEW u \in Update PROVE <<u>> \in Seq(Update)
      OBVIOUS
    <2>2. <<>> \in Seq(Update)
      OBVIOUS
    <2>3. \A t \in Source, st \in {"active", "successful"} :
            [src |-> t, status |-> st] \in Update
      BY DEF Update, Status
    <2>4. SUFFICES ASSUME NEW h \in Histories PROVE h \in Seq(Update)
      OBVIOUS
    <2>5. \/ h = <<>>
          \/ \E t \in Source, st \in {"active", "successful"} :
               h = <<[src |-> t, status |-> st]>>
      BY DEF Histories
    <2>6. CASE h = <<>>
      BY <2>2, <2>6
    <2>7. CASE \E t \in Source, st \in {"active", "successful"} :
                 h = <<[src |-> t, status |-> st]>>
      <3>1. PICK t \in Source, st \in {"active", "successful"} :
              h = <<[src |-> t, status |-> st]>>
        BY <2>7
      <3> DEFINE u == [src |-> t, status |-> st]
      <3>2. u \in Update
        BY <2>3
      <3>3. h = <<u>>
        BY <3>1
      <3> HIDE DEF u
      <3>4. QED BY <2>1, <3>2, <3>3
    <2>8. QED BY <2>5, <2>6, <2>7
  <1>2. Typed
    BY <1>1 DEF Init, Typed
  <1>3. Queues
    <2> SUFFICES ASSUME NEW p \in Project
                 PROVE  InShape(updates[p], source[p], content[p])
      BY DEF Queues
    <2>1. Left(p)
      BY DEF Init
    <2>2. CASE updates[p] = <<>>
      BY <2>2 DEF InShape, Ordered, Forward, Fetched
    <2>3. CASE updates[p] = <<[src |-> source[p], status |-> "active"]>>
      BY <2>3 DEF InShape, Ordered, Forward, Fetched
    <2>4. CASE /\ updates[p] = <<[src |-> source[p], status |-> "successful"]>>
               /\ content[p] = source[p]
      BY <2>4 DEF InShape, Ordered, Forward, Fetched
    <2>5. QED BY <2>1, <2>2, <2>3, <2>4 DEF Left
  <1>4. BoundsTyped
    BY DEF Init, BoundsTyped, ProjectSyncAssumption
  <1>5. Books
    <2>1. PlayTyped
      BY FirstPosition DEF Init, PlayTyped, Phase, Answer
    <2>2. Aligned /\ Positions /\ Unrecorded /\ Verdict
      BY DEF Init, Aligned, Positions, Unrecorded, Verdict, AtUpdate, Syncing
    <2>3. \A p \in Project : Len(updates[p]) \in Nat
      BY <1>2 DEF Typed
    <2>4. Recorded
      BY <2>3 DEF Init, Recorded
    <2>5. QED BY <2>1, <2>2, <2>4 DEF Books
  <1>6. QED BY <1>2, <1>3, <1>4, <1>5 DEF Synced

\* Every step keeps it.
LEMMA SyncedNext ==
  ASSUME ProjectSyncAssumption, Synced, [Next]_vars
  PROVE  Synced'
  <1>1. CASE Next
    <2>1. CASE UNCHANGED vars
      BY <2>1, SyncedRests
    <2>2. QED BY <1>1, <2>1, PlayKeeps, RerunKeeps, ControllerKeeps DEF Next, Stopped
  <1>2. CASE UNCHANGED vars
    BY <1>2, SyncedRests
  <1>3. QED BY <1>1, <1>2

\* It holds always.
LEMMA AlwaysSynced == Spec => []Synced
  <1>1. Init => Synced
    BY SyncedInit, ProjectSyncAssumption
  <1>2. Synced /\ [Next]_vars => Synced'
    BY SyncedNext, ProjectSyncAssumption
  <1>3. QED BY <1>1, <1>2, PTL DEF Spec

-----------------------------------------------------------------------------
(* What it proves.                                                         *)

\* The variables keep their types; in particular an update at hand, used or
\* counted is one that its project has.
THEOREM SyncTypeCorrect == Spec => []ProjectSyncTypeOK
  <1>1. ASSUME Synced PROVE ProjectSyncTypeOK
    <2>1. current \in 0..Len(updates[Projects[pos]])
      <3>1. cur \in Project /\ cur = Projects[pos]
        BY <1>1, CurIsProject, ProjectSyncAssumption DEF Synced, Books, cur
      <3>2. Len(updates[cur]) \in Nat
        BY <1>1, <3>1 DEF Synced, Typed
      <3>3. current \in Nat /\ current <= Len(updates[cur])
        BY <1>1, <3>2 DEF Synced, Books, PlayTyped, Positions
      <3>4. QED BY <3>1, <3>2, <3>3
    <2>2. QED BY <1>1, <2>1 DEF Synced, Typed, Books, PlayTyped, BoundsTyped, Recorded,
                                ProjectSyncTypeOK
  <1>2. QED BY <1>1, AlwaysSynced, PTL

\* The content of every project a successful play leaves is that of the
\* source controller_projects asks for.
THEOREM PassedIsSynced == Spec => []PassedMeansSynced
  <1>1. ASSUME Synced PROVE PassedMeansSynced
    <2> SUFFICES ASSUME phase = "passed", NEW k \in 1..Len(Projects), Projects[k] \in Scm
                 PROVE  content[Projects[k]] = Desired
      BY DEF PassedMeansSynced
    <2> DEFINE p == Projects[k]
    <2>1. p \in Project /\ results[p] = "successful"
      BY <1>1, CurIsProject, ProjectSyncAssumption DEF Synced, Books, Verdict
    <2> HIDE DEF p
    <2>2. /\ used[p] \in Nat /\ finished[p] \in Nat /\ Len(updates[p]) \in Nat
          /\ used[p] <= Len(updates[p]) /\ used[p] > finished[p]
          /\ updates[p][used[p]].src = Desired
          /\ updates[p][used[p]].status = "successful"
      BY <1>1, <2>1 DEF Synced, Typed, Books, PlayTyped, Recorded
    <2>3. used[p] \in 1..Len(updates[p])
      BY <2>2
    <2>4. content[p] = Desired
      BY <1>1, <2>1, <2>2, <2>3 DEF Synced, Queues, InShape, Fetched
    <2>5. QED BY <2>4 DEF p
  <1>2. QED BY <1>1, AlwaysSynced, PTL

\* The success recorded for a project is that of an update of the desired
\* source that was not over when the project was looked up.
THEOREM SuccessesAreFresh == Spec => []SuccessIsFresh
  <1>1. ASSUME Synced PROVE SuccessIsFresh
    BY <1>1 DEF Synced, Books, Recorded, SuccessIsFresh
  <1>2. QED BY <1>1, AlwaysSynced, PTL

\* The play launches no update while the one it found is active.
THEOREM NeverPilesUp == Spec => NoPileUp
  <1>1. ASSUME Synced, [Next]_vars
        PROVE  [phase = "start" /\ phase' = "await" =>
                  current = 0 \/ updates[cur][current].status # "active"]_vars
    <2> SUFFICES ASSUME Next, phase = "start", phase' = "await"
                 PROVE  current = 0 \/ updates[cur][current].status # "active"
      BY <1>1
    <2>1. MayStart \/ Record(existing, current) \/ Record("error", 0)
      BY DEF Next, Play, Apply, Align, Skip, Lookup, Wait, Start, Await, Rerun, Ended,
             ControllerStep, UpdateSucceeds, UpdateFails, OtherLaunch, playVars, Stopped, vars
    <2>2. ~Record(existing, current) /\ ~Record("error", 0)
      BY DEF Record, Advance
    <2>3. QED BY <1>1, <2>1, <2>2 DEF MayStart, Synced, Books, Positions
  <1>2. QED BY <1>1, AlwaysSynced, PTL DEF Spec, NoPileUp
=============================================================================
