------------------------ MODULE OperatorRolloutProofs ------------------------
(***************************************************************************)
(* Proofs about OperatorRollout: its variables keep their types, a play    *)
(* adds at most one OperatorGroup to a namespace, and where no operator's  *)
(* name is part of another's, no wait passes early.                        *)
(***************************************************************************)
EXTENDS OperatorRollout, FiniteSetTheorems, TLAPS

-----------------------------------------------------------------------------
(* Types.                                                                  *)

\* While a play has something to do, it is at one of its components.
InProgress == \A p \in Play : stage[p] # "done" => at[p] \in 1..Len(Order[p])

TypeInv == RolloutTypeOK /\ InProgress

LEMMA OrderIsSeq ==
  ASSUME NEW p \in Play
  PROVE  /\ Order[p] \in Seq(Component)
         /\ Len(Order[p]) \in Nat
         /\ \A i \in 1..Len(Order[p]) : Order[p][i] \in Component
  BY RolloutAssumption

LEMMA CurrentIsComponent ==
  ASSUME TypeInv, NEW p \in Play, stage[p] # "done"
  PROVE  /\ at[p] \in 1..Len(Order[p])
         /\ Current(p) \in Component
         /\ SpaceOf[Current(p)] \in Space
         /\ Stale[Current(p)] \subseteq Component
  BY OrderIsSeq, RolloutAssumption DEF TypeInv, InProgress, Current

LEMMA TypeInit == Init => TypeInv
  <1> SUFFICES ASSUME Init PROVE TypeInv
    OBVIOUS
  <1>1. RolloutTypeOK
    BY OrderIsSeq, RolloutAssumption DEF Init, RolloutTypeOK, Stage
  <1>2. InProgress
    <2> SUFFICES ASSUME NEW p \in Play, stage[p] # "done" PROVE at[p] \in 1..Len(Order[p])
      BY DEF InProgress
    <2>1. Order[p] # <<>> /\ at[p] = 1
      BY DEF Init
    <2>2. Len(Order[p]) > 0
      BY <2>1, OrderIsSeq
    <2> QED
      BY <2>1, <2>2, OrderIsSeq
  <1> QED
    BY <1>1, <1>2 DEF TypeInv

\* A poll in vain leaves the play at its task, or ends it in failure.
LEMMA PollAgainTypes ==
  ASSUME TypeInv, NEW p \in Play, PollAgain(p), stage[p] # "done"
  PROVE  /\ tries' \in [Play -> 0..Polls]
         /\ stage' \in [Play -> Stage]
         /\ \A q \in Play : stage'[q] # "done" => stage[q] # "done"
  <1>1. CASE tries[p] < Polls
    <2>1. tries' = [tries EXCEPT ![p] = @ + 1] /\ UNCHANGED stage
      BY <1>1 DEF PollAgain
    <2> QED
      BY <1>1, <2>1, RolloutAssumption DEF TypeInv, RolloutTypeOK
  <1>2. CASE ~(tries[p] < Polls)
    <2>1. Goto(p, "failed") /\ UNCHANGED tries
      BY <1>2 DEF PollAgain
    <2> QED
      BY <2>1 DEF Goto, TypeInv, RolloutTypeOK, Stage
  <1> QED
    BY <1>1, <1>2

\* What a step of a play does to its own place in the play.
LEMMA TypePlayStep ==
  ASSUME TypeInv, NEW p \in Play, PlayStep(p)
  PROVE  TypeInv'
  <1> USE RolloutAssumption
  <1>1. CASE RemoveStale(p)
    BY <1>1, CurrentIsComponent
    DEF RemoveStale, Goto, TypeInv, RolloutTypeOK, InProgress, Stage, clusterVars, playVars
  <1>2. CASE ListGroups(p)
    BY <1>2, CurrentIsComponent
    DEF ListGroups, Goto, TypeInv, RolloutTypeOK, InProgress, Stage, clusterVars, playVars
  <1>3. CASE CreateGroup(p)
    <2>1. Current(p) \in Component /\ SpaceOf[Current(p)] \in Space
      BY <1>3, CurrentIsComponent DEF CreateGroup
    <2>2. groups' \in [Space -> SUBSET (Component \cup {None})]
      BY <1>3, <2>1 DEF CreateGroup, TypeInv, RolloutTypeOK
    <2> QED
      BY <1>3, <2>2
      DEF CreateGroup, Goto, TypeInv, RolloutTypeOK, InProgress, Stage
  <1>4. CASE Subscribe(p)
    BY <1>4, CurrentIsComponent, SMTT(30)
    DEF Subscribe, Goto, TypeInv, RolloutTypeOK, InProgress, Stage, clusterVars, playVars
  <1>5. CASE ResolveSubstring(p)
    BY <1>5, CurrentIsComponent, SMTT(30)
    DEF ResolveSubstring, Goto, TypeInv, RolloutTypeOK, InProgress, Stage, clusterVars, playVars
  <1>6. CASE AwaitCsv(p)
    <2>1. CASE PollAgain(p)
      BY <1>6, <2>1, PollAgainTypes
      DEF AwaitCsv, TypeInv, RolloutTypeOK, InProgress, clusterVars
    <2>2. CASE Goto(p, "awaitDeployment") /\ tries' = [tries EXCEPT ![p] = 0]
      BY <1>6, <2>2
      DEF AwaitCsv, Goto, TypeInv, RolloutTypeOK, InProgress, Stage, clusterVars
    <2> QED
      BY <1>6, <2>1, <2>2 DEF AwaitCsv
  <1>7. CASE AwaitDeployment(p)
    <2>1. CASE PollAgain(p) /\ UNCHANGED picked
      BY <1>7, <2>1, PollAgainTypes
      DEF AwaitDeployment, TypeInv, RolloutTypeOK, InProgress, clusterVars
    <2>2. ASSUME NEW d \in DeploymentMatches(p),
                 picked' = [picked EXCEPT ![p] = d],
                 Goto(p, "awaitReady"), tries' = [tries EXCEPT ![p] = 0]
          PROVE  TypeInv'
      <3>1. d \in Component
        BY DEF DeploymentMatches, TypeInv, RolloutTypeOK
      <3> QED
        BY <1>7, <2>2, <3>1
        DEF AwaitDeployment, Goto, TypeInv, RolloutTypeOK, InProgress, Stage, clusterVars
    <2> QED
      BY <1>7, <2>1, <2>2 DEF AwaitDeployment
  <1>8. CASE AwaitReady(p)
    <2>1. at[p] \in 1..Len(Order[p]) /\ Len(Order[p]) \in Nat
      BY <1>8, CurrentIsComponent, OrderIsSeq DEF AwaitReady
    <2>2. CASE PollAgain(p) /\ UNCHANGED at
      BY <1>8, <2>2, PollAgainTypes
      DEF AwaitReady, TypeInv, RolloutTypeOK, InProgress, clusterVars
    <2>3. CASE /\ at' = [at EXCEPT ![p] = @ + 1]
               /\ Goto(p, IF at[p] = Len(Order[p]) THEN "done" ELSE "stale")
               /\ UNCHANGED tries
      <3>1. at' \in [Play -> Nat] /\ at'[p] = at[p] + 1
        BY <2>1, <2>3 DEF TypeInv, RolloutTypeOK
      <3>2. \A q \in Play : at'[q] \in 1..Len(Order[q]) + 1
        BY <2>1, <2>3, <3>1 DEF TypeInv, RolloutTypeOK
      <3>3. stage' \in [Play -> Stage]
        BY <2>3 DEF Goto, TypeInv, RolloutTypeOK, Stage
      <3>4. InProgress'
        BY <2>1, <2>3, <3>1 DEF Goto, TypeInv, RolloutTypeOK, InProgress
      <3> QED
        BY <1>8, <2>3, <3>1, <3>2, <3>3, <3>4
        DEF AwaitReady, TypeInv, RolloutTypeOK, clusterVars
    <2> QED
      BY <1>8, <2>2, <2>3 DEF AwaitReady
  <1>9. CASE TaskFails(p)
    BY <1>9
    DEF TaskFails, Goto, TypeInv, RolloutTypeOK, InProgress, Stage, clusterVars, playVars
  <1>10. CASE Restart(p)
    <2>1. 1 \in 1..Len(Order[p]) /\ Len(Order[p]) \in Nat
      BY <1>10, CurrentIsComponent, OrderIsSeq DEF Restart
    <2> QED
      BY <1>10, <2>1
      DEF Restart, Goto, TypeInv, RolloutTypeOK, InProgress, Stage, clusterVars, playVars
  <1> QED
    BY <1>1, <1>2, <1>3, <1>4, <1>5, <1>6, <1>7, <1>8, <1>9, <1>10 DEF PlayStep

LEMMA TypeOlmStep ==
  ASSUME TypeInv, NEW c \in Component, OlmStep(c)
  PROVE  TypeInv'
  BY DEF OlmStep, OlmStarts, OlmDeploys, DeploymentReady, OlmSucceeds, TypeInv,
         RolloutTypeOK, InProgress, playVars

LEMMA TypeStep == TypeInv /\ [Next]_vars => TypeInv'
  <1> SUFFICES ASSUME TypeInv, [Next]_vars PROVE TypeInv'
    OBVIOUS
  <1>1. CASE UNCHANGED vars
    BY <1>1 DEF vars, clusterVars, playVars, TypeInv, RolloutTypeOK, InProgress
  <1> QED
    BY <1>1, TypePlayStep, TypeOlmStep DEF Next, Stopped

\* The variables of every play and of the cluster keep their types.
THEOREM RolloutTypeCorrect == Spec => []RolloutTypeOK
  <1>1. Spec => []TypeInv
    BY TypeInit, TypeStep, PTL DEF Spec
  <1> QED
    BY <1>1, PTL DEF TypeInv

\* A step of one play leaves what another play keeps for itself alone.
LEMMA OthersUntouched ==
  ASSUME TypeInv, NEW p \in Play, NEW q \in Play, q # p, PlayStep(p)
  PROVE  /\ at'[q] = at[q]
         /\ stage'[q] = stage[q]
         /\ found'[q] = found[q]
         /\ substring'[q] = substring[q]
         /\ picked'[q] = picked[q]
  <1>1. CASE RemoveStale(p) \/ ListGroups(p) \/ CreateGroup(p) \/ Subscribe(p)
    BY <1>1 DEF RemoveStale, ListGroups, CreateGroup, Subscribe, Goto, TypeInv, RolloutTypeOK
  <1>2. CASE ResolveSubstring(p) \/ TaskFails(p) \/ Restart(p)
    BY <1>2 DEF ResolveSubstring, TaskFails, Restart, Goto, TypeInv, RolloutTypeOK
  <1>3. CASE AwaitCsv(p)
    BY <1>3 DEF AwaitCsv, PollAgain, Goto, TypeInv, RolloutTypeOK
  <1>4. CASE AwaitDeployment(p)
    BY <1>4 DEF AwaitDeployment, PollAgain, Goto, TypeInv, RolloutTypeOK
  <1>5. CASE AwaitReady(p)
    BY <1>5 DEF AwaitReady, PollAgain, Goto, TypeInv, RolloutTypeOK
  <1> QED
    BY <1>1, <1>2, <1>3, <1>4, <1>5 DEF PlayStep

-----------------------------------------------------------------------------
(* The OperatorGroups of a namespace and the plays that create them.       *)

\* The plays about to create a group in a namespace: their list, out of date
\* or not, shows none.
Racers(n) ==
  {p \in Play : /\ stage[p] = "createGroup"
                /\ found[p] = {}
                /\ SpaceOf[Current(p)] = n}

\* Only a component whose caller names an OperatorGroup lists or creates one.
GroupedHere ==
  \A p \in Play :
    stage[p] \in {"listGroups", "createGroup"} => Current(p) \in Grouped

\* Once a namespace has a group nobody joins the race; each of those in it may
\* still add one group, and is then out of it.
Bounded(n) ==
  /\ None \in groups[n] => groups[n] = {None} /\ Racers(n) = {}
  /\ groups[n] # {} /\ None \notin groups[n] =>
       Cardinality(groups[n]) + Cardinality(Racers(n)) <= Cardinality(Into(n))

RaceInv == /\ TypeInv
           /\ GroupedHere
           /\ \A n \in Space : Bounded(n)

\* All these sets are finite, and a racer is one of the plays that may create.
LEMMA RacersAreFew ==
  ASSUME TypeInv, GroupedHere, NEW n \in Space
  PROVE  /\ IsFiniteSet(Racers(n)) /\ IsFiniteSet(Into(n)) /\ IsFiniteSet(groups[n])
         /\ Cardinality(Racers(n)) \in Nat
         /\ Cardinality(Into(n)) \in Nat
         /\ Cardinality(groups[n]) \in Nat
         /\ Cardinality(Racers(n)) <= Cardinality(Into(n))
  <1>1. IsFiniteSet(Play) /\ IsFiniteSet(Component \cup {None})
    BY RolloutAssumption, FS_AddElement
  <1>2. Racers(n) \subseteq Into(n)
    <2> SUFFICES ASSUME NEW p \in Racers(n) PROVE p \in Into(n)
      OBVIOUS
    <2>1. p \in Play /\ stage[p] = "createGroup" /\ SpaceOf[Current(p)] = n
      BY DEF Racers
    <2>2. at[p] \in 1..Len(Order[p]) /\ Current(p) \in Grouped
      BY <2>1, CurrentIsComponent DEF GroupedHere
    <2> QED
      BY <2>1, <2>2 DEF Into, Current
  <1>3. Into(n) \subseteq Play /\ groups[n] \subseteq Component \cup {None}
    BY DEF Into, TypeInv, RolloutTypeOK
  <1>4. IsFiniteSet(Into(n)) /\ IsFiniteSet(groups[n])
    BY <1>1, <1>3, FS_Subset
  <1> QED
    BY <1>2, <1>4, FS_Subset, FS_CardinalityType

LEMMA RaceInit == Init => RaceInv
  <1> SUFFICES ASSUME Init PROVE RaceInv
    OBVIOUS
  <1>1. TypeInv /\ GroupedHere
    BY TypeInit DEF Init, GroupedHere
  <1>2. ASSUME NEW n \in Space PROVE Bounded(n)
    <2>1. groups[n] = {} \/ groups[n] = {None}
      BY DEF Init
    <2>2. Racers(n) = {}
      BY DEF Init, Racers
    <2> QED
      BY <2>1, <2>2 DEF Bounded
  <1> QED
    BY <1>1, <1>2 DEF RaceInv

\* A play is at these two tasks with the component it had before them.
LEMMA GroupedStep ==
  ASSUME RaceInv, TypeInv', NEW p \in Play, PlayStep(p)
  PROVE  GroupedHere'
  <1> SUFFICES ASSUME NEW q \in Play, stage'[q] \in {"listGroups", "createGroup"}
               PROVE  Current(q)' \in Grouped
    BY DEF GroupedHere
  <1>1. CASE q # p
    BY <1>1, OthersUntouched DEF RaceInv, GroupedHere, Current
  <1>2. CASE q = p
    <2>1. CASE RemoveStale(p) \/ ListGroups(p)
      BY <1>2, <2>1 DEF RemoveStale, ListGroups, Goto, Current, RaceInv, GroupedHere,
                        TypeInv, RolloutTypeOK
    <2>2. CASE \/ CreateGroup(p) \/ Subscribe(p) \/ ResolveSubstring(p)
               \/ TaskFails(p) \/ Restart(p)
      BY <1>2, <2>2 DEF CreateGroup, Subscribe, ResolveSubstring, TaskFails, Restart,
                        Goto, RaceInv, TypeInv, RolloutTypeOK
    <2>3. CASE AwaitCsv(p)
      BY <1>2, <2>3 DEF AwaitCsv, PollAgain, Goto, RaceInv, TypeInv, RolloutTypeOK
    <2>4. CASE AwaitDeployment(p)
      BY <1>2, <2>4 DEF AwaitDeployment, PollAgain, Goto, RaceInv, TypeInv, RolloutTypeOK
    <2>5. CASE AwaitReady(p)
      BY <1>2, <2>5 DEF AwaitReady, PollAgain, Goto, RaceInv, TypeInv, RolloutTypeOK
    <2> QED
      BY <2>1, <2>2, <2>3, <2>4, <2>5 DEF PlayStep
  <1> QED
    BY <1>1, <1>2

\* A play joins the race only where it has just seen no group.
LEMMA JoinsWhereNone ==
  ASSUME RaceInv, NEW p \in Play, PlayStep(p), ~CreateGroup(p), NEW n \in Space,
         groups[n] # {}
  PROVE  Racers(n)' \subseteq Racers(n)
  <1> SUFFICES ASSUME NEW q \in Racers(n)' PROVE q \in Racers(n)
    OBVIOUS
  <1>1. /\ q \in Play
        /\ stage'[q] = "createGroup" /\ found'[q] = {} /\ SpaceOf[Current(q)'] = n
    BY DEF Racers
  <1>2. CASE q # p
    BY <1>1, <1>2, OthersUntouched DEF RaceInv, Racers, Current
  <1>3. CASE q = p
    <2>1. CASE ListGroups(p)
      <3>1. found'[p] = groups[SpaceOf[Current(p)]] /\ Current(p)' = Current(p)
        BY <2>1 DEF ListGroups, Current, RaceInv, TypeInv, RolloutTypeOK
      <3> QED
        BY <1>1, <1>3, <3>1
    <2>2. CASE RemoveStale(p) \/ Subscribe(p) \/ ResolveSubstring(p) \/ TaskFails(p) \/ Restart(p)
      BY <1>1, <1>3, <2>2 DEF RemoveStale, Subscribe, ResolveSubstring, TaskFails, Restart,
                              Goto, RaceInv, TypeInv, RolloutTypeOK
    <2>3. CASE AwaitCsv(p)
      BY <1>1, <1>3, <2>3 DEF AwaitCsv, PollAgain, Goto, RaceInv, TypeInv, RolloutTypeOK
    <2>4. CASE AwaitDeployment(p)
      BY <1>1, <1>3, <2>4 DEF AwaitDeployment, PollAgain, Goto, RaceInv, TypeInv, RolloutTypeOK
    <2>5. CASE AwaitReady(p)
      BY <1>1, <1>3, <2>5 DEF AwaitReady, PollAgain, Goto, RaceInv, TypeInv, RolloutTypeOK
    <2> QED
      BY <2>1, <2>2, <2>3, <2>4, <2>5 DEF PlayStep
  <1> QED
    BY <1>2, <1>3

\* Where the groups stay and no play joins, the bound stays.
LEMMA BoundStays ==
  ASSUME RaceInv, NEW n \in Space, groups'[n] = groups[n],
         groups[n] # {} => Racers(n)' \subseteq Racers(n)
  PROVE  Bounded(n)'
  <1>1. Bounded(n)
    BY DEF RaceInv
  <1>2. CASE groups[n] = {}
    BY <1>2 DEF Bounded
  <1>3. CASE groups[n] # {}
    <2>1. /\ Cardinality(Racers(n)') \in Nat
          /\ Cardinality(Racers(n)') <= Cardinality(Racers(n))
      BY <1>3, RacersAreFew, FS_Subset, FS_CardinalityType DEF RaceInv
    <2>2. Into(n)' = Into(n)
      BY DEF Into
    <2> QED
      BY <1>1, <1>3, <2>1, <2>2, RacersAreFew DEF RaceInv, Bounded
  <1> QED
    BY <1>2, <1>3

\* The one that creates a group is out of the race.
LEMMA CreatorLeaves ==
  ASSUME RaceInv, NEW p \in Play, CreateGroup(p), NEW n \in Space
  PROVE  Racers(n)' = Racers(n) \ {p}
  <1>1. stage'[p] = "subscribe"
    BY DEF CreateGroup, Goto, RaceInv, TypeInv, RolloutTypeOK
  <1>2. \A q \in Play : q # p => /\ stage'[q] = stage[q]
                                 /\ found'[q] = found[q]
                                 /\ Current(q)' = Current(q)
    BY OthersUntouched DEF RaceInv, PlayStep, Current
  <1> QED
    BY <1>1, <1>2 DEF Racers

\* Creating a group: one more of them, one play less about to create another.
LEMMA CreateKeepsBound ==
  ASSUME RaceInv, NEW p \in Play, CreateGroup(p), NEW n \in Space
  PROVE  Bounded(n)'
  <1> DEFINE c == Current(p)
  <1>1. c \in Component /\ SpaceOf[c] \in Space /\ c # None
    BY CurrentIsComponent, RolloutAssumption DEF CreateGroup, RaceInv
  <1>2. Racers(n)' = Racers(n) \ {p}
    BY CreatorLeaves
  <1>3. CASE found[p] # {} \/ SpaceOf[c] # n
    <2>1. groups'[n] = groups[n]
      BY <1>1, <1>3 DEF CreateGroup, RaceInv, TypeInv, RolloutTypeOK
    <2> QED
      BY <1>2, <2>1, BoundStays
  <1>4. CASE found[p] = {} /\ SpaceOf[c] = n
    <2>1. p \in Racers(n)
      BY <1>4 DEF Racers, CreateGroup
    <2>2. groups'[n] = groups[n] \cup {c}
      BY <1>1, <1>4 DEF CreateGroup, RaceInv, TypeInv, RolloutTypeOK
    <2>3. None \notin groups[n] /\ None \notin groups'[n]
      BY <1>1, <2>1, <2>2 DEF RaceInv, Bounded
    <2>4. Cardinality(Racers(n)') = Cardinality(Racers(n)) - 1
      BY <1>2, <2>1, RacersAreFew, FS_RemoveElement DEF RaceInv
    <2>5. Into(n)' = Into(n)
      BY DEF Into
    <2>6. CASE groups[n] = {}
      <3>1. groups'[n] = {c}
        BY <2>2, <2>6
      <3>2. Cardinality(groups'[n]) = 1
        BY <3>1, FS_Singleton
      <3> QED
        BY <2>3, <2>4, <2>5, <3>2, RacersAreFew DEF RaceInv, Bounded
    <2>7. CASE groups[n] # {}
      <3>1. Cardinality(groups'[n]) \in {Cardinality(groups[n]), Cardinality(groups[n]) + 1}
        BY <2>2, RacersAreFew, FS_AddElement DEF RaceInv
      <3>2. Cardinality(groups[n]) + Cardinality(Racers(n)) <= Cardinality(Into(n))
        BY <2>3, <2>7 DEF RaceInv, Bounded
      <3> QED
        BY <2>3, <2>4, <2>5, <3>1, <3>2, RacersAreFew DEF RaceInv, Bounded
    <2> QED
      BY <2>6, <2>7
  <1> QED
    BY <1>3, <1>4

LEMMA RaceStep == RaceInv /\ [Next]_vars => RaceInv'
  <1> SUFFICES ASSUME RaceInv, [Next]_vars PROVE RaceInv'
    OBVIOUS
  <1>1. TypeInv'
    BY TypeStep DEF RaceInv
  <1>2. CASE UNCHANGED <<groups, playVars>>
    <2>1. GroupedHere'
      BY <1>2 DEF playVars, RaceInv, GroupedHere, Current
    <2>2. ASSUME NEW n \in Space PROVE Bounded(n)'
      BY <1>2, BoundStays DEF playVars, Racers, Current
    <2> QED
      BY <1>1, <2>1, <2>2 DEF RaceInv
  <1>3. ASSUME NEW p \in Play, PlayStep(p) PROVE RaceInv'
    <2>1. GroupedHere'
      BY <1>1, <1>3, GroupedStep
    <2>2. ASSUME NEW n \in Space, ~CreateGroup(p) PROVE Bounded(n)'
      <3>1. UNCHANGED groups
        BY <1>3, <2>2 DEF PlayStep, RemoveStale, ListGroups, Subscribe, ResolveSubstring,
             AwaitCsv, AwaitDeployment, AwaitReady, TaskFails, Restart, clusterVars
      <3> QED
        BY <1>3, <2>2, <3>1, BoundStays, JoinsWhereNone
    <2> QED
      BY <1>1, <2>1, <2>2, CreateKeepsBound DEF RaceInv
  <1>4. CASE \E c \in Component : OlmStep(c)
    BY <1>2, <1>4 DEF OlmStep, OlmStarts, OlmDeploys, DeploymentReady, OlmSucceeds
  <1> QED
    BY <1>2, <1>3, <1>4 DEF Next, Stopped, vars, clusterVars

LEMMA RacesAreBounded == RaceInv => GroupsByPlays
  <1> SUFFICES ASSUME RaceInv, NEW n \in Space, None \notin groups[n]
               PROVE  Cardinality(groups[n]) <= Cardinality(Into(n))
    BY DEF RaceInv, Bounded, GroupsByPlays
  <1>1. CASE groups[n] = {}
    BY <1>1, FS_EmptySet, RacersAreFew DEF RaceInv
  <1>2. CASE groups[n] # {}
    BY <1>2, RacersAreFew DEF RaceInv, Bounded
  <1> QED
    BY <1>1, <1>2

\* However many plays install into a namespace, and however their tasks
\* interleave, fail and are run again, each of them creates one OperatorGroup
\* at most, and none where OLM has brought its own.
THEOREM GroupsAreBounded == Spec => []GroupsByPlays
  <1>1. Spec => []RaceInv
    BY RaceInit, RaceStep, PTL DEF Spec
  <1> QED
    BY <1>1, RacesAreBounded, PTL

\* So a namespace into which one play installs never has two, although the play
\* may fail and be repeated between its list and its create.
THEOREM OneGroupPerPlay ==
  (\A n \in Space : Cardinality(Into(n)) <= 1) /\ Spec => []OneOperatorGroup
  <1> SUFFICES ASSUME \A n \in Space : Cardinality(Into(n)) <= 1
               PROVE  Spec => []OneOperatorGroup
    OBVIOUS
  <1>1. RaceInv => OneOperatorGroup
    <2> SUFFICES ASSUME RaceInv, NEW n \in Space PROVE Cardinality(groups[n]) <= 1
      BY DEF OneOperatorGroup
    <2>1. CASE None \in groups[n]
      <3>1. groups[n] = {None}
        BY <2>1 DEF RaceInv, Bounded
      <3>2. Cardinality({None}) = 1
        BY FS_Singleton
      <3> QED
        BY <3>1, <3>2
    <2>2. CASE None \notin groups[n]
      <3>1. Cardinality(groups[n]) <= Cardinality(Into(n))
        BY <2>2, RacesAreBounded DEF GroupsByPlays
      <3> QED
        BY <3>1, RacersAreFew DEF RaceInv
    <2> QED
      BY <2>1, <2>2
  <1>2. Spec => []RaceInv
    BY RaceInit, RaceStep, PTL DEF Spec
  <1> QED
    BY <1>1, <1>2, PTL

-----------------------------------------------------------------------------
(* No wait passes early.                                                   *)

\* Names that are not part of each other: the first component of a play, and
\* one whose caller names its Deployment, are mentioned by their own CSV and
\* Deployment alone.
NamesApart ==
  /\ \A p \in Play : \A c \in Component :
       Order[p] # <<>> /\ c \in Mentions[Order[p][1]] => c = Order[p][1]
  /\ \A c \in Patterned : \A d \in Component : d \in Mentions[c] => d = c

\* What the first component of a play has been through when it is at a task.
FirstKept ==
  \A p \in Play : at[p] = 1 =>
    /\ stage[p] \in {"stale", "listGroups", "createGroup", "subscribe", "resolve"}
         => substring[p] = None
    /\ stage[p] \in {"awaitCsv", "awaitDeployment", "awaitReady"}
         => substring[p] = Order[p][1]
    /\ stage[p] \in {"awaitDeployment", "awaitReady"}
         => csv[Order[p][1]] = "Succeeded"

\* The Deployment awaited for a component with a pattern is its own.
PickKept ==
  \A p \in Play :
    stage[p] = "awaitReady" /\ Current(p) \in Patterned => picked[p] = Current(p)

WaitInv == TypeInv /\ FirstKept /\ PickKept /\ WaitsDoNotPassEarly

\* Nothing the plays or OLM do takes back an installation: of the parts of the
\* invariant only those of the play that steps can be disturbed.
Grows == /\ \A c \in Component : csv[c] = "Succeeded" => csv'[c] = "Succeeded"
         /\ available \subseteq available'

\* The parts of the invariant about play p.
WaitPart(p) ==
  /\ at[p] = 1 =>
       /\ stage[p] \in {"stale", "listGroups", "createGroup", "subscribe", "resolve"}
            => substring[p] = None
       /\ stage[p] \in {"awaitCsv", "awaitDeployment", "awaitReady"}
            => substring[p] = Order[p][1]
       /\ stage[p] \in {"awaitDeployment", "awaitReady"}
            => csv[Order[p][1]] = "Succeeded"
  /\ stage[p] = "awaitReady" /\ Current(p) \in Patterned => picked[p] = Current(p)
  /\ at[p] > 1 => csv[Order[p][1]] = "Succeeded"
  /\ Passed(p) \cap Patterned \subseteq available

LEMMA WaitParts == WaitInv <=> TypeInv /\ \A p \in Play : WaitPart(p)
  BY DEF WaitInv, WaitPart, FirstKept, PickKept, WaitsDoNotPassEarly

LEMMA WaitInit == Init => WaitInv
  <1> SUFFICES ASSUME Init, NEW p \in Play PROVE WaitPart(p)
    BY TypeInit, WaitParts
  <1>1. at[p] = 1 /\ stage[p] \in {"done", "stale"} /\ substring[p] = None
    BY DEF Init
  <1>2. Passed(p) = {}
    BY <1>1 DEF Passed
  <1> QED
    BY <1>1, <1>2 DEF WaitPart

\* A play that stays where it is keeps its part.
LEMMA WaitPartKept ==
  ASSUME TypeInv, TypeInv', Grows, NEW q \in Play, WaitPart(q),
         at'[q] = at[q], stage'[q] = stage[q],
         substring'[q] = substring[q], picked'[q] = picked[q]
  PROVE  WaitPart(q)'
  <1>1. Current(q)' = Current(q) /\ Passed(q)' = Passed(q)
    BY DEF Current, Passed
  <1>2. Len(Order[q]) \in Nat /\ at[q] \in 1..Len(Order[q]) + 1
    BY OrderIsSeq DEF TypeInv, RolloutTypeOK
  <1>3. CASE Len(Order[q]) = 0
    <2>1. at[q] = 1 /\ stage[q] = "done"
      BY <1>2, <1>3 DEF TypeInv, InProgress
    <2> QED
      BY <1>1, <2>1 DEF WaitPart, Grows
  <1>4. CASE Len(Order[q]) > 0
    <2>1. Order[q][1] \in Component
      BY <1>2, <1>4, OrderIsSeq
    <2> QED
      BY <1>1, <2>1 DEF WaitPart, Grows
  <1> QED
    BY <1>2, <1>3, <1>4

\* Only more gets installed.
LEMMA StepsGrow ==
  ASSUME TypeInv, [Next]_vars
  PROVE  Grows
  <1>1. CASE UNCHANGED vars
    BY <1>1 DEF vars, clusterVars, Grows
  <1>2. ASSUME NEW p \in Play, PlayStep(p) PROVE Grows
    BY <1>2 DEF PlayStep, RemoveStale, ListGroups, CreateGroup, Subscribe, ResolveSubstring,
                AwaitCsv, AwaitDeployment, AwaitReady, TaskFails, Restart, clusterVars, Grows
  <1>3. ASSUME NEW c \in Component, OlmStep(c) PROVE Grows
    BY <1>3 DEF OlmStep, OlmStarts, OlmDeploys, DeploymentReady, OlmSucceeds,
                TypeInv, RolloutTypeOK, Grows
  <1> QED
    BY <1>1, <1>2, <1>3 DEF Next, Stopped

\* The tasks of ocp_operator_subscription, and the end and repetition of a
\* play, decide nothing about the waits.
LEMMA WaitInstallStep ==
  ASSUME TypeInv, TypeInv', Grows, NEW p \in Play, WaitPart(p),
         \/ RemoveStale(p) \/ ListGroups(p) \/ CreateGroup(p) \/ Subscribe(p)
         \/ TaskFails(p)
  PROVE  WaitPart(p)'
  <1>1. /\ at'[p] = at[p]
        /\ substring'[p] = substring[p]
        /\ stage[p] \in {"stale", "listGroups", "createGroup", "subscribe"}
        /\ stage'[p] \in {"listGroups", "createGroup", "subscribe", "resolve", "failed"}
    BY DEF RemoveStale, ListGroups, CreateGroup, Subscribe, TaskFails, Goto,
           TypeInv, RolloutTypeOK
  <1>2. Passed(p)' = Passed(p) /\ Order[p][1] \in Component
    BY <1>1, CurrentIsComponent, OrderIsSeq DEF Passed
  <1> QED
    BY <1>1, <1>2 DEF WaitPart, Grows

LEMMA WaitRestartStep ==
  ASSUME TypeInv, NEW p \in Play, Restart(p)
  PROVE  WaitPart(p)'
  <1>1. at'[p] = 1 /\ substring'[p] = None /\ stage'[p] = "stale"
    BY DEF Restart, Goto, TypeInv, RolloutTypeOK
  <1>2. Passed(p)' = {}
    BY <1>1 DEF Passed
  <1> QED
    BY <1>1, <1>2 DEF WaitPart

LEMMA WaitResolveStep ==
  ASSUME TypeInv, TypeInv', Grows, NEW p \in Play, WaitPart(p), ResolveSubstring(p)
  PROVE  WaitPart(p)'
  <1>1. /\ at'[p] = at[p]
        /\ stage[p] = "resolve"
        /\ stage'[p] = "awaitCsv"
        /\ substring'[p] = IF substring[p] = None THEN Current(p) ELSE substring[p]
    BY DEF ResolveSubstring, Goto, TypeInv, RolloutTypeOK
  <1>2. Passed(p)' = Passed(p) /\ Order[p][1] \in Component
    BY <1>1, CurrentIsComponent, OrderIsSeq DEF Passed
  <1> QED
    BY <1>1, <1>2 DEF WaitPart, Grows, Current

\* A poll in vain.
LEMMA WaitPollStep ==
  ASSUME TypeInv, TypeInv', Grows, NEW p \in Play, WaitPart(p),
         stage[p] \in {"awaitCsv", "awaitDeployment", "awaitReady"},
         PollAgain(p), UNCHANGED <<at, substring, picked>>
  PROVE  WaitPart(p)'
  <1>1. stage'[p] \in {stage[p], "failed"}
    BY DEF PollAgain, Goto, TypeInv, RolloutTypeOK
  <1>2. /\ Passed(p)' = Passed(p) /\ Current(p)' = Current(p)
        /\ Order[p][1] \in Component
    BY CurrentIsComponent, OrderIsSeq DEF Passed, Current
  <1> QED
    BY <1>1, <1>2 DEF WaitPart, Grows

\* The wait for the CSV sees a CSV that the play's own name alone mentions.
LEMMA WaitCsvStep ==
  ASSUME NamesApart, TypeInv, TypeInv', Grows, NEW p \in Play, WaitPart(p), AwaitCsv(p)
  PROVE  WaitPart(p)'
  <1>1. CASE PollAgain(p)
    BY <1>1, WaitPollStep DEF AwaitCsv
  <1>2. ASSUME NEW c \in VisibleCsvs(SpaceOf[Current(p)]),
               csv[c] = "Succeeded", c \in Mentions[substring[p]],
               Goto(p, "awaitDeployment")
        PROVE  WaitPart(p)'
    <2>1. /\ at'[p] = at[p]
          /\ substring'[p] = substring[p]
          /\ stage[p] = "awaitCsv"
          /\ stage'[p] = "awaitDeployment"
      BY <1>2 DEF AwaitCsv, Goto, TypeInv, RolloutTypeOK
    <2>2. /\ Passed(p)' = Passed(p)
          /\ Order[p][1] \in Component
          /\ Order[p] # <<>>
      BY <2>1, CurrentIsComponent, OrderIsSeq DEF Passed
    <2>3. at[p] = 1 => c = Order[p][1]
      BY <1>2, <2>1, <2>2 DEF NamesApart, WaitPart, VisibleCsvs
    <2> QED
      BY <1>2, <2>1, <2>2, <2>3 DEF WaitPart, Grows
  <1> QED
    BY <1>1, <1>2 DEF AwaitCsv

\* The wait for the Deployment, where the caller gave a pattern, finds the
\* component's own.
LEMMA WaitDeploymentStep ==
  ASSUME NamesApart, TypeInv, TypeInv', Grows, NEW p \in Play, WaitPart(p),
         AwaitDeployment(p)
  PROVE  WaitPart(p)'
  <1>1. CASE PollAgain(p) /\ UNCHANGED picked
    BY <1>1, WaitPollStep DEF AwaitDeployment
  <1>2. ASSUME NEW d \in DeploymentMatches(p),
               picked' = [picked EXCEPT ![p] = d],
               Goto(p, "awaitReady")
        PROVE  WaitPart(p)'
    <2>1. /\ at'[p] = at[p]
          /\ substring'[p] = substring[p]
          /\ stage[p] = "awaitDeployment"
          /\ stage'[p] = "awaitReady"
          /\ picked'[p] = d
      BY <1>2 DEF AwaitDeployment, Goto, TypeInv, RolloutTypeOK
    <2>2. /\ Passed(p)' = Passed(p) /\ Current(p)' = Current(p)
          /\ Order[p][1] \in Component
      BY <2>1, CurrentIsComponent, OrderIsSeq DEF Passed, Current
    <2>3. Current(p) \in Patterned => d = Current(p)
      BY <1>2 DEF NamesApart, DeploymentMatches, TypeInv, RolloutTypeOK
    <2> QED
      BY <2>1, <2>2, <2>3 DEF WaitPart, Grows
  <1> QED
    BY <1>1, <1>2 DEF AwaitDeployment

\* The component passed is the current one, and its Deployment is available.
LEMMA WaitReadyStep ==
  ASSUME TypeInv, TypeInv', Grows, NEW p \in Play, WaitPart(p), AwaitReady(p)
  PROVE  WaitPart(p)'
  <1>1. CASE PollAgain(p) /\ UNCHANGED at
    BY <1>1, WaitPollStep DEF AwaitReady
  <1>2. ASSUME picked[p] \in available,
               at' = [at EXCEPT ![p] = @ + 1],
               Goto(p, IF at[p] = Len(Order[p]) THEN "done" ELSE "stale")
        PROVE  WaitPart(p)'
    <2>1. /\ stage[p] = "awaitReady"
          /\ at[p] \in 1..Len(Order[p]) /\ Len(Order[p]) \in Nat
          /\ at'[p] = at[p] + 1
          /\ stage'[p] \in {"done", "stale"}
      BY <1>2, CurrentIsComponent, OrderIsSeq DEF AwaitReady, Goto, TypeInv, RolloutTypeOK
    <2>2. Passed(p)' = Passed(p) \cup {Current(p)}
      BY <2>1 DEF Passed, Current
    <2>3. Current(p) \in Patterned => Current(p) \in available
      BY <1>2, <2>1 DEF WaitPart
    <2>4. csv[Order[p][1]] = "Succeeded" /\ Order[p][1] \in Component
      BY <2>1, OrderIsSeq DEF WaitPart
    <2> QED
      BY <2>1, <2>2, <2>3, <2>4 DEF WaitPart, Grows
  <1> QED
    BY <1>1, <1>2 DEF AwaitReady

LEMMA WaitStep ==
  ASSUME NamesApart
  PROVE  WaitInv /\ [Next]_vars => WaitInv'
  <1> SUFFICES ASSUME WaitInv, [Next]_vars PROVE WaitInv'
    OBVIOUS
  <1>1. TypeInv /\ TypeInv' /\ Grows /\ \A q \in Play : WaitPart(q)
    BY TypeStep, StepsGrow, WaitParts
  <1> SUFFICES ASSUME NEW q \in Play PROVE WaitPart(q)'
    BY <1>1 DEF WaitInv, WaitPart, FirstKept, PickKept, WaitsDoNotPassEarly
  <1>2. CASE UNCHANGED playVars
    BY <1>1, <1>2, WaitPartKept DEF playVars
  <1>3. ASSUME NEW p \in Play, PlayStep(p), p # q PROVE WaitPart(q)'
    BY <1>1, <1>3, OthersUntouched, WaitPartKept
  <1>4. CASE PlayStep(q)
    BY <1>1, <1>4, WaitInstallStep, WaitRestartStep, WaitResolveStep, WaitCsvStep,
       WaitDeploymentStep, WaitReadyStep DEF PlayStep
  <1>5. \/ UNCHANGED playVars
        \/ \E p \in Play : PlayStep(p)
    BY DEF Next, Stopped, vars, OlmStep, OlmStarts, OlmDeploys, DeploymentReady, OlmSucceeds
  <1> QED
    BY <1>2, <1>3, <1>4, <1>5

\* Where operators' names are not part of each other, the first component of a
\* play is passed only once its CSV has succeeded, and a component whose caller
\* names its Deployment only once that is available: ocp_wait_operator's facts,
\* which outlive a component and vanish with a restart, do not deceive it.
THEOREM WaitsPassInTime == NamesApart /\ Spec => []WaitsDoNotPassEarly
  <1> SUFFICES ASSUME NamesApart PROVE Spec => []WaitsDoNotPassEarly
    OBVIOUS
  <1>1. Spec => []WaitInv
    BY WaitInit, WaitStep, PTL DEF Spec
  <1> QED
    BY <1>1, PTL DEF WaitInv
=============================================================================
