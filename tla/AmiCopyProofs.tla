---------------------------- MODULE AmiCopyProofs ----------------------------
(***************************************************************************)
(* ec2_ami_copy for every region, every set of parameters and any number   *)
(* of reruns and failed calls.  Promised is the inductive invariant: all   *)
(* the caller's images bear the tags, so a search that finds nothing means *)
(* that none of them lives, and it stays so up to the CopyImage call.      *)
(***************************************************************************)
EXTENDS AmiCopy, TLAPS

\* Every image of this caller bears the tags the search asks for.
Tagged == \A i \in Id : images[i].mine => call.tags \subseteq images[i].tags

\* Past a search that found nothing, no copy is living.
Cleared == call.tag_equality /\ step \in {"describe", "copy"} => Living = {}

\* What a run holds, and has to report, at each step.
Accounted ==
  /\ step \in {"describe", "copy", "wait"} => ~call.check_mode
  /\ step \in {"search", "describe", "copy"} => made = {} /\ ~changed
  /\ step = "wait" \/ (step = "done" /\ ~call.check_mode) =>
       /\ image \in Id
       /\ changed <=> made # {}
       /\ made \subseteq {image}
       /\ call.tags \subseteq images[image].tags

Promised == AmiTypeOK /\ Tagged /\ Cleared /\ Accounted /\ NoSecondCopy

-----------------------------------------------------------------------------

\* The invariant holds of every initial state: no image is the caller's yet.
LEMMA PromisedInit == Init => Promised
  <1> SUFFICES ASSUME Init PROVE Promised
    OBVIOUS
  <1> USE AmiAssumption DEF AmiAssumption, Init
  <1>1. AmiTypeOK
    <2>1. images \in [Id -> Image] /\ call \in CallType
      OBVIOUS
    <2>2. runs \in 1..MaxRuns /\ faults \in 0..MaxFaults
      OBVIOUS
    <2>3. QED BY <2>1, <2>2 DEF AmiTypeOK, Step
  <1>2. Living = {}
    BY DEF Living
  <1>3. Tagged /\ Cleared /\ Accounted /\ NoSecondCopy
    BY <1>2 DEF Tagged, Cleared, Accounted, NoSecondCopy
  <1>4. QED BY <1>1, <1>3 DEF Promised

\* A search changes no image; it clears the way for a copy only when nothing
\* matches, and then nothing of the caller's lives.
LEMMA SearchKeeps == Promised /\ Search => Promised'
  <1> SUFFICES ASSUME Promised, Search PROVE Promised'
    OBVIOUS
  <1> USE DEF Promised, Succeeds, Fails
  <1>1. Living' = Living /\ UNCHANGED <<images, call, made, polls, runs>>
    BY DEF Search, Living
  <1>2. AmiTypeOK'
    <2>1. image' \in Id \cup {None} /\ changed' \in BOOLEAN
      BY DEF AmiTypeOK, Search, NoneFound, Answer, Matching
    <2>2. step' \in Step
      BY DEF Search, NoneFound, Answer, Step
    <2>3. call' = call /\ faults' \in 0..MaxFaults
      BY AmiAssumption DEF AmiTypeOK, AmiAssumption, Search
    <2>4. QED BY <1>1, <2>1, <2>2, <2>3 DEF AmiTypeOK
  <1>3. Cleared'
    <2> SUFFICES ASSUME call.tag_equality, step' \in {"describe", "copy"}
                 PROVE  Living = {}
      BY <1>1 DEF Cleared
    <2>1. Matching = {}
      BY DEF Search, NoneFound, Answer
    <2>2. QED BY <2>1 DEF Living, Matching, Tagged
  <1>4. Accounted'
    BY <1>1 DEF Accounted, Search, NoneFound, Answer, Matching
  <1>5. Tagged' /\ NoSecondCopy'
    BY <1>1 DEF Tagged, NoSecondCopy
  <1>6. QED BY <1>2, <1>3, <1>4, <1>5

\* Asking for the source image's name changes nothing the invariant is about.
LEMMA DescribeKeeps == Promised /\ Describe => Promised'
  <1> SUFFICES ASSUME Promised, Describe PROVE Promised'
    OBVIOUS
  <1> USE DEF Promised, Describe, Succeeds, Fails
  <1>1. AmiTypeOK'
    BY AmiAssumption DEF AmiTypeOK, Step, AmiAssumption
  <1>2. (Tagged /\ Cleared /\ NoSecondCopy)'
    BY DEF Tagged, Cleared, NoSecondCopy, Living
  <1>3. Accounted'
    BY DEF Accounted
  <1>4. QED BY <1>1, <1>2, <1>3

\* The image a copy starts, answered or not, is the only one living.
LEMMA PendingAlone ==
  ASSUME Promised, NEW i \in Id, images[i].state = "none", step = "copy",
         images' = Pending(i), UNCHANGED call
  PROVE  /\ images' \in [Id -> Image]
         /\ Tagged'
         /\ NoSecondCopy'
         /\ call.tags \subseteq images'[i].tags
  <1> USE DEF Promised, Pending
  <1>1. images' \in [Id -> Image]
    BY DEF AmiTypeOK, CallType, Image, State
  <1>2. images'[i] = [tags |-> call.tags, state |-> "pending", mine |-> TRUE]
    BY DEF AmiTypeOK
  <1>3. \A j \in Id \ {i} : images'[j] = images[j]
    BY DEF AmiTypeOK
  <1>4. Tagged'
    BY <1>2, <1>3 DEF Tagged
  <1>5. call.tag_equality => Living' \subseteq {i}
    BY <1>3 DEF Living, Cleared
  <1>6. QED BY <1>1, <1>2, <1>4, <1>5 DEF NoSecondCopy

\* CopyImage, answered, lost or refused.
LEMMA CopyKeeps == Promised /\ Copy => Promised'
  <1> SUFFICES ASSUME Promised, Copy PROVE Promised'
    OBVIOUS
  <1>1. step = "copy" /\ UNCHANGED <<call, polls, runs>>
    BY DEF Copy
  <1>2. CASE \E i \in Id : /\ images[i].state = "none"
                           /\ images' = Pending(i)
                           /\ made' = made \cup {i}
                           /\ \/ Succeeds /\ Answer(i) /\ changed' = TRUE
                              \/ /\ Fails /\ step' = "failed"
                                 /\ UNCHANGED <<image, changed>>
    <2>1. PICK i \in Id : /\ images[i].state = "none"
                          /\ images' = Pending(i)
                          /\ made' = made \cup {i}
                          /\ \/ Succeeds /\ Answer(i) /\ changed' = TRUE
                             \/ /\ Fails /\ step' = "failed"
                                /\ UNCHANGED <<image, changed>>
      BY <1>2
    <2>2. /\ images' \in [Id -> Image] /\ Tagged' /\ NoSecondCopy'
          /\ call.tags \subseteq images'[i].tags
      BY <1>1, <2>1, PendingAlone
    <2>3. AmiTypeOK'
      <3>1. image' \in Id \cup {None} /\ changed' \in BOOLEAN /\ made' \subseteq Id
        BY <2>1 DEF Promised, AmiTypeOK, Answer
      <3>2. step' \in Step
        BY <2>1 DEF Answer, Step
      <3>3. faults' \in 0..MaxFaults
        BY <2>1, AmiAssumption DEF Promised, AmiTypeOK, AmiAssumption, Succeeds, Fails
      <3>4. QED BY <1>1, <2>2, <3>1, <3>2, <3>3 DEF Promised, AmiTypeOK
    <2>4. Cleared' /\ Accounted'
      BY <1>1, <2>1, <2>2 DEF Promised, Cleared, Accounted, Answer
    <2>5. QED BY <2>2, <2>3, <2>4 DEF Promised
  <1>3. CASE Fails /\ step' = "failed" /\ UNCHANGED <<images, image, changed, made>>
    <2>1. AmiTypeOK'
      BY <1>1, <1>3, AmiAssumption DEF Promised, AmiTypeOK, AmiAssumption, Fails, Step
    <2>2. (Tagged /\ Cleared /\ Accounted /\ NoSecondCopy)'
      BY <1>1, <1>3
      DEF Promised, Tagged, Cleared, Accounted, NoSecondCopy, Living
    <2>3. QED BY <2>1, <2>2 DEF Promised
  <1>4. QED BY <1>2, <1>3 DEF Copy

\* The waiter changes neither the images nor what the run reports.
LEMMA PollKeeps == Promised /\ Poll => Promised'
  <1> SUFFICES ASSUME Promised, Poll PROVE Promised'
    OBVIOUS
  <1>1. /\ step = "wait" /\ step' \in {"wait", "done", "failed"}
        /\ UNCHANGED <<images, call, image, changed, runs, made>>
        /\ polls' = polls + 1
        /\ Succeeds \/ Fails
    BY DEF Poll
  <1>2. AmiTypeOK'
    BY <1>1, AmiAssumption
    DEF Promised, AmiTypeOK, AmiAssumption, Step, Succeeds, Fails
  <1>3. (Tagged /\ Cleared /\ Accounted /\ NoSecondCopy)'
    BY <1>1 DEF Promised, Tagged, Cleared, Accounted, NoSecondCopy, Living
  <1>4. QED BY <1>2, <1>3 DEF Promised

\* A rerun asks for the same tags, and starts with nothing to account for.
LEMMA RerunKeeps == Promised /\ Rerun => Promised'
  <1> SUFFICES ASSUME Promised, Rerun PROVE Promised'
    OBVIOUS
  <1>1. call' \in Call /\ call'.tags = call.tags
        /\ call'.tag_equality = call.tag_equality
    BY DEF Rerun
  <1>2. AmiTypeOK'
    <2>1. call' \in CallType
      BY <1>1, AmiAssumption DEF AmiAssumption
    <2>2. runs' \in 1..MaxRuns
      BY AmiAssumption DEF Promised, AmiTypeOK, AmiAssumption, Rerun
    <2>3. QED BY <2>1, <2>2 DEF Promised, AmiTypeOK, Rerun, Step
  <1>3. (Tagged /\ Cleared /\ Accounted /\ NoSecondCopy)'
    BY <1>1 DEF Promised, Rerun, Tagged, Cleared, Accounted, NoSecondCopy, Living
  <1>4. QED BY <1>2, <1>3 DEF Promised

\* What EC2 and its users do to one image: its tags and owner stay, and it
\* lives afterwards only if it did before.
LEMMA BecomesFacts ==
  ASSUME AmiTypeOK, NEW i \in Id, NEW s \in State, Becomes(i, s)
  PROVE  /\ images' \in [Id -> Image]
         /\ UNCHANGED <<taskVars, faults>>
         /\ \A j \in Id : /\ images'[j].tags = images[j].tags
                          /\ images'[j].mine = images[j].mine
                          /\ j # i => images'[j] = images[j]
         /\ images'[i].state = s
  BY DEF AmiTypeOK, Becomes, Image

\* Completing, breaking and deregistering leave no more copies living.
LEMMA LivingShrinks ==
  ASSUME AmiTypeOK, NEW i \in Id, Ec2Step(i)
  PROVE  Living' \subseteq Living
  <1>1. PICK s \in {"available", "failed", "gone"} :
          /\ Becomes(i, s)
          /\ s = "available" => images[i].state = "pending"
    BY DEF Ec2Step, CopyCompletes, CopyBreaks, Deregister
  <1>2. QED BY <1>1, BecomesFacts DEF Living, State

LEMMA Ec2Keeps ==
  ASSUME Promised, NEW i \in Id, Ec2Step(i)
  PROVE  Promised'
  <1>1. PICK s \in {"available", "failed", "gone"} : Becomes(i, s)
    BY DEF Ec2Step, CopyCompletes, CopyBreaks, Deregister
  <1>2. /\ images' \in [Id -> Image]
        /\ UNCHANGED <<taskVars, faults>>
        /\ \A j \in Id : /\ images'[j].tags = images[j].tags
                         /\ images'[j].mine = images[j].mine
    BY <1>1, BecomesFacts DEF Promised, State
  <1>3. Living' \subseteq Living
    BY LivingShrinks DEF Promised
  <1>4. AmiTypeOK'
    BY <1>2 DEF Promised, AmiTypeOK, taskVars
  <1>5. (Tagged /\ Cleared /\ Accounted /\ NoSecondCopy)'
    BY <1>2, <1>3
    DEF Promised, Tagged, Cleared, Accounted, NoSecondCopy, taskVars, Living
  <1>6. QED BY <1>4, <1>5 DEF Promised

\* Every step, and every step that changes nothing, keeps the invariant.
LEMMA PromisedNext == Promised /\ [Next]_vars => Promised'
  <1>1. Promised /\ UNCHANGED vars => Promised'
    BY DEF Promised, vars, taskVars, AmiTypeOK, Tagged, Cleared, Accounted,
           NoSecondCopy, Living
  <1>2. QED
    BY <1>1, SearchKeeps, DescribeKeeps, CopyKeeps, PollKeeps, RerunKeeps,
       Ec2Keeps
    DEF Next, CopyImage, Stopped

LEMMA AlwaysPromised == Spec => []Promised
  BY PromisedInit, PromisedNext, PTL DEF Spec

-----------------------------------------------------------------------------

\* The variables of the task and the images of the region keep their types.
THEOREM AmiTypeCorrect == Spec => []AmiTypeOK
  <1>1. Promised => AmiTypeOK
    BY DEF Promised
  <1>2. QED BY <1>1, AlwaysPromised, PTL

\* find_existing_image and the tags sent along with CopyImage keep a task
\* with tag_equality from ever having two living copies.
THEOREM NeverTwoCopies == Spec => []NoSecondCopy
  <1>1. Promised => NoSecondCopy
    BY DEF Promised
  <1>2. QED BY <1>1, AlwaysPromised, PTL

\* exit_json says "changed" exactly of a run that started a copy, and returns
\* an image with the tags asked for.
THEOREM ReportsTruly == Spec => []ReportTellsTruth
  <1>1. Promised => ReportTellsTruth
    BY DEF Promised, Accounted, ReportTellsTruth
  <1>2. QED BY <1>1, AlwaysPromised, PTL

-----------------------------------------------------------------------------
(* Refinement.                                                             *)

\* A step that leaves the images and tag_equality alone is a stutter.
LEMMA QuietStutters ==
  ASSUME images' = images, call'.tag_equality = call.tag_equality
  PROVE  UNCHANGED <<Copies, Ready>>
  BY DEF Copies, Ready, Living

\* The call that starts a copy is the promise's Start.
LEMMA CopyStarts ==
  ASSUME Promised, NEW i \in Id, images[i].state = "none", step = "copy",
         images' = Pending(i), UNCHANGED call
  PROVE  Promise!Start \/ UNCHANGED <<Copies, Ready>>
  <1>1. images'[i] = [tags |-> call.tags, state |-> "pending", mine |-> TRUE]
    BY DEF Promised, AmiTypeOK, Pending
  <1>2. \A j \in Id \ {i} : images'[j] = images[j]
    BY DEF Promised, AmiTypeOK, Pending
  <1>3. CASE call.tag_equality
    <2>1. Living = {}
      BY <1>3 DEF Promised, Cleared
    <2>2. Living' = {i}
      BY <1>1, <1>2, <2>1 DEF Living
    <2>3. Copies = {} /\ Copies' = {i} /\ Ready' = {}
      BY <1>1, <1>3, <2>1, <2>2 DEF Copies, Ready
    <2>4. QED BY <2>3 DEF Promise!Start
  <1>4. CASE ~call.tag_equality
    BY <1>4 DEF Copies, Ready
  <1>5. QED BY <1>3, <1>4

\* EC2 completes the one living copy, or takes it away.
LEMMA Ec2Implements ==
  ASSUME Promised, NEW i \in Id, Ec2Step(i)
  PROVE  Promise!Finish \/ Promise!Lose \/ UNCHANGED <<Copies, Ready>>
  <1>1. PICK s \in {"available", "failed", "gone"} :
          /\ Becomes(i, s)
          /\ s = "available" => images[i].state = "pending"
    BY DEF Ec2Step, CopyCompletes, CopyBreaks, Deregister
  <1>2. /\ call' = call
        /\ \A j \in Id : /\ images'[j].mine = images[j].mine
                         /\ j # i => images'[j] = images[j]
        /\ images'[i].state = s
    BY <1>1, BecomesFacts DEF Promised, State, taskVars
  <1>3. CASE ~call.tag_equality
    BY <1>2, <1>3 DEF Copies, Ready
  <1>4. CASE call.tag_equality /\ i \notin Living
    <2>1. Living' = Living
      <3>1. Living' \subseteq Living
        BY LivingShrinks DEF Promised
      <3>2. \A j \in Living : j \in Living'
        BY <1>2, <1>4 DEF Living
      <3>3. QED BY <3>1, <3>2
    <2>2. \A j \in Living : images'[j] = images[j]
      BY <1>2, <1>4 DEF Living
    <2>3. QED BY <1>2, <1>4, <2>1, <2>2 DEF Copies, Ready
  <1>5. CASE call.tag_equality /\ i \in Living
    <2>1. Living = {i}
      BY <1>5 DEF Promised, NoSecondCopy, Living
    <2>2. CASE s = "available"
      <3>1. Living' = {i}
        BY <1>2, <2>1, <2>2, LivingShrinks DEF Promised, Living
      <3>2. QED BY <1>2, <1>5, <2>1, <2>2, <3>1 DEF Promise!Finish, Copies, Ready
    <2>3. CASE s # "available"
      <3>1. Living' = {}
        BY <1>1, <1>2, <2>1, <2>3, LivingShrinks DEF Promised, Living
      <3>2. QED BY <1>2, <1>5, <2>1, <3>1 DEF Promise!Lose, Copies, Ready
    <2>4. QED BY <2>2, <2>3
  <1>6. QED BY <1>3, <1>4, <1>5

\* With tag_equality, ec2_ami_copy and all its reruns implement the promise of
\* one copy at a time: copy_image() starts one only when none lives.
THEOREM ImplementsPromise == Spec => KeepsPromise
  <1>1. Init => Promise!Init
    <2> SUFFICES ASSUME Init PROVE Promise!Init
      OBVIOUS
    <2>1. Living = {}
      BY AmiAssumption DEF AmiAssumption, Init, Living
    <2>2. QED BY <2>1 DEF Promise!Init, Copies, Ready
  <1>2. Promised /\ [Next]_vars => [Promise!Next]_<<Copies, Ready>>
    <2> SUFFICES ASSUME Promised, [Next]_vars
                 PROVE  Promise!Next \/ UNCHANGED <<Copies, Ready>>
      BY DEF Promise!Next
    <2>1. CASE Search \/ Describe \/ Poll \/ Rerun \/ UNCHANGED vars
      <3>1. images' = images /\ call'.tag_equality = call.tag_equality
        BY <2>1 DEF Search, Describe, Poll, Rerun, vars, taskVars
      <3>2. QED BY <3>1, QuietStutters
    <2>2. CASE Copy
      <3>1. step = "copy" /\ call' = call
        BY <2>2 DEF Copy
      <3>2. \/ images' = images
            \/ \E i \in Id : images[i].state = "none" /\ images' = Pending(i)
        BY <2>2 DEF Copy
      <3>3. QED BY <3>1, <3>2, CopyStarts, QuietStutters DEF Promise!Next
    <2>3. CASE \E i \in Id : Ec2Step(i)
      BY <2>3, Ec2Implements DEF Promise!Next
    <2>4. QED BY <2>1, <2>2, <2>3 DEF Next, CopyImage, Stopped
  <1>3. QED BY <1>1, <1>2, AlwaysPromised, PTL DEF Spec, KeepsPromise, Promise!Spec
=============================================================================
