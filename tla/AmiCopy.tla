------------------------------- MODULE AmiCopy -------------------------------
(***************************************************************************)
(* The module plugins/modules/ec2_ami_copy.py: copy an AMI to the          *)
(* destination region, or adopt one that is there.  A play that ended, one *)
(* way or the other, may be run again with the same tags.  Every API call  *)
(* is one step; EC2 completes, breaks and deregisters images between them. *)
(***************************************************************************)
EXTENDS Naturals, FiniteSets

CONSTANTS
  Id,        \* AMI ids of the destination region
  Tag,       \* tags: a key with its value
  Call,      \* the parameters a task may have
  Seed,      \* the images of other users a run may find
  MaxRuns,   \* bound on the runs of the task
  MaxFaults, \* bound on the API calls that fail
  None       \* no image

CallType == [tags : SUBSET Tag, tag_equality : BOOLEAN, wait : BOOLEAN,
             wait_timeout : Nat, named : BOOLEAN, check_mode : BOOLEAN]
State == {"none", "pending", "available", "failed", "gone"}
Image == [tags : SUBSET Tag, state : State, mine : BOOLEAN]

ASSUME AmiAssumption ==
  /\ Call \subseteq CallType
  /\ Seed \subseteq [Id -> Image]
  /\ \A s \in Seed : \A i \in Id : ~s[i].mine
  /\ MaxRuns \in Nat \ {0}
  /\ MaxFaults \in Nat
  /\ None \notin Id

VARIABLES
  images,  \* the images of the destination region
  call,    \* module.params
  step,    \* where copy_image() is
  image,   \* the image found or copied
  changed, \* the reported result
  polls,   \* attempts the waiter has made
  runs,    \* runs of the task so far
  faults,  \* API calls that failed so far
  made     \* history: images this run brought into being

taskVars == <<call, step, image, changed, polls, runs, made>>
vars == <<images, taskVars, faults>>

Step == {"search", "describe", "copy", "wait", "done", "failed"}
Ended == {"done", "failed"}

AmiTypeOK ==
  /\ images \in [Id -> Image]
  /\ call \in CallType
  /\ step \in Step
  /\ image \in Id \cup {None}
  /\ changed \in BOOLEAN
  /\ polls \in Nat
  /\ runs \in 1..MaxRuns
  /\ faults \in 0..MaxFaults
  /\ made \subseteq Id

Init ==
  /\ images \in Seed
  /\ call \in Call
  /\ step = "search"
  /\ image = None
  /\ changed = FALSE
  /\ polls = 0
  /\ runs = 1
  /\ faults = 0
  /\ made = {}

Succeeds == UNCHANGED faults
Fails == faults < MaxFaults /\ faults' = faults + 1

-----------------------------------------------------------------------------
(* copy_image().                                                           *)

\* find_existing_image: the filters ask for every given tag; others may be there.
Matching ==
  {i \in Id : /\ call.tags \subseteq images[i].tags
              /\ images[i].state \in {"available", "pending"}}

\* exit_json of an image at hand, or the wait for it.
Answer(i) ==
  /\ image' = i
  /\ step' = IF call.wait THEN "wait" ELSE "done"

\* No image is to be looked for, or none was found.
NoneFound ==
  /\ IF call.check_mode
     THEN step' = "done" /\ changed' = TRUE
     ELSE step' = (IF call.named THEN "copy" ELSE "describe") /\ UNCHANGED changed
  /\ UNCHANGED image

Search ==
  /\ step = "search"
  /\ \/ ~call.tag_equality /\ Succeeds /\ NoneFound
     \/ /\ call.tag_equality /\ call.tags = {}
        /\ step' = "failed"
        /\ UNCHANGED <<image, changed, faults>>
     \/ /\ call.tag_equality /\ call.tags # {}
        /\ \/ Succeeds /\ Matching = {} /\ NoneFound
           \/ /\ Succeeds
              /\ \E i \in Matching :
                   IF call.check_mode THEN image' = i /\ step' = "done" ELSE Answer(i)
              /\ UNCHANGED changed
           \/ Fails /\ step' = "failed" /\ UNCHANGED <<image, changed>>
  /\ UNCHANGED <<images, call, polls, runs, made>>

\* resolve_destination_image_name: ask the source region for the name.
Describe ==
  /\ step = "describe"
  /\ \/ Succeeds /\ step' = "copy"
     \/ Fails /\ step' = "failed"
  /\ UNCHANGED <<images, call, image, changed, polls, runs, made>>

\* Mutation of Pending: the tags are added by a later call.
PendingUntagged(i) ==
  [images EXCEPT ![i] = [tags |-> {}, state |-> "pending", mine |-> TRUE]]

\* build_copy_params: the tags come with the image.
Pending(i) ==
  [images EXCEPT ![i] = [tags |-> call.tags, state |-> "pending", mine |-> TRUE]]

\* Mutation of Copy: the copy is not reported.
CopyUnreported ==
  /\ step = "copy"
  /\ \/ /\ Succeeds
        /\ \E i \in Id : /\ images[i].state = "none"
                         /\ images' = Pending(i)
                         /\ made' = made \cup {i}
                         /\ Answer(i)
        /\ UNCHANGED changed
     \/ /\ Fails
        /\ \E i \in Id : /\ images[i].state = "none"
                         /\ images' = Pending(i)
                         /\ made' = made \cup {i}
        /\ step' = "failed" /\ UNCHANGED <<image, changed>>
     \/ Fails /\ step' = "failed" /\ UNCHANGED <<images, image, changed, made>>
  /\ UNCHANGED <<call, polls, runs>>

\* CopyImage.  It may fail although the copy was started: the answer was
\* lost, or came without an ImageId.
Copy ==
  /\ step = "copy"
  /\ \/ /\ Succeeds
        /\ \E i \in Id : /\ images[i].state = "none"
                         /\ images' = Pending(i)
                         /\ made' = made \cup {i}
                         /\ Answer(i)
        /\ changed' = TRUE
     \/ /\ Fails
        /\ \E i \in Id : /\ images[i].state = "none"
                         /\ images' = Pending(i)
                         /\ made' = made \cup {i}
        /\ step' = "failed" /\ UNCHANGED <<image, changed>>
     \/ Fails /\ step' = "failed" /\ UNCHANGED <<images, image, changed, made>>
  /\ UNCHANGED <<call, polls, runs>>

\* wait_for_image: one attempt per 15 seconds, at least one; 0 means 600.
Attempts ==
  LET n == (IF call.wait_timeout = 0 THEN 600 ELSE call.wait_timeout) \div 15
  IN  IF n > 1 THEN n ELSE 1

\* Mutation of Poll: the attempts are not counted.
PollForever ==
  /\ step = "wait"
  /\ \/ Succeeds /\ images[image].state = "available" /\ step' = "done"
     \/ Succeeds /\ images[image].state = "pending" /\ UNCHANGED step
     \/ /\ images[image].state \in {"failed", "gone"} /\ Succeeds
        /\ step' = "failed"
     \/ Fails /\ step' = "failed"
  /\ UNCHANGED <<images, call, image, changed, polls, runs, made>>

\* One attempt of the waiter; a failed, missing or unreadable image ends it.
Poll ==
  /\ step = "wait"
  /\ polls' = polls + 1
  /\ \/ Succeeds /\ images[image].state = "available" /\ step' = "done"
     \/ /\ Succeeds /\ images[image].state = "pending"
        /\ step' = IF polls + 1 < Attempts THEN "wait" ELSE "failed"
     \/ /\ images[image].state \in {"failed", "gone"} /\ Succeeds
        /\ step' = "failed"
     \/ Fails /\ step' = "failed"
  /\ UNCHANGED <<images, call, image, changed, runs, made>>

CopyImage == Search \/ Describe \/ Copy \/ Poll

\* The task is run again, with the same tags but perhaps other options.
Rerun ==
  /\ step \in Ended
  /\ runs < MaxRuns
  /\ runs' = runs + 1
  /\ call' \in {c \in Call : /\ c.tags = call.tags
                             /\ c.tag_equality = call.tag_equality}
  /\ step' = "search"
  /\ image' = None
  /\ changed' = FALSE
  /\ polls' = 0
  /\ made' = {}
  /\ UNCHANGED <<images, faults>>

-----------------------------------------------------------------------------
(* EC2 and its other users (external).                                     *)

Becomes(i, s) ==
  /\ images' = [images EXCEPT ![i].state = s]
  /\ UNCHANGED <<taskVars, faults>>

CopyCompletes(i) == images[i].state = "pending" /\ Becomes(i, "available")
CopyBreaks(i) == images[i].state = "pending" /\ Becomes(i, "failed")
Deregister(i) == images[i].state \in {"available", "failed"} /\ Becomes(i, "gone")

Ec2Step(i) == CopyCompletes(i) \/ CopyBreaks(i) \/ Deregister(i)

Stopped == step \in Ended /\ runs = MaxRuns /\ UNCHANGED vars

Next == CopyImage \/ Rerun \/ (\E i \in Id : Ec2Step(i)) \/ Stopped
Spec == Init /\ [][Next]_vars

\* The module keeps executing; EC2 need not ever finish a copy.
FairSpec == Spec /\ WF_vars(CopyImage)

-----------------------------------------------------------------------------
(* Properties.                                                             *)

Living == {i \in Id : images[i].mine /\ images[i].state \in {"pending", "available"}}

\* With tag_equality, and one run at a time, the task never has two living
\* copies: not after a wait that timed out, a lost answer, or a check run.
NoSecondCopy ==
  call.tag_equality => \A i, j \in Living : i = j

\* A run that succeeds outside check mode reports "changed" exactly if it
\* brought an image into being, and what it returns bears the tags asked for.
ReportTellsTruth ==
  step = "done" /\ ~call.check_mode =>
    /\ changed <=> made # {}
    /\ made \subseteq {image}
    /\ call.tags \subseteq images[image].tags

\* The wait is bounded: each run ends, even if EC2 never finishes the copy.
RunsEnd == []<>(step \in Ended)

\* The module implements the promise of AmiPromise: reruns, searches, polls and
\* failed calls are stutters.  A task without tag_equality makes no promise.
Copies == IF call.tag_equality THEN Living ELSE {}
Ready == {i \in Copies : images[i].state = "available"}
Promise == INSTANCE AmiPromise WITH copies <- Copies, ready <- Ready
KeepsPromise == Promise!Spec
=============================================================================
