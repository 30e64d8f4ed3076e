------------------------------ MODULE AmiPromise ------------------------------
(***************************************************************************)
(* What ec2_ami_copy with tag_equality promises ("idempotent via           *)
(* tag_equality"), without searches, polls, errors or reruns: at any time  *)
(* there is at most one living copy, and a new one is started only when    *)
(* there is none.                                                          *)
(***************************************************************************)
CONSTANT Id \* AMI ids of the destination region

VARIABLES
  copies, \* the living copies this caller started
  ready   \* those of them that are available

Init == copies = {} /\ ready = {}

Start == /\ copies = {}
         /\ \E i \in Id : copies' = {i}
         /\ ready' = {}

Finish == /\ copies # {}
          /\ copies' = copies
          /\ ready' = copies

\* A copy fails, or somebody deregisters it.
Lose == /\ copies # {}
        /\ copies' = {}
        /\ ready' = {}

Next == Start \/ Finish \/ Lose
Spec == Init /\ [][Next]_<<copies, ready>>
=============================================================================
