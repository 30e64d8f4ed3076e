------------------------------ MODULE MCAmiCopy ------------------------------
(* Instances of AmiCopy for TLC. *)
EXTENDS AmiCopy

CONSTANTS i1, i2, i3, i4, Env, Owner, Team

\* Another user's image, which has one tag too many or one too few.
Free == [tags |-> {}, state |-> "none", mine |-> FALSE]
Foreign(ts) == [tags |-> ts, state |-> "available", mine |-> FALSE]
MCSeed == {[i \in Id |-> Free],
           [i \in Id |-> IF i = i1 THEN Foreign({Env, Team}) ELSE Free],
           [i \in Id |-> IF i = i1 THEN Foreign({Env, Owner, Team}) ELSE Free]}

\* Every option; the timeouts give one attempt and two.
MCCall ==
  [tags : {{}, {Env, Owner}}, tag_equality : BOOLEAN, wait : BOOLEAN,
   wait_timeout : {10, 30}, named : BOOLEAN, check_mode : BOOLEAN]
=============================================================================
