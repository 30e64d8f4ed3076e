-------------------------- MODULE MCOperatorRollout --------------------------
(* Instances of OperatorRollout for TLC. *)
EXTENDS OperatorRollout, TLC

CONSTANTS NMState, MetalLB, Lvms, Old, p1, p2

MCComponent == {NMState, MetalLB, Lvms, Old}
MCStale == [c \in MCComponent |-> IF c = NMState THEN {Old} ELSE {}]
OwnNames == [c \in MCComponent |-> {c}]

\* One play installs two operators, another a third, into one namespace.
MixedOrder == (p1 :> <<NMState, MetalLB>>) @@ (p2 :> <<Lvms>>)
OneSpace == [c \in MCComponent |-> "shared"]

\* roles/ocp_networking: one play, each operator in a namespace of its own.
NetworkingOrder == (p1 :> <<NMState, MetalLB>>)
OwnSpaces ==
  [c \in MCComponent |-> IF c = MetalLB THEN "metallb" ELSE
                           IF c = Lvms THEN "lvms" ELSE "nmstate"]
=============================================================================
