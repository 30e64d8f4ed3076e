----------------------------- MODULE MCProjectSync -----------------------------
(* Instances of ProjectSync for TLC. *)
EXTENDS ProjectSync

CONSTANTS p1, p2, old, new

TwoProjects == <<p1, p2>>
OneProject == <<p1>>
=============================================================================
