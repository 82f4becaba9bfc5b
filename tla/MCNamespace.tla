----------------------------- MODULE MCNamespace -----------------------------
(* Instances of Namespace for TLC.                                         *)
EXTENDS Namespace, TLC

CONSTANTS p1, p2, p3

(* The processes that collect are alike.                                   *)
Alike == Permutations(Collects)
=============================================================================
