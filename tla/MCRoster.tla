------------------------------- MODULE MCRoster -------------------------------
(* Instances of Roster for TLC.                                            *)
EXTENDS Roster, TLC

CONSTANTS a, b, p, q

(* A pool of one policy, and one in the middle of a rolling deploy.        *)
UniformOrMixed ==
    {[n \in Nodes |-> p], [n \in Nodes |-> IF n = b THEN q ELSE p]}

(* One clock is as slow and the other as fast as the skew allows.          *)
Apart == {[n \in Nodes |-> IF n = b THEN 2 * MaxSkew ELSE 0],
          [n \in Nodes |-> IF n = b THEN 0 ELSE 2 * MaxSkew]}
=============================================================================
