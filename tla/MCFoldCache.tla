----------------------------- MODULE MCFoldCache -----------------------------
(* Instances of FoldCache for TLC. *)
EXTENDS FoldCache

CONSTANT Deep   \* the requests with "Fetch more": they may fold the whole scope

MCCap == [r \in Requests |-> IF r \in Deep THEN NumFiles ELSE 1]
=============================================================================
