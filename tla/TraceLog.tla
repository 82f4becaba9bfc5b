------------------------------- MODULE TraceLog -------------------------------
(***************************************************************************)
(* What a recorder promises about the events it is given.  An event is     *)
(* pending once recorded (in a thread-local buffer or in the collector),   *)
(* then kept in a segment, and gone if the trace no longer has it: a full  *)
(* queue, the retention budget or an I/O error may take it, none of them   *)
(* brings it back, and no event is ever in the trace twice.                *)
(***************************************************************************)
EXTENDS Naturals

VARIABLES recorded, pending, kept, gone

logVars == <<recorded, pending, kept, gone>>

Init ==
    /\ recorded = 0
    /\ pending = {}
    /\ kept = {}
    /\ gone = {}

(* At most one event is recorded in a step.                                *)
Grows == recorded' \in {recorded, recorded + 1}

(* Each event recorded so far has exactly one of the three fates.          *)
Partition(p, k, g, n) ==
    /\ p \cup k \cup g = 1..n
    /\ p \cap k = {}
    /\ p \cap g = {}
    /\ k \cap g = {}

(* pending to kept to gone: no fate is taken back.                         *)
MovesForward ==
    /\ gone \subseteq gone'
    /\ kept \subseteq kept' \cup gone'

Next == Grows /\ Partition(pending', kept', gone', recorded') /\ MovesForward

Spec == Init /\ [][Next]_logVars
=============================================================================
