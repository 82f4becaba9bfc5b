------------------------------- MODULE Delivery -------------------------------
(***************************************************************************)
(* What the storage between the writer and the background worker promises: *)
(* a sealed segment is held until it is delivered or lost, it is delivered *)
(* or lost for good, and only the sealing of a newer segment, a failure of *)
(* the segment itself or the end of the worker can lose it.                *)
(***************************************************************************)
EXTENDS Naturals

CONSTANT Last           \* bound: the number of segments

VARIABLE status

Statuses == {"unsealed", "held", "delivered", "lost"}

Held == {i \in 1..Last : status[i] = "held"}

Init == status = [i \in 1..Last |-> "unsealed"]

(* A new segment is sealed; older ones may have to make room.              *)
Seal(n) ==
    /\ status[n] = "unsealed"
    /\ \A i \in 1..(n - 1) : status[i] # "unsealed"
    /\ \E evicted \in SUBSET Held :
         status' = [i \in 1..Last |-> IF i = n THEN "held"
                                      ELSE IF i \in evicted THEN "lost"
                                      ELSE status[i]]

Settle(i, how) ==
    /\ status[i] = "held"
    /\ status' = [status EXCEPT ![i] = how]

Next == \E i \in 1..Last :
            Seal(i) \/ Settle(i, "delivered") \/ Settle(i, "lost")

Spec == Init /\ [][Next]_status
=============================================================================
