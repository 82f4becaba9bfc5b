---------------------------- MODULE MCTraceStream ----------------------------
(* Instances of TraceStream for TLC.                                       *)
EXTENDS TraceStream, TLC

CONSTANTS fast, late, plain, namesake, one, again, other

Entry(n, f, k) == [name |-> n, fields |-> f, notes |-> k]

(* Two handles of one schema, and a third that has its name only; a fast   *)
(* type with annotations, one whose slot is past the limit, one without    *)
(* a slot, and one that shares its name with a schema.                     *)
Entries ==
    (fast :> Entry("fast", 1, 1)) @@ (late :> Entry("late", 1, 1)) @@
    (plain :> Entry("plain", 1, 0)) @@ (namesake :> Entry("one", 3, 0)) @@
    (one :> Entry("one", 1, 0)) @@ (again :> Entry("one", 1, 0)) @@
    (other :> Entry("one", 2, 0))
EntriesPlain == [Entries EXCEPT ![fast].notes = 0]

Slots == [x \in Types |-> IF x = fast THEN 1 ELSE IF x = late THEN 2 ELSE 0]
Texts == [l \in Locations |-> l]
=============================================================================
