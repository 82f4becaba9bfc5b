------------------------------- MODULE MemRing -------------------------------
(***************************************************************************)
(* The in-memory backend (fs/mem.rs): sealed segments in a ring bounded by *)
(* bytes.  The writer pushes at the back and evicts at the front, the      *)
(* worker pops one segment at a time and pushes a retry at the front.      *)
(* Every operation holds the queue's mutex, so each is one operator on the *)
(* record [slots, bytes, dropped] the mutex protects.                      *)
(***************************************************************************)
EXTENDS Naturals, Sequences, FiniteSets

CONSTANT RingBudget     \* max_total_size of the ring, in bytes

ASSUME RingBudgetAssumption == RingBudget \in Nat \ {0}

(* A slot: MemSealedSegment.  start and seal are the epochs that the       *)
(* windowed pop of the triggered worker matches.                           *)
Slot(index, size, retry, start, seal) ==
    [index |-> index, size |-> size, retry |-> retry,
     start |-> start, seal |-> seal]

Slots(indices, sizes, retries, epochs) ==
    [index : indices, size : sizes, retry : retries,
     start : epochs, seal : epochs]

EmptyRing == [slots |-> <<>>, bytes |-> 0, dropped |-> 0]

(* The bytes of some slots, each named by its slot and its place in it.    *)
BytesOf(slots) == UNION {{k} \X (1 .. slots[k].size) : k \in 1..Len(slots)}

SlotBytes(slots) == Cardinality(BytesOf(slots))

Indices(slots) == {slots[k].index : k \in 1..Len(slots)}

-----------------------------------------------------------------------------
(* The number of slots MemFs::seal pops before it pushes `size` bytes: the *)
(* k-th goes if popping fewer leaves no room.                              *)
Overflow(q, size) ==
    Cardinality({k \in 1..Len(q.slots) : \A j \in 0..(k - 1) :
        q.bytes - SlotBytes(SubSeq(q.slots, 1, j)) + size > RingBudget})

(* Variant of RingSeal: the ring is trimmed before the push, not for it.   *)
RingSealLate(q, slot) ==
    LET n == Overflow(q, 0)
        gone == SubSeq(q.slots, 1, n)
    IN  [slots |-> Append(SubSeq(q.slots, n + 1, Len(q.slots)), slot),
         bytes |-> q.bytes - SlotBytes(gone) + slot.size,
         dropped |-> q.dropped + n]

(* MemFs::seal: evict first, then push.                                    *)
RingSeal(q, slot) ==
    LET n == Overflow(q, slot.size)
        gone == SubSeq(q.slots, 1, n)
    IN  [slots |-> Append(SubSeq(q.slots, n + 1, Len(q.slots)), slot),
         bytes |-> q.bytes - SlotBytes(gone) + slot.size,
         dropped |-> q.dropped + n]

Evicted(q, slot) == Indices(SubSeq(q.slots, 1, Overflow(q, slot.size)))

(* MemFs::release_for_retry: to the front, whatever the budget says.       *)
RingRelease(q, slot) ==
    [slots |-> <<slot>> \o q.slots, bytes |-> q.bytes + slot.size,
     dropped |-> q.dropped]

(* VecDeque::remove.                                                       *)
Without(slots, k) == SubSeq(slots, 1, k - 1) \o SubSeq(slots, k + 1, Len(slots))

(* Variant of RingTake: the eviction count is read and left in place.      *)
RingTakeKeepsCount(q, k) ==
    [q EXCEPT !.slots = Without(@, k), !.bytes = @ - q.slots[k].size]

(* MemFs::take_files_inner: pop slot k; the eviction count is reset.       *)
RingTake(q, k) ==
    [slots |-> Without(q.slots, k), bytes |-> q.bytes - q.slots[k].size,
     dropped |-> 0]

(* ... and when there is no slot to pop.                                   *)
RingTakeNone(q) == [q EXCEPT !.dropped = 0]
=============================================================================
