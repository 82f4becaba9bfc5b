---------------------------- MODULE RecorderProofs ----------------------------
(***************************************************************************)
(* Proofs about Recorder: its types; that the drain of the first recorder  *)
(* of a process leaves no event behind that was recorded before its epoch  *)
(* was bumped (DrainBarrier); LifecycleMonotone; the fate of an event and  *)
(* the order of a thread's events (both below).  They hold for any number  *)
(* of threads, events, queue slots and drains.                             *)
(*                                                                         *)
(* DrainBarrier is not inductive: a drain in progress has to be described  *)
(* (DrainIsOnTrack), and that no thread is skipped needs the stamps to be  *)
(* behind the epoch (StampsAreBehind, BarrierIsBehind) and the registry to *)
(* name every thread with events (RecordersAreRegistered).  That what is   *)
(* queued later is not of the barrier needs buffers to hold only their     *)
(* own thread's events (BuffersOwnTheirEvents).                            *)
(*                                                                         *)
(* The same invariant carries LifecycleMonotone: that Build does not       *)
(* revive a recorder needs the later ones to be unbuilt.                   *)
(***************************************************************************)
EXTENDS Recorder, FiniteSetTheorems, SequenceTheorems, TLAPS

-----------------------------------------------------------------------------
(* The methods of the segment writer keep its shape, for any set E the     *)
(* events are drawn from.                                                  *)

(* Eviction takes a number of closed files, and no more than there are.    *)
LEMMA EvictCountType ==
    ASSUME NEW E, NEW u \in WriterTypes(E)
    PROVE  EvictCount(u) \in 0..Len(u.closed)
<1> DEFINE N == Len(u.closed)
           K == {k \in 1..N : \A j \in 0..(k - 1) : ~FitsAfter(u, j)}
<1>1. N \in Nat
  BY DEF WriterTypes
<1>2. IsFiniteSet(1..N) /\ Cardinality(1..N) = N
  <2>1. \A a, b \in Int :
          /\ IsFiniteSet(a..b)
          /\ Cardinality(a..b) = IF a > b THEN 0 ELSE b - a + 1
    BY FS_Interval
  <2> HIDE DEF N
  <2>2. IsFiniteSet(1..N)
        /\ Cardinality(1..N) = IF 1 > N THEN 0 ELSE N - 1 + 1
    BY <2>1, <1>1
  <2> QED BY <2>2, <1>1
<1>3. K \subseteq 1..N
  OBVIOUS
<1>4. IsFiniteSet(K) /\ Cardinality(K) <= N
  BY <1>2, <1>3, FS_Subset
<1>5. Cardinality(K) \in Nat
  BY <1>4, FS_CardinalityType
<1>6. EvictCount(u) = Cardinality(K)
  BY DEF EvictCount
<1> HIDE DEF K, N
<1>7. Cardinality(K) \in 0..N
  BY <1>1, <1>4, <1>5
<1> QED BY <1>6, <1>7 DEF N

(* What is left of a sequence when k elements are taken from its front.    *)
LEMMA DropType ==
    ASSUME NEW S, NEW s \in Seq(S), NEW k \in 0..Len(s)
    PROVE  SubSeq(s, k + 1, Len(s)) \in Seq(S)
<1>1. Len(s) \in Nat /\ k \in Nat
  BY LenProperties
<1>2. \A i \in (k + 1)..Len(s) : s[i] \in S
  BY <1>1
<1> QED BY <1>1, <1>2, SubSeqProperties

LEMMA RemoveSealedType ==
    ASSUME NEW E, NEW u \in WriterTypes(E), NEW indices
    PROVE  RemoveSealed(u, indices) \in WriterTypes(E)
<1> DEFINE removed == {f \in u.files : f.index \in indices}
<1>1. /\ u.files \ removed \in SUBSET SegmentFiles(E)
      /\ removed \in SUBSET SegmentFiles(E)
  BY DEF WriterTypes
<1>2. FilesEvents(removed) \in SUBSET E
  BY <1>1 DEF FilesEvents, SegmentFiles
<1>3. u.lost \cup FilesEvents(removed) \in SUBSET E
  BY <1>2 DEF WriterTypes
<1>4. RemoveSealed(u, indices)
        = [u EXCEPT !.files = u.files \ removed,
                    !.lost = u.lost \cup FilesEvents(removed)]
  BY DEF RemoveSealed
<1> HIDE DEF removed
<1> QED BY <1>1, <1>3, <1>4 DEF WriterTypes

LEMMA EvictOldestType ==
    ASSUME NEW E, NEW u \in WriterTypes(E)
    PROVE  EvictOldest(u) \in WriterTypes(E)
<1> DEFINE k == EvictCount(u)
           less == RemoveSealed(u, {u.closed[i].index : i \in 1..k})
           rest == SubSeq(u.closed, k + 1, Len(u.closed))
           kept == [less EXCEPT !.closed = rest]
<1>1. less \in WriterTypes(E)
  BY RemoveSealedType
<1>2. rest \in Seq([index : Nat, size : Nat])
  <2>1. u.closed \in Seq([index : Nat, size : Nat])
    BY DEF WriterTypes
  <2> QED BY <2>1, EvictCountType, DropType
<1>3. EvictOldest(u) \in {u, kept, [kept EXCEPT !.state = "Finished"]}
  BY DEF EvictOldest
<1> HIDE DEF less, rest, k
<1>4. kept \in WriterTypes(E)
  BY <1>1, <1>2 DEF WriterTypes
<1> HIDE DEF kept
<1>5. [kept EXCEPT !.state = "Finished"] \in WriterTypes(E)
  BY <1>4 DEF WriterTypes
<1> QED BY <1>3, <1>4, <1>5

LEMMA NewWriterType ==
    ASSUME NEW E
    PROVE  NewWriter(<<>>, {}, 0) \in WriterTypes(E)
<1>1. OpenWriter(<<>>, {}, 0) \in WriterTypes(E)
  <2>1. Header \in Nat /\ 0 + 1 \in Nat \ {0}
    BY SizesAreNaturals
  <2>2. <<>> \in Seq([index : Nat, size : Nat])
    OBVIOUS
  <2> QED BY <2>1, <2>2 DEF OpenWriter, WriterTypes, SealKinds
<1> QED BY <1>1, EvictOldestType DEF NewWriter

LEMMA SealedType ==
    ASSUME NEW E, NEW u \in WriterTypes(E), NEW complete \in BOOLEAN
    PROVE  Sealed(u, complete) \in WriterTypes(E)
<1> DEFINE index == u.next - 1
           file  == [index |-> index, events |-> u.events, size |-> u.bytes,
                     complete |-> complete]
           files == {f \in u.files : f.index # index} \cup {file}
           closed == IF IsDisk
                     THEN Append(u.closed, [index |-> index, size |-> u.bytes])
                     ELSE u.closed
<1>1. index \in Nat /\ u.bytes \in Nat /\ u.events \in SUBSET E
  BY DEF WriterTypes
<1>2. files \in SUBSET SegmentFiles(E)
  <2>1. file \in SegmentFiles(E)
    BY <1>1 DEF SegmentFiles
  <2> QED BY <2>1 DEF WriterTypes
<1>3. closed \in Seq([index : Nat, size : Nat])
  <2>1. [index |-> index, size |-> u.bytes] \in [index : Nat, size : Nat]
    BY <1>1
  <2>2. u.closed \in Seq([index : Nat, size : Nat])
    BY DEF WriterTypes
  <2>3. Append(u.closed, [index |-> index, size |-> u.bytes])
          \in Seq([index : Nat, size : Nat])
    BY <2>1, <2>2, AppendProperties
  <2> QED BY <2>2, <2>3
<1>4. Sealed(u, complete)
        = [u EXCEPT !.files = files, !.closed = closed, !.events = {}]
  BY DEF Sealed
<1> HIDE DEF files, closed
<1> QED BY <1>2, <1>3, <1>4 DEF WriterTypes

LEMMA AbandonedType ==
    ASSUME NEW E, NEW u \in WriterTypes(E)
    PROVE  Abandoned(u) \in WriterTypes(E)
<1>1. u.lost \cup u.events \in SUBSET E
  BY DEF WriterTypes
<1> QED BY <1>1 DEF Abandoned, WriterTypes

LEMMA FreshSegmentType ==
    ASSUME NEW E, NEW u \in WriterTypes(E)
    PROVE  FreshSegment(u) \in WriterTypes(E)
BY SizesAreNaturals DEF FreshSegment, WriterTypes

(* A rotation, whatever its I/O calls return.                              *)
LEMMA RotateType ==
    ASSUME NEW E, NEW u \in WriterTypes(E), NEW kind \in SealKinds, NEW io
    PROVE  Rotate(u, kind, io) \in WriterTypes(E)
<1> DEFINE stamped == [u EXCEPT !.prior = kind, !.drainDue = FALSE,
                                !.rotateDue = FALSE, !.state = "Finished"]
           closed  == IF io.seal = "notfound" THEN Abandoned(stamped)
                      ELSE Sealed(stamped, Complete(u, kind))
           advanced == [closed EXCEPT !.next = @ + 1]
<1>1. stamped \in WriterTypes(E)
  BY DEF WriterTypes
<1>2. Complete(u, kind) \in BOOLEAN
  BY DEF Complete
<1>3. closed \in WriterTypes(E)
  BY <1>1, <1>2, AbandonedType, SealedType
<1>4. Rotate(u, kind, io)
        \in {u, stamped, advanced, EvictOldest(FreshSegment(advanced))}
  BY DEF Rotate
<1> HIDE DEF closed, stamped
<1>5. advanced \in WriterTypes(E)
  <2>1. closed.next + 1 \in Nat \ {0}
    BY <1>3 DEF WriterTypes
  <2> QED BY <1>3, <2>1 DEF WriterTypes
<1> HIDE DEF advanced
<1>6. EvictOldest(FreshSegment(advanced)) \in WriterTypes(E)
  BY <1>5, FreshSegmentType, EvictOldestType
<1> QED BY <1>1, <1>4, <1>5, <1>6

LEMMA WriteEncodedBatchType ==
    ASSUME NEW E, NEW u \in WriterTypes(E), NEW io, NEW batch,
           batch.events \in SUBSET E, batch.count \in Nat
    PROVE  /\ WriteEncodedBatch(u, batch, io) \in WriterTypes(E)
           /\ WriteLost(u, batch) \in WriterTypes(E)
<1> DEFINE written == [u EXCEPT !.events = @ \cup batch.events,
                                !.bytes = @ + batch.count, !.hasReal = TRUE]
           refused == [u EXCEPT !.dropped = @ + batch.count,
                                !.lost = @ \cup batch.events]
<1>1. /\ u.events \cup batch.events \in SUBSET E
      /\ u.lost \cup batch.events \in SUBSET E
      /\ u.bytes + batch.count \in Nat
      /\ u.dropped + batch.count \in Nat
  BY DEF WriterTypes
<1>2. written \in WriterTypes(E) /\ refused \in WriterTypes(E)
  BY <1>1 DEF WriterTypes
<1>3. WriteLost(u, batch) \in WriterTypes(E)
  BY <1>1 DEF WriteLost, WriterTypes
<1>4. WriteEncodedBatch(u, batch, io)
        \in {u, written, refused, Rotate(written, "Overflow", io)}
  BY DEF WriteEncodedBatch
<1> HIDE DEF written, refused
<1>5. Rotate(written, "Overflow", io) \in WriterTypes(E)
  BY <1>2, RotateType DEF SealKinds
<1> QED BY <1>2, <1>3, <1>4, <1>5

LEMMA DrainedType ==
    ASSUME NEW E, NEW u \in WriterTypes(E), NEW io
    PROVE  /\ Drained(u, io) \in WriterTypes(E)
           /\ UpdateSegmentMetadata(u) \in WriterTypes(E)
<1>1. Rotate(u, "Drained", io) \in WriterTypes(E)
  BY RotateType DEF SealKinds
<1>2. [u EXCEPT !.drainDue = FALSE] \in WriterTypes(E)
  BY DEF WriterTypes
<1>3. UpdateSegmentMetadata(u) \in WriterTypes(E)
  BY DEF WriterTypes, UpdateSegmentMetadata
<1> QED BY <1>1, <1>2, <1>3 DEF Drained

LEMMA FinalizeType ==
    ASSUME NEW E, NEW u \in WriterTypes(E), NEW io
    PROVE  Finalize(u, io) \in WriterTypes(E)
<1> DEFINE closing == [u EXCEPT !.state = "Finished", !.done = TRUE]
           sealed  == Sealed(closing, Complete(u, "Drained"))
<1>1. closing \in WriterTypes(E) /\ [u EXCEPT !.done = TRUE] \in WriterTypes(E)
  BY DEF WriterTypes
<1>2. Finalize(u, io) \in {[u EXCEPT !.done = TRUE], closing,
                           EvictOldest(closing),
                           EvictOldest(Abandoned(closing)),
                           EvictOldest(sealed)}
  BY DEF Finalize
<1> HIDE DEF closing
<1>3. Complete(u, "Drained") \in BOOLEAN
  BY DEF Complete
<1>4. sealed \in WriterTypes(E) /\ Abandoned(closing) \in WriterTypes(E)
  BY <1>1, <1>3, SealedType, AbandonedType
<1> HIDE DEF sealed
<1> QED BY <1>1, <1>2, <1>4, EvictOldestType

(* The events a writer holds are of the set its types name.                *)
LEMMA WriterEventsType ==
    ASSUME NEW E, NEW u \in WriterTypes(E)
    PROVE  WriterEvents(u) \in SUBSET E /\ u.lost \in SUBSET E
BY DEF WriterEvents, FilesEvents, WriterTypes, SegmentFiles

-----------------------------------------------------------------------------
(* No method of the writer forgets an event: what it was given it holds,   *)
(* has sealed, or has given up.                                            *)

(* The writer's accounts: no event is in two of its places, and while it   *)
(* is open no sealed segment has the index of the active one.              *)
WriterAccounts(u) ==
    /\ \A f, g \in u.files : f # g => f.events \cap g.events = {}
    /\ u.events \cap FilesEvents(u.files) = {}
    /\ u.lost \cap WriterEvents(u) = {}
    /\ u.state = "Active" => \A f \in u.files : f.index < u.next - 1

(* Every event the writer was ever given.                                  *)
Accounted(u) == WriterEvents(u) \cup u.lost

(* From u to v nothing is forgotten, nothing is brought back, and the      *)
(* events that are new are those of X.                                     *)
Accounts(u, v, X) ==
    /\ WriterAccounts(v)
    /\ Accounted(v) = Accounted(u) \cup X
    /\ u.lost \subseteq v.lost

LEMMA SameAccounts ==
    ASSUME NEW E, NEW u \in WriterTypes(E), WriterAccounts(u), NEW v,
           v.events = u.events, v.files = u.files, v.lost = u.lost,
           v.state = "Active" => u.state = "Active" /\ v.next = u.next
    PROVE  Accounts(u, v, {})
BY DEF Accounts, WriterAccounts, Accounted, WriterEvents

(* Eviction moves the events of the files it removes to the lost ones.     *)
LEMMA RemoveSealedAccounts ==
    ASSUME NEW E, NEW u \in WriterTypes(E), WriterAccounts(u), NEW indices
    PROVE  Accounts(u, RemoveSealed(u, indices), {})
<1> DEFINE removed == {f \in u.files : f.index \in indices}
           v == RemoveSealed(u, indices)
<1>1. /\ v.files = u.files \ removed /\ v.lost = u.lost \cup FilesEvents(removed)
      /\ v.events = u.events /\ v.state = u.state /\ v.next = u.next
  BY DEF RemoveSealed, WriterTypes
<1>2. removed \subseteq u.files
  OBVIOUS
<1> HIDE DEF removed, v
<1>3. FilesEvents(u.files) = FilesEvents(v.files) \cup FilesEvents(removed)
  BY <1>1, <1>2 DEF FilesEvents
<1>4. FilesEvents(v.files) \cap FilesEvents(removed) = {}
  <2>1. ASSUME NEW f \in u.files \ removed, NEW g \in removed
        PROVE  f.events \cap g.events = {}
    BY <1>2, <2>1 DEF WriterAccounts
  <2> QED BY <1>1, <2>1 DEF FilesEvents
<1>5. WriterAccounts(v)
  BY <1>1, <1>3, <1>4 DEF WriterAccounts, WriterEvents
<1>6. Accounted(v) = Accounted(u)
  BY <1>1, <1>3 DEF Accounted, WriterEvents
<1> QED BY <1>1, <1>5, <1>6 DEF Accounts, v

LEMMA AccountsTransitive ==
    ASSUME NEW u, NEW v, NEW x, NEW X, NEW Y, Accounts(u, v, X), Accounts(v, x, Y)
    PROVE  Accounts(u, x, X \cup Y)
BY DEF Accounts

LEMMA EvictOldestAccounts ==
    ASSUME NEW E, NEW u \in WriterTypes(E), WriterAccounts(u)
    PROVE  Accounts(u, EvictOldest(u), {})
<1> DEFINE k == EvictCount(u)
           evicted == {u.closed[i].index : i \in 1..k}
           less == RemoveSealed(u, evicted)
           rest == SubSeq(u.closed, k + 1, Len(u.closed))
           kept == [less EXCEPT !.closed = rest]
<1>1. less \in WriterTypes(E) /\ Accounts(u, less, {})
  BY RemoveSealedType, RemoveSealedAccounts
<1>2. EvictOldest(u) \in {u, kept, [kept EXCEPT !.state = "Finished"]}
  BY DEF EvictOldest
<1>3. rest \in Seq([index : Nat, size : Nat])
  <2>1. u.closed \in Seq([index : Nat, size : Nat])
    BY DEF WriterTypes
  <2> QED BY <2>1, EvictCountType, DropType
<1> HIDE DEF less, rest
<1>4. kept \in WriterTypes(E) /\ kept.events = less.events /\ kept.files = less.files
      /\ kept.lost = less.lost /\ kept.state = less.state /\ kept.next = less.next
  BY <1>1, <1>3 DEF WriterTypes
<1> HIDE DEF kept
<1>5. /\ [kept EXCEPT !.state = "Finished"].events = kept.events
      /\ [kept EXCEPT !.state = "Finished"].files = kept.files
      /\ [kept EXCEPT !.state = "Finished"].lost = kept.lost
      /\ [kept EXCEPT !.state = "Finished"].state = "Finished"
  BY <1>4 DEF WriterTypes
<1>6. WriterAccounts(less)
  BY <1>1 DEF Accounts
<1>7. Accounts(less, kept, {}) /\ Accounts(less, [kept EXCEPT !.state = "Finished"], {})
  <2>1. Accounts(less, kept, {})
    BY <1>1, <1>4, <1>6, SameAccounts
  <2> DEFINE fin == [kept EXCEPT !.state = "Finished"]
  <2>2. fin.events = less.events /\ fin.files = less.files /\ fin.lost = less.lost /\ fin.state # "Active"
    BY <1>4, <1>5
  <2> HIDE DEF fin
  <2>3. Accounts(less, fin, {})
    BY <1>1, <1>6, <2>2, SameAccounts
  <2> QED BY <2>1, <2>3 DEF fin
<1>8. Accounts(u, kept, {} \cup {}) /\ Accounts(u, [kept EXCEPT !.state = "Finished"], {} \cup {})
  BY <1>1, <1>7, AccountsTransitive
<1>9. Accounts(u, u, {})
  BY SameAccounts
<1> QED BY <1>2, <1>8, <1>9

(* A seal moves the active segment's events to a new file.                 *)
LEMMA SealedAccounts ==
    ASSUME NEW E, NEW u \in WriterTypes(E), WriterAccounts(u), NEW complete \in BOOLEAN,
           \A f \in u.files : f.index < u.next - 1, u.state = "Finished"
    PROVE  /\ Accounts(u, Sealed(u, complete), {})
           /\ Sealed(u, complete).next = u.next /\ Sealed(u, complete).events = {}
           /\ \A f \in Sealed(u, complete).files : f.index < u.next
           /\ Sealed(u, complete).state = "Finished"
<1> DEFINE v == Sealed(u, complete)
           file  == [index |-> u.next - 1, events |-> u.events, size |-> u.bytes,
                     complete |-> complete]
<1>1. /\ v.files = {f \in u.files : f.index # u.next - 1} \cup {file}
      /\ v.lost = u.lost /\ v.events = {} /\ v.next = u.next /\ v.state = u.state
  BY DEF Sealed, WriterTypes
<1>2. u.next - 1 \in Nat /\ u.next \in Nat /\ \A f \in u.files : f.index \in Nat
  BY DEF WriterTypes, SegmentFiles
<1>3. {f \in u.files : f.index # u.next - 1} = u.files
  BY <1>2
<1>4. v.files = u.files \cup {file} /\ file.events = u.events /\ file.index = u.next - 1
  BY <1>1, <1>3
<1> HIDE DEF v, file
<1>5. FilesEvents(v.files) = FilesEvents(u.files) \cup u.events
  BY <1>4 DEF FilesEvents
<1>6. \A f \in u.files : f.events \cap u.events = {}
  BY DEF WriterAccounts, FilesEvents
<1>7. \A f, g \in v.files : f # g => f.events \cap g.events = {}
  BY <1>4, <1>6 DEF WriterAccounts
<1>8. WriterAccounts(v)
  BY <1>1, <1>5, <1>7 DEF WriterAccounts, WriterEvents
<1>9. Accounted(v) = Accounted(u)
  BY <1>1, <1>5 DEF Accounted, WriterEvents
<1>10. \A f \in v.files : f.index < u.next
  BY <1>2, <1>4
<1> QED BY <1>1, <1>8, <1>9, <1>10 DEF Accounts, v

LEMMA AbandonedAccounts ==
    ASSUME NEW E, NEW u \in WriterTypes(E), WriterAccounts(u)
    PROVE  /\ Accounts(u, Abandoned(u), {})
           /\ Abandoned(u).next = u.next /\ Abandoned(u).files = u.files
           /\ Abandoned(u).events = {} /\ Abandoned(u).state = u.state
<1> DEFINE v == Abandoned(u)
<1>1. /\ v.files = u.files /\ v.lost = u.lost \cup u.events /\ v.events = {}
      /\ v.next = u.next /\ v.state = u.state
  BY DEF Abandoned, WriterTypes
<1> HIDE DEF v
<1>2. WriterAccounts(v) /\ Accounted(v) = Accounted(u)
  BY <1>1 DEF WriterAccounts, WriterEvents, Accounted
<1> QED BY <1>1, <1>2 DEF Accounts, v

(* A rotation, whatever its I/O calls return, keeps the accounts.          *)
LEMMA RotateAccounts ==
    ASSUME NEW E, NEW u \in WriterTypes(E), WriterAccounts(u), NEW kind \in SealKinds, NEW io
    PROVE  Accounts(u, Rotate(u, kind, io), {})
<1> DEFINE stamped == [u EXCEPT !.prior = kind, !.drainDue = FALSE,
                                !.rotateDue = FALSE, !.state = "Finished"]
           closed  == IF io.seal = "notfound" THEN Abandoned(stamped)
                      ELSE Sealed(stamped, Complete(u, kind))
           advanced == [closed EXCEPT !.next = @ + 1]
           fresh == FreshSegment(advanced)
<1>1. Accounts(u, u, {})
  BY SameAccounts
<1>2. CASE u.state = "Finished"
  BY <1>1, <1>2 DEF Rotate
<1>3. CASE u.state # "Finished"
  <2>0. u.state = "Active" /\ \A f \in u.files : f.index < u.next - 1
    BY <1>3 DEF WriterTypes, WriterAccounts
  <2>1. /\ stamped \in WriterTypes(E) /\ stamped.events = u.events /\ stamped.files = u.files
        /\ stamped.lost = u.lost /\ stamped.state = "Finished" /\ stamped.next = u.next
    BY DEF WriterTypes
  <2>2. Complete(u, kind) \in BOOLEAN
    BY DEF Complete
  <2>3. Rotate(u, kind, io) \in {stamped, advanced, EvictOldest(fresh)}
    BY <1>3 DEF Rotate
  <2> HIDE DEF stamped
  <2>4. Accounts(u, stamped, {}) /\ WriterAccounts(stamped)
    <3>1. Accounts(u, stamped, {})
      BY <2>1, SameAccounts
    <3> QED BY <3>1 DEF Accounts
  <2>5. /\ closed \in WriterTypes(E) /\ Accounts(stamped, closed, {}) /\ closed.next = u.next
        /\ closed.events = {} /\ \A f \in closed.files : f.index < u.next
    <3>1. u.next \in Nat /\ \A f \in u.files : f.index \in Nat
      BY DEF WriterTypes, SegmentFiles
    <3>2. CASE io.seal = "notfound"
      <4>1. /\ Accounts(stamped, Abandoned(stamped), {}) /\ Abandoned(stamped).next = stamped.next
            /\ Abandoned(stamped).files = stamped.files /\ Abandoned(stamped).events = {}
            /\ Abandoned(stamped) \in WriterTypes(E)
        BY <2>1, <2>4, AbandonedAccounts, AbandonedType
      <4>2. \A f \in u.files : f.index < u.next
        BY <2>0, <3>1
      <4> QED BY <2>1, <3>2, <4>1, <4>2
    <3>3. CASE io.seal # "notfound"
      <4>1. \A f \in stamped.files : f.index < stamped.next - 1
        BY <2>0, <2>1
      <4> QED BY <2>1, <2>2, <2>4, <3>3, <4>1, SealedAccounts, SealedType
    <3> QED BY <3>2, <3>3
  <2> HIDE DEF closed
  <2>6. Accounts(u, closed, {})
    <3>1. Accounts(u, closed, {} \cup {})
      BY <2>4, <2>5, AccountsTransitive
    <3> QED BY <3>1
  <2>7. /\ advanced \in WriterTypes(E) /\ advanced.events = closed.events /\ advanced.files = closed.files
        /\ advanced.lost = closed.lost /\ advanced.next = u.next + 1 /\ advanced.state = closed.state
    <3>1. closed.next + 1 \in Nat \ {0}
      BY <2>5 DEF WriterTypes
    <3> QED BY <2>5, <3>1 DEF WriterTypes
  <2>8. closed.state = "Finished"
    BY <2>1, <2>2, <2>4, <2>0, AbandonedAccounts, SealedAccounts DEF closed
  <2> HIDE DEF advanced
  <2>9. Accounts(u, advanced, {})
    <3>1. WriterAccounts(closed)
      BY <2>6 DEF Accounts
    <3>2. Accounts(closed, advanced, {})
      BY <2>5, <2>7, <2>8, <3>1, SameAccounts
    <3>3. Accounts(u, advanced, {} \cup {})
      BY <2>6, <3>2, AccountsTransitive
    <3> QED BY <3>3
  <2>10. /\ fresh \in WriterTypes(E) /\ fresh.events = advanced.events /\ fresh.files = advanced.files
         /\ fresh.lost = advanced.lost /\ fresh.next = advanced.next /\ fresh.state = "Active"
    <3>1. fresh \in WriterTypes(E)
      BY <2>7, FreshSegmentType
    <3> QED BY <2>7, <3>1 DEF FreshSegment, WriterTypes
  <2> HIDE DEF fresh
  <2>11. \A f \in fresh.files : f.index < fresh.next - 1
    <3>1. u.next \in Nat
      BY DEF WriterTypes
    <3>2. fresh.next - 1 = u.next
      BY <2>7, <2>10, <3>1
    <3> QED BY <2>5, <2>7, <2>10, <3>2
  <2>12. WriterAccounts(fresh) /\ Accounted(fresh) = Accounted(advanced)
    <3>1. WriterAccounts(advanced)
      BY <2>9 DEF Accounts
    <3> QED BY <2>10, <2>11, <3>1 DEF WriterAccounts, Accounted, WriterEvents
  <2>13. Accounts(u, fresh, {})
    BY <2>9, <2>10, <2>12 DEF Accounts
  <2>14. Accounts(u, EvictOldest(fresh), {})
    <3>1. Accounts(fresh, EvictOldest(fresh), {})
      BY <2>10, <2>12, EvictOldestAccounts
    <3>2. Accounts(u, EvictOldest(fresh), {} \cup {})
      BY <2>13, <3>1, AccountsTransitive
    <3> QED BY <3>2
  <2> QED BY <2>3, <2>4, <2>9, <2>14
<1> QED BY <1>2, <1>3

(* A batch of new events: written, or counted as dropped.                  *)
LEMMA WriteAccounts ==
    ASSUME NEW E, NEW u \in WriterTypes(E), WriterAccounts(u), NEW io, NEW batch,
           batch.events \in SUBSET E, batch.count \in Nat, batch.count = 0 => batch.events = {},
           batch.events \cap Accounted(u) = {}
    PROVE  /\ Accounts(u, WriteEncodedBatch(u, batch, io), batch.events)
           /\ Accounts(u, WriteLost(u, batch), batch.events)
<1> DEFINE written == [u EXCEPT !.events = @ \cup batch.events,
                                !.bytes = @ + batch.count, !.hasReal = TRUE]
           refused == [u EXCEPT !.dropped = @ + batch.count,
                                !.lost = @ \cup batch.events]
           lost == WriteLost(u, batch)
<1>1. /\ u.events \cup batch.events \in SUBSET E
      /\ u.lost \cup batch.events \in SUBSET E
      /\ u.bytes + batch.count \in Nat
      /\ u.dropped + batch.count \in Nat
  BY DEF WriterTypes
<1>2. /\ written \in WriterTypes(E) /\ written.events = u.events \cup batch.events
      /\ written.files = u.files /\ written.lost = u.lost /\ written.state = u.state
      /\ written.next = u.next
  BY <1>1 DEF WriterTypes
<1>3. /\ refused.events = u.events /\ refused.files = u.files /\ refused.state = u.state
      /\ refused.lost = u.lost \cup batch.events /\ refused.next = u.next
  BY <1>1 DEF WriterTypes
<1>4. /\ lost.events = u.events /\ lost.files = u.files /\ lost.state = u.state
      /\ lost.lost = u.lost \cup batch.events /\ lost.next = u.next
  BY <1>1 DEF WriterTypes, WriteLost
<1>5. \/ WriteEncodedBatch(u, batch, io) = u /\ batch.count = 0
      \/ WriteEncodedBatch(u, batch, io) \in {written, refused, Rotate(written, "Overflow", io)}
  BY DEF WriteEncodedBatch
<1> HIDE DEF written, refused, lost
<1>6. Accounts(u, written, batch.events)
  BY <1>2 DEF Accounts, WriterAccounts, Accounted, WriterEvents
<1>7. Accounts(u, refused, batch.events)
  BY <1>3 DEF Accounts, WriterAccounts, Accounted, WriterEvents
<1>8. Accounts(u, lost, batch.events)
  BY <1>4 DEF Accounts, WriterAccounts, Accounted, WriterEvents
<1>9. Accounts(u, Rotate(written, "Overflow", io), batch.events)
  <2>1. Accounts(written, Rotate(written, "Overflow", io), {})
    BY <1>2, <1>6, RotateAccounts DEF SealKinds, Accounts
  <2>2. Accounts(u, Rotate(written, "Overflow", io), batch.events \cup {})
    BY <1>6, <2>1, AccountsTransitive
  <2>3. batch.events \cup {} = batch.events
    OBVIOUS
  <2> QED BY <2>2, <2>3
<1>10. batch.count = 0 => Accounts(u, u, batch.events)
  BY SameAccounts
<1> QED BY <1>5, <1>6, <1>7, <1>8, <1>9, <1>10 DEF lost

LEMMA DrainedAccounts ==
    ASSUME NEW E, NEW u \in WriterTypes(E), WriterAccounts(u), NEW io
    PROVE  /\ Accounts(u, Drained(u, io), {})
           /\ Accounts(u, UpdateSegmentMetadata(u), {})
           /\ Accounts(u, [u EXCEPT !.drainDue = TRUE], {})
           /\ Accounts(u, [u EXCEPT !.rotateDue = TRUE], {})
           /\ Accounts(u, u, {})
<1> DEFINE a == [u EXCEPT !.drainDue = FALSE]
           b == UpdateSegmentMetadata(u)
           c == [u EXCEPT !.drainDue = TRUE]
           d == [u EXCEPT !.rotateDue = TRUE]
<1>1. /\ a.events = u.events /\ a.files = u.files /\ a.lost = u.lost /\ a.state = u.state /\ a.next = u.next
      /\ b.events = u.events /\ b.files = u.files /\ b.lost = u.lost /\ b.state = u.state /\ b.next = u.next
  BY DEF WriterTypes, UpdateSegmentMetadata
<1>2. /\ c.events = u.events /\ c.files = u.files /\ c.lost = u.lost /\ c.state = u.state /\ c.next = u.next
      /\ d.events = u.events /\ d.files = u.files /\ d.lost = u.lost /\ d.state = u.state /\ d.next = u.next
  BY DEF WriterTypes
<1>3. Drained(u, io) \in {u, Rotate(u, "Drained", io), a}
  BY DEF Drained
<1> HIDE DEF a, b, c, d
<1>4. Accounts(u, u, {}) /\ Accounts(u, a, {}) /\ Accounts(u, b, {}) /\ Accounts(u, c, {}) /\ Accounts(u, d, {})
  BY <1>1, <1>2, SameAccounts
<1>5. Accounts(u, Rotate(u, "Drained", io), {})
  BY RotateAccounts DEF SealKinds
<1> QED BY <1>3, <1>4, <1>5 DEF b, c, d

LEMMA FinalizeAccounts ==
    ASSUME NEW E, NEW u \in WriterTypes(E), WriterAccounts(u), NEW io
    PROVE  Accounts(u, Finalize(u, io), {})
<1> DEFINE closing == [u EXCEPT !.state = "Finished", !.done = TRUE]
           marked == [u EXCEPT !.done = TRUE]
           sealed  == Sealed(closing, Complete(u, "Drained"))
<1>1. /\ closing \in WriterTypes(E) /\ closing.events = u.events /\ closing.files = u.files
      /\ closing.lost = u.lost /\ closing.state = "Finished" /\ closing.next = u.next
      /\ marked.events = u.events /\ marked.files = u.files
      /\ marked.lost = u.lost /\ marked.state = u.state /\ marked.next = u.next
  BY DEF WriterTypes
<1>2. \/ Finalize(u, io) \in {marked, closing, EvictOldest(closing), EvictOldest(Abandoned(closing))}
      \/ u.state # "Finished" /\ Finalize(u, io) = EvictOldest(sealed)
  BY DEF Finalize
<1> HIDE DEF closing, marked
<1>3. Accounts(u, closing, {}) /\ Accounts(u, marked, {}) /\ WriterAccounts(closing)
  <2>1. Accounts(u, closing, {}) /\ Accounts(u, marked, {})
    BY <1>1, SameAccounts
  <2> QED BY <2>1 DEF Accounts
<1>4. ASSUME NEW v \in WriterTypes(E), Accounts(u, v, {})
      PROVE  Accounts(u, EvictOldest(v), {})
  <2>1. Accounts(v, EvictOldest(v), {})
    BY <1>4, EvictOldestAccounts DEF Accounts
  <2>2. Accounts(u, EvictOldest(v), {} \cup {})
    BY <1>4, <2>1, AccountsTransitive
  <2> QED BY <2>2
<1>5. Abandoned(closing) \in WriterTypes(E) /\ Accounts(u, Abandoned(closing), {})
  <2>1. Accounts(closing, Abandoned(closing), {}) /\ Abandoned(closing) \in WriterTypes(E)
    BY <1>1, <1>3, AbandonedAccounts, AbandonedType
  <2>2. Accounts(u, Abandoned(closing), {} \cup {})
    BY <1>3, <2>1, AccountsTransitive
  <2> QED BY <2>1, <2>2
<1>6. ASSUME u.state # "Finished"
      PROVE  sealed \in WriterTypes(E) /\ Accounts(u, sealed, {})
  <2>1. \A f \in closing.files : f.index < closing.next - 1
    BY <1>1, <1>6 DEF WriterTypes, WriterAccounts
  <2>2. Complete(u, "Drained") \in BOOLEAN
    BY DEF Complete
  <2>3. Accounts(closing, sealed, {}) /\ sealed \in WriterTypes(E)
    BY <1>1, <1>3, <2>1, <2>2, SealedAccounts, SealedType
  <2>4. Accounts(u, sealed, {} \cup {})
    BY <1>3, <2>3, AccountsTransitive
  <2> QED BY <2>3, <2>4
<1> HIDE DEF sealed
<1> QED BY <1>1, <1>2, <1>3, <1>4, <1>5, <1>6

LEMMA NewWriterAccounts ==
    ASSUME NEW E
    PROVE  /\ WriterAccounts(NewWriter(<<>>, {}, 0))
           /\ Accounted(NewWriter(<<>>, {}, 0)) = {}
<1> DEFINE o == OpenWriter(<<>>, {}, 0)
<1>1. o \in WriterTypes(E)
  <2>1. Header \in Nat /\ 0 + 1 \in Nat \ {0}
    BY SizesAreNaturals
  <2>2. <<>> \in Seq([index : Nat, size : Nat])
    OBVIOUS
  <2> QED BY <2>1, <2>2 DEF OpenWriter, WriterTypes, SealKinds
<1>2. o.events = {} /\ o.files = {} /\ o.lost = {}
  BY DEF OpenWriter
<1> HIDE DEF o
<1>3. WriterAccounts(o) /\ Accounted(o) = {}
  BY <1>2 DEF WriterAccounts, Accounted, WriterEvents, FilesEvents
<1>4. Accounts(o, EvictOldest(o), {})
  BY <1>1, <1>3, EvictOldestAccounts
<1> QED BY <1>3, <1>4 DEF Accounts, NewWriter, o

-----------------------------------------------------------------------------
(* The collector                                                           *)

(* What a push does to the collector's queue: it stays within its capacity *)
(* and gains no event but those of the batch.                              *)
LEMMA PushedFacts ==
    ASSUME NEW q \in Seq(Batches), Len(q) <= Capacity, NEW b \in Batches
    PROVE  /\ Pushed(q, b) \in Seq(Batches)
           /\ Len(Pushed(q, b)) <= Capacity
           /\ QueueEvents(Pushed(q, b)) \subseteq QueueEvents(q) \cup b.events
           /\ Displaced(q) \in SUBSET Events
<1> USE SizesAssumption
<1>1. CASE Len(q) = Capacity
  <2>1. q # <<>> /\ Tail(q) \in Seq(Batches) /\ Len(Tail(q)) = Len(q) - 1
    BY <1>1
  <2>2. Pushed(q, b) = Append(Tail(q), b)
    BY <1>1 DEF Pushed
  <2>3. Len(Pushed(q, b)) = Len(q) /\ Pushed(q, b) \in Seq(Batches)
    BY <2>1, <2>2
  <2>4. \A i \in 1..Len(q) :
          Pushed(q, b)[i] = IF i = Len(q) THEN b ELSE q[i + 1]
    <3>1. \A i \in 1..(Len(q) - 1) : Tail(q)[i] = q[i + 1]
      BY <2>1, HeadTailProperties
    <3>2. /\ \A i \in 1..Len(Tail(q)) : Append(Tail(q), b)[i] = Tail(q)[i]
          /\ Append(Tail(q), b)[Len(Tail(q)) + 1] = b
      BY <2>1, AppendProperties
    <3>3. SUFFICES ASSUME NEW i \in 1..Len(q)
                   PROVE  Append(Tail(q), b)[i]
                            = IF i = Len(q) THEN b ELSE q[i + 1]
      BY <2>2
    <3>4. CASE i = Len(q)
      BY <3>2, <3>4, <2>1
    <3>5. CASE i # Len(q)
      <4>0. Len(q) \in Nat /\ i \in Nat /\ 1 <= i /\ i <= Len(q)
        BY <3>3, LenProperties
      <4>1. i \in 1..(Len(q) - 1)
        BY <4>0, <3>5
      <4>2. i \in 1..Len(Tail(q))
        BY <4>1, <2>1
      <4>3. Append(Tail(q), b)[i] = Tail(q)[i] /\ Tail(q)[i] = q[i + 1]
        BY <4>1, <4>2, <3>1, <3>2
      <4> QED BY <4>3, <3>5
    <3> QED BY <3>4, <3>5
  <2>5. QueueEvents(Pushed(q, b)) \subseteq QueueEvents(q) \cup b.events
    <3>1. SUFFICES ASSUME NEW i \in 1..Len(q), NEW n \in Pushed(q, b)[i].events
                   PROVE  n \in QueueEvents(q) \cup b.events
      BY <2>3 DEF QueueEvents
    <3>2. CASE i = Len(q)
      BY <3>1, <3>2, <2>4
    <3>3. CASE i # Len(q)
      <4>1. i + 1 \in 1..Len(q) /\ n \in q[i + 1].events
        BY <3>1, <3>3, <2>4
      <4> QED BY <4>1 DEF QueueEvents
    <3> QED BY <3>2, <3>3
  <2>6. Displaced(q) \in SUBSET Events
    <3>1. Head(q) \in Batches
      BY <2>1
    <3> QED BY <3>1, <1>1 DEF Displaced, Batches
  <2> QED BY <2>3, <2>5, <2>6, <1>1
<1>2. CASE Len(q) # Capacity
  <2>1. Pushed(q, b) = Append(q, b) /\ Displaced(q) = {}
    BY <1>2 DEF Pushed, Displaced
  <2>2. Pushed(q, b) \in Seq(Batches) /\ Len(Pushed(q, b)) = Len(q) + 1
    BY <2>1
  <2>3. \A i \in 1..(Len(q) + 1) :
          Pushed(q, b)[i] = IF i = Len(q) + 1 THEN b ELSE q[i]
    BY <2>1
  <2>4. QueueEvents(Pushed(q, b)) \subseteq QueueEvents(q) \cup b.events
    BY <2>2, <2>3 DEF QueueEvents
  <2> QED BY <2>1, <2>2, <2>4, <1>2
<1> QED BY <1>1, <1>2

LEMMA EmptyBatchType == EmptyBatch \in Batches
BY DEF EmptyBatch, Batches

(* The batch a thread extends stays a batch while the log has room.        *)
LEMMA ExtendedType ==
    ASSUME NEW b \in Batches, NEW wrote \in BOOLEAN, NEW n \in Nat,
           wrote => n \in Events
    PROVE  /\ Extended(b, wrote, n) \in Batches
           /\ Extended(b, wrote, n).events
                = IF wrote THEN b.events \cup {n} ELSE b.events
           /\ Extended(b, wrote, n).count
                = IF wrote THEN b.count + 1 ELSE b.count
<1>1. CASE wrote
  <2>1. b.events \cup {n} \in SUBSET Events /\ b.count + 1 \in Nat
    BY <1>1 DEF Batches
  <2>2. Extended(b, wrote, n) \in Batches
    BY <1>1, <2>1 DEF Batches, Extended
  <2> QED BY <1>1, <2>2 DEF Batches, Extended
<1>2. CASE ~wrote
  BY <1>2 DEF Extended
<1> QED BY <1>1, <1>2

(* accept_flush keeps the types of the collector and of the history.       *)
LEMMA AcceptFlushType ==
    ASSUME BusTypeOK, NEW r \in Recorders, NEW b \in Batches, AcceptFlush(r, b)
    PROVE  /\ collector' \in [Recorders -> Seq(Batches)]
           /\ \A s \in Recorders : Len(collector'[s]) <= Capacity
           /\ gone' \in SUBSET Events
           /\ \A s \in Recorders : QueueEvents(collector'[s])
                \subseteq QueueEvents(collector[s]) \cup b.events
<1>1. /\ collector[r] \in Seq(Batches)
      /\ Len(collector[r]) <= Capacity
  BY DEF BusTypeOK
<1>2. collector' = [collector EXCEPT ![r] = Pushed(collector[r], b)]
  BY DEF AcceptFlush
<1>3. /\ Pushed(collector[r], b) \in Seq(Batches)
      /\ Len(Pushed(collector[r], b)) <= Capacity
      /\ QueueEvents(Pushed(collector[r], b))
           \subseteq QueueEvents(collector[r]) \cup b.events
      /\ Displaced(collector[r]) \in SUBSET Events
  BY <1>1, PushedFacts
<1>4. \A s \in Recorders : collector'[s]
        = IF s = r THEN Pushed(collector[r], b) ELSE collector[s]
  BY <1>2 DEF BusTypeOK
<1>5. collector' \in [Recorders -> Seq(Batches)]
  BY <1>2, <1>3 DEF BusTypeOK
<1>6. \A s \in Recorders : Len(collector'[s]) <= Capacity
  BY <1>3, <1>4 DEF BusTypeOK
<1>7. gone' \in SUBSET Events
  BY <1>3 DEF BusTypeOK, AcceptFlush
<1>8. \A s \in Recorders : QueueEvents(collector'[s])
        \subseteq QueueEvents(collector[s]) \cup b.events
  BY <1>3, <1>4
<1> QED BY <1>5, <1>6, <1>7, <1>8

(* Every step of an application thread keeps the types of the bus.         *)
LEMMA ThreadStepType ==
    ASSUME BusTypeOK, NEW t \in Threads, ThreadStep(t)
    PROVE  BusTypeOK'
<1> USE DEF BusTypeOK
<1>1. t \in Buffers /\ via[t] \in Recorders /\ buf[t] \in Batches
  BY DEF Buffers
<1>2. EmptyBatch \in Batches
  BY EmptyBatchType
<1>3. ASSUME NEW r \in Recorders, BeginRecord(t, r) PROVE BusTypeOK'
  BY <1>3 DEF BeginRecord, ThreadSteps
<1>4. CASE RecordRefused(t)
  BY <1>4 DEF RecordRefused, ThreadSteps
<1>5. ASSUME NEW wrote \in BOOLEAN, Encode(t, wrote) PROVE BusTypeOK'
  <2> DEFINE b == Extended(buf[t], wrote, Len(log) + 1)
  <2>1. Len(log) \in Nat /\ (wrote => Len(log) + 1 \in Events)
    BY <1>5, SizesAssumption DEF Encode, Events
  <2>2. b \in Batches
    <3>1. Len(log) + 1 \in Nat /\ (wrote => Len(log) + 1 \in Events)
      BY <2>1
    <3>2. \A c \in Batches, x \in BOOLEAN, n \in Nat :
            (x => n \in Events) => Extended(c, x, n) \in Batches
      BY ExtendedType
    <3> QED BY <3>1, <3>2, <1>1
  <2>3. buf' \in [Buffers -> Batches]
    BY <1>5, <1>1, <2>2 DEF Encode
  <2>4. owner' \in [Buffers -> Recorders \cup {0}]
    BY <1>5, <1>1 DEF Encode, SetCollector
  <2>5. first' \in [Threads -> BOOLEAN] /\ seen' \in [Threads -> Nat]
    BY <1>5, <1>1 DEF Encode
  <2>6. pc' \in [Threads -> ThreadSteps]
    BY <1>5 DEF Encode, AfterUnlock, ThreadSteps
  <2>7. /\ log' \in Seq([thread : Buffers, rec : Recorders])
        /\ Len(log') <= MaxEvents
    <3>1. CASE wrote
      <4>1. log' = Append(log, [thread |-> t, rec |-> via[t]])
        BY <1>5, <3>1 DEF Encode
      <4>2. [thread |-> t, rec |-> via[t]] \in [thread : Buffers, rec : Recorders]
        BY <1>1
      <4>3. Len(log) < MaxEvents
        BY <1>5, <3>1 DEF Encode
      <4>4. Len(log') = Len(log) + 1
            /\ log' \in Seq([thread : Buffers, rec : Recorders])
        BY <4>1, <4>2, AppendProperties
      <4> QED BY <4>3, <4>4, <2>1, SizesAssumption
    <3>2. CASE ~wrote
      BY <1>5, <3>2 DEF Encode
    <3> QED BY <3>1, <3>2
  <2>8. UNCHANGED <<state, drainEpoch, tlBuffers, collector, flushEpoch,
                    poisoned, via, gone>>
    BY <1>5 DEF Encode
  <2> QED BY <2>3, <2>4, <2>5, <2>6, <2>7, <2>8
<1>6. CASE SelfFlush(t)
  <2>1. AcceptFlush(via[t], buf[t])
    BY <1>6 DEF SelfFlush
  <2>2. /\ collector' \in [Recorders -> Seq(Batches)]
        /\ \A s \in Recorders : Len(collector'[s]) <= Capacity
        /\ gone' \in SUBSET Events
    BY <2>1, <1>1, AcceptFlushType
  <2>3. buf' \in [Buffers -> Batches]
    BY <1>6, <1>1, <1>2 DEF SelfFlush, Reset
  <2> QED BY <1>6, <2>2, <2>3 DEF SelfFlush, ThreadSteps
<1>7. CASE SelfStamp(t)
  BY <1>7, <1>1 DEF SelfStamp, AfterUnlock, ThreadSteps
<1>8. CASE Register(t)
  BY <1>8, <1>1 DEF Register, ThreadSteps
<1>9. CASE EncodePanics(t)
  <2>1. buf' \in [Buffers -> Batches]
    BY <1>9, <1>1 DEF EncodePanics, Batches
  <2>2. owner' \in [Buffers -> Recorders \cup {0}]
    BY <1>9, <1>1 DEF EncodePanics, SetCollector
  <2> QED BY <1>9, <2>1, <2>2 DEF EncodePanics, ThreadSteps
<1>10. CASE BeginExit(t)
  BY <1>10 DEF BeginExit, ThreadSteps
<1>11. CASE FinishExit(t)
  <2>1. pc' \in [Threads -> ThreadSteps]
    BY <1>11 DEF FinishExit, ThreadSteps
  <2>2. CASE buf[t].count > 0
    <3>1. buf' \in [Buffers -> Batches]
      BY <1>11, <1>1, <1>2, <2>2 DEF FinishExit, Reset
    <3>2. CASE owner[t] # 0
      <4>1. owner[t] \in Recorders /\ AcceptFlush(owner[t], buf[t])
        BY <1>11, <1>1, <2>2, <3>2 DEF FinishExit
      <4>2. /\ collector' \in [Recorders -> Seq(Batches)]
            /\ \A s \in Recorders : Len(collector'[s]) <= Capacity
            /\ gone' \in SUBSET Events
        BY <4>1, <1>1, AcceptFlushType
      <4> QED BY <1>11, <2>1, <3>1, <4>2 DEF FinishExit
    <3>3. CASE owner[t] = 0
      <4>1. gone' \in SUBSET Events /\ UNCHANGED collector
        BY <1>11, <1>1, <2>2, <3>3 DEF FinishExit, Batches
      <4> QED BY <1>11, <2>1, <3>1, <4>1 DEF FinishExit
    <3> QED BY <3>2, <3>3
  <2>3. CASE ~(buf[t].count > 0)
    BY <1>11, <2>1, <2>3 DEF FinishExit
  <2> QED BY <2>2, <2>3
<1> QED BY <1>3, <1>4, <1>5, <1>6, <1>7, <1>8, <1>9, <1>10, <1>11
        DEF ThreadStep

(* The lifecycle calls keep the types of the bus.                          *)
LEMMA LifecycleStepType ==
    ASSUME BusTypeOK, LifecycleStep
    PROVE  BusTypeOK'
<1>1. PICK r \in Recorders : Enable(r) \/ Disable(r) \/ DisablePermanently(r)
  BY DEF LifecycleStep
<1>2. PICK s \in States : SetState(r, s)
  BY <1>1 DEF Enable, Disable, DisablePermanently, States
<1>3. state' \in [Recorders -> States]
  BY <1>2 DEF SetState, BusTypeOK
<1> QED BY <1>2, <1>3 DEF SetState, BusTypeOK

(* Unless a step touches the bus its types stay.                           *)
LEMMA BusUnchangedType ==
    ASSUME BusTypeOK, UNCHANGED busVars
    PROVE  BusTypeOK'
BY DEF BusTypeOK, busVars

(* The events a drain has to move out are events.                          *)
LEMMA DrainableType ==
    ASSUME BusTypeOK, NEW r \in Recorders
    PROVE  Drainable(r) \in SUBSET Events
<1>1. Len(log) \in Nat /\ Len(log) <= MaxEvents
  BY DEF BusTypeOK
<1>2. 1..Len(log) \subseteq Events
  BY <1>1, SizesAssumption DEF Events
<1> QED BY <1>2 DEF Drainable

(* Every step of the flush thread keeps the types of the bus and its own.  *)
LEMMA FlushStepType ==
    ASSUME BusTypeOK, FlushTypeOK, FlushThreadStep
    PROVE  BusTypeOK' /\ FlushTypeOK'
<1>1. /\ live \in Recorders
      /\ Flusher \in Buffers
      /\ Threads \subseteq Buffers
      /\ EmptyBatch \in Batches
  BY EmptyBatchType DEF FlushTypeOK, Buffers
<1>2. ASSUME NEW stop \in BOOLEAN, NEW metadata \in BOOLEAN,
             Tick(stop, metadata)
      PROVE  BusTypeOK' /\ FlushTypeOK'
  <2>1. drainEpoch' \in [Recorders -> Nat]
    <3>1. \/ drainEpoch' = [drainEpoch EXCEPT ![live] = drainEpoch[live] + 1]
          \/ drainEpoch' = drainEpoch
      BY <1>2 DEF Tick
    <3>2. drainEpoch[live] + 1 \in Nat
      BY <1>1 DEF BusTypeOK
    <3> QED BY <3>1, <3>2, <1>1 DEF BusTypeOK
  <2>2. barrier' \in SUBSET Events
    <3>1. Drainable(live) \in SUBSET Events
      BY <1>1, DrainableType
    <3> QED BY <1>2, <3>1 DEF Tick, FlushTypeOK
  <2>3. BusTypeOK'
    BY <1>2, <2>1 DEF Tick, BusTypeOK
  <2>4. exit' \in BOOLEAN /\ doDrain' \in BOOLEAN
        /\ drainState' \in {"Idle", "EpochBumped"}
    BY <1>2 DEF Tick, DrainsNow, NextDrainState
  <2>5. fpc' \in FlushSteps
    BY <1>2 DEF Tick, FlushSteps
  <2>6. UNCHANGED <<live, todo, cur, stopSent, archive>>
    BY <1>2 DEF Tick
  <2> QED BY <2>2, <2>3, <2>4, <2>5, <2>6 DEF FlushTypeOK
<1>3. CASE Snapshot
  <2>1. BusTypeOK'
    BY <1>3, BusUnchangedType DEF Snapshot
  <2> QED BY <1>3, <1>1, <2>1 DEF Snapshot, FlushTypeOK, BusTypeOK, FlushSteps
<1>4. ASSUME NEW t \in Threads, Visit(t) PROVE BusTypeOK' /\ FlushTypeOK'
  <2>1. BusTypeOK'
    BY <1>4, BusUnchangedType DEF Visit
  <2> QED BY <1>4, <1>1, <2>1 DEF Visit, FlushTypeOK, FlushSteps
<1>5. ASSUME NEW t \in Threads, LockAndFlush(t)
      PROVE  BusTypeOK' /\ FlushTypeOK'
  <2>1. t \in Buffers /\ buf[t] \in Batches /\ drainEpoch[live] \in Nat
    BY <1>1 DEF BusTypeOK
  <2>2. flushEpoch' \in [Buffers -> Nat]
    BY <1>5, <2>1 DEF LockAndFlush, BusTypeOK
  <2>3. buf' \in [Buffers -> Batches]
    BY <1>5, <1>1, <2>1 DEF LockAndFlush, BusTypeOK, Reset
  <2>4. /\ collector' \in [Recorders -> Seq(Batches)]
        /\ \A s \in Recorders : Len(collector'[s]) <= Capacity
        /\ gone' \in SUBSET Events
    <3>1. CASE UNCHANGED <<collector, gone>>
      BY <3>1 DEF BusTypeOK
    <3>2. CASE AcceptFlush(live, buf[t])
      BY <3>2, <1>1, <2>1, AcceptFlushType
    <3> QED BY <1>5, <3>1, <3>2 DEF LockAndFlush
  <2>5. BusTypeOK'
    BY <1>5, <2>2, <2>3, <2>4 DEF LockAndFlush, BusTypeOK
  <2> QED BY <1>5, <1>1, <2>5 DEF LockAndFlush, FlushTypeOK, FlushSteps
<1>6. CASE Prune
  <2>1. tlBuffers' \in [Recorders -> SUBSET Threads]
    BY <1>6, <1>1 DEF Prune, BusTypeOK
  <2>2. BusTypeOK'
    BY <1>6, <2>1 DEF Prune, BusTypeOK
  <2> QED BY <1>6, <2>2 DEF Prune, FlushTypeOK, FlushSteps
<1>7. ASSUME NEW wrote \in BOOLEAN, FlushSources(wrote)
      PROVE  BusTypeOK' /\ FlushTypeOK'
  <2>1. FlushTypeOK'
    BY <1>7 DEF FlushSources, FlushTypeOK, FlushSteps
  <2>2. CASE ~wrote
    BY <1>7, <2>1, <2>2 DEF FlushSources, BusTypeOK
  <2>3. CASE wrote
    <3> DEFINE b == Extended(buf[Flusher], wrote, Len(log) + 1)
    <3>1. Len(log) \in Nat /\ Len(log) < MaxEvents
      BY <1>7, <2>3 DEF FlushSources, BusTypeOK
    <3>2. Len(log) + 1 \in Nat /\ Len(log) + 1 \in Events
      BY <3>1, SizesAssumption DEF Events
    <3>3. buf[Flusher] \in Batches
      BY <1>1 DEF BusTypeOK
    <3>4. \A c \in Batches, x \in BOOLEAN, n \in Nat :
            (x => n \in Events) => Extended(c, x, n) \in Batches
      BY ExtendedType
    <3>5. b \in Batches
      BY <3>2, <3>3, <3>4
    <3>6. owner' \in [Buffers -> Recorders \cup {0}]
      BY <1>7, <2>3, <1>1 DEF FlushSources, BusTypeOK, SetCollector
    <3>7. /\ log' \in Seq([thread : Buffers, rec : Recorders])
          /\ Len(log') <= MaxEvents
      <4>1. log' = Append(log, [thread |-> Flusher, rec |-> live])
        BY <1>7, <2>3 DEF FlushSources
      <4>2. [thread |-> Flusher, rec |-> live]
              \in [thread : Buffers, rec : Recorders]
        BY <1>1
      <4>3. Len(log') = Len(log) + 1
            /\ log' \in Seq([thread : Buffers, rec : Recorders])
        BY <4>1, <4>2, AppendProperties DEF BusTypeOK
      <4> QED BY <4>3, <3>1, SizesAssumption
    <3> HIDE DEF b
    <3>8. CASE MustFlush(b, flushEpoch[Flusher], drainEpoch[live])
      <4>1. /\ AcceptFlush(live, b)
            /\ buf' = [buf EXCEPT ![Flusher] = Reset(b)]
            /\ flushEpoch' = [flushEpoch EXCEPT ![Flusher] = drainEpoch[live]]
        BY <1>7, <2>3, <3>8 DEF FlushSources, b
      <4>2. /\ collector' \in [Recorders -> Seq(Batches)]
            /\ \A s \in Recorders : Len(collector'[s]) <= Capacity
            /\ gone' \in SUBSET Events
        BY <4>1, <1>1, <3>5, AcceptFlushType
      <4>3. buf' \in [Buffers -> Batches] /\ flushEpoch' \in [Buffers -> Nat]
        BY <4>1, <1>1 DEF BusTypeOK, Reset
      <4>4. BusTypeOK'
        BY <1>7, <3>6, <3>7, <4>2, <4>3 DEF FlushSources, BusTypeOK
      <4> QED BY <4>4, <2>1
    <3>9. CASE ~MustFlush(b, flushEpoch[Flusher], drainEpoch[live])
      <4>1. /\ buf' = [buf EXCEPT ![Flusher] = b]
            /\ UNCHANGED <<collector, gone, flushEpoch>>
        BY <1>7, <2>3, <3>9 DEF FlushSources, b
      <4>2. buf' \in [Buffers -> Batches]
        BY <4>1, <1>1, <3>5 DEF BusTypeOK
      <4>3. BusTypeOK'
        BY <1>7, <3>6, <3>7, <4>1, <4>2 DEF FlushSources, BusTypeOK
      <4> QED BY <4>3, <2>1
    <3> QED BY <3>8, <3>9
  <2> QED BY <2>2, <2>3
<1>8. ASSUME NEW due \in BOOLEAN, DrainSelf(due)
      PROVE  BusTypeOK' /\ FlushTypeOK'
  <2>1. buf[Flusher] \in Batches
    BY <1>1 DEF BusTypeOK
  <2>2. buf' \in [Buffers -> Batches]
    BY <1>8, <1>1, <2>1 DEF DrainSelf, BusTypeOK, Reset
  <2>3. /\ collector' \in [Recorders -> Seq(Batches)]
        /\ \A s \in Recorders : Len(collector'[s]) <= Capacity
        /\ gone' \in SUBSET Events
    <3>1. CASE UNCHANGED <<collector, gone>>
      BY <3>1 DEF BusTypeOK
    <3>2. CASE AcceptFlush(live, buf[Flusher])
      BY <3>2, <1>1, <2>1, AcceptFlushType
    <3> QED BY <1>8, <3>1, <3>2 DEF DrainSelf
  <2>4. BusTypeOK'
    BY <1>8, <2>2, <2>3 DEF DrainSelf, BusTypeOK
  <2> QED BY <1>8, <2>4 DEF DrainSelf, FlushTypeOK, FlushSteps
<1>9. ASSUME NEW io \in IoOutcomes, NEW failed \in BOOLEAN,
             PopBatch(io, failed)
      PROVE  BusTypeOK' /\ FlushTypeOK'
  <2>1. /\ collector[live] \in Seq(Batches)
        /\ collector[live] # <<>>
        /\ Len(collector[live]) <= Capacity
        /\ collector' = [collector EXCEPT ![live] = Tail(collector[live])]
    BY <1>9, <1>1 DEF PopBatch, BusTypeOK
  <2>2. Tail(collector[live]) \in Seq(Batches)
        /\ Len(Tail(collector[live])) <= Capacity
    BY <2>1, SizesAssumption
  <2>3. /\ collector' \in [Recorders -> Seq(Batches)]
        /\ \A s \in Recorders : Len(collector'[s]) <= Capacity
    BY <2>1, <2>2, <1>1 DEF BusTypeOK
  <2>4. state' \in [Recorders -> States]
    BY <1>9, <1>1 DEF PopBatch, BusTypeOK, AfterWriteError, States
  <2>5. BusTypeOK'
    BY <1>9, <2>3, <2>4 DEF PopBatch, BusTypeOK
  <2> QED BY <1>9, <2>5 DEF PopBatch, FlushTypeOK, FlushSteps
<1>10. CASE PopDone
  <2>1. BusTypeOK'
    BY <1>10, BusUnchangedType DEF PopDone
  <2> QED BY <1>10, <2>1 DEF PopDone, FlushTypeOK, FlushSteps
<1>11. ASSUME NEW io \in IoOutcomes, EndCycle(io)
       PROVE  BusTypeOK' /\ FlushTypeOK'
  <2>1. BusTypeOK'
    BY <1>11, BusUnchangedType DEF EndCycle
  <2> QED BY <1>11, <2>1 DEF EndCycle, FlushTypeOK, FlushSteps
<1>12. ASSUME NEW panicked \in BOOLEAN, NEW io \in IoOutcomes,
              FinalizeAndStop(panicked, io)
       PROVE  BusTypeOK' /\ FlushTypeOK'
  <2>1. BusTypeOK'
    BY <1>12, BusUnchangedType DEF FinalizeAndStop
  <2> QED BY <1>12, <2>1 DEF FinalizeAndStop, FlushTypeOK, FlushSteps
<1> QED
  BY <1>2, <1>3, <1>4, <1>5, <1>6, <1>7, <1>8, <1>9, <1>10, <1>11, <1>12
  DEF FlushThreadStep

(* Timers, stopping and building keep the types of the bus and of the      *)
(* flush thread.                                                           *)
LEMMA ControlStepType ==
    ASSUME BusTypeOK, FlushTypeOK, w \in WriterTypes(Events),
           \/ DrainTimer \/ RotateTimer \/ Build
           \/ \E t \in Threads : StopRequest(t) \/ SendStop(t) \/ MarkStopped(t)
    PROVE  BusTypeOK' /\ FlushTypeOK'
<1>1. live \in Recorders /\ Flusher \in Buffers /\ EmptyBatch \in Batches
  BY EmptyBatchType DEF FlushTypeOK, Buffers
<1>2. CASE DrainTimer \/ RotateTimer
  <2>1. BusTypeOK'
    BY <1>2, BusUnchangedType DEF DrainTimer, RotateTimer
  <2> QED BY <1>2, <2>1 DEF DrainTimer, RotateTimer, FlushTypeOK
<1>3. ASSUME NEW t \in Threads, StopRequest(t) PROVE BusTypeOK' /\ FlushTypeOK'
  <2>1. t \in Buffers /\ buf[t] \in Batches
    BY DEF BusTypeOK, Buffers
  <2>2. buf' \in [Buffers -> Batches]
    BY <1>3, <1>1, <2>1 DEF StopRequest, BusTypeOK, Reset
  <2>3. /\ collector' \in [Recorders -> Seq(Batches)]
        /\ \A s \in Recorders : Len(collector'[s]) <= Capacity
        /\ gone' \in SUBSET Events
    <3>1. CASE UNCHANGED <<collector, gone>>
      BY <3>1 DEF BusTypeOK
    <3>2. CASE AcceptFlush(live, buf[t])
      BY <3>2, <1>1, <2>1, AcceptFlushType
    <3> QED BY <1>3, <3>1, <3>2 DEF StopRequest
  <2>4. pc' \in [Threads -> ThreadSteps]
    BY <1>3 DEF StopRequest, BusTypeOK, ThreadSteps
  <2>5. BusTypeOK'
    BY <1>3, <2>2, <2>3, <2>4 DEF StopRequest, BusTypeOK
  <2> QED BY <1>3, <2>5 DEF StopRequest, FlushTypeOK, flushVars
<1>4. ASSUME NEW t \in Threads, MarkStopped(t) PROVE BusTypeOK' /\ FlushTypeOK'
  <2>1. pc' \in [Threads -> ThreadSteps] /\ state' \in [Recorders -> States]
    BY <1>4, <1>1 DEF MarkStopped, BusTypeOK, ThreadSteps, States
  <2>2. BusTypeOK'
    BY <1>4, <2>1 DEF MarkStopped, BusTypeOK
  <2> QED BY <1>4, <2>2 DEF MarkStopped, FlushTypeOK, flushVars
<1>5. ASSUME NEW t \in Threads, SendStop(t) PROVE BusTypeOK' /\ FlushTypeOK'
  <2>1. pc' \in [Threads -> ThreadSteps]
    BY <1>5 DEF SendStop, BusTypeOK, ThreadSteps
  <2>2. BusTypeOK'
    BY <1>5, <2>1 DEF SendStop, BusTypeOK
  <2> QED BY <1>5, <2>2 DEF SendStop, FlushTypeOK
<1>6. CASE Build
  <2>1. live + 1 \in Recorders
    BY <1>6, <1>1, SizesAssumption DEF Build, Recorders
  <2>2. WriterEvents(w) \in SUBSET Events /\ w.lost \in SUBSET Events
    BY <1>6, WriterEventsType
  <2>3. state' \in [Recorders -> States]
    BY <1>6, <2>1 DEF Build, BusTypeOK, States
  <2>4. buf' \in [Buffers -> Batches]
    BY <1>6, <1>1 DEF Build, BusTypeOK
  <2>5. flushEpoch' \in [Buffers -> Nat] /\ owner' \in [Buffers -> Recorders \cup {0}]
    BY <1>6, <1>1 DEF Build, BusTypeOK
  <2>6. gone' \in SUBSET Events /\ archive' \in SUBSET Events
    BY <1>6, <2>2 DEF Build, BusTypeOK, FlushTypeOK
  <2>7. BusTypeOK'
    BY <1>6, <2>3, <2>4, <2>5, <2>6 DEF Build, BusTypeOK
  <2> QED BY <1>6, <1>1, <2>1, <2>6, <2>7 DEF Build, FlushTypeOK, FlushSteps
<1> QED BY <1>2, <1>3, <1>4, <1>5, <1>6

(* Every step keeps the shape of the writer.                               *)
LEMMA WriterStepType ==
    ASSUME BusTypeOK, FlushTypeOK, w \in WriterTypes(Events), Next
    PROVE  w' \in WriterTypes(Events)
<1> DEFINE W == WriterTypes(Events)
<1>1. ASSUME NEW stop \in BOOLEAN, NEW metadata \in BOOLEAN,
             Tick(stop, metadata)
      PROVE  w' \in W
  <2>1. UpdateSegmentMetadata(w) \in W
    BY DrainedType
  <2> QED BY <1>1, <2>1 DEF Tick
<1>2. ASSUME NEW io \in IoOutcomes, NEW failed \in BOOLEAN,
             PopBatch(io, failed)
      PROVE  w' \in W
  <2> DEFINE batch == Head(collector[live])
  <2>1. collector[live] \in Seq(Batches) /\ collector[live] # <<>>
    BY <1>2 DEF PopBatch, BusTypeOK, FlushTypeOK
  <2>2. batch \in Batches
    BY <2>1
  <2>3. batch.events \in SUBSET Events /\ batch.count \in Nat
    BY <2>2 DEF Batches
  <2>4. w' \in {WriteLost(w, batch), WriteEncodedBatch(w, batch, io)}
    BY <1>2 DEF PopBatch
  <2> HIDE DEF batch
  <2> QED BY <2>3, <2>4, WriteEncodedBatchType
<1>3. ASSUME NEW io \in IoOutcomes, EndCycle(io) PROVE w' \in W
  <2>1. Drained(w, io) \in W
    BY DrainedType
  <2> QED BY <1>3, <2>1 DEF EndCycle
<1>4. ASSUME NEW panicked \in BOOLEAN, NEW io \in IoOutcomes,
             FinalizeAndStop(panicked, io)
      PROVE  w' \in W
  <2>1. UpdateSegmentMetadata(w) \in W
    BY DrainedType
  <2>2. Finalize(w, io) \in W /\ Finalize(UpdateSegmentMetadata(w), io) \in W
    BY <2>1, FinalizeType
  <2> QED BY <1>4, <2>2 DEF FinalizeAndStop
<1>5. CASE DrainTimer \/ RotateTimer
  BY <1>5 DEF DrainTimer, RotateTimer, WriterTypes
<1>6. CASE Build
  BY <1>6, NewWriterType DEF Build
<1>7. CASE UNCHANGED w
  BY <1>7
<1>8. ASSUME NEW t \in Threads,
             \/ Visit(t) \/ LockAndFlush(t)
             \/ StopRequest(t) \/ SendStop(t) \/ MarkStopped(t)
      PROVE  UNCHANGED w
  BY <1>8 DEF Visit, LockAndFlush, StopRequest, SendStop, MarkStopped, flushVars
<1>9. ASSUME NEW wrote \in BOOLEAN, FlushSources(wrote) \/ DrainSelf(wrote)
      PROVE  UNCHANGED w
  BY <1>9 DEF FlushSources, DrainSelf
<1>10. CASE Snapshot \/ Prune \/ PopDone
  BY <1>10 DEF Snapshot, Prune, PopDone
<1>11. CASE UNCHANGED flushVars
  BY <1>11 DEF flushVars
<1>12. CASE FlushThreadStep
  BY <1>1, <1>2, <1>3, <1>4, <1>7, <1>8, <1>9, <1>10, <1>12
  DEF FlushThreadStep
<1> QED BY <1>5, <1>6, <1>7, <1>8, <1>11, <1>12 DEF Next

(* The types hold in the initial state.                                    *)
LEMMA InitType == Init => TypeOK
<1> SUFFICES ASSUME Init PROVE TypeOK
  OBVIOUS
<1>1. 1 \in Recorders
  BY SizesAssumption DEF Recorders
<1>2. BusTypeOK
  BY <1>1, EmptyBatchType, SizesAssumption
  DEF Init, BusInit, BusTypeOK, States, ThreadSteps
<1>3. FlushTypeOK
  BY <1>1 DEF Init, FlushTypeOK, FlushSteps, Buffers
<1>4. w \in WriterTypes(Events)
  BY NewWriterType DEF Init
<1> QED BY <1>2, <1>3, <1>4 DEF TypeOK

LEMMA NextType == TypeOK /\ [Next]_vars => TypeOK'
<1> SUFFICES ASSUME TypeOK, [Next]_vars PROVE TypeOK'
  OBVIOUS
<1>1. BusTypeOK /\ FlushTypeOK /\ w \in WriterTypes(Events)
  BY DEF TypeOK
<1>2. CASE UNCHANGED vars
  <2>1. UNCHANGED busVars /\ UNCHANGED flushVars
    BY <1>2 DEF vars
  <2>2. BusTypeOK'
    BY <1>1, <2>1, BusUnchangedType
  <2> QED BY <1>1, <2>1, <2>2 DEF TypeOK, FlushTypeOK, flushVars
<1>3. CASE Next
  <2>1. w' \in WriterTypes(Events)
    BY <1>1, <1>3, WriterStepType
  <2>2. CASE (\E t \in Threads : ThreadStep(t)) /\ UNCHANGED flushVars
    <3>1. BusTypeOK'
      BY <1>1, <2>2, ThreadStepType
    <3> QED BY <1>1, <2>2, <3>1 DEF TypeOK, FlushTypeOK, flushVars
  <2>3. CASE LifecycleStep /\ UNCHANGED flushVars
    <3>1. BusTypeOK'
      BY <1>1, <2>3, LifecycleStepType
    <3> QED BY <1>1, <2>3, <3>1 DEF TypeOK, FlushTypeOK, flushVars
  <2>4. CASE FlushThreadStep
    BY <1>1, <2>1, <2>4, FlushStepType DEF TypeOK
  <2>5. CASE \/ DrainTimer \/ RotateTimer \/ Build
             \/ \E t \in Threads : StopRequest(t) \/ SendStop(t) \/ MarkStopped(t)
    BY <1>1, <2>1, <2>5, ControlStepType DEF TypeOK
  <2> QED BY <1>3, <2>2, <2>3, <2>4, <2>5 DEF Next
<1> QED BY <1>2, <1>3

(* Every reachable state has the types of TypeOK: the queue of the         *)
(* collector stays within its capacity, the log within its bound, and no   *)
(* rotation, eviction or failed I/O call leaves the writer malformed.      *)
THEOREM TypeCorrect == Spec => []TypeOK
BY InitType, NextType, PTL DEF Spec

-----------------------------------------------------------------------------
(* The drain of the first recorder.                                        *)

(* Every event names the buffer it was encoded into.                       *)
LEMMA LogThread ==
    ASSUME TypeOK, NEW n \in 1..Len(log)
    PROVE  log[n].thread \in Buffers
<1>1. log \in Seq([thread : Buffers, rec : Recorders])
  BY DEF TypeOK, BusTypeOK
<1>2. log[n] \in [thread : Buffers, rec : Recorders]
  BY <1>1, ElementOfSeq
<1> QED BY <1>2

(* Appending to the log leaves the events that are in it as they were.     *)
LEMMA LogGrows ==
    ASSUME TypeOK, NEW e \in [thread : Buffers, rec : Recorders],
           log' = Append(log, e)
    PROVE  /\ Len(log) \in Nat
           /\ Len(log') = Len(log) + 1
           /\ \A n \in 1..Len(log) : log'[n] = log[n]
           /\ log'[Len(log) + 1] = e
<1>1. log \in Seq([thread : Buffers, rec : Recorders])
  BY DEF TypeOK, BusTypeOK
<1> QED BY <1>1, AppendProperties, LenProperties

(* Steps of a thread that only move its pc.                                *)
LEMMA QuietThread ==
    ASSUME TypeOK, DrainInv, NEW t \in Threads, NEW s \in ThreadSteps,
           ~first[t], s # "stamping",
           ~Alive(t) => s \in {"exiting", "exited"},
           pc' = [pc EXCEPT ![t] = s],
           UNCHANGED <<drainEpoch, tlBuffers, collector, buf, flushEpoch,
                       owner, poisoned, seen, first, log>>,
           UNCHANGED <<live, fpc, exit, doDrain, todo, cur, barrier>>
    PROVE  DrainInv'
<1> USE DEF TypeOK, BusTypeOK
<1>1. \A u \in Threads : pc'[u] = IF u = t THEN s ELSE pc[u]
  OBVIOUS
<1>2. \A u \in Threads : ~Alive(u) => ~Alive(u)'
  BY <1>1 DEF Alive
<1>3. BuffersOwnTheirEvents'
  BY <1>1 DEF DrainInv, BuffersOwnTheirEvents
<1>4. RecordersAreRegistered'
  BY <1>1, <1>2 DEF DrainInv, RecordersAreRegistered
<1>5. StampsAreBehind' /\ BarrierIsBehind'
  BY DEF DrainInv, StampsAreBehind, BarrierIsBehind
<1>6. DrainIsOnTrack'
  <2>1. \A n \in barrier : log[n].thread \in Threads
    BY DEF DrainInv, BarrierIsBehind
  <2> QED BY <1>2, <2>1 DEF DrainInv, DrainIsOnTrack, QueueEvents
<1> QED BY <1>3, <1>4, <1>5, <1>6 DEF DrainInv

(* A thread encodes an event, or nothing, into its own buffer.             *)
LEMMA EncodeDrain ==
    ASSUME TypeOK, LaterRecordersUnbuilt, live = 1, DrainInv,
           NEW t \in Threads, NEW wrote \in BOOLEAN, Encode(t, wrote),
           UNCHANGED flushVars
    PROVE  DrainInv'
<1> DEFINE b == Extended(buf[t], wrote, Len(log) + 1)
           flush == MustFlush(b, flushEpoch[t], drainEpoch[via[t]])
<1>1. /\ t \in Buffers /\ buf[t] \in Batches /\ via[t] = live
      /\ live \in Recorders /\ Len(log) \in Nat
  BY LenProperties
  DEF TypeOK, BusTypeOK, FlushTypeOK, Buffers, LaterRecordersUnbuilt, Recorders
<1>2. b.events = (IF wrote THEN buf[t].events \cup {Len(log) + 1}
                           ELSE buf[t].events)
      /\ b.count = IF wrote THEN buf[t].count + 1 ELSE buf[t].count
  BY <1>1 DEF Batches, Extended
<1>3. /\ pc[t] = "recording" /\ ~poisoned[t]
      /\ owner' = [owner EXCEPT ![t] = SetCollector(t, via[t])]
      /\ first' = [first EXCEPT ![t] = (owner[t] = 0)]
      /\ buf' = [buf EXCEPT ![t] = b]
      /\ log' = IF wrote THEN Append(log, [thread |-> t, rec |-> via[t]])
                         ELSE log
      /\ seen' = [seen EXCEPT ![t] = IF flush THEN drainEpoch[via[t]] ELSE 0]
      /\ pc' = [pc EXCEPT ![t] =
                  IF flush THEN "flushing" ELSE AfterUnlock(owner[t] = 0)]
      /\ UNCHANGED <<drainEpoch, tlBuffers, collector, flushEpoch, poisoned>>
      /\ UNCHANGED <<live, fpc, exit, doDrain, todo, cur, barrier>>
  BY DEF Encode, flushVars
<1> HIDE DEF b, flush
<1>4. /\ Len(log') = IF wrote THEN Len(log) + 1 ELSE Len(log)
      /\ \A n \in 1..Len(log) : log'[n] = log[n]
      /\ wrote => log'[Len(log) + 1].thread = t
  <2>1. CASE wrote
    <3>1. [thread |-> t, rec |-> via[t]] \in [thread : Buffers, rec : Recorders]
      BY <1>1
    <3> QED BY <2>1, <3>1, <1>3, LogGrows
  <2>2. CASE ~wrote
    BY <2>2, <1>3
  <2> QED BY <2>1, <2>2
<1>5. \A u \in Buffers : buf'[u] = IF u = t THEN b ELSE buf[u]
  BY <1>1, <1>3 DEF TypeOK, BusTypeOK
<1>6. \A u \in Threads : /\ u # t => pc'[u] = pc[u] /\ first'[u] = first[u]
                         /\ u # t => owner'[u] = owner[u]
                         /\ Alive(u)' = Alive(u)
  BY <1>1, <1>3 DEF TypeOK, BusTypeOK, Alive, AfterUnlock, Buffers
<1>7. /\ owner' \in [Buffers -> Recorders \cup {0}]
      /\ owner'[t] # 0 /\ (owner[t] # 0 => owner'[t] = owner[t])
      /\ \A u \in Buffers : owner[u] # 0 => owner'[u] # 0
      /\ first'[t] <=> owner[t] = 0
      /\ first'[t] => pc'[t] \in {"flushing", "registering"}
      /\ pc'[t] \in {"flushing", "registering", "idle"}
  <2>1. /\ owner' = [owner EXCEPT ![t] = IF owner[t] = 0 THEN live ELSE owner[t]]
        /\ live # 0 /\ t \in Buffers /\ live \in Recorders
    BY <1>1, <1>3 DEF SetCollector
  <2>2. owner \in [Buffers -> Recorders \cup {0}]
    BY DEF TypeOK, BusTypeOK
  <2>3. /\ owner'[t] = IF owner[t] = 0 THEN live ELSE owner[t]
        /\ \A u \in Buffers : u # t => owner'[u] = owner[u]
        /\ owner' \in [Buffers -> Recorders \cup {0}]
    BY <2>1, <2>2
  <2>4. first'[t] <=> owner[t] = 0
    BY <1>3 DEF TypeOK, BusTypeOK
  <2>5. pc'[t] = IF flush THEN "flushing" ELSE AfterUnlock(owner[t] = 0)
    BY <1>3 DEF TypeOK, BusTypeOK
  <2> QED BY <2>1, <2>3, <2>4, <2>5 DEF AfterUnlock
<1>8. \A n \in barrier : /\ n \in 1..Len(log) /\ log'[n] = log[n]
                         /\ log[n].thread \in Threads
                         /\ log[n].thread \in Buffers
                         /\ n \in buf'[log[n].thread].events
                              => n \in buf[log[n].thread].events
  <2>1. SUFFICES ASSUME NEW n \in barrier
                 PROVE  /\ n \in 1..Len(log) /\ log'[n] = log[n]
                        /\ log[n].thread \in Threads
                        /\ log[n].thread \in Buffers
                        /\ n \in buf'[log[n].thread].events
                              => n \in buf[log[n].thread].events
    OBVIOUS
  <2>2. n \in 1..Len(log) /\ log[n].thread \in Threads
    BY DEF DrainInv, BarrierIsBehind
  <2>3. n # Len(log) + 1
    BY <2>2, <1>1
  <2> QED BY <2>2, <2>3, <1>2, <1>4, <1>5 DEF Buffers
<1>9. BuffersOwnTheirEvents'
  <2>1. ASSUME NEW u \in Buffers, NEW n \in buf'[u].events
        PROVE  n \in 1..Len(log') /\ log'[n].thread = u
    <3>1. CASE n \in buf[u].events
      <4>1. n \in 1..Len(log) /\ log[n].thread = u
        BY <3>1 DEF DrainInv, BuffersOwnTheirEvents
      <4> QED BY <4>1, <1>1, <1>4
    <3>2. CASE n \notin buf[u].events
      <4>1. u = t /\ wrote /\ n = Len(log) + 1
        BY <2>1, <3>2, <1>2, <1>5
      <4> QED BY <4>1, <1>1, <1>4
    <3> QED BY <3>1, <3>2
  <2>2. \A u \in Buffers : buf'[u].count = 0 => buf'[u].events = {}
    <3>1. buf[t].count \in Nat
      BY <1>1 DEF Batches
    <3> QED BY <3>1, <1>2, <1>5 DEF DrainInv, BuffersOwnTheirEvents
  <2>3. \A u \in Threads : pc'[u] = "stamping" => buf'[u].events = {}
    BY <1>5, <1>6, <1>7 DEF DrainInv, BuffersOwnTheirEvents, Buffers
  <2> QED BY <2>1, <2>2, <2>3 DEF BuffersOwnTheirEvents
<1>10. RecordersAreRegistered'
  <2>1. \A n \in 1..Len(log') : owner'[log'[n].thread] # 0
    <3>1. SUFFICES ASSUME NEW n \in 1..Len(log')
                   PROVE  owner'[log'[n].thread] # 0
      OBVIOUS
    <3>2. CASE n \in 1..Len(log)
      <4>1. log[n].thread \in Buffers
        BY <3>2, LogThread
      <4> QED BY <3>2, <4>1, <1>4, <1>7 DEF DrainInv, RecordersAreRegistered
    <3>3. CASE n \notin 1..Len(log)
      <4>1. wrote /\ n = Len(log) + 1
        BY <3>1, <3>3, <1>1, <1>4
      <4> QED BY <4>1, <1>4, <1>7
    <3> QED BY <3>2, <3>3
  <2>2. ASSUME NEW u \in Threads
        PROVE  /\ first'[u] => pc'[u] \in {"flushing", "stamping", "registering"}
               /\ \/ owner'[u] = 0 \/ first'[u] \/ poisoned'[u] \/ ~Alive(u)'
                  \/ u \in tlBuffers'[live']
    <3>1. CASE u # t
      BY <3>1, <1>3, <1>6 DEF DrainInv, RecordersAreRegistered
    <3>2. CASE u = t
      <4>1. ~first[t] /\ Alive(t)
        BY <1>3 DEF DrainInv, RecordersAreRegistered, Alive
      <4> QED BY <3>2, <4>1, <1>3, <1>7 DEF DrainInv, RecordersAreRegistered
    <3> QED BY <3>1, <3>2
  <2> QED BY <2>1, <2>2 DEF RecordersAreRegistered
<1>11. StampsAreBehind'
  <2>1. drainEpoch[live] \in Nat
    BY <1>1 DEF TypeOK, BusTypeOK
  <2> QED BY <1>1, <1>3, <2>1
      DEF DrainInv, StampsAreBehind, TypeOK, BusTypeOK
<1>12. BarrierIsBehind'
  <2>1. ASSUME NEW n \in barrier PROVE ~first'[log[n].thread]
    <3>1. n \in 1..Len(log) /\ owner[log[n].thread] # 0 /\ ~first[log[n].thread]
      BY DEF DrainInv, BarrierIsBehind, RecordersAreRegistered
    <3> QED BY <3>1, <1>6, <1>7, <1>8
  <2>2. Len(log') >= Len(log) /\ Len(log') \in Nat
    BY <1>1, <1>4
  <2> QED BY <2>1, <2>2, <1>1, <1>3, <1>8 DEF DrainInv, BarrierIsBehind
<1>13. DrainIsOnTrack'
  BY <1>3, <1>6, <1>8 DEF DrainInv, DrainIsOnTrack, QueueEvents
<1> QED BY <1>9, <1>10, <1>11, <1>12, <1>13 DEF DrainInv

(* A thread hands the batch in its buffer over, or loses it: the queue     *)
(* gains no event of the barrier that a drain had already moved out.       *)
LEMMA HandOver ==
    ASSUME TypeOK, DrainInv, NEW t \in Threads, NEW s \in ThreadSteps,
           ~Alive(t) => s \in {"exiting", "exited"},
           first[t] => s = "stamping",
           pc' = [pc EXCEPT ![t] = s],
           buf' = [buf EXCEPT ![t] = EmptyBatch],
           QueueEvents(collector'[live])
             \subseteq QueueEvents(collector[live]) \cup buf[t].events,
           UNCHANGED <<drainEpoch, tlBuffers, flushEpoch, owner, poisoned,
                       seen, first, log>>,
           UNCHANGED <<live, fpc, exit, doDrain, todo, cur, barrier>>
    PROVE  DrainInv'
<1>1. \A u \in Threads : pc'[u] = IF u = t THEN s ELSE pc[u]
  BY DEF TypeOK, BusTypeOK
<1>2. \A u \in Threads : ~Alive(u) => ~Alive(u)'
  BY <1>1 DEF Alive
<1>3. \A u \in Buffers : buf'[u] = IF u = t THEN EmptyBatch ELSE buf[u]
  BY DEF TypeOK, BusTypeOK
<1>4. EmptyBatch.events = {} /\ EmptyBatch.count = 0
  BY DEF EmptyBatch
<1>5. BuffersOwnTheirEvents'
  BY <1>1, <1>3, <1>4 DEF DrainInv, BuffersOwnTheirEvents, Buffers
<1>6. RecordersAreRegistered'
  BY <1>1, <1>2 DEF DrainInv, RecordersAreRegistered
<1>7. StampsAreBehind'
  BY DEF DrainInv, StampsAreBehind
<1>8. \A n \in barrier : /\ log[n].thread \in Threads
                         /\ n \in buf'[log[n].thread].events
                              => n \in buf[log[n].thread].events
  BY <1>3, <1>4 DEF DrainInv, BarrierIsBehind, Buffers
<1>9. BarrierIsBehind'
  BY <1>8 DEF DrainInv, BarrierIsBehind
<1>10. \A n \in barrier :
         n \in QueueEvents(collector'[live]) =>
           n \in QueueEvents(collector[live]) \/ n \in buf[log[n].thread].events
  BY DEF DrainInv, BuffersOwnTheirEvents, Buffers
<1>11. DrainIsOnTrack'
  BY <1>2, <1>8, <1>10 DEF DrainInv, DrainIsOnTrack, QueueEvents
<1> QED BY <1>5, <1>6, <1>7, <1>9, <1>11 DEF DrainInv

(* Every step of an application thread.                                    *)
LEMMA ThreadDrain ==
    ASSUME TypeOK, LaterRecordersUnbuilt, live = 1, DrainInv,
           NEW t \in Threads, ThreadStep(t), UNCHANGED flushVars
    PROVE  DrainInv'
<1>1. /\ t \in Buffers /\ buf[t] \in Batches /\ via[t] = live
      /\ live \in Recorders /\ BusTypeOK
  <2>1. BusTypeOK /\ FlushTypeOK
    BY DEF TypeOK
  <2>2. t \in Buffers
    BY DEF Buffers
  <2>3. buf[t] \in Batches
    BY <2>1, <2>2 DEF BusTypeOK
  <2>4. live \in Recorders
    BY <2>1 DEF FlushTypeOK
  <2>5. via[t] = live
    BY <2>1 DEF BusTypeOK, LaterRecordersUnbuilt, Recorders
  <2> QED BY <2>1, <2>2, <2>3, <2>4, <2>5
<1>2. pc[t] \in {"idle", "recording", "exiting"} => ~first[t]
  BY DEF DrainInv, RecordersAreRegistered
<1>3. UNCHANGED <<live, fpc, exit, doDrain, todo, cur, barrier>>
  BY DEF flushVars
<1>4. ASSUME NEW r \in Recorders, BeginRecord(t, r) PROVE DrainInv'
  BY <1>2, <1>4, QuietThread DEF BeginRecord, ThreadSteps, Alive, flushVars
<1>5. CASE RecordRefused(t)
  BY <1>2, <1>5, QuietThread DEF RecordRefused, ThreadSteps, Alive, flushVars
<1>6. ASSUME NEW wrote \in BOOLEAN, Encode(t, wrote) PROVE DrainInv'
  BY <1>6, EncodeDrain
<1>7. CASE SelfFlush(t)
  <2>1. AcceptFlush(live, buf[t])
    BY <1>1, <1>7 DEF SelfFlush
  <2>2. QueueEvents(collector'[live])
          \subseteq QueueEvents(collector[live]) \cup buf[t].events
    BY <1>1, <2>1, AcceptFlushType
  <2>3. /\ pc' = [pc EXCEPT ![t] = "stamping"] /\ Alive(t)
        /\ buf' = [buf EXCEPT ![t] = EmptyBatch]
        /\ UNCHANGED <<drainEpoch, tlBuffers, flushEpoch, owner, poisoned,
                       seen, first, log>>
    BY <1>7 DEF SelfFlush, Reset, Alive
  <2> QED BY <2>2, <2>3, <1>3, HandOver DEF ThreadSteps
<1>8. CASE SelfStamp(t)
  <2>1. /\ pc[t] = "stamping"
        /\ \A u \in Threads : pc'[u] = IF u = t THEN AfterUnlock(first[t])
                                                ELSE pc[u]
        /\ \A u \in Threads : flushEpoch'[u] = IF u = t THEN seen[t]
                                                        ELSE flushEpoch[u]
        /\ \A u \in Threads : seen'[u] = IF u = t THEN 0 ELSE seen[u]
        /\ UNCHANGED <<drainEpoch, tlBuffers, collector, buf, owner, poisoned,
                       first, log>>
    BY <1>8 DEF SelfStamp, TypeOK, BusTypeOK, Buffers
  <2>2. AfterUnlock(first[t]) \in {"registering", "idle"}
        /\ (first[t] => AfterUnlock(first[t]) = "registering")
    BY DEF AfterUnlock
  <2>3. \A u \in Threads : Alive(u)' = Alive(u)
    BY <2>1, <2>2 DEF Alive
  <2>4. BuffersOwnTheirEvents'
    BY <2>1, <2>2 DEF DrainInv, BuffersOwnTheirEvents
  <2>5. RecordersAreRegistered'
    BY <1>3, <2>1, <2>2, <2>3 DEF DrainInv, RecordersAreRegistered
  <2>6. StampsAreBehind'
    <3>1. drainEpoch[live] \in Nat
      BY <1>1 DEF BusTypeOK
    <3> QED BY <1>3, <2>1, <3>1 DEF DrainInv, StampsAreBehind
  <2>7. \A n \in barrier : log[n].thread \in Threads
    BY DEF DrainInv, BarrierIsBehind
  <2>8. BarrierIsBehind'
    BY <1>3, <2>1, <2>7
    DEF DrainInv, BarrierIsBehind, BuffersOwnTheirEvents
  <2>9. DrainIsOnTrack'
    BY <1>3, <2>1, <2>3, <2>7 DEF DrainInv, DrainIsOnTrack, QueueEvents
  <2> QED BY <2>4, <2>5, <2>6, <2>8, <2>9 DEF DrainInv
<1>9. CASE Register(t)
  <2>1. /\ pc[t] = "registering"
        /\ \A u \in Threads : pc'[u] = IF u = t THEN "idle" ELSE pc[u]
        /\ \A u \in Threads : first'[u] = IF u = t THEN FALSE ELSE first[u]
        /\ tlBuffers'[live] = tlBuffers[live] \cup {t}
        /\ UNCHANGED <<drainEpoch, collector, buf, flushEpoch, owner, poisoned,
                       seen, log>>
    BY <1>1, <1>9 DEF Register, BusTypeOK
  <2>2. \A u \in Threads : Alive(u)' = Alive(u)
    BY <2>1 DEF Alive
  <2>3. BuffersOwnTheirEvents'
    BY <2>1 DEF DrainInv, BuffersOwnTheirEvents
  <2>4. RecordersAreRegistered'
    BY <1>3, <2>1, <2>2 DEF DrainInv, RecordersAreRegistered
  <2>5. StampsAreBehind'
    BY <1>3, <2>1 DEF DrainInv, StampsAreBehind
  <2>6. BarrierIsBehind'
    BY <1>3, <2>1 DEF DrainInv, BarrierIsBehind
  <2>7. DrainIsOnTrack'
    <3>1. \A n \in barrier : log[n].thread \in Threads
      BY DEF DrainInv, BarrierIsBehind
    <3> QED BY <1>3, <2>1, <2>2, <3>1 DEF DrainInv, DrainIsOnTrack, QueueEvents
  <2> QED BY <2>3, <2>4, <2>5, <2>6, <2>7 DEF DrainInv
<1>10. CASE EncodePanics(t)
  <2>1. /\ pc[t] = "recording"
        /\ \A u \in Threads : pc'[u] = IF u = t THEN "idle" ELSE pc[u]
        /\ \A u \in Threads : poisoned'[u] = IF u = t THEN TRUE ELSE poisoned[u]
        /\ \A u \in Buffers : u # t => owner'[u] = owner[u]
        /\ owner'[t] = SetCollector(t, via[t])
        /\ UNCHANGED <<drainEpoch, tlBuffers, collector, flushEpoch, seen,
                       first, log>>
    BY <1>1, <1>10 DEF EncodePanics, BusTypeOK
  <2>2. \A u \in Buffers : buf'[u].events = buf[u].events
                           /\ buf'[u].count = buf[u].count
    BY <1>1, <1>10 DEF EncodePanics, BusTypeOK, Batches
  <2>3. \A u \in Threads : Alive(u)' = Alive(u)
    BY <2>1 DEF Alive
  <2>4. BuffersOwnTheirEvents'
    BY <2>1, <2>2 DEF DrainInv, BuffersOwnTheirEvents, Buffers
  <2>5. RecordersAreRegistered'
    <3>1. \A u \in Buffers : owner[u] # 0 => owner'[u] # 0
      BY <2>1 DEF SetCollector
    <3>2. \A n \in 1..Len(log) : owner'[log[n].thread] # 0
      BY <3>1, LogThread DEF DrainInv, RecordersAreRegistered
    <3>3. ~first[t]
      BY <1>2, <2>1
    <3> QED BY <1>3, <2>1, <2>3, <3>2, <3>3
        DEF DrainInv, RecordersAreRegistered, Buffers
  <2>6. StampsAreBehind'
    BY <1>3, <2>1 DEF DrainInv, StampsAreBehind
  <2>7. BarrierIsBehind'
    BY <1>3, <2>1, <2>2 DEF DrainInv, BarrierIsBehind, Buffers
  <2>8. DrainIsOnTrack'
    <3>1. \A n \in barrier : log[n].thread \in Threads
      BY DEF DrainInv, BarrierIsBehind
    <3>2. ASSUME NEW n \in barrier
          PROVE  LET u == log[n].thread
                 IN  /\ poisoned[u] => poisoned'[u]
                     /\ Alive(u)' = Alive(u)
                     /\ n \in buf'[u].events <=> n \in buf[u].events
      BY <2>1, <2>2, <2>3, <3>1 DEF Buffers
    <3>3. UNCHANGED <<log, collector>>
      BY <2>1
    <3> QED BY <1>3, <3>2, <3>3 DEF DrainInv, DrainIsOnTrack, QueueEvents
  <2> QED BY <2>4, <2>5, <2>6, <2>7, <2>8 DEF DrainInv
<1>11. CASE BeginExit(t)
  BY <1>2, <1>11, QuietThread DEF BeginExit, ThreadSteps, Alive, flushVars
<1>12. CASE FinishExit(t)
  <2>1. /\ pc[t] = "exiting" /\ pc' = [pc EXCEPT ![t] = "exited"]
        /\ UNCHANGED <<drainEpoch, tlBuffers, flushEpoch, owner, poisoned,
                       seen, first, log>>
    BY <1>12 DEF FinishExit
  <2>2. CASE buf[t].count > 0
    <3>1. buf' = [buf EXCEPT ![t] = EmptyBatch]
      BY <1>12, <2>2 DEF FinishExit, Reset
    <3>2. QueueEvents(collector'[live])
            \subseteq QueueEvents(collector[live]) \cup buf[t].events
      <4>1. CASE UNCHANGED collector
        BY <4>1
      <4>2. CASE owner[t] \in Recorders /\ AcceptFlush(owner[t], buf[t])
        BY <4>2, <1>1, AcceptFlushType
      <4> QED BY <1>1, <1>12, <2>2, <4>1, <4>2 DEF FinishExit, BusTypeOK
    <3> QED BY <1>2, <1>3, <2>1, <3>1, <3>2, HandOver DEF ThreadSteps
  <2>3. CASE ~(buf[t].count > 0)
    <3>1. UNCHANGED <<collector, buf>>
      BY <1>12, <2>3 DEF FinishExit
    <3> QED BY <1>2, <2>1, <3>1, QuietThread DEF ThreadSteps, flushVars
  <2> QED BY <2>2, <2>3
<1> QED BY <1>4, <1>5, <1>6, <1>7, <1>8, <1>9, <1>10, <1>11, <1>12
        DEF ThreadStep

(* The steps of the flush thread that leave buffers, log and stamps alone. *)
LEMMA QuietBus ==
    ASSUME DrainInv, UNCHANGED <<buf, log, pc, owner, first, poisoned, seen,
                                 flushEpoch, drainEpoch, live>>
    PROVE  /\ BuffersOwnTheirEvents' /\ StampsAreBehind'
           /\ barrier' \subseteq barrier => BarrierIsBehind'
           /\ UNCHANGED tlBuffers => RecordersAreRegistered'
BY DEF DrainInv, BuffersOwnTheirEvents, StampsAreBehind, BarrierIsBehind,
       RecordersAreRegistered, Alive

(* Every step of the flush thread.                                         *)
LEMMA FlushDrain ==
    ASSUME TypeOK, live = 1, DrainInv, FlushThreadStep
    PROVE  DrainInv'
<1>1. /\ live \in Recorders /\ BusTypeOK /\ drainEpoch[live] \in Nat
      /\ Flusher \notin Threads /\ Flusher \in Buffers /\ Threads \subseteq Buffers
  BY ThreadsAssumption DEF TypeOK, BusTypeOK, FlushTypeOK, Buffers
<1>2. \A n \in barrier : /\ n \in 1..Len(log)
                         /\ log[n].thread \in Threads
                         /\ ~first[log[n].thread]
  BY DEF DrainInv, BarrierIsBehind
<1>3. ASSUME NEW stop \in BOOLEAN, NEW metadata \in BOOLEAN,
             Tick(stop, metadata)
      PROVE  DrainInv'
  <2>1. /\ UNCHANGED <<tlBuffers, buf, flushEpoch, owner, poisoned, pc, seen,
                       first, log, live>>
        /\ \/ drainEpoch'[live] = drainEpoch[live] + 1
              /\ barrier' = Drainable(live)
           \/ UNCHANGED <<drainEpoch, barrier>>
        /\ \/ fpc' = "snapshot"
           \/ fpc' = "sources" /\ ~exit' /\ ~doDrain'
    BY <1>1, <1>3 DEF Tick, BusTypeOK
  <2>2. BuffersOwnTheirEvents' /\ RecordersAreRegistered'
    BY <2>1 DEF DrainInv, BuffersOwnTheirEvents, RecordersAreRegistered, Alive
  <2>3. \A t \in Threads : flushEpoch[t] \in Nat /\ seen[t] \in Nat
    BY <1>1 DEF BusTypeOK
  <2>4. StampsAreBehind'
    BY <1>1, <2>1, <2>3 DEF DrainInv, StampsAreBehind
  <2>5. BarrierIsBehind'
    <3>1. CASE drainEpoch'[live] = drainEpoch[live] + 1
               /\ barrier' = Drainable(live)
      <4>1. \A t \in Threads : flushEpoch[t] < drainEpoch'[live]
        BY <1>1, <2>3, <3>1 DEF DrainInv, StampsAreBehind
      <4> QED BY <2>1, <3>1, <4>1 DEF BarrierIsBehind, Drainable
    <3>2. CASE UNCHANGED <<drainEpoch, barrier>>
      BY <2>1, <3>2 DEF DrainInv, BarrierIsBehind
    <3> QED BY <2>1, <3>1, <3>2
  <2>6. DrainIsOnTrack'
    BY <2>1 DEF DrainIsOnTrack
  <2> QED BY <2>2, <2>4, <2>5, <2>6 DEF DrainInv
<1>4. CASE Snapshot
  <2>1. /\ UNCHANGED <<tlBuffers, buf, flushEpoch, owner, poisoned, pc, seen,
                       first, log, live, drainEpoch, barrier>>
        /\ fpc' = "visit" /\ todo' = tlBuffers[live]
    BY <1>4 DEF Snapshot, busVars
  <2>2. DrainIsOnTrack'
    <3>1. ASSUME NEW n \in barrier
          PROVE  LET t == log[n].thread
                 IN  poisoned[t] \/ ~Alive(t) \/ t \in tlBuffers[live]
      BY <1>2 DEF DrainInv, RecordersAreRegistered
    <3> QED BY <2>1, <3>1 DEF DrainIsOnTrack, Alive
  <2> QED BY <2>1, <2>2, QuietBus DEF DrainInv
<1>5. ASSUME NEW t \in Threads, Visit(t) PROVE DrainInv'
  <2>1. /\ UNCHANGED <<tlBuffers, buf, flushEpoch, owner, poisoned, pc, seen,
                       first, log, live, drainEpoch, barrier>>
        /\ fpc = "visit" /\ todo' = todo \ {t}
        /\ IF SkipsBusy(t) THEN fpc' = "visit" ELSE fpc' = "lock" /\ cur' = t
    BY <1>5 DEF Visit, busVars
  <2>2. DrainIsOnTrack'
    <3>1. ASSUME NEW n \in barrier, SkipsBusy(t), n \in buf[log[n].thread].events
          PROVE  log[n].thread # t
      BY <1>1, <3>1 DEF DrainInv, BarrierIsBehind, SkipsBusy, BusTypeOK
    <3>2. ASSUME NEW n \in barrier, n \in buf[log[n].thread].events,
                 ~poisoned[log[n].thread], Alive(log[n].thread)
          PROVE  log[n].thread \in todo
      BY <2>1, <3>2 DEF DrainInv, DrainIsOnTrack
    <3> QED BY <2>1, <3>1, <3>2 DEF DrainIsOnTrack, Alive
  <2> QED BY <2>1, <2>2, QuietBus DEF DrainInv
<1>6. ASSUME NEW t \in Threads, LockAndFlush(t) PROVE DrainInv'
  <2>1. /\ UNCHANGED <<tlBuffers, owner, poisoned, pc, seen, first, log, live,
                       drainEpoch, barrier, todo>>
        /\ fpc = "lock" /\ t = cur /\ fpc' = "visit"
    BY <1>6 DEF LockAndFlush
  <2>2. \A u \in Buffers : u # t => buf'[u] = buf[u] /\ flushEpoch'[u] = flushEpoch[u]
    BY <1>1, <1>6 DEF LockAndFlush, BusTypeOK
  <2>3. \/ LockSkips(t) /\ buf'[t] = buf[t] /\ flushEpoch'[t] = flushEpoch[t]
        \/ buf'[t].events = {} /\ flushEpoch'[t] = drainEpoch[live]
    <3>1. CASE LockSkips(t)
      BY <1>6, <3>1 DEF LockAndFlush
    <3>2. CASE ~LockSkips(t)
      <4>1. flushEpoch'[t] = drainEpoch[live]
        BY <1>1, <1>6, <3>2 DEF LockAndFlush, BusTypeOK
      <4>2. CASE buf[t].count > 0
        <5>1. buf' = [buf EXCEPT ![t] = EmptyBatch]
          BY <1>6, <3>2, <4>2 DEF LockAndFlush, Reset
        <5> QED BY <1>1, <4>1, <5>1 DEF BusTypeOK, EmptyBatch
      <4>3. CASE ~(buf[t].count > 0)
        <5>1. buf[t].count = 0
          BY <1>1, <4>3 DEF BusTypeOK, Batches
        <5>2. buf[t].events = {}
          BY <1>1, <5>1 DEF DrainInv, BuffersOwnTheirEvents
        <5>3. UNCHANGED buf
          BY <1>6, <3>2, <4>3 DEF LockAndFlush
        <5> QED BY <4>1, <5>2, <5>3
      <4> QED BY <4>2, <4>3
    <3> QED BY <3>1, <3>2
  <2>4. BuffersOwnTheirEvents'
    <3>1. \A u \in Buffers : buf'[u] = buf[u] \/ buf'[u].events = {}
      BY <2>2, <2>3
    <3> QED BY <1>1, <2>1, <3>1 DEF DrainInv, BuffersOwnTheirEvents
  <2>5. RecordersAreRegistered'
    BY <2>1 DEF DrainInv, RecordersAreRegistered, Alive
  <2>6. StampsAreBehind'
    BY <1>1, <2>1, <2>2, <2>3 DEF DrainInv, StampsAreBehind
  <2>7. BarrierIsBehind'
    <3>1. ASSUME NEW n \in barrier, n \in buf'[log[n].thread].events
          PROVE  flushEpoch'[log[n].thread] < drainEpoch[live]
      BY <1>1, <1>2, <2>2, <2>3, <3>1 DEF DrainInv, BarrierIsBehind
    <3> QED BY <1>2, <2>1, <3>1 DEF BarrierIsBehind
  <2>8. DrainIsOnTrack'
    <3>1. ASSUME NEW n \in barrier, n \in buf'[log[n].thread].events,
                 ~poisoned[log[n].thread], Alive(log[n].thread)
          PROVE  log[n].thread \in todo
      <4>1. log[n].thread # t
        BY <2>3, <3>1 DEF LockSkips
      <4>2. n \in buf[log[n].thread].events
        BY <1>1, <1>2, <2>2, <3>1, <4>1
      <4> QED BY <2>1, <3>1, <4>1, <4>2 DEF DrainInv, DrainIsOnTrack
    <3> QED BY <2>1, <3>1 DEF DrainIsOnTrack, Alive
  <2> QED BY <2>4, <2>5, <2>6, <2>7, <2>8 DEF DrainInv
<1>7. CASE Prune
  <2>1. /\ UNCHANGED <<buf, flushEpoch, owner, poisoned, pc, seen, first, log,
                       live, drainEpoch, barrier>>
        /\ fpc = "visit" /\ todo = {} /\ fpc' = "sources"
        /\ tlBuffers'[live] = {t \in tlBuffers[live] : Alive(t)}
    BY <1>1, <1>7 DEF Prune, BusTypeOK
  <2>2. RecordersAreRegistered'
    BY <2>1 DEF DrainInv, RecordersAreRegistered, Alive
  <2>3. DrainIsOnTrack'
    BY <2>1 DEF DrainInv, DrainIsOnTrack, Alive
  <2> QED BY <2>1, <2>2, <2>3, QuietBus DEF DrainInv
<1>8. ASSUME NEW wrote \in BOOLEAN, FlushSources(wrote) PROVE DrainInv'
  <2>1. /\ UNCHANGED <<tlBuffers, poisoned, pc, seen, first, live, drainEpoch,
                       barrier, exit, doDrain>>
        /\ fpc = "sources" /\ fpc' = "self"
    BY <1>8 DEF FlushSources
  <2>2. CASE ~wrote
    <3>1. UNCHANGED <<buf, flushEpoch, log, owner>>
      BY <1>8, <2>2 DEF FlushSources
    <3>2. DrainIsOnTrack'
      BY <2>1, <3>1 DEF DrainInv, DrainIsOnTrack, Alive
    <3> QED BY <2>1, <3>1, <3>2, QuietBus DEF DrainInv
  <2>3. CASE wrote
    <3> DEFINE b == Extended(buf[Flusher], wrote, Len(log) + 1)
    <3>1. /\ Len(log) \in Nat
          /\ Len(log') = Len(log) + 1
          /\ \A n \in 1..Len(log) : log'[n] = log[n]
          /\ log'[Len(log) + 1].thread = Flusher
      <4>1. log' = Append(log, [thread |-> Flusher, rec |-> live])
        BY <1>8, <2>3 DEF FlushSources
      <4>2. [thread |-> Flusher, rec |-> live]
              \in [thread : Buffers, rec : Recorders]
        BY <1>1
      <4>3. [thread |-> Flusher, rec |-> live].thread = Flusher
        OBVIOUS
      <4> QED BY <4>1, <4>2, <4>3, LogGrows
    <3>2. buf[Flusher] \in Batches
      BY <1>1 DEF BusTypeOK
    <3>3. b.events = buf[Flusher].events \cup {Len(log) + 1}
          /\ b.count = buf[Flusher].count + 1 /\ buf[Flusher].count \in Nat
      BY <2>3, <3>2 DEF Extended, Batches
    <3>4. buf' = [buf EXCEPT ![Flusher] = b]
          \/ buf' = [buf EXCEPT ![Flusher] = EmptyBatch]
      BY <1>8, <2>3 DEF FlushSources, Reset
    <3> HIDE DEF b
    <3>5. /\ \A u \in Threads : buf'[u] = buf[u]
          /\ buf'[Flusher] = b \/ buf'[Flusher] = EmptyBatch
      BY <1>1, <3>4 DEF BusTypeOK
    <3>6. /\ \A u \in Threads : flushEpoch'[u] = flushEpoch[u]
          /\ \A u \in Threads : owner'[u] = owner[u]
          /\ owner'[Flusher] # 0
      <4>1. /\ owner' = [owner EXCEPT ![Flusher] = SetCollector(Flusher, live)]
            /\ \/ UNCHANGED flushEpoch
               \/ flushEpoch' = [flushEpoch EXCEPT ![Flusher] = drainEpoch[live]]
        BY <1>8, <2>3 DEF FlushSources
      <4>2. SetCollector(Flusher, live) # 0
        BY DEF SetCollector
      <4> QED BY <1>1, <4>1, <4>2 DEF BusTypeOK
    <3>7. BuffersOwnTheirEvents'
      <4>1. ASSUME NEW u \in Buffers, NEW n \in buf'[u].events
            PROVE  n \in 1..Len(log') /\ log'[n].thread = u
        <5>1. CASE n \in buf[u].events
          <6>1. n \in 1..Len(log) /\ log[n].thread = u
            BY <5>1 DEF DrainInv, BuffersOwnTheirEvents
          <6> QED BY <6>1, <3>1
        <5>2. CASE n \notin buf[u].events
          <6>1. u = Flusher /\ n = Len(log) + 1
            BY <4>1, <5>2, <3>3, <3>5 DEF Buffers, EmptyBatch
          <6> QED BY <6>1, <3>1
        <5> QED BY <5>1, <5>2
      <4>2. \A u \in Buffers : buf'[u].count = 0 => buf'[u].events = {}
        BY <3>3, <3>5 DEF DrainInv, BuffersOwnTheirEvents, Buffers, EmptyBatch
      <4>3. \A u \in Threads : pc'[u] = "stamping" => buf'[u].events = {}
        BY <2>1, <3>5 DEF DrainInv, BuffersOwnTheirEvents
      <4> QED BY <4>1, <4>2, <4>3 DEF BuffersOwnTheirEvents
    <3>8. RecordersAreRegistered'
      <4>1. ASSUME NEW n \in 1..Len(log') PROVE owner'[log'[n].thread] # 0
        <5>1. CASE n \in 1..Len(log)
          <6>1. log[n].thread \in Buffers /\ owner[log[n].thread] # 0
            BY <5>1, LogThread DEF DrainInv, RecordersAreRegistered
          <6> QED BY <5>1, <6>1, <3>1, <3>6 DEF Buffers
        <5>2. CASE n \notin 1..Len(log)
          <6>1. n = Len(log) + 1
            BY <4>1, <5>2, <3>1
          <6> QED BY <6>1, <3>1, <3>6
        <5> QED BY <5>1, <5>2
      <4> QED BY <2>1, <3>6, <4>1 DEF DrainInv, RecordersAreRegistered, Alive
    <3>9. StampsAreBehind'
      BY <2>1, <3>6 DEF DrainInv, StampsAreBehind
    <3>10. \A n \in barrier : log'[n] = log[n] /\ n \in 1..Len(log')
      BY <1>2, <3>1
    <3>11. BarrierIsBehind'
      BY <1>2, <2>1, <3>5, <3>6, <3>10 DEF DrainInv, BarrierIsBehind
    <3>12. DrainIsOnTrack'
      BY <1>2, <2>1, <3>5, <3>10 DEF DrainInv, DrainIsOnTrack, Alive
    <3> QED BY <3>7, <3>8, <3>9, <3>11, <3>12 DEF DrainInv
  <2> QED BY <2>2, <2>3
<1>9. ASSUME NEW due \in BOOLEAN, DrainSelf(due) PROVE DrainInv'
  <2>1. /\ UNCHANGED <<tlBuffers, flushEpoch, owner, poisoned, pc, seen, first,
                       log, live, drainEpoch, barrier, exit, doDrain>>
        /\ fpc = "self" /\ fpc' = "pop"
        /\ UNCHANGED buf \/ buf' = [buf EXCEPT ![Flusher] = EmptyBatch]
    BY <1>9 DEF DrainSelf, Reset
  <2>2. /\ \A u \in Threads : buf'[u] = buf[u]
        /\ buf'[Flusher] = buf[Flusher] \/ buf'[Flusher] = EmptyBatch
    BY <1>1, <2>1 DEF BusTypeOK
  <2>3. BuffersOwnTheirEvents'
    BY <2>1, <2>2 DEF DrainInv, BuffersOwnTheirEvents, Buffers, EmptyBatch
  <2>4. RecordersAreRegistered'
    BY <2>1 DEF DrainInv, RecordersAreRegistered, Alive
  <2>5. StampsAreBehind'
    BY <2>1 DEF DrainInv, StampsAreBehind
  <2>6. BarrierIsBehind'
    BY <1>2, <2>1, <2>2 DEF DrainInv, BarrierIsBehind
  <2>7. DrainIsOnTrack'
    BY <1>2, <2>1, <2>2 DEF DrainInv, DrainIsOnTrack, Alive
  <2> QED BY <2>3, <2>4, <2>5, <2>6, <2>7 DEF DrainInv
<1>10. ASSUME NEW io \in IoOutcomes, NEW failed \in BOOLEAN,
              PopBatch(io, failed)
       PROVE  DrainInv'
  <2>1. /\ UNCHANGED <<tlBuffers, buf, flushEpoch, owner, poisoned, pc, seen,
                       first, log, live, drainEpoch, exit, doDrain>>
        /\ fpc = "pop"
        /\ \/ fpc' = "aborted" /\ barrier' = {}
           \/ fpc' = "pop" /\ barrier' = barrier
    BY <1>10 DEF PopBatch
  <2>2. DrainIsOnTrack'
    BY <2>1 DEF DrainInv, DrainIsOnTrack, Alive
  <2> QED BY <2>1, <2>2, QuietBus DEF DrainInv
<1>11. CASE PopDone
  <2>1. /\ UNCHANGED <<tlBuffers, buf, flushEpoch, owner, poisoned, pc, seen,
                       first, log, live, drainEpoch, barrier, exit, doDrain,
                       collector>>
        /\ fpc = "pop" /\ fpc' = "after" /\ collector[live] = <<>>
    BY <1>11 DEF PopDone, busVars
  <2>2. QueueEvents(collector[live]) = {}
    <3>1. Len(collector[live]) = 0
      BY <2>1
    <3> QED BY <3>1 DEF QueueEvents
  <2>3. DrainIsOnTrack'
    BY <2>1, <2>2 DEF DrainInv, DrainIsOnTrack, Alive, QueueEvents
  <2> QED BY <2>1, <2>3, QuietBus DEF DrainInv
<1>12. ASSUME NEW io \in IoOutcomes, EndCycle(io) PROVE DrainInv'
  <2>1. /\ UNCHANGED <<tlBuffers, buf, flushEpoch, owner, poisoned, pc, seen,
                       first, log, live, drainEpoch>>
        /\ fpc' = "wait" /\ barrier' \subseteq barrier
    BY <1>12 DEF EndCycle, busVars
  <2>2. DrainIsOnTrack'
    BY <2>1 DEF DrainIsOnTrack
  <2> QED BY <2>1, <2>2, QuietBus DEF DrainInv
<1>13. ASSUME NEW panicked \in BOOLEAN, NEW io \in IoOutcomes,
              FinalizeAndStop(panicked, io)
       PROVE  DrainInv'
  <2>1. /\ UNCHANGED <<tlBuffers, buf, flushEpoch, owner, poisoned, pc, seen,
                       first, log, live, drainEpoch, barrier, exit, doDrain,
                       collector>>
        /\ fpc \in {"after", "aborted"} /\ fpc' = "exited"
    BY <1>13 DEF FinalizeAndStop, busVars
  <2>2. DrainIsOnTrack'
    BY <2>1 DEF DrainInv, DrainIsOnTrack, Alive, QueueEvents
  <2> QED BY <2>1, <2>2, QuietBus DEF DrainInv
<1> QED
  BY <1>3, <1>4, <1>5, <1>6, <1>7, <1>8, <1>9, <1>10, <1>11, <1>12, <1>13
  DEF FlushThreadStep

(* The steps that change nothing of what the invariant is about.           *)
LEMMA UnrelatedDrain ==
    ASSUME DrainInv,
           UNCHANGED <<drainEpoch, tlBuffers, collector, buf, flushEpoch,
                       owner, poisoned, pc, seen, first, log>>,
           UNCHANGED <<live, fpc, exit, doDrain, todo, cur, barrier>>
    PROVE  DrainInv'
<1>1. DrainIsOnTrack'
  BY DEF DrainInv, DrainIsOnTrack, Alive, QueueEvents
<1> QED BY <1>1, QuietBus DEF DrainInv

(* Stopping a recorder: the caller drains its own buffer, then waits.      *)
LEMMA StopDrain ==
    ASSUME TypeOK, live = 1, DrainInv, NEW t \in Threads,
           StopRequest(t) \/ SendStop(t) \/ MarkStopped(t)
    PROVE  DrainInv'
<1>1. t \in Buffers /\ buf[t] \in Batches /\ live \in Recorders /\ BusTypeOK
  BY DEF TypeOK, BusTypeOK, FlushTypeOK, Buffers
<1>2. pc[t] \in {"idle", "sending", "stopping"} => ~first[t] /\ Alive(t)
  BY DEF DrainInv, RecordersAreRegistered, Alive
<1>3. CASE StopRequest(t)
  <2>1. /\ pc[t] = "idle" /\ pc' = [pc EXCEPT ![t] = "sending"]
        /\ UNCHANGED <<drainEpoch, tlBuffers, flushEpoch, owner, poisoned,
                       seen, first, log>>
        /\ UNCHANGED <<live, fpc, exit, doDrain, todo, cur, barrier>>
    BY <1>3 DEF StopRequest, flushVars
  <2>2. CASE AcceptFlush(live, buf[t]) /\ buf' = [buf EXCEPT ![t] = EmptyBatch]
    <3>1. QueueEvents(collector'[live])
            \subseteq QueueEvents(collector[live]) \cup buf[t].events
      BY <1>1, <2>2, AcceptFlushType
    <3> QED BY <1>2, <2>1, <2>2, <3>1, HandOver DEF ThreadSteps
  <2>3. CASE UNCHANGED <<collector, buf>>
    BY <1>2, <2>1, <2>3, QuietThread DEF ThreadSteps
  <2> QED BY <1>3, <2>2, <2>3 DEF StopRequest, Reset
<1>4. CASE MarkStopped(t)
  BY <1>2, <1>4, QuietThread DEF MarkStopped, ThreadSteps, flushVars
<1>5. CASE SendStop(t)
  BY <1>2, <1>5, QuietThread DEF SendStop, ThreadSteps
<1> QED BY <1>3, <1>4, <1>5

(* No step records for, or starts, a recorder that is not built.           *)
LEMMA UnbuiltStep ==
    ASSUME TypeOK, LaterRecordersUnbuilt, Next
    PROVE  LaterRecordersUnbuilt'
<1>1. /\ live \in Recorders
      /\ state \in [Recorders -> States]
      /\ via \in [Threads -> Recorders]
      /\ Recorders \subseteq Nat
  BY DEF TypeOK, BusTypeOK, FlushTypeOK, Recorders
<1>2. CASE UNCHANGED <<live, state, via>>
  BY <1>2 DEF LaterRecordersUnbuilt
<1>3. ASSUME NEW r \in Recorders, NEW s \in States, state[r] # "NotBuilt",
             state' = [state EXCEPT ![r] = s], UNCHANGED <<live, via>>
      PROVE  LaterRecordersUnbuilt'
  BY <1>1, <1>3 DEF LaterRecordersUnbuilt
<1>4. CASE (\E t \in Threads : ThreadStep(t)) /\ UNCHANGED flushVars
  <2>1. PICK t \in Threads : ThreadStep(t)
    BY <1>4
  <2>2. UNCHANGED live
    BY <1>4 DEF flushVars
  <2>3. ASSUME NEW r \in Recorders, BeginRecord(t, r)
        PROVE  LaterRecordersUnbuilt'
    <3>1. r <= live
      BY <1>1, <2>3 DEF BeginRecord, LaterRecordersUnbuilt
    <3>2. \A u \in Threads : via'[u] = IF u = t THEN r ELSE via[u]
      BY <1>1, <2>3 DEF BeginRecord
    <3>3. UNCHANGED state
      BY <2>3 DEF BeginRecord
    <3> QED BY <2>2, <3>1, <3>2, <3>3 DEF LaterRecordersUnbuilt
  <2>4. ASSUME ~\E r \in Recorders : BeginRecord(t, r)
        PROVE  UNCHANGED <<state, via>>
    BY <2>1, <2>4
    DEF ThreadStep, RecordRefused, Encode, SelfFlush, SelfStamp, Register,
        EncodePanics, BeginExit, FinishExit
  <2> QED BY <2>2, <2>3, <2>4, <1>2
<1>5. CASE LifecycleStep /\ UNCHANGED flushVars
  <2>1. PICK r \in Recorders : Enable(r) \/ Disable(r) \/ DisablePermanently(r)
    BY <1>5 DEF LifecycleStep
  <2>2. PICK s \in States : SetState(r, s)
    BY <2>1 DEF Enable, Disable, DisablePermanently, States
  <2>3. state[r] # "NotBuilt"
    BY <2>1 DEF Enable, Disable, DisablePermanently
  <2>4. state' = [state EXCEPT ![r] = s] /\ UNCHANGED <<live, via>>
    BY <1>5, <2>2 DEF SetState, flushVars
  <2> QED BY <2>3, <2>4, <1>3
<1>6. CASE FlushThreadStep
  <2>1. CASE UNCHANGED state
    <3>1. UNCHANGED <<live, via>>
      BY <1>6
      DEF FlushThreadStep, Tick, Snapshot, Visit, LockAndFlush, Prune,
          FlushSources, DrainSelf, PopBatch, PopDone, EndCycle,
          FinalizeAndStop, busVars
    <3> QED BY <1>2, <2>1, <3>1
  <2>2. CASE state' = AfterWriteError /\ UNCHANGED <<live, via>>
    BY <1>1, <2>2 DEF AfterWriteError, LaterRecordersUnbuilt
  <2> QED BY <1>6, <2>1, <2>2
      DEF FlushThreadStep, Tick, Snapshot, Visit, LockAndFlush, Prune,
          FlushSources, DrainSelf, PopBatch, PopDone, EndCycle,
          FinalizeAndStop, busVars
<1>7. CASE DrainTimer \/ RotateTimer
  BY <1>2, <1>7 DEF DrainTimer, RotateTimer, busVars
<1>8. ASSUME NEW t \in Threads,
             StopRequest(t) \/ SendStop(t) \/ MarkStopped(t)
      PROVE  LaterRecordersUnbuilt'
  <2>1. UNCHANGED <<live, via>>
        /\ (UNCHANGED state \/ state' = [state EXCEPT ![live] = "Stopped"])
    BY <1>8 DEF StopRequest, SendStop, MarkStopped, flushVars
  <2> QED BY <1>1, <2>1 DEF LaterRecordersUnbuilt
<1>9. CASE Build
  <2>1. /\ live' = live + 1 /\ UNCHANGED via
        /\ state' = [state EXCEPT ![live + 1] = "Disabled"]
    BY <1>9 DEF Build
  <2>2. live \in Nat /\ \A t \in Threads : via[t] \in Nat
    BY <1>1
  <2>3. \A t \in Threads : via'[t] <= live'
    BY <2>1, <2>2 DEF LaterRecordersUnbuilt
  <2>4. ASSUME NEW r \in Recorders, r > live' PROVE state'[r] = "NotBuilt"
    <3>1. r \in Nat /\ r > live /\ r # live + 1
      BY <1>1, <2>1, <2>2, <2>4
    <3> QED BY <1>1, <2>1, <3>1 DEF LaterRecordersUnbuilt
  <2> QED BY <2>3, <2>4 DEF LaterRecordersUnbuilt
<1> QED BY <1>4, <1>5, <1>6, <1>7, <1>8, <1>9 DEF Next

LEMMA InitDrain == Init => FirstRecorderInv
<1> SUFFICES ASSUME Init PROVE FirstRecorderInv
  OBVIOUS
<1>1. /\ live = 1 /\ fpc = "wait" /\ barrier = {} /\ log = <<>>
      /\ \A r \in Recorders : state[r] = IF r = 1 THEN "Disabled" ELSE "NotBuilt"
      /\ \A t \in Threads : /\ via[t] = 1 /\ seen[t] = 0 /\ ~first[t]
                            /\ pc[t] = "idle"
      /\ \A t \in Buffers : /\ buf[t] = EmptyBatch /\ flushEpoch[t] = 0
                            /\ owner[t] = 0
      /\ \A r \in Recorders : drainEpoch[r] = 0
  BY DEF Init, BusInit
<1>2. 1 \in Recorders /\ Recorders \subseteq Nat
  BY SizesAssumption DEF Recorders
<1>3. LaterRecordersUnbuilt
  BY <1>1, <1>2 DEF LaterRecordersUnbuilt
<1>4. BuffersOwnTheirEvents
  BY <1>1 DEF BuffersOwnTheirEvents, EmptyBatch, Buffers
<1>5. RecordersAreRegistered
  <2>1. Len(log) = 0
    BY <1>1
  <2> QED BY <1>1, <2>1 DEF RecordersAreRegistered, Buffers
<1>6. StampsAreBehind
  BY <1>1, <1>2 DEF StampsAreBehind, Buffers
<1>7. BarrierIsBehind /\ DrainIsOnTrack
  BY <1>1 DEF BarrierIsBehind, DrainIsOnTrack
<1> QED BY <1>3, <1>4, <1>5, <1>6, <1>7 DEF FirstRecorderInv, DrainInv

LEMMA NextDrain ==
    TypeOK /\ FirstRecorderInv /\ [Next]_vars => FirstRecorderInv'
<1> SUFFICES ASSUME TypeOK, FirstRecorderInv, [Next]_vars
             PROVE  FirstRecorderInv'
  OBVIOUS
<1>1. LaterRecordersUnbuilt /\ (live = 1 => DrainInv)
  BY DEF FirstRecorderInv
<1>2. CASE UNCHANGED vars
  <2>1. LaterRecordersUnbuilt'
    BY <1>1, <1>2 DEF vars, busVars, flushVars, LaterRecordersUnbuilt
  <2>2. live = 1 => DrainInv'
    BY <1>1, <1>2, UnrelatedDrain DEF vars, busVars, flushVars
  <2> QED BY <1>2, <2>1, <2>2 DEF FirstRecorderInv, vars, flushVars
<1>3. CASE Next
  <2>1. LaterRecordersUnbuilt'
    BY <1>1, <1>3, UnbuiltStep
  <2>2. ASSUME live = 1, live' = 1 PROVE DrainInv'
    <3>1. DrainInv
      BY <1>1, <2>2
    <3>2. CASE (\E t \in Threads : ThreadStep(t)) /\ UNCHANGED flushVars
      BY <1>1, <2>2, <3>1, <3>2, ThreadDrain
    <3>3. CASE LifecycleStep /\ UNCHANGED flushVars
      <4>1. UNCHANGED <<drainEpoch, tlBuffers, collector, buf, flushEpoch,
                        owner, poisoned, pc, seen, first, log>>
        BY <3>3
        DEF LifecycleStep, Enable, Disable, DisablePermanently, SetState
      <4> QED BY <3>1, <3>3, <4>1, UnrelatedDrain DEF flushVars
    <3>4. CASE FlushThreadStep
      BY <2>2, <3>1, <3>4, FlushDrain
    <3>5. CASE DrainTimer \/ RotateTimer
      BY <3>1, <3>5, UnrelatedDrain DEF DrainTimer, RotateTimer, busVars
    <3>6. ASSUME NEW t \in Threads,
             StopRequest(t) \/ SendStop(t) \/ MarkStopped(t)
          PROVE  DrainInv'
      BY <2>2, <3>1, <3>6, StopDrain
    <3>7. CASE Build
      BY <2>2, <3>7 DEF Build
    <3> QED BY <1>3, <3>2, <3>3, <3>4, <3>5, <3>6, <3>7 DEF Next
  <2>3. live' = 1 => live = 1
    <3>1. CASE Build
      BY <3>1 DEF Build, TypeOK, FlushTypeOK, Recorders
    <3>2. CASE ~Build
      BY <1>3, <3>2
      DEF Next, flushVars, DrainTimer, RotateTimer, StopRequest, SendStop,
          MarkStopped, FlushThreadStep, Tick, Snapshot, Visit, LockAndFlush, Prune,
          FlushSources, DrainSelf, PopBatch, PopDone, EndCycle, FinalizeAndStop
    <3> QED BY <3>1, <3>2
  <2> QED BY <2>1, <2>2, <2>3 DEF FirstRecorderInv
<1> QED BY <1>2, <1>3

(* Where a drain has got to at the end of a cycle is what DrainBarrier     *)
(* asks for.                                                               *)
LEMMA DrainInvImplies == FirstRecorderInv => (live = 1 => DrainBarrier)
BY DEF FirstRecorderInv, DrainInv, DrainIsOnTrack, DrainBarrier

(* While the first recorder of a process is live, a drain and the last     *)
(* drain of its shutdown leave behind no event recorded before the epoch   *)
(* was bumped, however its threads record, flush, exit, panic or stop it   *)
(* meanwhile (drain_all_tl_buffers, with_encoder, run_flush_loop).  For    *)
(* later recorders the same is false: LaterRecorderDrains.                 *)
THEOREM FirstRecorderDrains == Spec => [](live = 1 => DrainBarrier)
<1>1. Spec => []TypeOK
  BY TypeCorrect
<1>2. Spec => []FirstRecorderInv
  BY <1>1, InitDrain, NextDrain, PTL DEF Spec
<1> QED BY <1>2, DrainInvImplies, PTL

-----------------------------------------------------------------------------
(* What a step does to the lifecycle state of one recorder.                *)
LEMMA LifecycleStepMonotone ==
    ASSUME TypeOK, LaterRecordersUnbuilt, [Next]_vars, NEW r \in Recorders
    PROVE  /\ state[r] = "Failed" => state'[r] \in {"Failed", "Stopped"}
           /\ state[r] = "Stopped" => state'[r] = "Stopped"
<1>1. live \in Recorders /\ state \in [Recorders -> States]
      /\ Recorders \subseteq Nat
  BY DEF TypeOK, BusTypeOK, FlushTypeOK, Recorders
<1>2. CASE UNCHANGED state
  BY <1>2
<1>3. CASE LifecycleStep
  <2>1. PICK q \in Recorders : Enable(q) \/ Disable(q) \/ DisablePermanently(q)
    BY <1>3 DEF LifecycleStep
  <2>2. state[q] \in {"Disabled", "Enabled"}
    BY <2>1 DEF Enable, Disable, DisablePermanently
  <2>3. \E s \in States : state' = [state EXCEPT ![q] = s]
    BY <2>1 DEF Enable, Disable, DisablePermanently, SetState, States
  <2> QED BY <1>1, <2>2, <2>3
<1>4. CASE state' = AfterWriteError
  BY <1>1, <1>4 DEF AfterWriteError
<1>5. ASSUME NEW t \in Threads, MarkStopped(t)
      PROVE  state'[r] \in {state[r], "Stopped"}
  BY <1>1, <1>5 DEF MarkStopped
<1>6. CASE Build
  <2>1. state' = [state EXCEPT ![live + 1] = "Disabled"]
    BY <1>6 DEF Build
  <2>2. r # live + 1 => state'[r] = state[r]
    BY <1>1, <2>1
  <2>3. r = live + 1 => state[r] = "NotBuilt"
    BY <1>1 DEF LaterRecordersUnbuilt
  <2> QED BY <2>2, <2>3
<1>7. ASSUME NEW t \in Threads, ThreadStep(t) \/ StopRequest(t) \/ SendStop(t)
      PROVE  UNCHANGED state
  BY <1>7
  DEF ThreadStep, BeginRecord, RecordRefused, Encode, SelfFlush, SelfStamp,
      Register, EncodePanics, BeginExit, FinishExit, StopRequest, SendStop
<1>8. CASE FlushThreadStep
  BY <1>2, <1>4, <1>8
  DEF FlushThreadStep, Tick, Snapshot, Visit, LockAndFlush, Prune,
      FlushSources, DrainSelf, PopBatch, PopDone, EndCycle, FinalizeAndStop,
      busVars
<1>9. CASE DrainTimer \/ RotateTimer \/ UNCHANGED vars
  BY <1>2, <1>9 DEF DrainTimer, RotateTimer, vars, busVars
<1> QED BY <1>2, <1>3, <1>5, <1>6, <1>7, <1>8, <1>9 DEF Next

(* A recorder that failed stays failed until it is stopped, and a stopped  *)
(* one stays stopped, whatever races its lifecycle calls, a write error on *)
(* the flush thread, a late failure of the worker and the build of the     *)
(* next recorder run (SharedState's compare_exchange and fetch_max).       *)
THEOREM LifecycleIsMonotone == Spec => LifecycleMonotone
<1>1. TypeOK /\ FirstRecorderInv /\ [Next]_vars =>
        [\A r \in Recorders :
            /\ state[r] = "Failed" => state'[r] \in {"Failed", "Stopped"}
            /\ state[r] = "Stopped" => state'[r] = "Stopped"]_vars
  BY LifecycleStepMonotone DEF FirstRecorderInv
<1>2. Spec => []TypeOK
  BY TypeCorrect
<1>3. Spec => []FirstRecorderInv
  BY <1>2, InitDrain, NextDrain, PTL DEF Spec
<1> QED BY <1>1, <1>2, <1>3, PTL DEF Spec, LifecycleMonotone

-----------------------------------------------------------------------------
(***************************************************************************)
(* The fate of an event: every encoded event is in exactly one place       *)
(* (EventInOnePlace), and the recorder implements TraceLog, for any number *)
(* of threads, recorders, events and queue slots and any pattern of I/O    *)
(* errors.                                                                 *)
(*                                                                         *)
(* The inductive invariant keeps the places apart (Apart, Fates) and says  *)
(* that together they hold what was encoded and nothing else (Fates).      *)
(* That no batch is discarded with events in it needs the counts of the    *)
(* batches (Counts), that the next recorder does not start with an event   *)
(* of the last one's flush thread needs the drain on exit (SelfDrained),   *)
(* and that the writer forgets nothing is WriterAccounts.                  *)
(***************************************************************************)

(* The events of a family of batches, and of a family of queues of them.   *)
InBuffers(b) == UNION {b[t].events : t \in Buffers}
InQueues(c) == UNION {QueueEvents(c[r]) : r \in Recorders}

(* No two buffers, and no two slots of the queues, share an event.         *)
BuffersApart(b) ==
    \A t, u \in Buffers : t # u => b[t].events \cap b[u].events = {}

SlotsApart(c) ==
    \A r, s \in Recorders : \A i \in 1..Len(c[r]), j \in 1..Len(c[s]) :
        r # s \/ i # j => c[r][i].events \cap c[s][j].events = {}

(* A batch that says it is empty is.                                       *)
Honest(b) == b.count = 0 => b.events = {}

Counts ==
    /\ \A t \in Buffers : Honest(buf[t])
    /\ \A r \in Recorders : \A i \in 1..Len(collector[r]) :
         Honest(collector[r][i])

Apart == BuffersApart(buf) /\ SlotsApart(collector)

(* What is buffered, queued, with the writer, in an earlier trace and gone *)
(* are apart, and together they are the events recorded so far.            *)
FatesOf(B, Q, A, H, G, n) ==
    /\ B \cup Q \cup A \cup H \cup G = 1..n
    /\ B \cap Q = {}
    /\ (B \cup Q) \cap A = {}
    /\ (B \cup Q) \cap (H \cup G) = {}
    /\ A \cap (H \cup G) = {}
    /\ H \cap G = {}

Fates == FatesOf(InBuffers(buf), InQueues(collector), Accounted(w), archive,
                 gone, Len(log))

(* A flush thread that is past the self-drain of its last cycle, and so a  *)
(* stopped recorder, has nothing in its own buffer.                        *)
SelfDrained ==
    /\ exit /\ fpc \in {"pop", "after", "aborted", "exited"} =>
         buf[Flusher].events = {}
    /\ fpc = "exited" => exit
    /\ state[live] = "Stopped" => fpc = "exited"

FateInv == Counts /\ Apart /\ Fates /\ SelfDrained /\ WriterAccounts(w)

-----------------------------------------------------------------------------
(* What the operations on queues and buffers do to the events in them.     *)

(* The slots of a queue after a push, exactly: each batch moves down by    *)
(* the one that was displaced, and the new one is last.                    *)
LEMMA PushedSlots ==
    ASSUME NEW q \in Seq(Batches), Len(q) <= Capacity, NEW b \in Batches
    PROVE  \E d \in {0, 1} :
             /\ d = 0 => Displaced(q) = {}
             /\ d = 1 => Len(q) # 0 /\ Displaced(q) = q[1].events
             /\ Pushed(q, b) \in Seq(Batches)
             /\ Len(Pushed(q, b)) = Len(q) + 1 - d
             /\ Pushed(q, b)[Len(q) + 1 - d] = b
             /\ \A i \in 1..(Len(q) - d) : Pushed(q, b)[i] = q[i + d]
<1> USE SizesAssumption
<1>1. CASE Len(q) = Capacity
  <2>1. q # <<>> /\ Tail(q) \in Seq(Batches) /\ Len(Tail(q)) = Len(q) - 1
        /\ Len(q) \in Nat /\ Len(q) # 0
    BY <1>1
  <2>2. Pushed(q, b) = Append(Tail(q), b) /\ Displaced(q) = q[1].events
    BY <1>1, <2>1 DEF Pushed, Displaced
  <2>3. /\ Pushed(q, b) \in Seq(Batches)
        /\ Len(Pushed(q, b)) = Len(q)
        /\ Pushed(q, b)[Len(q)] = b
        /\ \A i \in 1..(Len(q) - 1) : Pushed(q, b)[i] = Tail(q)[i]
    BY <2>1, <2>2, AppendProperties
  <2>4. \A i \in 1..(Len(q) - 1) : Tail(q)[i] = q[i + 1]
    BY <2>1, HeadTailProperties
  <2>5. Len(q) + 1 - 1 = Len(q)
    BY <2>1
  <2> WITNESS 1 \in {0, 1}
  <2> QED BY <2>1, <2>2, <2>3, <2>4, <2>5
<1>2. CASE Len(q) # Capacity
  <2>1. Pushed(q, b) = Append(q, b) /\ Displaced(q) = {}
    BY <1>2 DEF Pushed, Displaced
  <2>2. /\ Len(q) \in Nat
        /\ Pushed(q, b) \in Seq(Batches)
        /\ Len(Pushed(q, b)) = Len(q) + 1
        /\ Pushed(q, b)[Len(q) + 1] = b
        /\ \A i \in 1..Len(q) : Pushed(q, b)[i] = q[i]
    BY <2>1, AppendProperties, LenProperties
  <2>3. \A i \in 1..Len(q) : q[i + 0] = q[i]
    OBVIOUS
  <2> QED BY <2>1, <2>2, <2>3
<1> QED BY <1>1, <1>2

LEMMA InQueue ==
    ASSUME NEW c, NEW r \in Recorders, NEW i \in 1..Len(c[r]),
           NEW n \in c[r][i].events
    PROVE  n \in InQueues(c)
BY DEF InQueues, QueueEvents

LEMMA InQueuePick ==
    ASSUME NEW c, NEW n \in InQueues(c)
    PROVE  \E r \in Recorders : \E i \in 1..Len(c[r]) : n \in c[r][i].events
BY DEF InQueues, QueueEvents

(* From c to d the batch b is pushed to queue r: its events are added, and *)
(* those of the batch it displaces taken away, and no others.              *)
PushesEvents(c, d, r, b) ==
    /\ SlotsApart(d)
    /\ InQueues(d) = (InQueues(c) \ Displaced(c[r])) \cup b.events
    /\ Displaced(c[r]) \subseteq InQueues(c)
    /\ \A s \in Recorders : \A i \in 1..Len(d[s]) :
         d[s][i] = b \/ \E j \in 1..Len(c[s]) : d[s][i] = c[s][j]

LEMMA PushApart ==
    ASSUME NEW c \in [Recorders -> Seq(Batches)], NEW d,
           NEW r \in Recorders, NEW b \in Batches,
           \A s \in Recorders : Len(c[s]) <= Capacity,
           d = [c EXCEPT ![r] = Pushed(@, b)],
           SlotsApart(c), b.events \cap InQueues(c) = {}
    PROVE  PushesEvents(c, d, r, b)
<1> DEFINE q == c[r]
           p == Pushed(q, b)
<1>1. q \in Seq(Batches) /\ Len(q) <= Capacity /\ Len(q) \in Nat
  BY LenProperties
<1>2. PICK k \in {0, 1} :
             /\ k = 0 => Displaced(q) = {}
             /\ k = 1 => Len(q) # 0 /\ Displaced(q) = q[1].events
             /\ p \in Seq(Batches)
             /\ Len(p) = Len(q) + 1 - k
             /\ p[Len(q) + 1 - k] = b
             /\ \A i \in 1..(Len(q) - k) : p[i] = q[i + k]
  BY <1>1, PushedSlots
<1>3. \A s \in Recorders : d[s] = IF s = r THEN p ELSE c[s]
  OBVIOUS
<1>4. \A s \in Recorders : Len(c[s]) \in Nat
  BY LenProperties
<1> HIDE DEF q, p
<1> DEFINE From(s, i) == IF s = r THEN i + k ELSE i
(* Each slot but the new one is a slot of the queues before.               *)
<1>5. \A s \in Recorders : \A i \in 1..Len(d[s]) :
        \/ s = r /\ i = Len(q) + 1 - k /\ d[s][i] = b
        \/ /\ s = r => i + k \in 1..Len(q)
           /\ From(s, i) \in 1..Len(c[s])
           /\ d[s][i] = c[s][From(s, i)]
  <2> SUFFICES ASSUME NEW s \in Recorders, NEW i \in 1..Len(d[s])
               PROVE \/ s = r /\ i = Len(q) + 1 - k /\ d[s][i] = b
                     \/ /\ s = r => i + k \in 1..Len(q)
                        /\ From(s, i) \in 1..Len(c[s])
                        /\ d[s][i] = c[s][From(s, i)]
    OBVIOUS
  <2>1. CASE s # r
    BY <2>1, <1>3
  <2>2. CASE s = r
    <3>1. d[s] = p /\ c[s] = q /\ i \in 1..(Len(q) + 1 - k)
      BY <2>2, <1>2, <1>3 DEF q
    <3>2. CASE i = Len(q) + 1 - k
      BY <3>1, <3>2, <2>2, <1>2
    <3>3. CASE i # Len(q) + 1 - k
      <4>1. i \in 1..(Len(q) - k) /\ i + k \in 1..Len(q)
        BY <3>1, <3>3, <1>1
      <4>2. p[i] = q[i + k]
        BY <4>1, <1>2
      <4> QED BY <4>1, <4>2, <3>1, <2>2
    <3> QED BY <3>2, <3>3
  <2> QED BY <2>1, <2>2
<1>6. SlotsApart(d)
  <2> SUFFICES ASSUME NEW s \in Recorders, NEW u \in Recorders,
                      NEW i \in 1..Len(d[s]), NEW j \in 1..Len(d[u]),
                      s # u \/ i # j, NEW n,
                      n \in d[s][i].events, n \in d[u][j].events
               PROVE  FALSE
    BY DEF SlotsApart
  <2>1. CASE d[s][i] = b /\ s = r /\ i = Len(q) + 1 - k
    <3>1. /\ From(u, j) \in 1..Len(c[u])
          /\ d[u][j] = c[u][From(u, j)]
      BY <1>5, <2>1
    <3>2. n \in InQueues(c)
      BY <3>1, InQueue
    <3> QED BY <3>2, <2>1
  <2>2. CASE d[u][j] = b /\ u = r /\ j = Len(q) + 1 - k
    <3>1. /\ From(s, i) \in 1..Len(c[s])
          /\ d[s][i] = c[s][From(s, i)]
      BY <1>5, <2>2
    <3>2. n \in InQueues(c)
      BY <3>1, InQueue
    <3> QED BY <3>2, <2>2
  <2>3. CASE /\ From(s, i) \in 1..Len(c[s]) /\ d[s][i] = c[s][From(s, i)]
             /\ From(u, j) \in 1..Len(c[u]) /\ d[u][j] = c[u][From(u, j)]
    <3>1. s # u \/ From(s, i) # From(u, j)
      OBVIOUS
    <3> HIDE DEF From
    <3> QED BY <3>1, <2>3 DEF SlotsApart
  <2> QED BY <1>5, <2>1, <2>2, <2>3
<1>7. Displaced(q) \subseteq InQueues(c)
  <2>1. CASE k = 0
    BY <2>1, <1>2
  <2>2. CASE k = 1
    <3>1. 1 \in 1..Len(c[r]) /\ Displaced(q) = c[r][1].events
      BY <2>2, <1>1, <1>2 DEF q
    <3> QED BY <3>1, InQueue
  <2> QED BY <2>1, <2>2
<1>8. InQueues(d) \subseteq (InQueues(c) \ Displaced(q)) \cup b.events
  <2> SUFFICES ASSUME NEW n \in InQueues(d), n \notin b.events
               PROVE  n \in InQueues(c) \ Displaced(q)
    OBVIOUS
  <2>1. PICK s \in Recorders : \E i \in 1..Len(d[s]) : n \in d[s][i].events
    BY InQueuePick
  <2>2. PICK i \in 1..Len(d[s]) : n \in d[s][i].events
    BY <2>1
  <2>3. /\ s = r => i + k \in 1..Len(q)
        /\ From(s, i) \in 1..Len(c[s])
        /\ d[s][i] = c[s][From(s, i)]
    BY <2>2, <1>5
  <2>4. n \in InQueues(c)
    BY <2>2, <2>3, InQueue
  <2>5. ASSUME n \in Displaced(q) PROVE FALSE
    <3>1. k = 1 /\ n \in c[r][1].events /\ 1 \in 1..Len(c[r])
      BY <2>5, <1>1, <1>2 DEF q
    <3>2. s # r \/ From(s, i) # 1
      BY <3>1
    <3>3. n \in c[s][From(s, i)].events
      BY <2>2, <2>3
    <3> HIDE DEF From
    <3> QED BY <3>1, <3>2, <3>3, <2>3 DEF SlotsApart
  <2> QED BY <2>4, <2>5
<1>9. ASSUME NEW n, n \in b.events PROVE n \in InQueues(d)
  <2>1. Len(q) + 1 - k \in 1..Len(p) /\ d[r] = p
    BY <1>1, <1>2, <1>3
  <2>2. Len(q) + 1 - k \in 1..Len(d[r]) /\ d[r][Len(q) + 1 - k] = b
    BY <2>1, <1>2
  <2> QED BY <2>2, <1>9, InQueue
<1>10. ASSUME NEW n, n \in InQueues(c), n \notin Displaced(q)
       PROVE  n \in InQueues(d)
  <2>1. PICK s \in Recorders : \E i \in 1..Len(c[s]) : n \in c[s][i].events
    BY <1>10, InQueuePick
  <2>2. PICK i \in 1..Len(c[s]) : n \in c[s][i].events
    BY <2>1
  <2>3. CASE s # r
    <3>1. i \in 1..Len(d[s]) /\ n \in d[s][i].events
      BY <2>2, <2>3, <1>3
    <3> QED BY <3>1, InQueue
  <2>4. CASE s = r
    <3>1. i \in 1..Len(q) /\ n \in q[i].events
      BY <2>2, <2>4 DEF q
    <3>2. i - k \in 1..(Len(q) - k) /\ (i - k) + k = i
      BY <3>1, <1>1, <1>2, <1>10
    <3>3. p[i - k] = q[i]
      BY <3>2, <1>2
    <3>4. i - k \in 1..Len(d[r]) /\ d[r][i - k] = q[i]
      BY <3>2, <3>3, <1>1, <1>2, <1>3
    <3> QED BY <3>1, <3>4, InQueue
  <2> QED BY <2>3, <2>4
<1>11. \A s \in Recorders : \A i \in 1..Len(d[s]) :
         d[s][i] = b \/ \E j \in 1..Len(c[s]) : d[s][i] = c[s][j]
  BY <1>5
<1> QED BY <1>6, <1>7, <1>8, <1>9, <1>10, <1>11 DEF q, PushesEvents

(* From c to d a pop takes the batch at the head, and its events, away.    *)
PopsEvents(c, d, r) ==
    /\ SlotsApart(d)
    /\ InQueues(d) = InQueues(c) \ Head(c[r]).events
    /\ Head(c[r]).events \subseteq InQueues(c)
    /\ 1 \in 1..Len(c[r]) /\ Head(c[r]) = c[r][1]
    /\ \A s \in Recorders : \A i \in 1..Len(d[s]) :
         \E j \in 1..Len(c[s]) : d[s][i] = c[s][j]

LEMMA PopApart ==
    ASSUME NEW c \in [Recorders -> Seq(Batches)], NEW d, NEW r \in Recorders,
           c[r] # <<>>, d = [c EXCEPT ![r] = Tail(c[r])], SlotsApart(c)
    PROVE  PopsEvents(c, d, r)
<1> DEFINE q == c[r]
           p == Tail(q)
<1>1. /\ q \in Seq(Batches) /\ q # <<>> /\ Len(q) \in Nat /\ Len(q) # 0
      /\ Head(q) = q[1] /\ Len(p) = Len(q) - 1
      /\ \A i \in 1..(Len(q) - 1) : p[i] = q[i + 1]
  BY HeadTailProperties, EmptySeq, LenProperties
<1>2. \A s \in Recorders : d[s] = IF s = r THEN p ELSE c[s]
  OBVIOUS
<1> HIDE DEF q, p
<1> DEFINE From(s, i) == IF s = r THEN i + 1 ELSE i
<1>3. \A s \in Recorders : \A i \in 1..Len(d[s]) :
        /\ From(s, i) \in 1..Len(c[s])
        /\ d[s][i] = c[s][From(s, i)]
        /\ s = r => i + 1 # 1
  <2> SUFFICES ASSUME NEW s \in Recorders, NEW i \in 1..Len(d[s])
               PROVE  /\ From(s, i) \in 1..Len(c[s])
                      /\ d[s][i] = c[s][From(s, i)]
                      /\ s = r => i + 1 # 1
    OBVIOUS
  <2>1. CASE s # r
    BY <2>1, <1>2
  <2>2. CASE s = r
    <3>1. d[s] = p /\ c[s] = q
      BY <2>2, <1>2 DEF q
    <3>2. i \in 1..(Len(q) - 1) /\ i + 1 \in 1..Len(q) /\ i + 1 # 1
      BY <3>1, <1>1
    <3> QED BY <3>1, <3>2, <2>2, <1>1
  <2> QED BY <2>1, <2>2
<1>4. SlotsApart(d)
  <2> SUFFICES ASSUME NEW s \in Recorders, NEW u \in Recorders,
                      NEW i \in 1..Len(d[s]), NEW j \in 1..Len(d[u]),
                      s # u \/ i # j
               PROVE  d[s][i].events \cap d[u][j].events = {}
    BY DEF SlotsApart
  <2>1. s # u \/ From(s, i) # From(u, j)
    OBVIOUS
  <2>2. /\ From(s, i) \in 1..Len(c[s]) /\ d[s][i] = c[s][From(s, i)]
        /\ From(u, j) \in 1..Len(c[u]) /\ d[u][j] = c[u][From(u, j)]
    BY <1>3
  <2> HIDE DEF From
  <2> QED BY <2>1, <2>2 DEF SlotsApart
<1>5. 1 \in 1..Len(c[r]) /\ Head(q) = c[r][1]
  BY <1>1 DEF q
<1>6. Head(q).events \subseteq InQueues(c)
  BY <1>5, InQueue
<1>7. ASSUME NEW n, n \in InQueues(d)
      PROVE  n \in InQueues(c) /\ n \notin Head(q).events
  <2>1. PICK s \in Recorders : \E i \in 1..Len(d[s]) : n \in d[s][i].events
    BY <1>7, InQueuePick
  <2>2. PICK i \in 1..Len(d[s]) : n \in d[s][i].events
    BY <2>1
  <2>3. /\ From(s, i) \in 1..Len(c[s])
        /\ n \in c[s][From(s, i)].events
        /\ s # r \/ From(s, i) # 1
    BY <2>2, <1>3
  <2> HIDE DEF From
  <2>4. n \in InQueues(c)
    BY <2>3, InQueue
  <2> QED BY <2>3, <2>4, <1>5 DEF SlotsApart
<1>8. ASSUME NEW n, n \in InQueues(c), n \notin Head(q).events
      PROVE  n \in InQueues(d)
  <2>1. PICK s \in Recorders : \E i \in 1..Len(c[s]) : n \in c[s][i].events
    BY <1>8, InQueuePick
  <2>2. PICK i \in 1..Len(c[s]) : n \in c[s][i].events
    BY <2>1
  <2>3. CASE s # r
    <3>1. i \in 1..Len(d[s]) /\ n \in d[s][i].events
      BY <2>2, <2>3, <1>2
    <3> QED BY <3>1, InQueue
  <2>4. CASE s = r
    <3>1. i \in 1..Len(q) /\ n \in q[i].events /\ i # 1
      BY <2>2, <2>4, <1>1, <1>8 DEF q
    <3>2. i - 1 \in 1..(Len(q) - 1) /\ (i - 1) + 1 = i
      BY <3>1, <1>1
    <3>3. i - 1 \in 1..Len(d[r]) /\ d[r][i - 1] = q[i]
      BY <3>2, <1>1, <1>2
    <3> QED BY <3>1, <3>3, InQueue
  <2> QED BY <2>3, <2>4
<1>9. \A s \in Recorders : \A i \in 1..Len(d[s]) :
        \E j \in 1..Len(c[s]) : d[s][i] = c[s][j]
  BY <1>3
<1> QED BY <1>4, <1>5, <1>6, <1>7, <1>8, <1>9 DEF q, PopsEvents

(* From a to e buffer t has been filled further or reset, and holds b.     *)
RefillsBuffer(a, e, t, b) ==
    /\ BuffersApart(e)
    /\ InBuffers(e) = (InBuffers(a) \ a[t].events) \cup b.events
    /\ a[t].events \subseteq InBuffers(a)

LEMMA BufferApart ==
    ASSUME NEW a \in [Buffers -> Batches], NEW e, NEW t \in Buffers, NEW b,
           e = [a EXCEPT ![t] = b], BuffersApart(a), NEW X,
           b.events \subseteq a[t].events \cup X, X \cap InBuffers(a) = {}
    PROVE  RefillsBuffer(a, e, t, b)
<1>1. \A u \in Buffers : e[u] = IF u = t THEN b ELSE a[u]
  OBVIOUS
<1>2. \A u \in Buffers : a[u].events \subseteq InBuffers(a)
  BY DEF InBuffers
<1>3. ASSUME NEW u \in Buffers, u # t
      PROVE  a[u].events \cap b.events = {}
  BY <1>2, <1>3 DEF BuffersApart
<1>4. BuffersApart(e)
  BY <1>1, <1>3 DEF BuffersApart
<1>5. InBuffers(e) \subseteq (InBuffers(a) \ a[t].events) \cup b.events
  BY <1>1 DEF InBuffers, BuffersApart
<1>6. (InBuffers(a) \ a[t].events) \cup b.events \subseteq InBuffers(e)
  BY <1>1 DEF InBuffers
<1> QED BY <1>2, <1>4, <1>5, <1>6 DEF RefillsBuffer

(* A reset buffer: its events are taken away.                              *)
LEMMA ResetApart ==
    ASSUME NEW a \in [Buffers -> Batches], NEW e, NEW t \in Buffers,
           e = [a EXCEPT ![t] = EmptyBatch], BuffersApart(a)
    PROVE  RefillsBuffer(a, e, t, EmptyBatch)
<1>1. EmptyBatch.events \subseteq a[t].events \cup {} /\ {} \cap InBuffers(a) = {}
  BY DEF EmptyBatch
<1> QED BY <1>1, BufferApart


-----------------------------------------------------------------------------
(* The ways in which a step moves events.                                  *)

(* What a step does besides keeping the invariant: it records one event at *)
(* most, and takes no fate back.                                           *)
Forward ==
    /\ Len(log') \in {Len(log), Len(log) + 1}
    /\ w.lost \cup gone \subseteq w'.lost \cup gone'
    /\ WriterEvents(w) \cup archive
         \subseteq WriterEvents(w') \cup archive' \cup w'.lost \cup gone'

(* The part of the invariant that is about where events are.               *)
Placed == Counts /\ Apart /\ Fates /\ WriterAccounts(w)

LEMMA HonestEmpty == Honest(EmptyBatch) /\ EmptyBatch.events = {}
BY DEF Honest, EmptyBatch

(* The next event is in no place yet.                                      *)
LEMMA NextEventIsNew ==
    ASSUME TypeOK, Fates
    PROVE  /\ Len(log) \in Nat
           /\ 1..(Len(log) + 1) = (1..Len(log)) \cup {Len(log) + 1}
           /\ Len(log) + 1 \notin InBuffers(buf) \cup InQueues(collector)
                \cup Accounted(w) \cup archive \cup gone
<1>1. Len(log) \in Nat
  BY DEF TypeOK, BusTypeOK
<1>2. Len(log) + 1 \notin 1..Len(log)
  BY <1>1
<1> QED BY <1>1, <1>2 DEF Fates, FatesOf

(* Nothing moves but within the writer.                                    *)
LEMMA QuietPlaced ==
    ASSUME TypeOK, Placed, Accounts(w, w', {}),
           UNCHANGED <<collector, gone, log, archive>>,
           \A t \in Buffers : /\ buf'[t].events = buf[t].events
                              /\ buf'[t].count = buf[t].count
    PROVE  Placed' /\ Forward
<1>1. Counts' /\ Apart'
  BY DEF Placed, Counts, Apart, Honest, BuffersApart, SlotsApart
<1>2. InBuffers(buf') = InBuffers(buf) /\ InQueues(collector') = InQueues(collector)
  BY DEF InBuffers
<1>3. Accounted(w') = Accounted(w) /\ WriterAccounts(w') /\ w.lost \subseteq w'.lost
  BY DEF Accounts
<1>4. Fates'
  BY <1>2, <1>3 DEF Placed, Fates
<1>5. Forward
  BY <1>3 DEF Forward, Accounted
<1> QED BY <1>1, <1>3, <1>4, <1>5 DEF Placed

(* An event is encoded into a buffer.                                      *)
LEMMA EncodePlaced ==
    ASSUME TypeOK, Placed, NEW t \in Buffers, NEW b,
           b.events = buf[t].events \cup {Len(log) + 1}, Honest(b),
           buf' = [buf EXCEPT ![t] = b], Len(log') = Len(log) + 1,
           UNCHANGED <<collector, gone, archive, w>>
    PROVE  Placed' /\ Forward
<1> DEFINE B == InBuffers(buf)
           n == Len(log) + 1
<1>1. buf \in [Buffers -> Batches]
  BY DEF TypeOK, BusTypeOK
<1>2. /\ Len(log) \in Nat
      /\ 1..(Len(log) + 1) = (1..Len(log)) \cup {n}
      /\ n \notin B \cup InQueues(collector) \cup Accounted(w) \cup archive \cup gone
  BY NextEventIsNew DEF Placed
<1>3. {n} \cap B = {}
  BY <1>2
<1>4. /\ BuffersApart(buf')
      /\ InBuffers(buf') = (B \ buf[t].events) \cup b.events
      /\ buf[t].events \subseteq B
  <2> HIDE DEF n
  <2>1. b.events \subseteq buf[t].events \cup {n} /\ BuffersApart(buf)
    BY DEF n, Placed, Apart
  <2>2. RefillsBuffer(buf, buf', t, b)
    BY <1>1, <1>3, <2>1, BufferApart
  <2> QED BY <2>2 DEF RefillsBuffer
<1>5. InBuffers(buf') = B \cup {n}
  BY <1>4
<1>6. Counts'
  BY <1>1 DEF Placed, Counts
<1>7. Apart'
  BY <1>4 DEF Placed, Apart
<1> HIDE DEF B, n
<1>8. FatesOf(B \cup {n}, InQueues(collector), Accounted(w), archive, gone,
              Len(log'))
  BY <1>2 DEF Placed, Fates, FatesOf, B
<1>9. Fates'
  BY <1>5, <1>8 DEF Fates
<1>10. Forward
  BY DEF Forward
<1> QED BY <1>6, <1>7, <1>9, <1>10 DEF Placed

(* A batch of a buffer is handed to a collector, with the event that has   *)
(* just been encoded or without one, and the buffer is reset.              *)
LEMMA HandPlaced ==
    ASSUME TypeOK, Placed, NEW t \in Buffers, NEW r \in Recorders,
           NEW b \in Batches, Honest(b), NEW X,
           b.events = buf[t].events \cup X,
           \/ X = {} /\ Len(log') = Len(log)
           \/ X = {Len(log) + 1} /\ Len(log') = Len(log) + 1,
           AcceptFlush(r, b), buf' = [buf EXCEPT ![t] = EmptyBatch],
           UNCHANGED <<archive, w>>
    PROVE  Placed' /\ Forward
<1> DEFINE B == InBuffers(buf)
           Q == InQueues(collector)
           D == Displaced(collector[r])
           e == buf[t].events
<1>1. /\ buf \in [Buffers -> Batches]
      /\ collector \in [Recorders -> Seq(Batches)]
      /\ \A s \in Recorders : Len(collector[s]) <= Capacity
  BY DEF TypeOK, BusTypeOK
<1>2. /\ 1..Len(log') = (1..Len(log)) \cup X
      /\ X \cap (B \cup Q \cup Accounted(w) \cup archive \cup gone) = {}
  BY NextEventIsNew DEF Placed
<1>3. BuffersApart(buf') /\ InBuffers(buf') = B \ e /\ e \subseteq B
  <2>1. RefillsBuffer(buf, buf', t, EmptyBatch)
    BY <1>1, ResetApart DEF Placed, Apart
  <2> QED BY <2>1, HonestEmpty DEF RefillsBuffer
<1>4. b.events \cap Q = {}
  BY <1>2, <1>3 DEF Placed, Fates, FatesOf
<1>5. /\ SlotsApart(collector')
      /\ InQueues(collector') = (Q \ D) \cup b.events
      /\ D \subseteq Q
      /\ \A s \in Recorders : \A i \in 1..Len(collector'[s]) :
           collector'[s][i] = b
             \/ \E j \in 1..Len(collector[s]) : collector'[s][i] = collector[s][j]
  <2>1. collector' = [collector EXCEPT ![r] = Pushed(@, b)]
    BY DEF AcceptFlush
  <2>2. SlotsApart(collector)
    BY DEF Placed, Apart
  <2>3. PushesEvents(collector, collector', r, b)
    BY <1>1, <1>4, <2>1, <2>2, PushApart
  <2> QED BY <2>3 DEF PushesEvents
<1>6. Counts'
  <2>1. \A s \in Recorders : \A i \in 1..Len(collector'[s]) :
          Honest(collector'[s][i])
    BY <1>5 DEF Placed, Counts
  <2>2. \A u \in Buffers : Honest(buf'[u])
    BY <1>1, HonestEmpty DEF Placed, Counts
  <2> QED BY <2>1, <2>2 DEF Counts
<1>7. Apart'
  BY <1>3, <1>5 DEF Apart
<1>8. gone' = gone \cup D
  BY DEF AcceptFlush
<1>9. Fates'
  <2> DEFINE A == Accounted(w)
  <2>1. FatesOf(B, Q, A, archive, gone, Len(log))
    BY DEF Placed, Fates
  <2>2. b.events = e \cup X
    OBVIOUS
  <2> HIDE DEF B, Q, D, A, e
  <2>3. FatesOf(B \ e, (Q \ D) \cup b.events, A, archive, gone \cup D, Len(log'))
    <3> HIDE <1>4, <1>5, <1>6, <1>7, <1>8
    <3>1. 1..Len(log') = B \cup Q \cup A \cup archive \cup gone \cup X
      BY <1>2, <2>1 DEF FatesOf
    <3>2. e \subseteq B /\ D \subseteq Q
      BY <1>3, <1>5 DEF D, Q, e, B
    <3> HIDE <1>3
    <3> QED BY <1>2, <2>1, <2>2, <3>1, <3>2 DEF FatesOf
  <2> QED BY <2>3, <1>3, <1>5, <1>8 DEF Fates, A
<1>10. Forward
  BY <1>8 DEF Forward
<1> QED BY <1>6, <1>7, <1>9, <1>10 DEF Placed

(* A batch is popped and given to the writer.                              *)
LEMMA PopPlaced ==
    ASSUME TypeOK, Placed, NEW r \in Recorders, collector[r] # <<>>,
           collector' = [collector EXCEPT ![r] = Tail(collector[r])],
           Accounts(w, w', Head(collector[r]).events),
           UNCHANGED <<buf, gone, log, archive>>
    PROVE  Placed' /\ Forward
<1> DEFINE B == InBuffers(buf)
           Q == InQueues(collector)
           A == Accounted(w)
           e == Head(collector[r]).events
<1>1. collector \in [Recorders -> Seq(Batches)] /\ SlotsApart(collector)
  BY DEF TypeOK, BusTypeOK, Placed, Apart
<1>2. /\ SlotsApart(collector')
      /\ InQueues(collector') = Q \ e
      /\ e \subseteq Q
      /\ \A s \in Recorders : \A i \in 1..Len(collector'[s]) :
           \E j \in 1..Len(collector[s]) : collector'[s][i] = collector[s][j]
  <2>1. PopsEvents(collector, collector', r)
    BY <1>1, PopApart
  <2> QED BY <2>1 DEF PopsEvents
<1>3. Counts'
  <2>1. \A s \in Recorders : \A i \in 1..Len(collector'[s]) :
          Honest(collector'[s][i])
    BY <1>2 DEF Placed, Counts
  <2> QED BY <2>1 DEF Placed, Counts
<1>4. Apart'
  BY <1>2 DEF Placed, Apart
<1>5. /\ WriterAccounts(w')
      /\ Accounted(w') = A \cup e
      /\ w.lost \subseteq w'.lost
  BY DEF Accounts
<1>6. Fates'
  <2>1. FatesOf(B, Q, A, archive, gone, Len(log))
    BY DEF Placed, Fates
  <2> HIDE DEF B, Q, A, e
  <2>2. FatesOf(B, Q \ e, A \cup e, archive, gone, Len(log))
    BY <2>1, <1>2 DEF FatesOf
  <2> QED BY <2>2, <1>2, <1>5 DEF Fates, B
<1>7. Forward
  BY <1>5 DEF Forward, Accounted
<1> QED BY <1>3, <1>4, <1>5, <1>6, <1>7 DEF Placed

(* A thread that never had a collector drops its buffer.                   *)
LEMMA DropPlaced ==
    ASSUME TypeOK, Placed, NEW t \in Buffers,
           buf' = [buf EXCEPT ![t] = EmptyBatch],
           gone' = gone \cup buf[t].events,
           UNCHANGED <<collector, log, archive, w>>
    PROVE  Placed' /\ Forward
<1> DEFINE B == InBuffers(buf)
           e == buf[t].events
<1>1. buf \in [Buffers -> Batches] /\ BuffersApart(buf)
  BY DEF TypeOK, BusTypeOK, Placed, Apart
<1>2. BuffersApart(buf') /\ InBuffers(buf') = B \ e /\ e \subseteq B
  <2>1. RefillsBuffer(buf, buf', t, EmptyBatch)
    BY <1>1, ResetApart
  <2> QED BY <2>1, HonestEmpty DEF RefillsBuffer
<1>3. Counts'
  BY <1>1, HonestEmpty DEF Placed, Counts
<1>4. Apart'
  BY <1>2 DEF Placed, Apart
<1>5. Fates'
  <2>1. FatesOf(B, InQueues(collector), Accounted(w), archive, gone, Len(log))
    BY DEF Placed, Fates
  <2> HIDE DEF B, e
  <2>2. FatesOf(B \ e, InQueues(collector), Accounted(w), archive,
                gone \cup e, Len(log))
    BY <2>1, <1>2 DEF FatesOf
  <2> QED BY <2>2, <1>2 DEF Fates, e
<1>6. Forward
  BY DEF Forward
<1> QED BY <1>3, <1>4, <1>5, <1>6 DEF Placed

(* The next recorder is built: the trace of the last one is archived.      *)
LEMMA BuildPlaced ==
    ASSUME TypeOK, Placed, Build, buf[Flusher].events = {}
    PROVE  Placed' /\ Forward
<1>1. /\ w' = NewWriter(<<>>, {}, 0)
      /\ archive' = archive \cup WriterEvents(w)
      /\ gone' = gone \cup w.lost
      /\ buf' = [buf EXCEPT ![Flusher] = EmptyBatch]
      /\ UNCHANGED <<collector, log>>
  BY DEF Build
<1>2. WriterAccounts(w') /\ Accounted(w') = {}
  BY <1>1, NewWriterAccounts
<1>3. buf \in [Buffers -> Batches] /\ Flusher \in Buffers
  BY DEF TypeOK, BusTypeOK, Buffers
<1>4. \A t \in Buffers : buf'[t].events = buf[t].events /\ Honest(buf'[t])
  BY <1>1, <1>3, HonestEmpty DEF Placed, Counts
<1>5. Counts' /\ Apart'
  BY <1>1, <1>4 DEF Placed, Counts, Apart, BuffersApart
<1>6. InBuffers(buf') = InBuffers(buf)
  BY <1>4 DEF InBuffers
<1>7. Fates'
  <2> DEFINE B == InBuffers(buf)
             Q == InQueues(collector)
             K == WriterEvents(w)
             L == w.lost
  <2>1. FatesOf(B, Q, K \cup L, archive, gone, Len(log)) /\ K \cap L = {}
    BY DEF Placed, Fates, Accounted, WriterAccounts
  <2> HIDE DEF B, Q, K, L
  <2>2. FatesOf(B, Q, {}, archive \cup K, gone \cup L, Len(log))
    BY <2>1 DEF FatesOf
  <2> QED BY <2>2, <1>1, <1>2, <1>6 DEF Fates, B, Q, K, L
<1>8. Forward
  BY <1>1 DEF Forward
<1> QED BY <1>2, <1>5, <1>7, <1>8 DEF Placed

-----------------------------------------------------------------------------
(* The steps of the recorder, each as one of these moves.                  *)

(* A step that leaves the writer alone.                                    *)
LEMMA IdlePlaced ==
    ASSUME TypeOK, Placed,
           UNCHANGED <<collector, gone, log, archive, w>>,
           \A t \in Buffers : /\ buf'[t].events = buf[t].events
                              /\ buf'[t].count = buf[t].count
    PROVE  Placed' /\ Forward
<1>1. w \in WriterTypes(Events) /\ WriterAccounts(w)
  BY DEF TypeOK, Placed
<1>2. Accounts(w, w, {})
  BY <1>1, SameAccounts
<1>3. Accounts(w, w', {})
  BY <1>2
<1> QED BY <1>3, QuietPlaced

(* A buffer that has anything to flush is handed over.                     *)
LEMMA FlushPlaced ==
    ASSUME TypeOK, Placed, NEW t \in Buffers, NEW r \in Recorders,
           AcceptFlush(r, buf[t]), buf' = [buf EXCEPT ![t] = Reset(@)],
           UNCHANGED <<log, archive, w>>
    PROVE  Placed' /\ Forward
<1>1. buf[t] \in Batches /\ Honest(buf[t])
  BY DEF TypeOK, BusTypeOK, Placed, Counts
<1>2. buf[t].events = buf[t].events \cup {}
  OBVIOUS
<1>3. buf' = [buf EXCEPT ![t] = EmptyBatch]
  BY DEF Reset
<1>4. Len(log') = Len(log)
  OBVIOUS
<1> QED BY <1>1, <1>2, <1>3, <1>4, HandPlaced

LEMMA ThreadPlaced ==
    ASSUME TypeOK, Placed, NEW t \in Threads, ThreadStep(t), UNCHANGED flushVars
    PROVE  Placed' /\ Forward
<1>1. UNCHANGED <<archive, w>>
  BY DEF flushVars
<1>2. /\ t \in Buffers /\ via[t] \in Recorders /\ buf[t] \in Batches
      /\ buf \in [Buffers -> Batches]
  BY DEF TypeOK, BusTypeOK, Buffers
<1>3. CASE /\ UNCHANGED <<collector, gone, log, buf>>
  BY <1>1, <1>3, IdlePlaced
<1>4. ASSUME NEW wrote \in BOOLEAN, Encode(t, wrote) PROVE Placed' /\ Forward
  <2>1. /\ UNCHANGED <<collector, gone>>
        /\ buf' = [buf EXCEPT ![t] = Extended(buf[t], wrote, Len(log) + 1)]
        /\ log' = IF wrote THEN Append(log, [thread |-> t, rec |-> via[t]])
                           ELSE log
        /\ wrote => Len(log) < MaxEvents
    BY <1>4 DEF Encode
  <2>2. CASE ~wrote
    <3>1. Extended(buf[t], wrote, Len(log) + 1) = buf[t]
      BY <2>2 DEF Extended
    <3>2. UNCHANGED <<collector, gone, log, buf>>
      BY <2>1, <2>2, <3>1, <1>2
    <3> QED BY <3>2, <1>3
  <2>3. CASE wrote
    <3> DEFINE b == Extended(buf[t], wrote, Len(log) + 1)
    <3>1. /\ log \in Seq([thread : Buffers, rec : Recorders])
          /\ [thread |-> t, rec |-> via[t]] \in [thread : Buffers, rec : Recorders]
          /\ Len(log) + 1 \in Nat
      BY <1>2 DEF TypeOK, BusTypeOK
    <3>2. Len(log') = Len(log) + 1
      BY <2>1, <2>3, <3>1, AppendProperties
    <3>3. Len(log) + 1 \in Events
      BY <2>1, <2>3, <3>1, SizesAssumption DEF Events
    <3>4. b.events = buf[t].events \cup {Len(log) + 1} /\ b.count = buf[t].count + 1
      <4>1. /\ b.events = IF wrote THEN buf[t].events \cup {Len(log) + 1}
                                   ELSE buf[t].events
            /\ b.count = IF wrote THEN buf[t].count + 1 ELSE buf[t].count
        BY <1>2, <3>1, <3>3, ExtendedType
      <4> QED BY <4>1, <2>3
    <3>5. Honest(b)
      BY <3>4, <1>2 DEF Honest, Batches
    <3> HIDE DEF b
    <3>6. buf' = [buf EXCEPT ![t] = b]
      BY <2>1 DEF b
    <3> QED BY <3>2, <3>4, <3>5, <3>6, <2>1, <1>1, <1>2, EncodePlaced
  <2> QED BY <2>2, <2>3
<1>5. CASE SelfFlush(t)
  <2>1. /\ AcceptFlush(via[t], buf[t])
        /\ buf' = [buf EXCEPT ![t] = Reset(@)]
        /\ UNCHANGED log
    BY <1>5 DEF SelfFlush
  <2> QED BY <2>1, <1>1, <1>2, FlushPlaced
<1>6. CASE EncodePanics(t)
  <2>1. buf' = [buf EXCEPT ![t].torn = TRUE] /\ UNCHANGED <<collector, gone, log>>
    BY <1>6 DEF EncodePanics
  <2>2. \A u \in Buffers : /\ buf'[u].events = buf[u].events
                           /\ buf'[u].count = buf[u].count
    BY <2>1, <1>2 DEF Batches
  <2> QED BY <2>1, <2>2, <1>1, IdlePlaced
<1>7. CASE FinishExit(t)
  <2>1. CASE ~(buf[t].count > 0)
    <3>1. UNCHANGED <<collector, gone, log, buf>>
      BY <1>7, <2>1 DEF FinishExit
    <3> QED BY <3>1, <1>3
  <2>2. CASE buf[t].count > 0
    <3>1. buf' = [buf EXCEPT ![t] = Reset(@)] /\ UNCHANGED log
      BY <1>7, <2>2 DEF FinishExit
    <3>2. CASE owner[t] # 0
      <4>1. AcceptFlush(owner[t], buf[t])
        BY <1>7, <2>2, <3>2 DEF FinishExit
      <4>2. owner[t] \in Recorders
        BY <3>2, <1>2 DEF TypeOK, BusTypeOK
      <4> QED BY <3>1, <4>1, <4>2, <1>1, <1>2, FlushPlaced
    <3>3. CASE owner[t] = 0
      <4>1. gone' = gone \cup buf[t].events /\ UNCHANGED collector
        BY <1>7, <2>2, <3>3 DEF FinishExit
      <4>2. buf' = [buf EXCEPT ![t] = EmptyBatch]
        BY <3>1 DEF Reset
      <4> QED BY <3>1, <4>1, <4>2, <1>1, <1>2, DropPlaced
    <3> QED BY <3>2, <3>3
  <2> QED BY <2>1, <2>2
<1>8. ASSUME NEW r \in Recorders, BeginRecord(t, r)
      PROVE  UNCHANGED <<collector, gone, log, buf>>
  BY <1>8 DEF BeginRecord
<1>9. CASE RecordRefused(t) \/ SelfStamp(t) \/ Register(t) \/ BeginExit(t)
  <2>1. UNCHANGED <<collector, gone, log, buf>>
    BY <1>9 DEF RecordRefused, SelfStamp, Register, BeginExit
  <2> QED BY <2>1, <1>3
<1> QED BY <1>3, <1>4, <1>5, <1>6, <1>7, <1>8, <1>9 DEF ThreadStep

(* What the writer does on its own keeps its accounts.                     *)
LEMMA WriterPlaced ==
    ASSUME TypeOK, Placed, UNCHANGED <<collector, gone, log, buf, archive>>,
           Accounts(w, w', {})
    PROVE  Placed' /\ Forward
BY QuietPlaced

LEMMA FlushStepPlaced ==
    ASSUME TypeOK, Placed, FlushThreadStep
    PROVE  Placed' /\ Forward
<1>1. /\ live \in Recorders /\ Flusher \in Buffers /\ Threads \subseteq Buffers
      /\ buf \in [Buffers -> Batches] /\ w \in WriterTypes(Events)
      /\ collector \in [Recorders -> Seq(Batches)] /\ WriterAccounts(w)
  BY DEF TypeOK, BusTypeOK, FlushTypeOK, Buffers, Placed
<1>2. ASSUME NEW stop \in BOOLEAN, NEW metadata \in BOOLEAN,
             Tick(stop, metadata)
      PROVE  Placed' /\ Forward
  <2>1. Accounts(w, w, {}) /\ Accounts(w, UpdateSegmentMetadata(w), {})
    BY <1>1, DrainedAccounts
  <2>2. /\ w' = IF metadata THEN UpdateSegmentMetadata(w) ELSE w
        /\ UNCHANGED <<collector, gone, log, buf, archive>>
    BY <1>2 DEF Tick
  <2>3. Accounts(w, w', {})
    BY <2>1, <2>2
  <2> QED BY <2>2, <2>3, WriterPlaced
<1>3. CASE UNCHANGED <<collector, gone, log, buf, archive, w>>
  BY <1>3, IdlePlaced
<1>4. CASE Snapshot \/ Prune \/ PopDone
  <2>1. UNCHANGED <<collector, gone, log, buf, archive, w>>
    BY <1>4 DEF Snapshot, Prune, PopDone, busVars
  <2> QED BY <2>1, <1>3
<1>5. ASSUME NEW t \in Threads, Visit(t)
      PROVE  Placed' /\ Forward
  <2>1. UNCHANGED <<collector, gone, log, buf, archive, w>>
    BY <1>5 DEF Visit, busVars
  <2> QED BY <2>1, <1>3
<1>6. ASSUME NEW t \in Threads, LockAndFlush(t)
      PROVE  Placed' /\ Forward
  <2>1. UNCHANGED <<log, archive, w>>
    BY <1>6 DEF LockAndFlush
  <2>2. CASE UNCHANGED <<collector, gone, buf>>
    BY <2>1, <2>2, <1>3
  <2>3. CASE AcceptFlush(live, buf[t]) /\ buf' = [buf EXCEPT ![t] = Reset(@)]
    BY <2>1, <2>3, <1>1, FlushPlaced
  <2> QED BY <1>6, <2>2, <2>3 DEF LockAndFlush
<1>7. ASSUME NEW wrote \in BOOLEAN, FlushSources(wrote)
      PROVE  Placed' /\ Forward
  <2>1. UNCHANGED <<archive, w>>
    BY <1>7 DEF FlushSources
  <2>2. CASE ~wrote
    <3>1. UNCHANGED <<collector, gone, log, buf>>
      BY <1>7, <2>2 DEF FlushSources
    <3> QED BY <2>1, <3>1, <1>3
  <2>3. CASE wrote
    <3> DEFINE b == Extended(buf[Flusher], wrote, Len(log) + 1)
    <3>1. /\ log \in Seq([thread : Buffers, rec : Recorders])
          /\ [thread |-> Flusher, rec |-> live]
               \in [thread : Buffers, rec : Recorders]
          /\ Len(log) + 1 \in Nat
      BY <1>1 DEF TypeOK, BusTypeOK
    <3>2. Len(log) < MaxEvents
          /\ log' = Append(log, [thread |-> Flusher, rec |-> live])
      BY <1>7, <2>3 DEF FlushSources
    <3>3. Len(log') = Len(log) + 1
      BY <3>1, <3>2, AppendProperties
    <3>4. Len(log) + 1 \in Events
      BY <3>1, <3>2, SizesAssumption DEF Events
    <3>5. buf[Flusher] \in Batches
      BY <1>1
    <3>6. /\ b \in Batches
          /\ b.events = buf[Flusher].events \cup {Len(log) + 1}
          /\ b.count = buf[Flusher].count + 1
      <4>1. /\ b \in Batches
            /\ b.events = IF wrote THEN buf[Flusher].events \cup {Len(log) + 1}
                                   ELSE buf[Flusher].events
            /\ b.count = IF wrote THEN buf[Flusher].count + 1
                                  ELSE buf[Flusher].count
        BY <3>1, <3>4, <3>5, ExtendedType
      <4> QED BY <4>1, <2>3
    <3>7. Honest(b)
      BY <3>5, <3>6 DEF Honest, Batches
    <3>8. CASE MustFlush(b, flushEpoch[Flusher], drainEpoch[live])
      <4>1. AcceptFlush(live, b) /\ buf' = [buf EXCEPT ![Flusher] = Reset(b)]
        BY <1>7, <2>3, <3>8 DEF FlushSources
      <4>2. buf' = [buf EXCEPT ![Flusher] = EmptyBatch]
        BY <4>1 DEF Reset
      <4> HIDE DEF b
      <4> QED BY <2>1, <3>3, <3>6, <3>7, <4>1, <4>2, <1>1, HandPlaced
    <3>9. CASE ~MustFlush(b, flushEpoch[Flusher], drainEpoch[live])
      <4>1. buf' = [buf EXCEPT ![Flusher] = b] /\ UNCHANGED <<collector, gone>>
        BY <1>7, <2>3, <3>9 DEF FlushSources
      <4> HIDE DEF b
      <4> QED BY <2>1, <3>3, <3>6, <3>7, <4>1, <1>1, EncodePlaced
    <3> QED BY <3>8, <3>9
  <2> QED BY <2>2, <2>3
<1>8. ASSUME NEW due \in BOOLEAN, DrainSelf(due)
      PROVE  Placed' /\ Forward
  <2>1. UNCHANGED <<log, archive, w>>
    BY <1>8 DEF DrainSelf
  <2>2. CASE UNCHANGED <<collector, gone, buf>>
    BY <2>1, <2>2, <1>3
  <2>3. CASE /\ AcceptFlush(live, buf[Flusher])
             /\ buf' = [buf EXCEPT ![Flusher] = Reset(@)]
    BY <2>1, <2>3, <1>1, FlushPlaced
  <2> QED BY <1>8, <2>2, <2>3 DEF DrainSelf
<1>9. ASSUME NEW io \in IoOutcomes, NEW failed \in BOOLEAN,
             PopBatch(io, failed)
      PROVE  Placed' /\ Forward
  <2> DEFINE batch == Head(collector[live])
  <2>1. /\ collector[live] # <<>>
        /\ collector' = [collector EXCEPT ![live] = Tail(collector[live])]
        /\ w' \in {WriteLost(w, batch), WriteEncodedBatch(w, batch, io)}
        /\ UNCHANGED <<buf, gone, log, archive>>
    BY <1>9 DEF PopBatch
  <2>2. PopsEvents(collector, collector', live)
    BY <2>1, <1>1, PopApart DEF Placed, Apart
  <2>3. batch = collector[live][1] /\ 1 \in 1..Len(collector[live])
        /\ batch.events \subseteq InQueues(collector)
    BY <2>2 DEF PopsEvents
  <2>4. batch \in Batches /\ Honest(batch)
    BY <2>1, <2>3, <1>1 DEF Placed, Counts
  <2> HIDE DEF batch
  <2>5. /\ batch.events \in SUBSET Events
        /\ batch.count \in Nat
        /\ batch.count = 0 => batch.events = {}
    BY <2>4 DEF Batches, Honest
  <2>6. batch.events \cap Accounted(w) = {}
    BY <2>3 DEF Placed, Fates, FatesOf
  <2>7. Accounts(w, w', batch.events)
    <3>1. /\ Accounts(w, WriteEncodedBatch(w, batch, io), batch.events)
          /\ Accounts(w, WriteLost(w, batch), batch.events)
      BY <2>5, <2>6, <1>1, WriteAccounts
    <3> QED BY <3>1, <2>1
  <2> QED BY <2>1, <2>7, <1>1, PopPlaced DEF batch
<1>10. ASSUME NEW io \in IoOutcomes, EndCycle(io)
       PROVE  Placed' /\ Forward
  <2>1. Accounts(w, w, {}) /\ Accounts(w, Drained(w, io), {})
    BY <1>1, DrainedAccounts
  <2>2. /\ w' = IF doDrain THEN Drained(w, io) ELSE w
        /\ UNCHANGED <<collector, gone, log, buf, archive>>
    BY <1>10 DEF EndCycle, busVars
  <2>3. Accounts(w, w', {})
    BY <2>1, <2>2
  <2> QED BY <2>2, <2>3, WriterPlaced
<1>11. ASSUME NEW panicked \in BOOLEAN, NEW io \in IoOutcomes,
              FinalizeAndStop(panicked, io)
       PROVE  Placed' /\ Forward
  <2> DEFINE v == IF panicked THEN UpdateSegmentMetadata(w) ELSE w
  <2>1. Accounts(w, w, {}) /\ Accounts(w, UpdateSegmentMetadata(w), {})
    BY <1>1, DrainedAccounts
  <2>2. UpdateSegmentMetadata(w) \in WriterTypes(Events)
    BY <1>1, DrainedType
  <2>3. v \in WriterTypes(Events) /\ Accounts(w, v, {})
    BY <1>1, <2>1, <2>2
  <2>4. /\ w' = Finalize(v, io)
        /\ UNCHANGED <<collector, gone, log, buf, archive>>
    BY <1>11 DEF FinalizeAndStop, busVars
  <2> HIDE DEF v
  <2>5. Accounts(v, w', {})
    <3>1. WriterAccounts(v)
      BY <2>3 DEF Accounts
    <3>2. Accounts(v, Finalize(v, io), {})
      BY <2>3, <3>1, FinalizeAccounts
    <3> QED BY <3>2, <2>4
  <2>6. Accounts(w, w', {})
    BY <2>3, <2>5 DEF Accounts
  <2> QED BY <2>4, <2>6, WriterPlaced
<1> QED
  BY <1>2, <1>4, <1>5, <1>6, <1>7, <1>8, <1>9, <1>10, <1>11
  DEF FlushThreadStep

(* Steps that leave the flush thread's buffer and its place in the cycle.  *)
LEMMA SelfDrainedKept ==
    ASSUME SelfDrained, UNCHANGED <<live, fpc, exit>>,
           buf'[Flusher].events = buf[Flusher].events,
           state'[live] = "Stopped" => state[live] = "Stopped"
    PROVE  SelfDrained'
BY DEF SelfDrained

LEMMA NextSelfDrained ==
    ASSUME TypeOK, Placed, SelfDrained, Next
    PROVE  SelfDrained'
<1>1. /\ live \in Recorders /\ Flusher \in Buffers /\ Threads \subseteq Buffers
      /\ buf \in [Buffers -> Batches] /\ state \in [Recorders -> States]
      /\ \A t \in Threads : t # Flusher
  BY ThreadsAssumption DEF TypeOK, BusTypeOK, FlushTypeOK, Buffers
<1>2. ASSUME NEW t \in Threads, ThreadStep(t), UNCHANGED flushVars
      PROVE  SelfDrained'
  <2>1. /\ buf'[Flusher] = buf[Flusher]
        /\ UNCHANGED state
    BY <1>1, <1>2 DEF ThreadStep, BeginRecord, RecordRefused, Encode, SelfFlush,
       SelfStamp, Register, EncodePanics, BeginExit, FinishExit
  <2>2. UNCHANGED <<live, fpc, exit>>
    BY <1>2 DEF flushVars
  <2> QED BY <2>1, <2>2, SelfDrainedKept
<1>3. CASE LifecycleStep /\ UNCHANGED flushVars
  <2>1. UNCHANGED <<live, fpc, exit>>
    BY <1>3 DEF flushVars
  <2>2. PICK r \in Recorders : Enable(r) \/ Disable(r) \/ DisablePermanently(r)
    BY <1>3 DEF LifecycleStep
  <2>3. PICK s \in States : SetState(r, s) /\ s # "Stopped"
    BY <2>2 DEF Enable, Disable, DisablePermanently, States
  <2>4. UNCHANGED buf /\ state' = [state EXCEPT ![r] = s]
    BY <2>3 DEF SetState
  <2>5. state'[live] = "Stopped" => state[live] = "Stopped"
    BY <2>3, <2>4, <1>1
  <2> QED BY <2>1, <2>4, <2>5, SelfDrainedKept
<1>4. ASSUME NEW stop \in BOOLEAN, NEW metadata \in BOOLEAN,
             Tick(stop, metadata)
      PROVE  SelfDrained'
  BY <1>4 DEF Tick, SelfDrained
<1>5. CASE Snapshot \/ Prune
  BY <1>5 DEF Snapshot, Prune, SelfDrained, busVars
<1>6. CASE PopDone
  BY <1>6 DEF PopDone, SelfDrained, busVars
<1>7. ASSUME NEW t \in Threads, Visit(t) \/ LockAndFlush(t)
      PROVE  SelfDrained'
  <2>1. CASE Visit(t)
    BY <2>1 DEF Visit, SelfDrained, busVars
  <2>2. CASE LockAndFlush(t)
    BY <2>2 DEF LockAndFlush, SelfDrained
  <2> QED BY <1>7, <2>1, <2>2
<1>8. ASSUME NEW wrote \in BOOLEAN, FlushSources(wrote) PROVE SelfDrained'
  BY <1>8 DEF FlushSources, SelfDrained
<1>9. ASSUME NEW due \in BOOLEAN, DrainSelf(due) PROVE SelfDrained'
  <2>1. exit => buf'[Flusher].events = {}
    <3>1. CASE buf[Flusher].count > 0
      BY <1>1, <1>9, <3>1 DEF DrainSelf, Reset, EmptyBatch
    <3>2. CASE ~(buf[Flusher].count > 0)
      <4>1. buf[Flusher].count = 0
        BY <1>1, <3>2 DEF Batches
      <4>2. buf[Flusher].events = {} /\ UNCHANGED buf
        BY <1>1, <1>9, <3>2, <4>1 DEF DrainSelf, Placed, Counts, Honest
      <4> QED BY <4>2
    <3> QED BY <3>1, <3>2
  <2>2. fpc = "self" /\ fpc' = "pop" /\ UNCHANGED <<exit, state, live>>
    BY <1>9 DEF DrainSelf
  <2> QED BY <2>1, <2>2 DEF SelfDrained
<1>10. ASSUME NEW io \in IoOutcomes, NEW failed \in BOOLEAN,
              PopBatch(io, failed)
       PROVE  SelfDrained'
  <2>1. /\ fpc = "pop" /\ fpc' \in {"pop", "aborted"}
        /\ state' \in {state, AfterWriteError}
        /\ UNCHANGED <<exit, live, buf>>
    BY <1>10 DEF PopBatch
  <2>2. state'[live] = "Stopped" => state[live] = "Stopped"
    BY <2>1, <1>1 DEF AfterWriteError
  <2> QED BY <2>1, <2>2 DEF SelfDrained
<1>11. ASSUME NEW io \in IoOutcomes, EndCycle(io) PROVE SelfDrained'
  BY <1>11 DEF EndCycle, SelfDrained, busVars
<1>12. ASSUME NEW panicked \in BOOLEAN, NEW io \in IoOutcomes,
              FinalizeAndStop(panicked, io)
       PROVE  SelfDrained'
  BY <1>12 DEF FinalizeAndStop, SelfDrained, busVars
<1>13. CASE DrainTimer \/ RotateTimer
  BY <1>13 DEF DrainTimer, RotateTimer, SelfDrained, busVars
<1>14. ASSUME NEW t \in Threads, StopRequest(t) \/ SendStop(t) \/ MarkStopped(t)
       PROVE  SelfDrained'
  <2>1. CASE StopRequest(t)
    <3>1. buf'[Flusher] = buf[Flusher] /\ UNCHANGED <<state, live, fpc, exit>>
      BY <1>1, <2>1 DEF StopRequest, flushVars
    <3> QED BY <3>1, SelfDrainedKept
  <2>2. CASE SendStop(t)
    BY <2>2 DEF SendStop, SelfDrained
  <2>3. CASE MarkStopped(t)
    BY <2>3 DEF MarkStopped, SelfDrained, flushVars
  <2> QED BY <1>14, <2>1, <2>2, <2>3
<1>15. CASE Build
  <2>1. /\ exit' = FALSE /\ fpc' = "wait" /\ live' = live + 1
        /\ state' = [state EXCEPT ![live + 1] = "Disabled"]
        /\ live + 1 \in Recorders
    BY <1>1, <1>15, SizesAssumption DEF Build, Recorders
  <2>2. state'[live'] # "Stopped"
    BY <1>1, <2>1
  <2> QED BY <2>1, <2>2 DEF SelfDrained
<1>16. CASE FlushThreadStep
  BY <1>4, <1>5, <1>6, <1>7, <1>8, <1>9, <1>10, <1>11, <1>12, <1>16
  DEF FlushThreadStep
<1> QED BY <1>2, <1>3, <1>13, <1>14, <1>15, <1>16 DEF Next

LEMMA NextPlaced ==
    ASSUME TypeOK, Placed, SelfDrained, [Next]_vars
    PROVE  Placed' /\ Forward
<1>1. /\ live \in Recorders /\ Threads \subseteq Buffers
      /\ w \in WriterTypes(Events) /\ WriterAccounts(w)
  BY DEF TypeOK, BusTypeOK, FlushTypeOK, Buffers, Placed
<1>2. CASE UNCHANGED <<collector, gone, log, buf, archive, w>>
  BY <1>2, IdlePlaced
<1>3. CASE UNCHANGED vars
  BY <1>2, <1>3 DEF vars, busVars, flushVars
<1>4. ASSUME NEW t \in Threads, ThreadStep(t), UNCHANGED flushVars
      PROVE  Placed' /\ Forward
  BY <1>4, ThreadPlaced
<1>5. CASE LifecycleStep /\ UNCHANGED flushVars
  <2>1. UNCHANGED <<collector, gone, log, buf, archive, w>>
    BY <1>5 DEF LifecycleStep, Enable, Disable, DisablePermanently, SetState,
       flushVars
  <2> QED BY <2>1, <1>2
<1>6. CASE FlushThreadStep
  BY <1>6, FlushStepPlaced
<1>7. CASE DrainTimer \/ RotateTimer
  <2>1. /\ Accounts(w, [w EXCEPT !.drainDue = TRUE], {})
        /\ Accounts(w, [w EXCEPT !.rotateDue = TRUE], {})
    BY <1>1, DrainedAccounts
  <2>2. /\ Accounts(w, w', {})
        /\ UNCHANGED <<collector, gone, log, buf, archive>>
    BY <1>7, <2>1 DEF DrainTimer, RotateTimer, busVars
  <2> QED BY <2>2, WriterPlaced
<1>8. ASSUME NEW t \in Threads, StopRequest(t) PROVE Placed' /\ Forward
  <2>1. UNCHANGED <<log, archive, w>>
    BY <1>8 DEF StopRequest, flushVars
  <2>2. CASE UNCHANGED <<collector, gone, buf>>
    BY <2>1, <2>2, <1>2
  <2>3. CASE AcceptFlush(live, buf[t]) /\ buf' = [buf EXCEPT ![t] = Reset(@)]
    BY <2>1, <2>3, <1>1, FlushPlaced
  <2> QED BY <1>8, <2>2, <2>3 DEF StopRequest
<1>9. ASSUME NEW t \in Threads, SendStop(t) \/ MarkStopped(t)
      PROVE  Placed' /\ Forward
  <2>1. UNCHANGED <<collector, gone, log, buf, archive, w>>
    BY <1>9 DEF SendStop, MarkStopped, flushVars
  <2> QED BY <2>1, <1>2
<1>10. CASE Build
  <2>1. buf[Flusher].events = {}
    BY <1>10 DEF Build, SelfDrained
  <2> QED BY <1>10, <2>1, BuildPlaced
<1> QED BY <1>3, <1>4, <1>5, <1>6, <1>7, <1>8, <1>9, <1>10 DEF Next

LEMMA InitFate == Init => FateInv
<1> SUFFICES ASSUME Init PROVE FateInv
  OBVIOUS
<1>1. /\ buf = [t \in Buffers |-> EmptyBatch]
      /\ collector = [r \in Recorders |-> <<>>]
      /\ log = <<>> /\ gone = {} /\ archive = {} /\ exit = FALSE /\ fpc = "wait"
      /\ w = NewWriter(<<>>, {}, 0)
      /\ live = 1
      /\ state = [r \in Recorders |-> IF r = 1 THEN "Disabled" ELSE "NotBuilt"]
  BY DEF Init, BusInit
<1>2. WriterAccounts(w) /\ Accounted(w) = {}
  BY <1>1, NewWriterAccounts
<1>3. Counts /\ Apart
  BY <1>1, HonestEmpty DEF Counts, Apart, BuffersApart, SlotsApart
<1>4. InBuffers(buf) = {} /\ InQueues(collector) = {}
  <2>1. \A t \in Buffers : buf[t].events = {}
    BY <1>1, HonestEmpty
  <2>2. \A r \in Recorders : Len(collector[r]) = 0
    BY <1>1
  <2> QED BY <2>1, <2>2 DEF InBuffers, InQueues, QueueEvents
<1>5. Fates
  <2>1. Len(log) = 0 /\ 1..0 = {}
    BY <1>1
  <2> QED BY <1>1, <1>2, <1>4, <2>1 DEF Fates, FatesOf
<1>6. SelfDrained
  <2>1. 1 \in Recorders
    BY SizesAssumption DEF Recorders
  <2> QED BY <1>1, <2>1 DEF SelfDrained
<1> QED BY <1>2, <1>3, <1>5, <1>6 DEF FateInv

LEMMA NextFate ==
    TypeOK /\ FateInv /\ [Next]_vars => FateInv' /\ Forward
<1> SUFFICES ASSUME TypeOK, FateInv, [Next]_vars PROVE FateInv' /\ Forward
  OBVIOUS
<1>1. Placed /\ SelfDrained
  BY DEF FateInv, Placed
<1>2. Placed' /\ Forward
  BY <1>1, NextPlaced
<1>3. SelfDrained'
  <2>1. CASE UNCHANGED vars
    BY <1>1, <2>1 DEF SelfDrained, vars, busVars, flushVars
  <2>2. CASE Next
    BY <1>1, <2>2, NextSelfDrained
  <2> QED BY <2>1, <2>2
<1> QED BY <1>2, <1>3 DEF FateInv, Placed

LEMMA FatesHold == Spec => [](TypeOK /\ FateInv)
<1>1. Spec => []TypeOK
  BY TypeCorrect
<1>2. Init => FateInv
  BY InitFate
<1>3. TypeOK /\ FateInv /\ [Next]_vars => FateInv'
  BY NextFate
<1> QED BY <1>1, <1>2, <1>3, PTL DEF Spec

-----------------------------------------------------------------------------
(* What the invariant says about a single event.                           *)

(* The kinds of places, one by one.                                        *)
LEMMA PlaceKinds ==
    ASSUME NEW p \in Places
    PROVE  \/ \E t \in Buffers : p = <<"buf", t>>
           \/ \E r \in Recorders : \E i \in 1..Capacity : p = <<"queue", r, i>>
           \/ \E f \in w.files : p = <<"file", f>>
           \/ p = <<"active">>
           \/ p = <<"gone">>
           \/ p = <<"archive">>
BY DEF Places

LEMMA AtEachPlace ==
    ASSUME NEW n
    PROVE  /\ \A t \in Buffers : /\ <<"buf", t>> \in Places
                                 /\ IsAt(n, <<"buf", t>>) <=> n \in buf[t].events
           /\ \A r \in Recorders, i \in 1..Capacity :
                /\ <<"queue", r, i>> \in Places
                /\ IsAt(n, <<"queue", r, i>>) <=>
                     i <= Len(collector[r]) /\ n \in collector[r][i].events
           /\ \A f \in w.files : /\ <<"file", f>> \in Places
                                 /\ IsAt(n, <<"file", f>>) <=> n \in f.events
           /\ {<<"active">>, <<"gone">>, <<"archive">>} \subseteq Places
           /\ IsAt(n, <<"active">>) <=> n \in w.events
           /\ IsAt(n, <<"gone">>) <=> n \in w.lost \cup gone
           /\ IsAt(n, <<"archive">>) <=> n \in archive
<1>1. ASSUME NEW t \in Buffers
      PROVE  /\ <<"buf", t>> \in Places
             /\ IsAt(n, <<"buf", t>>) <=> n \in buf[t].events
  <2>1. <<"buf", t>>[1] = "buf" /\ <<"buf", t>>[2] = t
    OBVIOUS
  <2> QED BY <2>1 DEF Places, IsAt
<1>2. ASSUME NEW r \in Recorders, NEW i \in 1..Capacity
      PROVE  /\ <<"queue", r, i>> \in Places
             /\ IsAt(n, <<"queue", r, i>>) <=>
                  i <= Len(collector[r]) /\ n \in collector[r][i].events
  <2>1. <<"queue", r, i>>[1] = "queue" /\ <<"queue", r, i>>[2] = r
        /\ <<"queue", r, i>>[3] = i
    OBVIOUS
  <2> QED BY <2>1 DEF Places, IsAt
<1>3. ASSUME NEW f \in w.files
      PROVE  /\ <<"file", f>> \in Places
             /\ IsAt(n, <<"file", f>>) <=> n \in f.events
  <2>1. <<"file", f>>[1] = "file" /\ <<"file", f>>[2] = f
    OBVIOUS
  <2> QED BY <2>1 DEF Places, IsAt
<1>4. {<<"active">>, <<"gone">>, <<"archive">>} \subseteq Places
  BY DEF Places
<1>5. IsAt(n, <<"active">>) <=> n \in w.events
  <2>1. <<"active">>[1] = "active"
    OBVIOUS
  <2> QED BY <2>1 DEF IsAt
<1>6. IsAt(n, <<"gone">>) <=> n \in w.lost \cup gone
  <2>1. <<"gone">>[1] = "gone"
    OBVIOUS
  <2> QED BY <2>1 DEF IsAt
<1>7. IsAt(n, <<"archive">>) <=> n \in archive
  <2>1. <<"archive">>[1] = "archive"
    OBVIOUS
  <2> QED BY <2>1 DEF IsAt
<1> QED BY <1>1, <1>2, <1>3, <1>4, <1>5, <1>6, <1>7

LEMMA OnlyPlace ==
    ASSUME NEW n, NEW x \in Places, IsAt(n, x),
           \A p \in Places : IsAt(n, p) => p = x
    PROVE  Cardinality({p \in Places : IsAt(n, p)}) = 1
<1>1. {p \in Places : IsAt(n, p)} = {x}
  OBVIOUS
<1> QED BY <1>1, FS_Singleton

(* Which sets an event at each kind of place belongs to.                   *)
LEMMA PlacesByFate ==
    ASSUME TypeOK, FateInv, NEW n, NEW p \in Places, IsAt(n, p)
    PROVE  \/ \E t \in Buffers : p = <<"buf", t>> /\ n \in buf[t].events
                                 /\ n \in InBuffers(buf)
           \/ \E r \in Recorders : \E i \in 1..Len(collector[r]) :
                /\ p = <<"queue", r, i>> /\ n \in collector[r][i].events
                /\ n \in InQueues(collector)
           \/ \E f \in w.files : p = <<"file", f>> /\ n \in f.events
                                 /\ n \in FilesEvents(w.files)
           \/ p = <<"active">> /\ n \in w.events
           \/ p = <<"gone">> /\ n \in w.lost \cup gone
           \/ p = <<"archive">> /\ n \in archive
<1>1. CASE \E t \in Buffers : p = <<"buf", t>>
  BY <1>1, AtEachPlace DEF InBuffers
<1>2. CASE \E r \in Recorders : \E i \in 1..Capacity : p = <<"queue", r, i>>
  <2>1. PICK r \in Recorders : \E i \in 1..Capacity : p = <<"queue", r, i>>
    BY <1>2
  <2>2. PICK i \in 1..Capacity : p = <<"queue", r, i>>
    BY <2>1
  <2>3. i <= Len(collector[r]) /\ n \in collector[r][i].events
    BY <2>2, AtEachPlace
  <2>4. Len(collector[r]) \in Nat /\ i \in 1..Len(collector[r])
    BY <2>3, SizesAssumption, LenProperties DEF TypeOK, BusTypeOK
  <2>5. n \in InQueues(collector)
    BY <2>3, <2>4, InQueue
  <2> QED BY <2>2, <2>3, <2>4, <2>5
<1>3. CASE \E f \in w.files : p = <<"file", f>>
  BY <1>3, AtEachPlace DEF FilesEvents
<1>4. CASE p = <<"active">> \/ p = <<"gone">> \/ p = <<"archive">>
  BY <1>4, AtEachPlace
<1> QED BY <1>1, <1>2, <1>3, <1>4, PlaceKinds

LEMMA FateInvMeansOnePlace == TypeOK /\ FateInv => EventInOnePlace
<1> SUFFICES ASSUME TypeOK, FateInv, NEW n \in 1..Len(log)
             PROVE  Cardinality({p \in Places : IsAt(n, p)}) = 1
  BY DEF EventInOnePlace
<1> DEFINE B == InBuffers(buf)
           Q == InQueues(collector)
           A == w.events
           F == FilesEvents(w.files)
           G == w.lost \cup gone
(* The event has one fate ...                                              *)
<1>1. /\ n \in B \/ n \in Q \/ n \in A \/ n \in F \/ n \in G \/ n \in archive
      /\ n \in B => n \notin Q \cup A \cup F \cup G \cup archive
      /\ n \in Q => n \notin B \cup A \cup F \cup G \cup archive
      /\ n \in A => n \notin B \cup Q \cup F \cup G \cup archive
      /\ n \in F => n \notin B \cup Q \cup A \cup G \cup archive
      /\ n \in G => n \notin B \cup Q \cup A \cup F \cup archive
      /\ n \in archive => n \notin B \cup Q \cup A \cup F \cup G
  <2>1. FatesOf(B, Q, (A \cup F) \cup w.lost, archive, gone, Len(log))
    BY DEF FateInv, Fates, Accounted, WriterEvents
  <2>2. A \cap F = {} /\ w.lost \cap (A \cup F) = {}
    BY DEF FateInv, WriterAccounts, WriterEvents
  <2> HIDE DEF B, Q, A, F
  <2> QED BY <2>1, <2>2 DEF FatesOf
(* ... and one place among those of its fate.                              *)
<1> HIDE DEF B, Q, A, F, G
<1>2. ASSUME NEW p \in Places, IsAt(n, p)
      PROVE  \/ \E t \in Buffers : p = <<"buf", t>> /\ n \in buf[t].events /\ n \in B
             \/ \E r \in Recorders : \E i \in 1..Len(collector[r]) :
                  p = <<"queue", r, i>> /\ n \in collector[r][i].events /\ n \in Q
             \/ \E f \in w.files : p = <<"file", f>> /\ n \in f.events /\ n \in F
             \/ p = <<"active">> /\ n \in A
             \/ p = <<"gone">> /\ n \in G
             \/ p = <<"archive">> /\ n \in archive
  BY <1>2, PlacesByFate DEF B, Q, A, F, G
<1>3. CASE n \in B
  <2>1. PICK t \in Buffers : n \in buf[t].events
    BY <1>3 DEF B, InBuffers
  <2>2. <<"buf", t>> \in Places /\ IsAt(n, <<"buf", t>>)
    BY <2>1, AtEachPlace
  <2>3. ASSUME NEW p \in Places, IsAt(n, p) PROVE p = <<"buf", t>>
    <3>1. PICK u \in Buffers : p = <<"buf", u>> /\ n \in buf[u].events
      BY <1>1, <1>2, <1>3, <2>3
    <3>2. u = t
      BY <2>1, <3>1 DEF FateInv, Apart, BuffersApart
    <3> QED BY <3>1, <3>2
  <2> QED BY <2>2, <2>3, OnlyPlace
<1>4. CASE n \in Q
  <2>1. PICK r \in Recorders :
          \E i \in 1..Len(collector[r]) : n \in collector[r][i].events
    BY <1>4, InQueuePick DEF Q
  <2>2. PICK i \in 1..Len(collector[r]) : n \in collector[r][i].events
    BY <2>1
  <2>3. i \in 1..Capacity /\ i <= Len(collector[r])
    <3>1. Len(collector[r]) \in Nat /\ Len(collector[r]) <= Capacity
      BY LenProperties DEF TypeOK, BusTypeOK
    <3> QED BY <3>1, SizesAssumption
  <2>4. <<"queue", r, i>> \in Places /\ IsAt(n, <<"queue", r, i>>)
    BY <2>2, <2>3, AtEachPlace
  <2>5. ASSUME NEW p \in Places, IsAt(n, p) PROVE p = <<"queue", r, i>>
    <3>1. PICK s \in Recorders : \E j \in 1..Len(collector[s]) :
            p = <<"queue", s, j>> /\ n \in collector[s][j].events
      BY <1>1, <1>2, <1>4, <2>5
    <3>2. PICK j \in 1..Len(collector[s]) :
            p = <<"queue", s, j>> /\ n \in collector[s][j].events
      BY <3>1
    <3>3. s = r /\ j = i
      BY <2>2, <3>2 DEF FateInv, Apart, SlotsApart
    <3> QED BY <3>2, <3>3
  <2> QED BY <2>4, <2>5, OnlyPlace
<1>5. CASE n \in F
  <2>1. PICK f \in w.files : n \in f.events
    BY <1>5 DEF F, FilesEvents
  <2>2. <<"file", f>> \in Places /\ IsAt(n, <<"file", f>>)
    BY <2>1, AtEachPlace
  <2>3. ASSUME NEW p \in Places, IsAt(n, p) PROVE p = <<"file", f>>
    <3>1. PICK g \in w.files : p = <<"file", g>> /\ n \in g.events
      BY <1>1, <1>2, <1>5, <2>3
    <3>2. g = f
      BY <2>1, <3>1 DEF FateInv, WriterAccounts
    <3> QED BY <3>1, <3>2
  <2> QED BY <2>2, <2>3, OnlyPlace
<1>6. CASE n \in A
  <2>1. <<"active">> \in Places /\ IsAt(n, <<"active">>)
    BY <1>6, AtEachPlace DEF A
  <2>2. ASSUME NEW p \in Places, IsAt(n, p) PROVE p = <<"active">>
    BY <1>1, <1>2, <1>6, <2>2
  <2> QED BY <2>1, <2>2, OnlyPlace
<1>7. CASE n \in G
  <2>1. <<"gone">> \in Places /\ IsAt(n, <<"gone">>)
    BY <1>7, AtEachPlace DEF G
  <2>2. ASSUME NEW p \in Places, IsAt(n, p) PROVE p = <<"gone">>
    BY <1>1, <1>2, <1>7, <2>2
  <2> QED BY <2>1, <2>2, OnlyPlace
<1>8. CASE n \in archive
  <2>1. <<"archive">> \in Places /\ IsAt(n, <<"archive">>)
    BY <1>8, AtEachPlace
  <2>2. ASSUME NEW p \in Places, IsAt(n, p) PROVE p = <<"archive">>
    BY <1>1, <1>2, <1>8, <2>2
  <2> QED BY <2>1, <2>2, OnlyPlace
<1> QED BY <1>1, <1>3, <1>4, <1>5, <1>6, <1>7, <1>8

(* No event vanishes and none is written twice: through every interleaving *)
(* of recording threads, drains, thread exits, rotations, evictions, I/O   *)
(* errors, stops and later recorders, each encoded event is in exactly one *)
(* buffer, queue slot, file or earlier trace, or is counted as lost.       *)
THEOREM OnePlaceTheorem == Spec => []EventInOnePlace
BY FatesHold, FateInvMeansOnePlace, PTL

(* The views that TraceLog is given, in terms of this module's.            *)
LEMMA Views == BufferedEvents = InBuffers(buf) /\ QueuedEvents = InQueues(collector)
BY DEF BufferedEvents, QueuedEvents, InBuffers, InQueues

LEMMA FatesArePartition ==
    TypeOK /\ FateInv =>
        Promise!Partition(BufferedEvents \cup QueuedEvents,
                          WriterEvents(w) \cup archive, w.lost \cup gone, Len(log))
<1> SUFFICES ASSUME TypeOK, FateInv
             PROVE  Promise!Partition(BufferedEvents \cup QueuedEvents,
                       WriterEvents(w) \cup archive, w.lost \cup gone, Len(log))
  OBVIOUS
<1> DEFINE K == WriterEvents(w)
           L == w.lost
           B == BufferedEvents
           Q == QueuedEvents
<1>1. FatesOf(B, Q, K \cup L, archive, gone, Len(log)) /\ K \cap L = {}
  BY Views DEF FateInv, Fates, Accounted, WriterAccounts
<1> HIDE DEF K, L, B, Q
<1>2. Promise!Partition(B \cup Q, K \cup archive, L \cup gone, Len(log))
  BY <1>1 DEF FatesOf, Promise!Partition
<1> QED BY <1>2 DEF K, L, B, Q

LEMMA PromiseInit == Init => Promise!Init
<1> SUFFICES ASSUME Init PROVE Promise!Init
  OBVIOUS
<1>1. FateInv /\ Len(log) = 0
  BY InitFate DEF Init, BusInit
<1>2. TypeOK
  BY InitType
<1>3. Promise!Partition(BufferedEvents \cup QueuedEvents,
                        WriterEvents(w) \cup archive, w.lost \cup gone, Len(log))
  BY <1>1, <1>2, FatesArePartition
<1>4. 1..0 = {}
  OBVIOUS
<1> QED BY <1>1, <1>3, <1>4 DEF Promise!Init, Promise!Partition

LEMMA PromiseStep ==
    TypeOK /\ FateInv /\ [Next]_vars /\ TypeOK' /\ FateInv' => Promise!Next
<1> SUFFICES ASSUME TypeOK, FateInv, [Next]_vars, TypeOK', FateInv'
             PROVE  Promise!Next
  OBVIOUS
<1>1. Forward
  BY NextFate
<1>2. (Promise!Partition(BufferedEvents \cup QueuedEvents,
                         WriterEvents(w) \cup archive, w.lost \cup gone, Len(log)))'
  BY FatesArePartition, PTL
<1>3. Promise!Grows /\ Promise!MovesForward
  BY <1>1 DEF Forward, Promise!Grows, Promise!MovesForward
<1> QED BY <1>2, <1>3 DEF Promise!Next, Promise!Partition

(* The recorder implements TraceLog: an event goes from pending to kept to *)
(* gone, one step records at most one event, none has two fates and none   *)
(* comes back, whatever the threads, the drains and the disk do.           *)
THEOREM TraceLogTheorem == Spec => ImplementsTraceLog
<1>1. TypeOK /\ FateInv /\ [Next]_vars /\ TypeOK' /\ FateInv'
        => [Promise!Next]_(Promise!logVars)
  BY PromiseStep
<1> QED BY <1>1, PromiseInit, FatesHold, PTL
        DEF Spec, ImplementsTraceLog, Promise!Spec
-----------------------------------------------------------------------------
(***************************************************************************)
(* The order of a thread's events.                                         *)
(*                                                                         *)
(* Whatever carries the events of a thread away takes the oldest first:    *)
(* an event that is still pending has only pending ones after it.  So a    *)
(* batch that reaches the writer is older than what its thread has pending *)
(* and newer than what the writer has of it.                               *)
(***************************************************************************)

(* m and n are of one thread, m the earlier one.                           *)
Earlier(l, m, n) == m < n /\ l[m].thread = l[n].thread

(* What follows a buffered event is in the same buffer, ...                *)
BuffersLast(b, l) ==
    \A t \in Buffers : \A m \in b[t].events, n \in 1..Len(l) :
        Earlier(l, m, n) => n \in b[t].events

(* ... what follows a queued event in its slot, a later one or a buffer,   *)
QueueOrdered(q, b, l) ==
    \A i \in 1..Len(q) : \A m \in q[i].events, n \in 1..Len(l) :
        Earlier(l, m, n) =>
            n \in InBuffers(b) \/ \E j \in i..Len(q) : n \in q[j].events

(* ... and what follows a written one in no earlier segment.               *)
WriterOrdered(u, l) ==
    /\ \A f \in u.files : f.index < u.next
    /\ \A m \in u.events, f \in u.files : \A n \in f.events : ~Earlier(l, m, n)
    /\ \A f, g \in u.files : \A m \in f.events, n \in g.events :
         Earlier(l, m, n) => f.index <= g.index

(* The first recorder is the only one there is.                            *)
OnlyRecorder ==
    /\ \A t \in Buffers : owner[t] \in {0, 1}
    /\ \A r \in Recorders : r # 1 => collector[r] = <<>>

Ordered ==
    /\ OnlyRecorder
    /\ BuffersLast(buf, log)
    /\ QueueOrdered(collector[1], buf, log)
    /\ WriterOrdered(w, log)

-----------------------------------------------------------------------------
(* The writer seals what it has and what it is given under the index of    *)
(* the active segment, and seals nothing else.                             *)

Moved(u, v, X) ==
    /\ v.next >= u.next
    /\ \A f \in v.files :
         f \in u.files \/ (f.index = u.next - 1 /\ f.events \subseteq u.events \cup X)
    /\ \/ v.events \subseteq u.events \cup X /\ v.files \subseteq u.files
       \/ v.events = {}

(* A change of anything but events, files and the next index.              *)
LEMMA SameMoved ==
    ASSUME NEW E, NEW u \in WriterTypes(E), NEW X, NEW v,
           v.events \subseteq u.events \cup X, v.files = u.files, v.next = u.next
    PROVE  Moved(u, v, X)
<1>1. u.next \in Nat
  BY DEF WriterTypes
<1> QED BY <1>1 DEF Moved

LEMMA EvictMoved ==
    ASSUME NEW E, NEW u, NEW X, NEW v \in WriterTypes(E), Moved(u, v, X)
    PROVE  Moved(u, EvictOldest(v), X)
<1> DEFINE k == EvictCount(v)
           less == RemoveSealed(v, {v.closed[i].index : i \in 1..k})
           rest == SubSeq(v.closed, k + 1, Len(v.closed))
           kept == [less EXCEPT !.closed = rest]
           fin == [kept EXCEPT !.state = "Finished"]
<1>1. EvictOldest(v) \in {v, kept, fin}
  BY DEF EvictOldest
<1>2. less \in WriterTypes(E)
  BY RemoveSealedType
<1>3. less.files \subseteq v.files /\ less.events = v.events /\ less.next = v.next
  BY DEF RemoveSealed, WriterTypes
<1> HIDE DEF less, rest
<1>4. /\ kept.files = less.files /\ kept.events = less.events /\ kept.next = less.next
      /\ fin.files = less.files /\ fin.events = less.events /\ fin.next = less.next
  BY <1>2 DEF WriterTypes
<1> HIDE DEF kept, fin
<1>5. Moved(u, kept, X) /\ Moved(u, fin, X)
  BY <1>3, <1>4 DEF Moved
<1> QED BY <1>1, <1>5

LEMMA SealedMoved ==
    ASSUME NEW E, NEW u \in WriterTypes(E), NEW complete \in BOOLEAN
    PROVE  /\ Moved(u, Sealed(u, complete), {})
           /\ Sealed(u, complete).events = {} /\ Sealed(u, complete).next = u.next
<1> DEFINE v == Sealed(u, complete)
           file  == [index |-> u.next - 1, events |-> u.events, size |-> u.bytes,
                     complete |-> complete]
<1>1. /\ v.files = {f \in u.files : f.index # u.next - 1} \cup {file}
      /\ v.events = {} /\ v.next = u.next
  BY DEF Sealed, WriterTypes
<1>2. file.index = u.next - 1 /\ file.events = u.events
  OBVIOUS
<1>3. u.next \in Nat
  BY DEF WriterTypes
<1> HIDE DEF v, file
<1>4. Moved(u, v, {})
  BY <1>1, <1>2, <1>3 DEF Moved
<1> QED BY <1>1, <1>4 DEF v

LEMMA RotateMoved ==
    ASSUME NEW E, NEW u \in WriterTypes(E), NEW kind \in SealKinds, NEW io
    PROVE  Moved(u, Rotate(u, kind, io), {})
<1> DEFINE stamped == [u EXCEPT !.prior = kind, !.drainDue = FALSE,
                                !.rotateDue = FALSE, !.state = "Finished"]
           closed  == IF io.seal = "notfound" THEN Abandoned(stamped)
                      ELSE Sealed(stamped, Complete(u, kind))
           advanced == [closed EXCEPT !.next = @ + 1]
           fresh == FreshSegment(advanced)
<1>1. Rotate(u, kind, io) \in {u, stamped, advanced, EvictOldest(fresh)}
  BY DEF Rotate
<1>2. /\ stamped \in WriterTypes(E) /\ stamped.events = u.events
      /\ stamped.files = u.files /\ stamped.next = u.next
  BY DEF WriterTypes
<1>3. Complete(u, kind) \in BOOLEAN /\ u.next \in Nat
  BY DEF Complete, WriterTypes
<1> HIDE DEF stamped
<1>4. /\ closed \in WriterTypes(E) /\ Moved(stamped, closed, {})
      /\ closed.events = {} /\ closed.next = u.next
  <2>1. CASE io.seal = "notfound"
    <3>1. /\ Abandoned(stamped) \in WriterTypes(E)
          /\ Abandoned(stamped).events = {}
          /\ Abandoned(stamped).files = stamped.files
          /\ Abandoned(stamped).next = stamped.next
      BY <1>2, AbandonedType DEF Abandoned, WriterTypes
    <3>2. Moved(stamped, Abandoned(stamped), {})
      BY <1>2, <3>1, SameMoved
    <3> QED BY <1>2, <2>1, <3>1, <3>2
  <2>2. CASE io.seal # "notfound"
    BY <1>2, <1>3, <2>2, SealedMoved, SealedType
  <2> QED BY <2>1, <2>2
<1> HIDE DEF closed
<1>5. /\ advanced \in WriterTypes(E) /\ advanced.files = closed.files
      /\ advanced.events = {} /\ advanced.next = u.next + 1
  <2>1. closed.next + 1 \in Nat \ {0}
    BY <1>3, <1>4
  <2> QED BY <1>4, <2>1 DEF WriterTypes
<1> HIDE DEF advanced
<1>6. Moved(u, advanced, {})
  <2>1. \A f \in closed.files :
          f \in u.files \/ (f.index = u.next - 1 /\ f.events \subseteq u.events \cup {})
    BY <1>2, <1>4 DEF Moved
  <2> QED BY <1>3, <1>5, <2>1 DEF Moved
<1>7. Moved(u, EvictOldest(fresh), {})
  <2>1. /\ fresh \in WriterTypes(E) /\ fresh.files = advanced.files
        /\ fresh.events = advanced.events /\ fresh.next = advanced.next
    <3>1. fresh \in WriterTypes(E)
      BY <1>5, FreshSegmentType
    <3> QED BY <1>5, <3>1 DEF FreshSegment, WriterTypes
  <2> HIDE DEF fresh
  <2>2. Moved(u, fresh, {})
    BY <1>6, <2>1 DEF Moved
  <2> QED BY <2>1, <2>2, EvictMoved
<1>8. Moved(u, u, {}) /\ Moved(u, stamped, {})
  BY <1>2, SameMoved
<1> QED BY <1>1, <1>6, <1>7, <1>8

LEMMA WriteMoved ==
    ASSUME NEW E, NEW u \in WriterTypes(E), NEW io, NEW batch,
           batch.events \in SUBSET E, batch.count \in Nat
    PROVE  /\ Moved(u, WriteEncodedBatch(u, batch, io), batch.events)
           /\ Moved(u, WriteLost(u, batch), batch.events)
<1> DEFINE written == [u EXCEPT !.events = @ \cup batch.events,
                                !.bytes = @ + batch.count, !.hasReal = TRUE]
           refused == [u EXCEPT !.dropped = @ + batch.count,
                                !.lost = @ \cup batch.events]
           lost == WriteLost(u, batch)
           rotated == Rotate(written, "Overflow", io)
<1>1. u.bytes + batch.count \in Nat /\ u.events \cup batch.events \in SUBSET E
  BY DEF WriterTypes
<1>2. /\ written \in WriterTypes(E) /\ written.events = u.events \cup batch.events
      /\ written.files = u.files /\ written.next = u.next
  BY <1>1 DEF WriterTypes
<1>3. /\ refused.events = u.events /\ refused.files = u.files /\ refused.next = u.next
      /\ lost.events = u.events /\ lost.files = u.files /\ lost.next = u.next
  BY DEF WriterTypes, WriteLost
<1>4. WriteEncodedBatch(u, batch, io) \in {u, written, refused, rotated}
  BY DEF WriteEncodedBatch
<1> HIDE DEF written, refused, lost
<1>5. /\ Moved(u, u, batch.events) /\ Moved(u, written, batch.events)
      /\ Moved(u, refused, batch.events) /\ Moved(u, lost, batch.events)
  BY <1>2, <1>3, SameMoved
<1>6. Moved(written, rotated, {})
  BY <1>2, RotateMoved DEF SealKinds
<1> HIDE DEF rotated
<1>7. Moved(u, rotated, batch.events)
  BY <1>2, <1>6 DEF Moved
<1> QED BY <1>4, <1>5, <1>7 DEF lost

LEMMA DrainedMoved ==
    ASSUME NEW E, NEW u \in WriterTypes(E), NEW io
    PROVE  /\ Moved(u, u, {})
           /\ Moved(u, Drained(u, io), {})
           /\ Moved(u, UpdateSegmentMetadata(u), {})
           /\ Moved(u, [u EXCEPT !.drainDue = TRUE], {})
           /\ Moved(u, [u EXCEPT !.rotateDue = TRUE], {})
<1> DEFINE a == [u EXCEPT !.drainDue = FALSE]
           b == UpdateSegmentMetadata(u)
           c == [u EXCEPT !.drainDue = TRUE]
           d == [u EXCEPT !.rotateDue = TRUE]
<1>1. /\ a.events = u.events /\ a.files = u.files /\ a.next = u.next
      /\ b.events = u.events /\ b.files = u.files /\ b.next = u.next
      /\ c.events = u.events /\ c.files = u.files /\ c.next = u.next
      /\ d.events = u.events /\ d.files = u.files /\ d.next = u.next
  BY DEF WriterTypes, UpdateSegmentMetadata
<1>2. Drained(u, io) \in {u, Rotate(u, "Drained", io), a}
  BY DEF Drained
<1> HIDE DEF a, b, c, d
<1>3. /\ Moved(u, u, {}) /\ Moved(u, a, {}) /\ Moved(u, b, {})
      /\ Moved(u, c, {}) /\ Moved(u, d, {})
  BY <1>1, SameMoved
<1>4. Moved(u, Rotate(u, "Drained", io), {})
  BY RotateMoved DEF SealKinds
<1> QED BY <1>2, <1>3, <1>4 DEF b, c, d

LEMMA FinalizeMoved ==
    ASSUME NEW E, NEW u \in WriterTypes(E), NEW io
    PROVE  Moved(u, Finalize(u, io), {})
<1> DEFINE closing == [u EXCEPT !.state = "Finished", !.done = TRUE]
           marked == [u EXCEPT !.done = TRUE]
           sealed  == Sealed(closing, Complete(u, "Drained"))
           left == Abandoned(closing)
<1>1. /\ closing \in WriterTypes(E) /\ closing.events = u.events
      /\ closing.files = u.files /\ closing.next = u.next
      /\ marked.events = u.events /\ marked.files = u.files /\ marked.next = u.next
  BY DEF WriterTypes
<1>2. Finalize(u, io) \in {marked, closing, EvictOldest(closing), EvictOldest(left),
                           EvictOldest(sealed)}
  BY DEF Finalize
<1> HIDE DEF closing, marked
<1>3. Moved(u, closing, {}) /\ Moved(u, marked, {})
  BY <1>1, SameMoved
<1>4. left \in WriterTypes(E) /\ Moved(u, left, {})
  <2>1. /\ left \in WriterTypes(E) /\ left.events = {}
        /\ left.files = u.files /\ left.next = u.next
    BY <1>1, AbandonedType DEF Abandoned, WriterTypes
  <2> HIDE DEF left
  <2> QED BY <2>1, SameMoved
<1>5. sealed \in WriterTypes(E) /\ Moved(u, sealed, {})
  <2>1. Complete(u, "Drained") \in BOOLEAN
    BY DEF Complete
  <2>2. sealed \in WriterTypes(E) /\ Moved(closing, sealed, {})
    BY <1>1, <2>1, SealedMoved, SealedType
  <2> HIDE DEF sealed
  <2> QED BY <1>1, <2>2 DEF Moved
<1> HIDE DEF sealed, left
<1> QED BY <1>1, <1>2, <1>3, <1>4, <1>5, EvictMoved

(* So events that no event of theirs in the writer follows keep its order. *)
LEMMA MovedKeepsOrder ==
    ASSUME NEW E, NEW u \in WriterTypes(E), NEW v \in WriterTypes(E), NEW X,
           NEW l, WriterOrdered(u, l), Moved(u, v, X),
           \A m \in X, n \in WriterEvents(u) : ~Earlier(l, m, n)
    PROVE  WriterOrdered(v, l)
<1>1. /\ u.next \in Nat /\ v.next \in Nat
      /\ \A f \in u.files \cup v.files : f.index \in Nat
  BY DEF WriterTypes, SegmentFiles
<1>2. \A f \in v.files : f.index < v.next
  BY <1>1 DEF Moved, WriterOrdered
<1>3. \A m \in u.events \cup X, f \in u.files : \A n \in f.events : ~Earlier(l, m, n)
  BY DEF WriterOrdered, WriterEvents, FilesEvents
<1>4. \A m \in v.events, f \in v.files : \A n \in f.events : ~Earlier(l, m, n)
  BY <1>3 DEF Moved
<1>5. ASSUME NEW f \in v.files, NEW g \in v.files, NEW m \in f.events,
             NEW n \in g.events, Earlier(l, m, n)
      PROVE  f.index <= g.index
  <2>1. CASE f \in u.files /\ g \in u.files
    BY <1>5, <2>1 DEF WriterOrdered
  <2>2. CASE f \in u.files /\ g \notin u.files
    BY <1>1, <2>2 DEF WriterOrdered, Moved
  <2>3. CASE f \notin u.files /\ g \in u.files
    BY <1>3, <1>5, <2>3 DEF Moved
  <2>4. CASE f \notin u.files /\ g \notin u.files
    BY <1>1, <2>4 DEF Moved
  <2> QED BY <2>1, <2>2, <2>3, <2>4
<1> QED BY <1>2, <1>4, <1>5 DEF WriterOrdered

-----------------------------------------------------------------------------
(* The ways in which a step moves events keep them in order.               *)

(* Where the events of the only recorder are.                              *)
LEMMA QueueOfOnly ==
    ASSUME TypeOK, OnlyRecorder
    PROVE  /\ 1 \in Recorders
           /\ collector[1] \in Seq(Batches) /\ Len(collector[1]) <= Capacity
           /\ Len(collector[1]) \in Nat
           /\ InQueues(collector) = QueueEvents(collector[1])
<1>1. /\ 1 \in Recorders
      /\ collector \in [Recorders -> Seq(Batches)]
      /\ \A r \in Recorders : Len(collector[r]) <= Capacity
  BY SizesAssumption DEF TypeOK, BusTypeOK, Recorders
<1>2. collector[1] \in Seq(Batches) /\ Len(collector[1]) \in Nat
  BY <1>1
<1>3. \A r \in Recorders : r # 1 => QueueEvents(collector[r]) = {}
  BY DEF OnlyRecorder, QueueEvents
<1>4. InQueues(collector) = QueueEvents(collector[1])
  BY <1>1, <1>3 DEF InQueues
<1> QED BY <1>1, <1>2, <1>4

(* No event of the writer follows one that is still pending.               *)
LEMMA PendingIsLate ==
    ASSUME TypeOK, Placed, Ordered, NEW m \in InQueues(collector),
           NEW n \in WriterEvents(w)
    PROVE  ~Earlier(log, m, n)
<1> SUFFICES ASSUME Earlier(log, m, n) PROVE FALSE
  OBVIOUS
<1>1. n \in 1..Len(log) /\ n \notin InBuffers(buf) \cup InQueues(collector)
  BY DEF Placed, Fates, FatesOf, Accounted
<1>2. InQueues(collector) = QueueEvents(collector[1])
  BY QueueOfOnly DEF Ordered
<1>3. PICK i \in 1..Len(collector[1]) : m \in collector[1][i].events
  BY <1>2 DEF QueueEvents
<1>4. PICK j \in i..Len(collector[1]) : n \in collector[1][j].events
  BY <1>1, <1>3 DEF Ordered, QueueOrdered
<1>5. j \in 1..Len(collector[1])
  <2>1. Len(collector[1]) \in Nat
    BY QueueOfOnly DEF Ordered
  <2> QED BY <2>1
<1> QED BY <1>1, <1>2, <1>4, <1>5 DEF QueueEvents

(* Nothing moves but within the writer.                                    *)
LEMMA QuietOrdered ==
    ASSUME TypeOK, TypeOK', Ordered, Moved(w, w', {}),
           UNCHANGED <<collector, log>>,
           \A t \in Buffers : buf'[t].events = buf[t].events,
           \A t \in Buffers : owner'[t] \in {0, 1}
    PROVE  Ordered'
<1>1. OnlyRecorder'
  BY DEF Ordered, OnlyRecorder
<1>2. InBuffers(buf') = InBuffers(buf)
  BY DEF InBuffers
<1>3. BuffersLast(buf', log') /\ QueueOrdered(collector'[1], buf', log')
  BY <1>2 DEF Ordered, BuffersLast, QueueOrdered
<1>4. WriterOrdered(w', log')
  BY MovedKeepsOrder DEF Ordered, TypeOK
<1> QED BY <1>1, <1>3, <1>4 DEF Ordered

(* The log with an event t has just encoded.                               *)
LEMMA EarlierGrows ==
    ASSUME TypeOK, NEW t \in Buffers, NEW r \in Recorders,
           log' = Append(log, [thread |-> t, rec |-> r])
    PROVE  /\ Len(log) \in Nat /\ Len(log') = Len(log) + 1
           /\ \A m \in 1..Len(log), n \in 1..Len(log) :
                Earlier(log', m, n) <=> Earlier(log, m, n)
           /\ \A m \in 1..Len(log) :
                Earlier(log', m, Len(log) + 1) <=> log[m].thread = t
           /\ \A n \in 1..(Len(log) + 1) : ~Earlier(log', Len(log) + 1, n)
<1>1. [thread |-> t, rec |-> r] \in [thread : Buffers, rec : Recorders]
  OBVIOUS
<1>2. /\ Len(log) \in Nat
      /\ Len(log') = Len(log) + 1
      /\ \A n \in 1..Len(log) : log'[n] = log[n]
      /\ log'[Len(log) + 1] = [thread |-> t, rec |-> r]
  BY <1>1, LogGrows
<1> QED BY <1>2 DEF Earlier

(* A new event that is in no file changes nothing for the writer.          *)
LEMMA WriterUnaware ==
    ASSUME TypeOK, Placed, WriterOrdered(w, log), NEW t \in Buffers,
           NEW r \in Recorders, log' = Append(log, [thread |-> t, rec |-> r]),
           UNCHANGED w
    PROVE  WriterOrdered(w', log')
<1>1. w.events \subseteq 1..Len(log) /\ \A f \in w.files : f.events \subseteq 1..Len(log)
  BY DEF Placed, Fates, FatesOf, Accounted, WriterEvents, FilesEvents
<1>2. \A m, n \in 1..Len(log) : Earlier(log', m, n) <=> Earlier(log, m, n)
  BY EarlierGrows
<1> QED BY <1>1, <1>2 DEF WriterOrdered

(* An event is encoded into a buffer.                                      *)
LEMMA EncodeOrdered ==
    ASSUME TypeOK, Placed, Ordered, BuffersOwnTheirEvents, NEW t \in Buffers,
           NEW b, b.events = buf[t].events \cup {Len(log) + 1},
           buf' = [buf EXCEPT ![t] = b], NEW r \in Recorders,
           log' = Append(log, [thread |-> t, rec |-> r]),
           UNCHANGED <<collector, w>>, \A u \in Buffers : owner'[u] \in {0, 1}
    PROVE  Ordered'
<1> DEFINE new == Len(log) + 1
<1>0. buf \in [Buffers -> Batches]
  BY DEF TypeOK, BusTypeOK
<1>1. /\ Len(log) \in Nat /\ Len(log') = new
      /\ \A m \in 1..Len(log), n \in 1..Len(log) :
           Earlier(log', m, n) <=> Earlier(log, m, n)
      /\ \A m \in 1..Len(log) : Earlier(log', m, new) <=> log[m].thread = t
      /\ \A n \in 1..new : ~Earlier(log', new, n)
  BY EarlierGrows
<1>2. 1..new = (1..Len(log)) \cup {new}
  BY <1>1
<1>3. /\ buf'[t].events = buf[t].events \cup {new}
      /\ \A u \in Buffers : u # t => buf'[u].events = buf[u].events
  BY <1>0
<1>4. InBuffers(buf) \cup {new} \subseteq InBuffers(buf')
  BY <1>3 DEF InBuffers
<1>5. OnlyRecorder'
  BY DEF Ordered, OnlyRecorder
<1>6. WriterOrdered(w', log')
  BY WriterUnaware DEF Ordered
<1>7. BuffersLast(buf', log')
  <2> SUFFICES ASSUME NEW u \in Buffers, NEW m \in buf'[u].events,
                      NEW n \in 1..new, Earlier(log', m, n)
               PROVE  n \in buf'[u].events
    BY <1>1 DEF BuffersLast
  <2>1. m # new
    BY <1>1
  <2>2. m \in buf[u].events /\ m \in 1..Len(log) /\ log[m].thread = u
    BY <1>3, <2>1 DEF BuffersOwnTheirEvents
  <2>3. CASE n = new
    BY <1>1, <1>3, <2>2, <2>3
  <2>4. CASE n \in 1..Len(log)
    BY <1>1, <1>3, <2>2, <2>4 DEF Ordered, BuffersLast
  <2> QED BY <1>2, <2>3, <2>4
<1>8. QueueOrdered(collector'[1], buf', log')
  <2> DEFINE q == collector[1]
  <2> SUFFICES ASSUME NEW i \in 1..Len(q), NEW m \in q[i].events,
                      NEW n \in 1..new, Earlier(log', m, n)
               PROVE  n \in InBuffers(buf') \/ \E j \in i..Len(q) : n \in q[j].events
    BY <1>1 DEF QueueOrdered
  <2>1. m \in 1..Len(log)
    <3>1. m \in InQueues(collector)
      BY QueueOfOnly, InQueue DEF Ordered
    <3> QED BY <3>1 DEF Placed, Fates, FatesOf
  <2>2. CASE n = new
    BY <1>4, <2>2
  <2>3. CASE n \in 1..Len(log)
    BY <1>1, <1>4, <2>1, <2>3 DEF Ordered, QueueOrdered
  <2> QED BY <1>2, <2>2, <2>3
<1> QED BY <1>5, <1>6, <1>7, <1>8 DEF Ordered

(* A batch is handed over, with the event that has just been encoded or    *)
(* without one: the batch is last in the queue, and what its thread has    *)
(* buffered is in it.                                                      *)
LEMMA HandOrdered ==
    ASSUME TypeOK, Placed, Ordered, BuffersOwnTheirEvents, NEW t \in Buffers,
           NEW b \in Batches, NEW X, b.events = buf[t].events \cup X,
           \/ X = {} /\ log' = log
           \/ X = {Len(log) + 1}
              /\ \E r \in Recorders : log' = Append(log, [thread |-> t, rec |-> r]),
           collector' = [collector EXCEPT ![1] = Pushed(@, b)],
           buf' = [buf EXCEPT ![t] = EmptyBatch], UNCHANGED w,
           \A u \in Buffers : owner'[u] \in {0, 1}
    PROVE  Ordered'
<1> DEFINE q == collector[1]
           p == collector'[1]
<1>0. /\ buf \in [Buffers -> Batches]
      /\ collector \in [Recorders -> Seq(Batches)]
      /\ 1 \in Recorders /\ q \in Seq(Batches) /\ Len(q) <= Capacity /\ Len(q) \in Nat
  BY QueueOfOnly DEF TypeOK, BusTypeOK, Ordered
<1> DEFINE Grows ==
             /\ Len(log) \in Nat /\ 1..Len(log') = (1..Len(log)) \cup X
             /\ \A m \in 1..Len(log), n \in 1..Len(log) :
                  Earlier(log', m, n) <=> Earlier(log, m, n)
             /\ \A m \in 1..Len(log), n \in X : Earlier(log', m, n) <=> log[m].thread = t
             /\ \A m \in X, n \in 1..Len(log') : ~Earlier(log', m, n)
<1>1. Grows
  <2>1. CASE X = {} /\ log' = log
    <3>1. Len(log) \in Nat
      BY DEF TypeOK, BusTypeOK
    <3> QED BY <2>1, <3>1
  <2>2. ASSUME X = {Len(log) + 1}, NEW r \in Recorders,
               log' = Append(log, [thread |-> t, rec |-> r])
        PROVE  Grows
    <3>1. /\ Len(log) \in Nat /\ Len(log') = Len(log) + 1
          /\ \A m \in 1..Len(log), n \in 1..Len(log) :
               Earlier(log', m, n) <=> Earlier(log, m, n)
          /\ \A m \in 1..Len(log) :
               Earlier(log', m, Len(log) + 1) <=> log[m].thread = t
          /\ \A n \in 1..(Len(log) + 1) : ~Earlier(log', Len(log) + 1, n)
      BY <2>2, EarlierGrows
    <3>2. 1..(Len(log) + 1) = (1..Len(log)) \cup {Len(log) + 1}
      BY <3>1
    <3> QED BY <2>2, <3>1, <3>2
  <2> QED BY <2>1, <2>2
<1>2. /\ buf'[t].events = {}
      /\ \A u \in Buffers : u # t => buf'[u].events = buf[u].events
  BY <1>0, HonestEmpty
<1>3. InBuffers(buf) \subseteq InBuffers(buf') \cup b.events
  BY <1>2 DEF InBuffers
<1>4. p = Pushed(q, b) /\ \A r \in Recorders : r # 1 => collector'[r] = collector[r]
  BY <1>0
<1>5. OnlyRecorder'
  BY <1>4 DEF Ordered, OnlyRecorder
<1>6. WriterOrdered(w', log')
  BY WriterUnaware DEF Ordered
<1>7. BuffersLast(buf', log')
  <2> SUFFICES ASSUME NEW u \in Buffers, NEW m \in buf'[u].events,
                      NEW n \in 1..Len(log'), Earlier(log', m, n)
               PROVE  n \in buf'[u].events
    BY DEF BuffersLast
  <2>1. u # t /\ m \in buf[u].events /\ m \in 1..Len(log) /\ log[m].thread = u
    BY <1>2 DEF BuffersOwnTheirEvents
  <2>2. n \in 1..Len(log)
    BY <1>1, <2>1
  <2>3. n \in buf[u].events
    BY <1>1, <2>1, <2>2 DEF Ordered, BuffersLast
  <2> QED BY <1>2, <2>1, <2>3
<1>8. QueueOrdered(p, buf', log')
  <2> HIDE DEF p, q
  <2>0. \E d \in {0, 1} :
          /\ d = 1 => Len(q) # 0
          /\ Len(Pushed(q, b)) = Len(q) + 1 - d
          /\ Pushed(q, b)[Len(q) + 1 - d] = b
          /\ \A i \in 1..(Len(q) - d) : Pushed(q, b)[i] = q[i + d]
    BY <1>0, PushedSlots
  <2>1. PICK d \in {0, 1} :
          /\ d = 1 => Len(q) # 0
          /\ Len(p) = Len(q) + 1 - d
          /\ p[Len(q) + 1 - d] = b
          /\ \A i \in 1..(Len(q) - d) : p[i] = q[i + d]
    BY <1>4, <2>0
  <2> SUFFICES ASSUME NEW i \in 1..Len(p), NEW m \in p[i].events,
                      NEW n \in 1..Len(log'), Earlier(log', m, n)
               PROVE  n \in InBuffers(buf') \/ \E j \in i..Len(p) : n \in p[j].events
    BY DEF QueueOrdered
  <2>2. Len(p) \in i..Len(p) /\ p[Len(p)] = b /\ Len(p) \in Nat
    BY <1>0, <2>1
  <2>3. CASE n \in b.events
    BY <2>2, <2>3
  <2>4. CASE n \notin b.events
    <3>1. n \in 1..Len(log) /\ n \notin buf[t].events /\ n \notin X
      BY <1>1, <2>4
    <3>2. CASE i = Len(p)
      <4>1. m \in buf[t].events
        BY <1>1, <2>2, <3>2
      <4>2. m \in 1..Len(log)
        BY <4>1 DEF BuffersOwnTheirEvents
      <4> QED BY <1>1, <3>1, <4>1, <4>2 DEF Ordered, BuffersLast
    <3>3. CASE i # Len(p)
      <4>1. i \in 1..(Len(q) - d) /\ i + d \in 1..Len(q) /\ p[i] = q[i + d]
        BY <1>0, <2>1, <3>3
      <4>2. m \in 1..Len(log)
        <5>1. m \in InQueues(collector)
          BY <1>0, <4>1, InQueue DEF q
        <5> QED BY <5>1 DEF Placed, Fates, FatesOf
      <4>3. n \in InBuffers(buf) \/ \E j \in (i + d)..Len(q) : n \in q[j].events
        BY <1>1, <3>1, <4>1, <4>2 DEF Ordered, QueueOrdered, q
      <4>4. ASSUME NEW j \in (i + d)..Len(q), n \in q[j].events
            PROVE  \E k \in i..Len(p) : n \in p[k].events
        <5>1. j - d \in i..Len(p) /\ j - d \in 1..(Len(q) - d) /\ (j - d) + d = j
          BY <1>0, <2>1, <4>1
        <5>2. p[j - d] = q[j]
          BY <2>1, <5>1
        <5> QED BY <4>4, <5>1, <5>2
      <4> QED BY <1>3, <2>4, <4>3, <4>4
    <3> QED BY <3>2, <3>3
  <2> QED BY <2>3, <2>4
<1> QED BY <1>5, <1>6, <1>7, <1>8 DEF Ordered

(* A batch is popped and given to the writer.                              *)
LEMMA PopOrdered ==
    ASSUME TypeOK, TypeOK', Placed, Ordered, collector[1] # <<>>,
           collector' = [collector EXCEPT ![1] = Tail(collector[1])],
           Moved(w, w', Head(collector[1]).events),
           UNCHANGED <<buf, log, owner>>
    PROVE  Ordered'
<1> DEFINE q == collector[1]
           p == collector'[1]
<1>1. /\ collector \in [Recorders -> Seq(Batches)]
      /\ 1 \in Recorders /\ q \in Seq(Batches) /\ Len(q) \in Nat
  BY QueueOfOnly DEF TypeOK, BusTypeOK, Ordered
<1>2. /\ p = Tail(q) /\ Len(p) = Len(q) - 1 /\ \A i \in 1..Len(p) : p[i] = q[i + 1]
      /\ Len(q) # 0 /\ Head(q) = q[1]
  BY <1>1, HeadTailProperties
<1>3. OnlyRecorder'
  BY <1>1 DEF Ordered, OnlyRecorder
<1>4. WriterOrdered(w', log')
  <2>1. Head(q).events \subseteq InQueues(collector)
    BY <1>1, <1>2, InQueue
  <2>2. \A m \in Head(q).events, n \in WriterEvents(w) : ~Earlier(log, m, n)
    BY <2>1, PendingIsLate
  <2> QED BY <2>2, MovedKeepsOrder DEF Ordered, TypeOK
<1>5. QueueOrdered(p, buf', log')
  <2> HIDE DEF p, q
  <2> SUFFICES ASSUME NEW i \in 1..Len(p), NEW m \in p[i].events,
                      NEW n \in 1..Len(log), Earlier(log, m, n)
               PROVE  n \in InBuffers(buf) \/ \E j \in i..Len(p) : n \in p[j].events
    BY DEF QueueOrdered
  <2>1. i + 1 \in 1..Len(q) /\ m \in q[i + 1].events
    BY <1>1, <1>2
  <2>2. n \in InBuffers(buf) \/ \E j \in (i + 1)..Len(q) : n \in q[j].events
    BY <2>1 DEF Ordered, QueueOrdered, q
  <2>3. ASSUME NEW j \in (i + 1)..Len(q), n \in q[j].events
        PROVE  \E k \in i..Len(p) : n \in p[k].events
    <3>1. j - 1 \in i..Len(p) /\ j - 1 \in 1..Len(p) /\ (j - 1) + 1 = j
      BY <1>1, <1>2
    <3> QED BY <1>2, <2>3, <3>1
  <2> QED BY <2>2, <2>3
<1>6. BuffersLast(buf', log')
  BY DEF Ordered
<1> QED BY <1>3, <1>4, <1>5, <1>6 DEF Ordered

-----------------------------------------------------------------------------
(* The steps of the first recorder, each as one of these moves.            *)

(* What the proof of a step starts from.                                   *)
FirstInOrder ==
    TypeOK /\ Placed /\ DrainInv /\ LaterRecordersUnbuilt /\ live = 1 /\ Ordered

(* A step that leaves the writer alone.                                    *)
LEMMA IdleOrdered ==
    ASSUME FirstInOrder, TypeOK', UNCHANGED <<collector, log, w>>,
           \A t \in Buffers : buf'[t].events = buf[t].events,
           \A t \in Buffers : owner'[t] \in {0, 1}
    PROVE  Ordered'
<1>1. w \in WriterTypes(Events)
  BY DEF FirstInOrder, TypeOK
<1>2. Moved(w, w', {})
  BY <1>1, SameMoved
<1> QED BY <1>2, QuietOrdered DEF FirstInOrder

(* A buffer is handed over as it is.                                       *)
LEMMA FlushOrdered ==
    ASSUME FirstInOrder, NEW t \in Buffers, AcceptFlush(1, buf[t]),
           buf' = [buf EXCEPT ![t] = Reset(@)], UNCHANGED <<log, w, owner>>
    PROVE  Ordered'
<1>1. buf[t] \in Batches /\ buf[t].events = buf[t].events \cup {}
  BY DEF FirstInOrder, TypeOK, BusTypeOK
<1>2. buf' = [buf EXCEPT ![t] = EmptyBatch]
  BY DEF Reset
<1>3. collector' = [collector EXCEPT ![1] = Pushed(@, buf[t])]
  BY DEF AcceptFlush
<1>4. \A u \in Buffers : owner'[u] \in {0, 1}
  BY DEF FirstInOrder, Ordered, OnlyRecorder
<1> QED BY <1>1, <1>2, <1>3, <1>4, HandOrdered DEF FirstInOrder, DrainInv

LEMMA ThreadOrdered ==
    ASSUME FirstInOrder, TypeOK', NEW t \in Threads, ThreadStep(t),
           UNCHANGED flushVars
    PROVE  Ordered'
<1>0. /\ TypeOK /\ Placed /\ Ordered /\ BuffersOwnTheirEvents
      /\ RecordersAreRegistered /\ LaterRecordersUnbuilt /\ live = 1
  BY DEF FirstInOrder, DrainInv
<1>1. UNCHANGED w
  BY DEF flushVars
<1>2. /\ t \in Buffers /\ buf[t] \in Batches /\ buf \in [Buffers -> Batches]
      /\ owner \in [Buffers -> Recorders \cup {0}]
      /\ \A u \in Buffers : owner[u] \in {0, 1}
  BY <1>0 DEF TypeOK, BusTypeOK, Buffers, Ordered, OnlyRecorder
<1>3. via[t] = 1 /\ 1 \in Recorders
  <2>1. via[t] \in 1..MaxRecorders /\ via[t] <= 1
    BY <1>0 DEF TypeOK, BusTypeOK, Recorders, LaterRecordersUnbuilt
  <2> QED BY <2>1, SizesAssumption DEF Recorders
<1>4. CASE UNCHANGED <<collector, log, buf, owner>>
  BY <1>1, <1>2, <1>4, IdleOrdered
<1>5. ASSUME NEW wrote \in BOOLEAN, Encode(t, wrote) PROVE Ordered'
  <2>1. /\ UNCHANGED collector
        /\ buf' = [buf EXCEPT ![t] = Extended(buf[t], wrote, Len(log) + 1)]
        /\ log' = IF wrote THEN Append(log, [thread |-> t, rec |-> 1]) ELSE log
        /\ owner' = [owner EXCEPT ![t] = SetCollector(t, 1)]
    BY <1>3, <1>5 DEF Encode
  <2>2. \A u \in Buffers : owner'[u] \in {0, 1}
    BY <1>2, <2>1 DEF SetCollector
  <2>3. CASE ~wrote
    <3>1. Extended(buf[t], wrote, Len(log) + 1) = buf[t]
      BY <2>3 DEF Extended
    <3>2. UNCHANGED <<collector, log, buf>>
      BY <1>2, <2>1, <2>3, <3>1
    <3> QED BY <1>1, <2>2, <3>2, IdleOrdered
  <2>4. CASE wrote
    <3> DEFINE b == Extended(buf[t], wrote, Len(log) + 1)
    <3>1. b.events = buf[t].events \cup {Len(log) + 1}
      BY <1>2, <2>4 DEF Extended, Batches
    <3>2. log' = Append(log, [thread |-> t, rec |-> 1])
      BY <2>1, <2>4
    <3> HIDE DEF b
    <3>3. buf' = [buf EXCEPT ![t] = b]
      BY <2>1 DEF b
    <3> QED BY <1>0, <1>1, <1>2, <1>3, <2>1, <2>2, <3>1, <3>2, <3>3, EncodeOrdered
  <2> QED BY <2>3, <2>4
<1>6. CASE SelfFlush(t)
  <2>1. /\ AcceptFlush(1, buf[t])
        /\ buf' = [buf EXCEPT ![t] = Reset(@)]
        /\ UNCHANGED <<log, owner>>
    BY <1>3, <1>6 DEF SelfFlush
  <2> QED BY <1>1, <1>2, <2>1, FlushOrdered
<1>7. CASE EncodePanics(t)
  <2>1. /\ buf' = [buf EXCEPT ![t].torn = TRUE] /\ UNCHANGED <<collector, log>>
        /\ owner' = [owner EXCEPT ![t] = SetCollector(t, 1)]
    BY <1>3, <1>7 DEF EncodePanics
  <2>2. \A u \in Buffers : buf'[u].events = buf[u].events
    BY <1>2, <2>1 DEF Batches
  <2>3. \A u \in Buffers : owner'[u] \in {0, 1}
    BY <1>2, <2>1 DEF SetCollector
  <2> QED BY <1>1, <2>1, <2>2, <2>3, IdleOrdered
<1>8. CASE FinishExit(t)
  <2>1. CASE ~(buf[t].count > 0)
    <3>1. UNCHANGED <<collector, log, buf, owner>>
      BY <1>8, <2>1 DEF FinishExit
    <3> QED BY <1>4, <3>1
  <2>2. CASE buf[t].count > 0
    <3>1. buf' = [buf EXCEPT ![t] = Reset(@)] /\ UNCHANGED <<log, owner>>
      BY <1>8, <2>2 DEF FinishExit
    <3>2. CASE owner[t] # 0
      <4>1. AcceptFlush(owner[t], buf[t]) /\ owner[t] = 1
        BY <1>2, <1>8, <2>2, <3>2 DEF FinishExit
      <4>2. AcceptFlush(1, buf[t])
        BY <4>1
      <4> QED BY <1>1, <1>2, <3>1, <4>2, FlushOrdered
    <3>3. CASE owner[t] = 0
      <4>1. UNCHANGED collector
        BY <1>8, <2>2, <3>3 DEF FinishExit
      <4>2. buf[t].events = {}
        BY <1>0, <1>2, <3>3 DEF BuffersOwnTheirEvents, RecordersAreRegistered
      <4>3. \A u \in Buffers : buf'[u].events = buf[u].events
        BY <1>2, <3>1, <4>2, HonestEmpty DEF Reset
      <4> QED BY <1>1, <1>2, <3>1, <4>1, <4>3, IdleOrdered
    <3> QED BY <3>2, <3>3
  <2> QED BY <2>1, <2>2
<1>9. ASSUME NEW r \in Recorders, BeginRecord(t, r)
      PROVE  UNCHANGED <<collector, log, buf, owner>>
  BY <1>9 DEF BeginRecord
<1>10. CASE RecordRefused(t) \/ SelfStamp(t) \/ Register(t) \/ BeginExit(t)
  <2>1. UNCHANGED <<collector, log, buf, owner>>
    BY <1>10 DEF RecordRefused, SelfStamp, Register, BeginExit
  <2> QED BY <1>4, <2>1
<1> QED BY <1>4, <1>5, <1>6, <1>7, <1>8, <1>9, <1>10 DEF ThreadStep

LEMMA FlushStepOrdered ==
    ASSUME FirstInOrder, TypeOK', FlushThreadStep
    PROVE  Ordered'
<1>0. /\ TypeOK /\ Placed /\ Ordered /\ BuffersOwnTheirEvents /\ live = 1
  BY DEF FirstInOrder, DrainInv
<1>1. /\ 1 \in Recorders /\ Flusher \in Buffers /\ Threads \subseteq Buffers
      /\ buf \in [Buffers -> Batches] /\ w \in WriterTypes(Events)
      /\ collector \in [Recorders -> Seq(Batches)]
      /\ owner \in [Buffers -> Recorders \cup {0}]
      /\ \A u \in Buffers : owner[u] \in {0, 1}
  BY <1>0, QueueOfOnly DEF TypeOK, BusTypeOK, Buffers, Ordered, OnlyRecorder
<1>2. CASE UNCHANGED <<collector, log, buf, owner>> /\ Moved(w, w', {})
  BY <1>0, <1>1, <1>2, QuietOrdered
<1>3. CASE UNCHANGED <<collector, log, buf, owner, w>>
  BY <1>1, <1>3, IdleOrdered
<1>4. ASSUME NEW stop \in BOOLEAN, NEW metadata \in BOOLEAN,
             Tick(stop, metadata)
      PROVE  Ordered'
  <2>1. Moved(w, w, {}) /\ Moved(w, UpdateSegmentMetadata(w), {})
    BY <1>1, DrainedMoved
  <2>2. /\ w' = IF metadata THEN UpdateSegmentMetadata(w) ELSE w
        /\ UNCHANGED <<collector, log, buf, owner>>
    BY <1>4 DEF Tick
  <2> QED BY <1>2, <2>1, <2>2
<1>5. CASE Snapshot \/ Prune \/ PopDone \/ \E t \in Threads : Visit(t)
  <2>1. UNCHANGED <<collector, log, buf, owner, w>>
    BY <1>5 DEF Snapshot, Prune, PopDone, Visit, busVars
  <2> QED BY <1>3, <2>1
<1>6. ASSUME NEW t \in Threads, LockAndFlush(t)
      PROVE  Ordered'
  <2>1. UNCHANGED <<log, w, owner>>
    BY <1>6 DEF LockAndFlush
  <2>2. CASE UNCHANGED <<collector, buf>>
    BY <1>3, <2>1, <2>2
  <2>3. CASE AcceptFlush(live, buf[t]) /\ buf' = [buf EXCEPT ![t] = Reset(@)]
    BY <1>0, <1>1, <2>1, <2>3, FlushOrdered
  <2> QED BY <1>6, <2>2, <2>3 DEF LockAndFlush
<1>7. ASSUME NEW wrote \in BOOLEAN, FlushSources(wrote)
      PROVE  Ordered'
  <2>1. UNCHANGED w
    BY <1>7 DEF FlushSources
  <2>2. CASE ~wrote
    <3>1. UNCHANGED <<collector, log, buf, owner>>
      BY <1>7, <2>2 DEF FlushSources
    <3> QED BY <1>3, <2>1, <3>1
  <2>3. CASE wrote
    <3> DEFINE b == Extended(buf[Flusher], wrote, Len(log) + 1)
    <3>1. /\ log' = Append(log, [thread |-> Flusher, rec |-> 1])
          /\ owner' = [owner EXCEPT ![Flusher] = SetCollector(Flusher, 1)]
          /\ Len(log) < MaxEvents
      BY <1>0, <1>7, <2>3 DEF FlushSources
    <3>2. \A u \in Buffers : owner'[u] \in {0, 1}
      BY <1>1, <3>1 DEF SetCollector
    <3>3. Len(log) + 1 \in Events /\ Len(log) + 1 \in Nat /\ buf[Flusher] \in Batches
      BY <1>0, <1>1, <3>1, SizesAssumption DEF Events, TypeOK, BusTypeOK
    <3>4. b \in Batches /\ b.events = buf[Flusher].events \cup {Len(log) + 1}
      <4>1. b \in Batches
        BY <3>3, ExtendedType
      <4> QED BY <1>1, <2>3, <4>1 DEF Extended, Batches
    <3>5. CASE MustFlush(b, flushEpoch[Flusher], drainEpoch[live])
      <4>1. /\ AcceptFlush(live, b)
            /\ buf' = [buf EXCEPT ![Flusher] = Reset(b)]
        BY <1>7, <2>3, <3>5 DEF FlushSources
      <4> HIDE DEF b
      <4>2. /\ collector' = [collector EXCEPT ![1] = Pushed(@, b)]
            /\ buf' = [buf EXCEPT ![Flusher] = EmptyBatch]
        BY <1>0, <4>1 DEF AcceptFlush, Reset
      <4> QED BY <1>0, <1>1, <2>1, <3>1, <3>2, <3>4, <4>2, HandOrdered
    <3>6. CASE ~MustFlush(b, flushEpoch[Flusher], drainEpoch[live])
      <4>1. buf' = [buf EXCEPT ![Flusher] = b] /\ UNCHANGED collector
        BY <1>7, <2>3, <3>6 DEF FlushSources
      <4> HIDE DEF b
      <4> QED BY <1>0, <1>1, <2>1, <3>1, <3>2, <3>4, <4>1, EncodeOrdered
    <3> QED BY <3>5, <3>6
  <2> QED BY <2>2, <2>3
<1>8. ASSUME NEW due \in BOOLEAN, DrainSelf(due)
      PROVE  Ordered'
  <2>1. UNCHANGED <<log, w, owner>>
    BY <1>8 DEF DrainSelf
  <2>2. CASE UNCHANGED <<collector, buf>>
    BY <1>3, <2>1, <2>2
  <2>3. CASE /\ AcceptFlush(live, buf[Flusher])
             /\ buf' = [buf EXCEPT ![Flusher] = Reset(@)]
    BY <1>0, <1>1, <2>1, <2>3, FlushOrdered
  <2> QED BY <1>8, <2>2, <2>3 DEF DrainSelf
<1>9. ASSUME NEW io \in IoOutcomes, NEW failed \in BOOLEAN,
             PopBatch(io, failed)
      PROVE  Ordered'
  <2> DEFINE batch == Head(collector[1])
  <2>1. /\ collector[1] # <<>>
        /\ collector' = [collector EXCEPT ![1] = Tail(collector[1])]
        /\ w' \in {WriteLost(w, batch), WriteEncodedBatch(w, batch, io)}
        /\ UNCHANGED <<buf, log, owner>>
    BY <1>0, <1>9 DEF PopBatch
  <2>2. batch \in Batches
    <3>1. collector[1] \in Seq(Batches)
      BY <1>1
    <3> QED BY <2>1, <3>1, HeadTailProperties
  <2> HIDE DEF batch
  <2>3. batch.events \in SUBSET Events /\ batch.count \in Nat
    BY <2>2 DEF Batches
  <2>4. Moved(w, w', batch.events)
    <3>1. /\ Moved(w, WriteEncodedBatch(w, batch, io), batch.events)
          /\ Moved(w, WriteLost(w, batch), batch.events)
      BY <1>1, <2>3, WriteMoved
    <3> QED BY <2>1, <3>1
  <2> QED BY <1>0, <2>1, <2>4, PopOrdered DEF batch
<1>10. ASSUME NEW io \in IoOutcomes, EndCycle(io)
       PROVE  Ordered'
  <2>1. Moved(w, w, {}) /\ Moved(w, Drained(w, io), {})
    BY <1>1, DrainedMoved
  <2>2. /\ w' = IF doDrain THEN Drained(w, io) ELSE w
        /\ UNCHANGED <<collector, log, buf, owner>>
    BY <1>10 DEF EndCycle, busVars
  <2> QED BY <1>2, <2>1, <2>2
<1>11. ASSUME NEW panicked \in BOOLEAN, NEW io \in IoOutcomes,
              FinalizeAndStop(panicked, io)
       PROVE  Ordered'
  <2> DEFINE v == IF panicked THEN UpdateSegmentMetadata(w) ELSE w
  <2>1. /\ w' = Finalize(v, io)
        /\ UNCHANGED <<collector, log, buf, owner>>
    BY <1>11 DEF FinalizeAndStop, busVars
  <2>2. v \in WriterTypes(Events)
    <3>1. UpdateSegmentMetadata(w) \in WriterTypes(Events)
      BY <1>1, DrainedType
    <3> QED BY <1>1, <3>1
  <2>3. v.events = w.events /\ v.files = w.files /\ v.next = w.next
    BY <1>1 DEF UpdateSegmentMetadata, WriterTypes
  <2> HIDE DEF v
  <2>4. Moved(v, w', {})
    BY <2>1, <2>2, FinalizeMoved
  <2>5. Moved(w, w', {})
    BY <2>3, <2>4 DEF Moved
  <2> QED BY <1>2, <2>1, <2>5
<1> QED
  BY <1>4, <1>5, <1>6, <1>7, <1>8, <1>9, <1>10, <1>11
  DEF FlushThreadStep

LEMMA NextOrdered ==
    ASSUME FirstInOrder, TypeOK', live' = 1, [Next]_vars
    PROVE  Ordered'
<1>0. /\ TypeOK /\ Placed /\ Ordered /\ live = 1 /\ Threads \subseteq Buffers
      /\ w \in WriterTypes(Events) /\ \A u \in Buffers : owner[u] \in {0, 1}
  BY DEF FirstInOrder, Ordered, OnlyRecorder, TypeOK, Buffers
<1>1. CASE UNCHANGED <<collector, log, buf, owner, w>>
  BY <1>0, <1>1, IdleOrdered
<1>2. CASE UNCHANGED vars
  BY <1>1, <1>2 DEF vars, busVars, flushVars
<1>3. ASSUME NEW t \in Threads, ThreadStep(t), UNCHANGED flushVars
      PROVE  Ordered'
  BY <1>3, ThreadOrdered
<1>4. CASE LifecycleStep /\ UNCHANGED flushVars
  <2>1. UNCHANGED <<collector, log, buf, owner, w>>
    BY <1>4 DEF LifecycleStep, Enable, Disable, DisablePermanently, SetState,
       flushVars
  <2> QED BY <1>1, <2>1
<1>5. CASE FlushThreadStep
  BY <1>5, FlushStepOrdered
<1>6. CASE DrainTimer \/ RotateTimer
  <2>1. /\ Moved(w, [w EXCEPT !.drainDue = TRUE], {})
        /\ Moved(w, [w EXCEPT !.rotateDue = TRUE], {})
    BY <1>0, DrainedMoved
  <2>2. Moved(w, w', {}) /\ UNCHANGED <<collector, log, buf, owner>>
    BY <1>6, <2>1 DEF DrainTimer, RotateTimer, busVars
  <2> QED BY <1>0, <2>2, QuietOrdered
<1>7. ASSUME NEW t \in Threads, StopRequest(t) PROVE Ordered'
  <2>1. UNCHANGED <<log, w, owner>>
    BY <1>7 DEF StopRequest, flushVars
  <2>2. CASE UNCHANGED <<collector, buf>>
    BY <1>1, <2>1, <2>2
  <2>3. CASE AcceptFlush(live, buf[t]) /\ buf' = [buf EXCEPT ![t] = Reset(@)]
    BY <1>0, <2>1, <2>3, FlushOrdered
  <2> QED BY <1>7, <2>2, <2>3 DEF StopRequest
<1>8. ASSUME NEW t \in Threads, SendStop(t) \/ MarkStopped(t)
      PROVE  Ordered'
  <2>1. UNCHANGED <<collector, log, buf, owner, w>>
    BY <1>8 DEF SendStop, MarkStopped, flushVars
  <2> QED BY <1>1, <2>1
<1>9. CASE Build
  BY <1>0, <1>9 DEF Build
<1> QED BY <1>2, <1>3, <1>4, <1>5, <1>6, <1>7, <1>8, <1>9 DEF Next

-----------------------------------------------------------------------------
(* What follows                                                            *)

LEMMA InitOrdered == Init => Ordered /\ archive = {}
<1> SUFFICES ASSUME Init PROVE Ordered /\ archive = {}
  OBVIOUS
<1>1. /\ buf = [t \in Buffers |-> EmptyBatch]
      /\ owner = [t \in Buffers |-> 0]
      /\ collector = [r \in Recorders |-> <<>>]
      /\ log = <<>> /\ archive = {} /\ w = NewWriter(<<>>, {}, 0)
  BY DEF Init, BusInit
<1>2. OnlyRecorder
  BY <1>1 DEF OnlyRecorder
<1>3. Len(log) = 0
  BY <1>1
<1>4. BuffersLast(buf, log) /\ QueueOrdered(collector[1], buf, log)
  BY <1>3 DEF BuffersLast, QueueOrdered
<1>5. WriterOrdered(w, log)
  <2> DEFINE o == OpenWriter(<<>>, {}, 0)
  <2>1. o \in WriterTypes(Events)
    <3>1. Header \in Nat /\ 0 + 1 \in Nat \ {0}
      BY SizesAreNaturals
    <3>2. <<>> \in Seq([index : Nat, size : Nat])
      OBVIOUS
    <3> QED BY <3>1, <3>2 DEF OpenWriter, WriterTypes, SealKinds
  <2>2. o.files = {}
    BY DEF OpenWriter
  <2>3. w = EvictOldest(o)
    BY <1>1 DEF NewWriter
  <2> HIDE DEF o
  <2>4. WriterOrdered(o, log)
    BY <2>2 DEF WriterOrdered
  <2>5. Moved(o, w, {})
    BY <2>1, <2>3, SameMoved, EvictMoved
  <2>6. w \in WriterTypes(Events)
    BY <2>1, <2>3, EvictOldestType
  <2> QED BY <2>1, <2>4, <2>5, <2>6, MovedKeepsOrder
<1> QED BY <1>1, <1>2, <1>4, <1>5 DEF Ordered

(* While the first recorder is live there is no earlier trace.             *)
LEMMA NextFirst ==
    ASSUME TypeOK, [Next]_vars, live' = 1
    PROVE  live = 1 /\ archive' = archive
<1>1. CASE Build
  BY <1>1 DEF Build, TypeOK, FlushTypeOK, Recorders
<1>2. CASE ~Build
  BY <1>2
  DEF Next, vars, flushVars, DrainTimer, RotateTimer, StopRequest, SendStop,
      MarkStopped, FlushThreadStep, Tick, Snapshot, Visit, LockAndFlush, Prune,
      FlushSources, DrainSelf, PopBatch, PopDone, EndCycle, FinalizeAndStop
<1> QED BY <1>1, <1>2

(* Where an event is, as a number.                                         *)
LEMMA PositionWritten ==
    ASSUME TypeOK, Ordered, NEW n \in WriterEvents(w)
    PROVE  /\ w.next \in Nat
           /\ n \in w.events => Position(n) = w.next - 1
           /\ n \notin w.events =>
                \E f \in w.files : n \in f.events /\ Position(n) = f.index
           /\ Position(n) \in Nat /\ Position(n) <= w.next - 1
<1>1. w.next \in Nat \ {0} /\ \A f \in w.files : f.index \in Nat /\ f.index < w.next
  BY DEF TypeOK, WriterTypes, SegmentFiles, Ordered, WriterOrdered
<1>2. CASE n \in w.events
  BY <1>1, <1>2 DEF Position
<1>3. CASE n \notin w.events
  <2> DEFINE f == CHOOSE f \in w.files : n \in f.events
  <2>1. \E g \in w.files : n \in g.events
    BY <1>3 DEF WriterEvents, FilesEvents
  <2>2. f \in w.files /\ n \in f.events
    BY <2>1
  <2>3. Position(n) = f.index
    BY <1>3 DEF Position
  <2> HIDE DEF f
  <2> QED BY <1>1, <1>3, <2>2, <2>3
<1> QED BY <1>2, <1>3

LEMMA PositionQueued ==
    ASSUME TypeOK, Ordered, live = 1, NEW n \in InQueues(collector),
           n \notin WriterEvents(w)
    PROVE  \E i \in 1..Len(collector[1]) :
             n \in collector[1][i].events /\ Position(n) = w.next + i
<1> DEFINE q == collector[1]
           P(i) == i <= Len(q) /\ n \in q[i].events
           i == CHOOSE i \in 1..Capacity : P(i)
<1>1. Len(q) \in Nat /\ Len(q) <= Capacity /\ InQueues(collector) = QueueEvents(q)
  BY QueueOfOnly DEF Ordered
<1>2. \E j \in 1..Len(q) : n \in q[j].events
  BY <1>1 DEF QueueEvents
<1>3. \E j \in 1..Capacity : P(j)
  BY <1>1, <1>2, SizesAssumption
<1>4. i \in 1..Capacity /\ P(i)
  BY <1>3
<1>5. n \in QueuedEvents
  BY Views
<1>6. Position(n) = w.next + i
  BY <1>5 DEF Position
<1> HIDE DEF i
<1>7. i \in 1..Len(q)
  BY <1>1, <1>4, SizesAssumption
<1> QED BY <1>4, <1>6, <1>7

LEMMA OrderedMeansThreadOrder ==
    ASSUME FirstInOrder, archive = {}
    PROVE  ThreadOrder
<1> SUFFICES ASSUME NEW m \in (1..Len(log)) \ (w.lost \cup gone),
                    NEW n \in (1..Len(log)) \ (w.lost \cup gone),
                    m < n, log[m].thread = log[n].thread
             PROVE  Position(m) <= Position(n)
  BY DEF ThreadOrder
<1> DEFINE q == collector[1]
<1>0. /\ TypeOK /\ Placed /\ Ordered /\ live = 1 /\ Earlier(log, m, n)
      /\ w.next \in Nat /\ Capacity \in Nat
      /\ Len(q) \in Nat /\ Len(q) <= Capacity /\ InQueues(collector) = QueueEvents(q)
  BY QueueOfOnly, SizesAssumption DEF FirstInOrder, Earlier, Ordered, TypeOK, WriterTypes
<1>1. /\ m \in InBuffers(buf) \/ m \in InQueues(collector) \/ m \in WriterEvents(w)
      /\ n \in InBuffers(buf) \/ n \in InQueues(collector) \/ n \in WriterEvents(w)
      /\ InBuffers(buf) \cap InQueues(collector) = {}
      /\ (InBuffers(buf) \cup InQueues(collector)) \cap WriterEvents(w) = {}
  BY <1>0 DEF Placed, Fates, FatesOf, Accounted
<1>2. ASSUME NEW k \in InBuffers(buf)
      PROVE  Position(k) = w.next + Capacity + 1
  <2>1. k \notin WriterEvents(w) /\ k \notin QueuedEvents
    BY <1>1, Views
  <2> QED BY <2>1 DEF Position
<1>3. ASSUME NEW k \in InQueues(collector)
      PROVE  \E i \in 1..Len(q) : k \in q[i].events /\ Position(k) = w.next + i
  BY <1>0, <1>1, PositionQueued
<1>4. CASE m \in WriterEvents(w)
  <2>1. Position(m) \in Nat /\ Position(m) <= w.next - 1
    BY <1>0, <1>4, PositionWritten
  <2>2. CASE n \in InBuffers(buf)
    BY <1>0, <1>2, <2>1, <2>2
  <2>3. CASE n \in InQueues(collector)
    <3>1. PICK i \in 1..Len(q) : Position(n) = w.next + i
      BY <1>3, <2>3
    <3> QED BY <1>0, <2>1, <3>1
  <2>4. CASE n \in WriterEvents(w)
    <3>1. CASE n \in w.events
      <4>1. Position(n) = w.next - 1
        BY <1>0, <2>4, <3>1, PositionWritten
      <4> QED BY <1>0, <2>1, <4>1
    <3>2. CASE n \notin w.events
      <4>1. PICK g \in w.files : n \in g.events /\ Position(n) = g.index
        BY <1>0, <2>4, <3>2, PositionWritten
      <4>2. m \notin w.events
        BY <1>0, <4>1 DEF Ordered, WriterOrdered
      <4>3. PICK f \in w.files : m \in f.events /\ Position(m) = f.index
        BY <1>0, <1>4, <4>2, PositionWritten
      <4> QED BY <1>0, <4>1, <4>3 DEF Ordered, WriterOrdered
    <3> QED BY <3>1, <3>2
  <2> QED BY <1>1, <2>2, <2>3, <2>4
<1>5. CASE m \in InQueues(collector)
  <2>1. PICK i \in 1..Len(q) : m \in q[i].events /\ Position(m) = w.next + i
    BY <1>3, <1>5
  <2>2. CASE n \in InBuffers(buf)
    BY <1>0, <1>2, <2>1, <2>2
  <2>3. CASE n \notin InBuffers(buf)
    <3>1. PICK j \in i..Len(q) : n \in q[j].events
      BY <1>0, <2>1, <2>3 DEF Ordered, QueueOrdered
    <3>2. j \in 1..Len(q)
      BY <1>0
    <3>3. n \in InQueues(collector)
      BY <1>0, <3>1, <3>2 DEF QueueEvents
    <3>4. PICK k \in 1..Len(q) : n \in q[k].events /\ Position(n) = w.next + k
      BY <1>3, <3>3
    <3>5. j = k
      <4>1. SlotsApart(collector) /\ 1 \in Recorders
        BY <1>0, QueueOfOnly DEF Placed, Apart, Ordered
      <4> QED BY <3>1, <3>2, <3>4, <4>1 DEF SlotsApart
    <3> QED BY <1>0, <2>1, <3>4, <3>5
  <2> QED BY <2>2, <2>3
<1>6. CASE m \in InBuffers(buf)
  <2>1. PICK t \in Buffers : m \in buf[t].events
    BY <1>6 DEF InBuffers
  <2>2. n \in InBuffers(buf)
    BY <1>0, <2>1 DEF Ordered, BuffersLast, InBuffers
  <2> QED BY <1>0, <1>2, <1>6, <2>2
<1> QED BY <1>1, <1>4, <1>5, <1>6

(* The events of a thread reach the segments of the first recorder in the  *)
(* order it recorded them, for any number of threads and queue slots, any  *)
(* sizes, and whichever of its own flush, the intrusive drain, its exit    *)
(* and a shutdown carries each of them, through rotations, evictions and   *)
(* I/O errors (with_encoder, drain_all_tl_buffers, flush_once).            *)
THEOREM OrderTheorem == Spec => [](live = 1 => ThreadOrder)
<1> DEFINE Inv == live = 1 => Ordered /\ archive = {}
<1>1. Spec => [](TypeOK /\ FateInv)
  BY FatesHold
<1>2. Spec => []FirstRecorderInv
  <2>1. Spec => []TypeOK
    BY TypeCorrect
  <2> QED BY <2>1, InitDrain, NextDrain, PTL DEF Spec
<1>3. Init => Inv
  BY InitOrdered
<1>4. ASSUME TypeOK, FateInv, FirstRecorderInv, live = 1, Inv
      PROVE  FirstInOrder /\ archive = {}
  BY <1>4 DEF FirstInOrder, FateInv, Placed, FirstRecorderInv
<1>5. ASSUME TypeOK, TypeOK', FateInv, FirstRecorderInv, Inv, [Next]_vars
      PROVE  Inv'
  <2> SUFFICES ASSUME live' = 1 PROVE Ordered' /\ archive' = {}
    OBVIOUS
  <2>1. live = 1 /\ archive' = archive
    BY <1>5, NextFirst
  <2>2. FirstInOrder /\ archive = {}
    BY <1>4, <1>5, <2>1
  <2> QED BY <1>5, <2>1, <2>2, NextOrdered
<1>6. ASSUME TypeOK, FateInv, FirstRecorderInv, Inv
      PROVE  live = 1 => ThreadOrder
  BY <1>4, <1>6, OrderedMeansThreadOrder
<1> HIDE DEF Inv
<1> QED BY <1>1, <1>2, <1>3, <1>5, <1>6, PTL DEF Spec
=============================================================================
