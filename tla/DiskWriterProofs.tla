--------------------------- MODULE DiskWriterProofs ---------------------------
(***************************************************************************)
(* Proofs about DiskWriter: sealed segments are never written over and go  *)
(* oldest first, an overflow taints the two segments around it, and the    *)
(* directory keeps the budget, for any sizes, budgets and I/O outcomes and *)
(* any number of batches and restarts.                                     *)
(*                                                                         *)
(* The inductive invariant ties the writer's list of closed files to the   *)
(* directory: the list is in index order and names every file (Sound), no  *)
(* index is ahead of the next one (Below), the list fits the budget while  *)
(* the writer is open, and prior_seal_kind remembers an overflow for as    *)
(* long as the next segment can be sealed as complete (Tainted).           *)
(***************************************************************************)
EXTENDS DiskWriter, FiniteSetTheorems, SequenceTheorems, TLAPS

-----------------------------------------------------------------------------
(* The methods of the segment writer keep its shape, for any set E the     *)
(* events are drawn from.                                                  *)

(* Eviction takes a number of closed files, and no more than there are.    *)
LEMMA EvictCountType ==
    ASSUME NEW E, NEW u \in WriterTypes(E)
    PROVE  EvictCount(u) \in 0..Len(u.closed)
<1> DEFINE N == Len(u.closed)
           K == {k \in 1..N : \A j \in 0..(k - 1) : ~FitsAfter(u, j)}
<1>1. N \in Nat
  BY DEF WriterTypes
<1>2. IsFiniteSet(1..N) /\ Cardinality(1..N) = N
  <2>1. \A a, b \in Int :
          /\ IsFiniteSet(a..b)
          /\ Cardinality(a..b) = IF a > b THEN 0 ELSE b - a + 1
    BY FS_Interval
  <2> HIDE DEF N
  <2>2. IsFiniteSet(1..N)
        /\ Cardinality(1..N) = IF 1 > N THEN 0 ELSE N - 1 + 1
    BY <2>1, <1>1
  <2> QED BY <2>2, <1>1
<1>3. K \subseteq 1..N
  OBVIOUS
<1>4. IsFiniteSet(K) /\ Cardinality(K) <= N
  BY <1>2, <1>3, FS_Subset
<1>5. Cardinality(K) \in Nat
  BY <1>4, FS_CardinalityType
<1>6. EvictCount(u) = Cardinality(K)
  BY DEF EvictCount
<1> HIDE DEF K, N
<1>7. Cardinality(K) \in 0..N
  BY <1>1, <1>4, <1>5
<1> QED BY <1>6, <1>7 DEF N

(* What is left of a sequence when k elements are taken from its front.    *)
LEMMA DropType ==
    ASSUME NEW S, NEW s \in Seq(S), NEW k \in 0..Len(s)
    PROVE  SubSeq(s, k + 1, Len(s)) \in Seq(S)
<1>1. Len(s) \in Nat /\ k \in Nat
  BY LenProperties
<1>2. \A i \in (k + 1)..Len(s) : s[i] \in S
  BY <1>1
<1> QED BY <1>1, <1>2, SubSeqProperties

LEMMA RemoveSealedType ==
    ASSUME NEW E, NEW u \in WriterTypes(E), NEW indices
    PROVE  RemoveSealed(u, indices) \in WriterTypes(E)
<1> DEFINE removed == {f \in u.files : f.index \in indices}
<1>1. /\ u.files \ removed \in SUBSET SegmentFiles(E)
      /\ removed \in SUBSET SegmentFiles(E)
  BY DEF WriterTypes
<1>2. FilesEvents(removed) \in SUBSET E
  BY <1>1 DEF FilesEvents, SegmentFiles
<1>3. u.lost \cup FilesEvents(removed) \in SUBSET E
  BY <1>2 DEF WriterTypes
<1>4. RemoveSealed(u, indices)
        = [u EXCEPT !.files = u.files \ removed,
                    !.lost = u.lost \cup FilesEvents(removed)]
  BY DEF RemoveSealed
<1> HIDE DEF removed
<1> QED BY <1>1, <1>3, <1>4 DEF WriterTypes

LEMMA EvictOldestType ==
    ASSUME NEW E, NEW u \in WriterTypes(E)
    PROVE  EvictOldest(u) \in WriterTypes(E)
<1> DEFINE k == EvictCount(u)
           less == RemoveSealed(u, {u.closed[i].index : i \in 1..k})
           rest == SubSeq(u.closed, k + 1, Len(u.closed))
           kept == [less EXCEPT !.closed = rest]
<1>1. less \in WriterTypes(E)
  BY RemoveSealedType
<1>2. rest \in Seq([index : Nat, size : Nat])
  <2>1. u.closed \in Seq([index : Nat, size : Nat])
    BY DEF WriterTypes
  <2> QED BY <2>1, EvictCountType, DropType
<1>3. EvictOldest(u) \in {u, kept, [kept EXCEPT !.state = "Finished"]}
  BY DEF EvictOldest
<1> HIDE DEF less, rest, k
<1>4. kept \in WriterTypes(E)
  BY <1>1, <1>2 DEF WriterTypes
<1> HIDE DEF kept
<1>5. [kept EXCEPT !.state = "Finished"] \in WriterTypes(E)
  BY <1>4 DEF WriterTypes
<1> QED BY <1>3, <1>4, <1>5

LEMMA NewWriterType ==
    ASSUME NEW E
    PROVE  NewWriter(<<>>, {}, 0) \in WriterTypes(E)
<1>1. OpenWriter(<<>>, {}, 0) \in WriterTypes(E)
  <2>1. Header \in Nat /\ 0 + 1 \in Nat \ {0}
    BY SizesAreNaturals
  <2>2. <<>> \in Seq([index : Nat, size : Nat])
    OBVIOUS
  <2> QED BY <2>1, <2>2 DEF OpenWriter, WriterTypes, SealKinds
<1> QED BY <1>1, EvictOldestType DEF NewWriter

LEMMA SealedType ==
    ASSUME NEW E, NEW u \in WriterTypes(E), NEW complete \in BOOLEAN
    PROVE  Sealed(u, complete) \in WriterTypes(E)
<1> DEFINE index == u.next - 1
           file  == [index |-> index, events |-> u.events, size |-> u.bytes,
                     complete |-> complete]
           files == {f \in u.files : f.index # index} \cup {file}
           closed == IF IsDisk
                     THEN Append(u.closed, [index |-> index, size |-> u.bytes])
                     ELSE u.closed
<1>1. index \in Nat /\ u.bytes \in Nat /\ u.events \in SUBSET E
  BY DEF WriterTypes
<1>2. files \in SUBSET SegmentFiles(E)
  <2>1. file \in SegmentFiles(E)
    BY <1>1 DEF SegmentFiles
  <2> QED BY <2>1 DEF WriterTypes
<1>3. closed \in Seq([index : Nat, size : Nat])
  <2>1. [index |-> index, size |-> u.bytes] \in [index : Nat, size : Nat]
    BY <1>1
  <2>2. u.closed \in Seq([index : Nat, size : Nat])
    BY DEF WriterTypes
  <2>3. Append(u.closed, [index |-> index, size |-> u.bytes])
          \in Seq([index : Nat, size : Nat])
    BY <2>1, <2>2, AppendProperties
  <2> QED BY <2>2, <2>3
<1>4. Sealed(u, complete)
        = [u EXCEPT !.files = files, !.closed = closed, !.events = {}]
  BY DEF Sealed
<1> HIDE DEF files, closed
<1> QED BY <1>2, <1>3, <1>4 DEF WriterTypes

LEMMA AbandonedType ==
    ASSUME NEW E, NEW u \in WriterTypes(E)
    PROVE  Abandoned(u) \in WriterTypes(E)
<1>1. u.lost \cup u.events \in SUBSET E
  BY DEF WriterTypes
<1> QED BY <1>1 DEF Abandoned, WriterTypes

LEMMA FreshSegmentType ==
    ASSUME NEW E, NEW u \in WriterTypes(E)
    PROVE  FreshSegment(u) \in WriterTypes(E)
BY SizesAreNaturals DEF FreshSegment, WriterTypes

(* A rotation, whatever its I/O calls return.                              *)
LEMMA RotateType ==
    ASSUME NEW E, NEW u \in WriterTypes(E), NEW kind \in SealKinds, NEW io
    PROVE  Rotate(u, kind, io) \in WriterTypes(E)
<1> DEFINE stamped == [u EXCEPT !.prior = kind, !.drainDue = FALSE,
                                !.rotateDue = FALSE, !.state = "Finished"]
           closed  == IF io.seal = "notfound" THEN Abandoned(stamped)
                      ELSE Sealed(stamped, Complete(u, kind))
           advanced == [closed EXCEPT !.next = @ + 1]
<1>1. stamped \in WriterTypes(E)
  BY DEF WriterTypes
<1>2. Complete(u, kind) \in BOOLEAN
  BY DEF Complete
<1>3. closed \in WriterTypes(E)
  BY <1>1, <1>2, AbandonedType, SealedType
<1>4. Rotate(u, kind, io)
        \in {u, stamped, advanced, EvictOldest(FreshSegment(advanced))}
  BY DEF Rotate
<1> HIDE DEF closed, stamped
<1>5. advanced \in WriterTypes(E)
  <2>1. closed.next + 1 \in Nat \ {0}
    BY <1>3 DEF WriterTypes
  <2> QED BY <1>3, <2>1 DEF WriterTypes
<1> HIDE DEF advanced
<1>6. EvictOldest(FreshSegment(advanced)) \in WriterTypes(E)
  BY <1>5, FreshSegmentType, EvictOldestType
<1> QED BY <1>1, <1>4, <1>5, <1>6

LEMMA WriteEncodedBatchType ==
    ASSUME NEW E, NEW u \in WriterTypes(E), NEW io, NEW batch,
           batch.events \in SUBSET E, batch.count \in Nat
    PROVE  /\ WriteEncodedBatch(u, batch, io) \in WriterTypes(E)
           /\ WriteLost(u, batch) \in WriterTypes(E)
<1> DEFINE written == [u EXCEPT !.events = @ \cup batch.events,
                                !.bytes = @ + batch.count, !.hasReal = TRUE]
           refused == [u EXCEPT !.dropped = @ + batch.count,
                                !.lost = @ \cup batch.events]
<1>1. /\ u.events \cup batch.events \in SUBSET E
      /\ u.lost \cup batch.events \in SUBSET E
      /\ u.bytes + batch.count \in Nat
      /\ u.dropped + batch.count \in Nat
  BY DEF WriterTypes
<1>2. written \in WriterTypes(E) /\ refused \in WriterTypes(E)
  BY <1>1 DEF WriterTypes
<1>3. WriteLost(u, batch) \in WriterTypes(E)
  BY <1>1 DEF WriteLost, WriterTypes
<1>4. WriteEncodedBatch(u, batch, io)
        \in {u, written, refused, Rotate(written, "Overflow", io)}
  BY DEF WriteEncodedBatch
<1> HIDE DEF written, refused
<1>5. Rotate(written, "Overflow", io) \in WriterTypes(E)
  BY <1>2, RotateType DEF SealKinds
<1> QED BY <1>2, <1>3, <1>4, <1>5

LEMMA DrainedType ==
    ASSUME NEW E, NEW u \in WriterTypes(E), NEW io
    PROVE  /\ Drained(u, io) \in WriterTypes(E)
           /\ UpdateSegmentMetadata(u) \in WriterTypes(E)
<1>1. Rotate(u, "Drained", io) \in WriterTypes(E)
  BY RotateType DEF SealKinds
<1>2. [u EXCEPT !.drainDue = FALSE] \in WriterTypes(E)
  BY DEF WriterTypes
<1>3. UpdateSegmentMetadata(u) \in WriterTypes(E)
  BY DEF WriterTypes, UpdateSegmentMetadata
<1> QED BY <1>1, <1>2, <1>3 DEF Drained

LEMMA FinalizeType ==
    ASSUME NEW E, NEW u \in WriterTypes(E), NEW io
    PROVE  Finalize(u, io) \in WriterTypes(E)
<1> DEFINE closing == [u EXCEPT !.state = "Finished", !.done = TRUE]
           sealed  == Sealed(closing, Complete(u, "Drained"))
<1>1. closing \in WriterTypes(E) /\ [u EXCEPT !.done = TRUE] \in WriterTypes(E)
  BY DEF WriterTypes
<1>2. Finalize(u, io) \in {[u EXCEPT !.done = TRUE], closing,
                           EvictOldest(closing),
                           EvictOldest(Abandoned(closing)),
                           EvictOldest(sealed)}
  BY DEF Finalize
<1> HIDE DEF closing
<1>3. Complete(u, "Drained") \in BOOLEAN
  BY DEF Complete
<1>4. sealed \in WriterTypes(E) /\ Abandoned(closing) \in WriterTypes(E)
  BY <1>1, <1>3, SealedType, AbandonedType
<1> HIDE DEF sealed
<1> QED BY <1>1, <1>2, <1>4, EvictOldestType

-----------------------------------------------------------------------------
(* The invariant                                                           *)

E == 1..MaxBatches

Row(f) == [index |-> f.index, size |-> f.size]

(* The closed files are in index order and name every file there is.       *)
Sound(v) ==
    /\ \A i, j \in 1..Len(v.closed) :
         i < j => v.closed[i].index < v.closed[j].index
    /\ \A f \in v.files : \E i \in 1..Len(v.closed) : v.closed[i] = Row(f)
    /\ \A f, g \in v.files : f.index = g.index => f = g
    /\ IsFiniteSet(v.files)

Below(v, m) == \A i \in 1..Len(v.closed) : v.closed[i].index < m

WriterOk(v) ==
    /\ Sound(v)
    /\ Below(v, v.next)
    /\ v.state = "Active" =>
         Below(v, v.next - 1) /\ ClosedBytes(v.closed) + Header <= MaxTotalSize

(* What overflowed, and what may not be sealed as complete because of it.  *)
Tainted(v, over) ==
    /\ over \subseteq Nat
    /\ \A o \in over : o < v.next
    /\ v.state = "Active" =>
         /\ \A o \in over : o < v.next - 1
         /\ v.next - 2 \in over => v.prior = "Overflow"
    /\ \A f \in v.files : f.complete => f.index \notin over /\ f.index - 1 \notin over

DInv ==
    /\ w \in WriterTypes(E)
    /\ WriterOk(w)
    /\ Tainted(w, overflowed)
    /\ running \in BOOLEAN
    /\ batches \in 0..MaxBatches

(* What a method of the writer may do to the directory: the new file, if   *)
(* any, is the active segment under its own index, complete only after two *)
(* drained seals, and the files that go are older than those that stay.    *)
Advances(u, v, kind) ==
    /\ WriterOk(v)
    /\ \A f \in u.files \ v.files, g \in v.files : f.index < g.index
    /\ \A g \in v.files \ u.files :
         /\ u.state = "Active"
         /\ g.index = u.next - 1
         /\ g.complete => kind = "Drained" /\ u.prior = "Drained"
    /\ v.state = "Active" =>
         /\ u.state = "Active"
         /\ \/ kind = "Drained" /\ v.next = u.next /\ v.prior = u.prior
            \/ v.next = u.next + 1 /\ v.prior = kind
    /\ v.next >= u.next

-----------------------------------------------------------------------------
LEMMA FileTypes ==
    ASSUME NEW v \in WriterTypes(E)
    PROVE  /\ v.next \in Nat \ {0} /\ v.bytes \in Nat
           /\ v.closed \in Seq([index : Nat, size : Nat]) /\ Len(v.closed) \in Nat
           /\ \A i \in 1..Len(v.closed) : v.closed[i] \in [index : Nat, size : Nat]
           /\ \A f \in v.files : f.index \in Nat /\ f.size \in Nat /\ f.complete \in BOOLEAN
           /\ v.state \in {"Active", "Finished"} /\ v.prior \in SealKinds
<1>1. /\ v.next \in Nat \ {0} /\ v.bytes \in Nat /\ v.prior \in SealKinds
      /\ v.closed \in Seq([index : Nat, size : Nat])
      /\ v.files \in SUBSET SegmentFiles(E) /\ v.state \in {"Active", "Finished"}
  BY DEF WriterTypes
<1>2. /\ Len(v.closed) \in Nat
      /\ \A i \in 1..Len(v.closed) : v.closed[i] \in [index : Nat, size : Nat]
  BY <1>1, LenProperties, ElementOfSeq
<1> QED BY <1>1, <1>2 DEF SegmentFiles

(* The files are below what the closed files are below.                    *)
LEMMA FilesBelow ==
    ASSUME NEW v, NEW m, Sound(v), Below(v, m)
    PROVE  \A f \in v.files : f.index < m
<1> SUFFICES ASSUME NEW f \in v.files PROVE f.index < m
  OBVIOUS
<1>1. PICK i \in 1..Len(v.closed) : v.closed[i] = Row(f)
  BY DEF Sound
<1>2. v.closed[i].index = f.index
  BY <1>1 DEF Row
<1> QED BY <1>2 DEF Below

(* Two writers with the same files and list, of which one may be finished. *)
LEMMA SameAdvances ==
    ASSUME NEW u \in WriterTypes(E), WriterOk(u), NEW v, NEW kind,
           v.files = u.files, v.closed = u.closed, v.next = u.next,
           v.state = "Active" =>
             u.state = "Active" /\ v.prior = u.prior /\ kind = "Drained"
    PROVE  Advances(u, v, kind)
<1>1. u.next \in Nat
  BY FileTypes
<1>2. WriterOk(v)
  BY DEF WriterOk, Sound, Below
<1> QED BY <1>1, <1>2 DEF Advances

(* What is left of a list whose first k entries are dropped.               *)
LEMMA DropEntries ==
    ASSUME NEW S, NEW s \in Seq(S), NEW k \in 0..Len(s)
    PROVE  /\ Len(SubSeq(s, k + 1, Len(s))) = Len(s) - k
           /\ \A i \in 1..(Len(s) - k) : SubSeq(s, k + 1, Len(s))[i] = s[k + i]
<1> DEFINE n == Len(s)
<1>1. n \in Nat /\ k \in Nat /\ k + 1 \in Int /\ n \in Int
  BY LenProperties
<1>2. \A i \in 1..Len(s) : s[i] \in S
  BY ElementOfSeq
<1>3. \A i \in (k + 1)..n : s[i] \in S
  BY <1>1, <1>2
<1>4. /\ Len(SubSeq(s, k + 1, n)) = IF k + 1 <= n THEN n - (k + 1) + 1 ELSE 0
      /\ \A i \in 1..(n - (k + 1) + 1) : SubSeq(s, k + 1, n)[i] = s[(k + 1) + i - 1]
  BY <1>1, <1>3, SubSeqProperties
<1> HIDE DEF n
<1>5. k <= n
  BY <1>1 DEF n
<1>6. n - (k + 1) + 1 = n - k
  BY <1>1
<1>7. Len(SubSeq(s, k + 1, n)) = n - k
  BY <1>1, <1>4, <1>5
<1>8. ASSUME NEW i \in 1..(n - k) PROVE SubSeq(s, k + 1, n)[i] = s[k + i]
  <2>1. (k + 1) + i - 1 = k + i /\ i \in 1..(n - (k + 1) + 1)
    BY <1>1, <1>6
  <2> QED BY <2>1, <1>4
<1> QED BY <1>7, <1>8 DEF n

(* The bytes of a list of closed files are finitely many.                  *)
LEMMA BytesFinite ==
    ASSUME NEW c \in Seq([index : Nat, size : Nat])
    PROVE  IsFiniteSet(BytesIn(c)) /\ ClosedBytes(c) \in Nat
<1> DEFINE Rows == {{i} \X (1 .. c[i].size) : i \in 1..Len(c)}
<1>1. IsFiniteSet(1..Len(c))
  BY LenProperties, FS_Interval
<1>2. IsFiniteSet(Rows)
  <2> DEFINE h == [i \in 1..Len(c) |-> {i} \X (1 .. c[i].size)]
  <2>1. h \in Surjection(1..Len(c), Rows)
    BY DEF Surjection
  <2> HIDE DEF Rows, h
  <2> QED BY <1>1, <2>1, FS_Surjection
<1>3. ASSUME NEW i \in 1..Len(c) PROVE IsFiniteSet({i} \X (1 .. c[i].size))
  <2>1. c[i] \in [index : Nat, size : Nat]
    BY ElementOfSeq
  <2>2. 1 \in Int /\ c[i].size \in Int
    BY <2>1
  <2>3. IsFiniteSet(1 .. c[i].size) /\ IsFiniteSet({i})
    BY <2>2, FS_Interval, FS_Singleton
  <2> QED BY <2>3, FS_Product
<1>4. IsFiniteSet(UNION Rows)
  BY <1>2, <1>3, FS_UNION
<1>5. IsFiniteSet(BytesIn(c))
  BY <1>4 DEF BytesIn
<1> QED BY <1>5, FS_CardinalityType DEF ClosedBytes

(* evict_oldest takes files off the front of the list.                     *)
LEMMA EvictAdvances ==
    ASSUME NEW u \in WriterTypes(E), Sound(u), Below(u, u.next),
           u.state = "Active" => Below(u, u.next - 1) /\ u.bytes = Header
    PROVE  /\ Advances(u, EvictOldest(u), "Drained")
           /\ EvictOldest(u).files \subseteq u.files
           /\ EvictOldest(u).next = u.next /\ EvictOldest(u).prior = u.prior
<1> DEFINE k == EvictCount(u)
           evicted == {u.closed[i].index : i \in 1..k}
           removed == {f \in u.files : f.index \in evicted}
           rest == SubSeq(u.closed, k + 1, Len(u.closed))
           base == RemoveSealed(u, evicted)
           kept == [base EXCEPT !.closed = rest]
           v == EvictOldest(u)
<1>1. k \in 0..Len(u.closed) /\ u.closed \in Seq([index : Nat, size : Nat])
      /\ Len(u.closed) \in Nat /\ k \in Nat
  BY EvictCountType, FileTypes
<1>2. base \in WriterTypes(E) /\ rest \in Seq([index : Nat, size : Nat])
  BY <1>1, RemoveSealedType, DropType
<1>3. /\ base.files = u.files \ removed /\ base.next = u.next
      /\ base.prior = u.prior /\ base.state = u.state /\ base.bytes = u.bytes
  BY DEF RemoveSealed, WriterTypes
<1>4. Len(rest) = Len(u.closed) - k
      /\ \A i \in 1..Len(rest) : rest[i] = u.closed[k + i]
  <2>1. /\ Len(rest) = Len(u.closed) - k
        /\ \A i \in 1..(Len(u.closed) - k) : rest[i] = u.closed[k + i]
    BY <1>1, DropEntries
  <2> QED BY <2>1
<1>5. v = IF TotalSize(kept) > MaxTotalSize THEN [kept EXCEPT !.state = "Finished"]
                                            ELSE kept
  BY DiskAssumption DEF EvictOldest
<1>k. k \in Nat /\ Len(u.closed) \in Nat /\ k <= Len(u.closed)
  BY <1>1
<1> HIDE DEF base, rest, removed, evicted, k, v
<1>6. /\ kept \in WriterTypes(E)
      /\ kept.files = base.files /\ kept.next = base.next /\ kept.prior = base.prior
      /\ kept.state = base.state /\ kept.bytes = base.bytes /\ kept.closed = rest
  BY <1>2 DEF WriterTypes
<1> HIDE DEF kept
<1>7. /\ v.files = u.files \ removed /\ v.next = u.next /\ v.prior = u.prior
      /\ v.closed = rest
      /\ (v.state = "Active") => u.state = "Active"
      /\ (v.state = "Active") => v = kept /\ ~(TotalSize(kept) > MaxTotalSize)
  <2>1. CASE TotalSize(kept) > MaxTotalSize
    BY <1>3, <1>5, <1>6, <2>1 DEF WriterTypes
  <2>2. CASE ~(TotalSize(kept) > MaxTotalSize)
    BY <1>3, <1>5, <1>6, <2>2
  <2> QED BY <2>1, <2>2
(* A file that stays is listed in the rest, one that goes is before it.    *)
<1>8. ASSUME NEW f \in v.files
      PROVE  \E i \in 1..Len(rest) : rest[i] = Row(f)
  <2>1. f \in u.files /\ f.index \notin evicted
    BY <1>7, <1>8 DEF removed
  <2>2. PICK i \in 1..Len(u.closed) : u.closed[i] = Row(f)
    BY <2>1 DEF Sound
  <2>3. u.closed[i].index = f.index
    BY <2>2 DEF Row
  <2>4. ~(i <= k)
    BY <2>1, <2>3, <1>1 DEF evicted
  <2>5. i - k \in 1..Len(rest) /\ k + (i - k) = i
    BY <2>4, <1>1, <1>4
  <2>6. rest[i - k] = Row(f)
    BY <2>2, <2>5, <1>4
  <2> QED BY <2>5, <2>6
<1>9. ASSUME NEW f \in u.files \ v.files, NEW g \in v.files
      PROVE  f.index < g.index
  <2>1. PICK i \in 1..k : f.index = u.closed[i].index
    BY <1>7, <1>9 DEF removed, evicted
  <2>2. PICK j \in 1..Len(rest) : rest[j] = Row(g)
    BY <1>8
  <2>3. g.index = u.closed[k + j].index
    BY <2>2, <1>4 DEF Row
  <2>4. i \in 1..Len(u.closed) /\ k + j \in 1..Len(u.closed) /\ i < k + j
    <3>1. Len(u.closed) \in Nat /\ k \in Nat /\ k <= Len(u.closed)
          /\ Len(rest) = Len(u.closed) - k
      BY <1>k, <1>4
    <3> QED BY <3>1
  <2> QED BY <2>1, <2>3, <2>4 DEF Sound
<1>10. Sound(v)
  <2>1. ASSUME NEW i \in 1..Len(rest), NEW j \in 1..Len(rest), i < j
        PROVE  rest[i].index < rest[j].index
    <3>1. k + i \in 1..Len(u.closed) /\ k + j \in 1..Len(u.closed) /\ k + i < k + j
      BY <1>1, <1>4, <2>1
    <3> QED BY <3>1, <1>4 DEF Sound
  <2>2. IsFiniteSet(v.files)
    BY <1>7, FS_Subset DEF Sound
  <2> QED BY <2>1, <2>2, <1>7, <1>8 DEF Sound
<1>11. ASSUME NEW m, Below(u, m) PROVE Below(v, m)
  <2> SUFFICES ASSUME NEW i \in 1..Len(rest) PROVE rest[i].index < m
    BY <1>7 DEF Below
  <2>1. k + i \in 1..Len(u.closed)
    BY <1>1, <1>4
  <2> QED BY <2>1, <1>4, <1>11 DEF Below
<1>12. ASSUME v.state = "Active"
       PROVE  /\ Below(v, v.next - 1)
              /\ ClosedBytes(v.closed) + Header <= MaxTotalSize
  <2>1. u.state = "Active" /\ v = kept /\ ~(TotalSize(kept) > MaxTotalSize)
    BY <1>7, <1>12
  <2>2. Below(v, v.next - 1)
    BY <2>1, <1>7, <1>11
  <2>3. TotalSize(kept) = ClosedBytes(rest) + Header
    BY <2>1, <1>3, <1>6, DiskAssumption DEF TotalSize, ActiveBytes
  <2>4. ClosedBytes(rest) \in Nat
    BY <1>2, BytesFinite
  <2>5. ClosedBytes(rest) + Header <= MaxTotalSize
    BY <2>1, <2>3, <2>4, SizesAreNaturals
  <2> QED BY <2>2, <2>5, <1>7
<1>13. WriterOk(v)
  BY <1>7, <1>10, <1>11, <1>12 DEF WriterOk
<1>14. u.next \in Nat
  BY FileTypes
<1> QED BY <1>7, <1>9, <1>13, <1>14 DEF Advances, v

(***************************************************************************)
(* What b, on the way from u to where evict_oldest is called, adds to the  *)
(* directory: at most the active segment.                                  *)
(***************************************************************************)
Appends(u, b, kind) ==
    /\ Sound(b)
    /\ Below(b, b.next)
    /\ b.state = "Active" => Below(b, b.next - 1) /\ b.bytes = Header
    /\ u.files \subseteq b.files
    /\ \A g \in b.files \ u.files :
         /\ u.state = "Active"
         /\ g.index = u.next - 1
         /\ g.complete => kind = "Drained" /\ u.prior = "Drained"
    /\ b.state = "Active" =>
         u.state = "Active" /\ b.next = u.next + 1 /\ b.prior = kind
    /\ b.next >= u.next

LEMMA EvictAfter ==
    ASSUME NEW u \in WriterTypes(E), NEW b \in WriterTypes(E), NEW kind, Appends(u, b, kind)
    PROVE  /\ Advances(u, EvictOldest(b), kind)
           /\ b.state = "Finished" => Advances(u, b, kind)
<1> DEFINE v == EvictOldest(b)
<1>1. /\ Advances(b, v, "Drained") /\ v.files \subseteq b.files
      /\ v.next = b.next /\ v.prior = b.prior
  BY EvictAdvances DEF Appends
<1> HIDE DEF v
<1>2. ASSUME NEW f \in u.files \ v.files, NEW g \in v.files PROVE f.index < g.index
  BY <1>1 DEF Advances, Appends
<1>3. ASSUME NEW g \in v.files \ u.files
      PROVE  /\ u.state = "Active" /\ g.index = u.next - 1
             /\ g.complete => kind = "Drained" /\ u.prior = "Drained"
  BY <1>1 DEF Appends
<1>4. v.state = "Active" => u.state = "Active" /\ v.next = u.next + 1 /\ v.prior = kind
  BY <1>1 DEF Advances, Appends
<1>5. v.next >= u.next /\ WriterOk(v)
  BY <1>1 DEF Advances, Appends
<1>6. Advances(u, v, kind)
  BY <1>2, <1>3, <1>4, <1>5 DEF Advances
<1>7. ASSUME b.state = "Finished" PROVE Advances(u, b, kind)
  <2>1. b.state # "Active"
    BY <1>7
  <2>2. WriterOk(b)
    BY <2>1 DEF WriterOk, Appends
  <2> QED BY <2>1, <2>2 DEF Appends, Advances
<1> QED BY <1>6, <1>7 DEF v

(* A seal adds the active segment, and its entry in the list.              *)
SealAdds(u, v, complete) ==
    /\ Sound(v) /\ Below(v, u.next)
    /\ u.files \subseteq v.files
    /\ \A g \in v.files \ u.files : g.index = u.next - 1 /\ g.complete = complete
    /\ v.next = u.next /\ v.state = u.state /\ v.prior = u.prior /\ v \in WriterTypes(E)

LEMMA SealedAdds ==
    ASSUME NEW u \in WriterTypes(E), Sound(u), Below(u, u.next - 1), NEW complete \in BOOLEAN
    PROVE  SealAdds(u, Sealed(u, complete), complete)
<1> DEFINE index == u.next - 1
           n == Len(u.closed)
           file == [index |-> index, events |-> u.events, size |-> u.bytes,
                    complete |-> complete]
           row == [index |-> index, size |-> u.bytes]
           v == Sealed(u, complete)
<1>1. v \in WriterTypes(E)
  BY SealedType
<1>2. /\ v.files = {f \in u.files : f.index # index} \cup {file}
      /\ v.closed = Append(u.closed, row)
      /\ v.next = u.next /\ v.state = u.state /\ v.prior = u.prior
  BY DiskAssumption DEF Sealed, WriterTypes
<1>3. \A f \in u.files : f.index < index /\ f.index # index
  <2>1. \A f \in u.files : f.index < index /\ f.index \in Nat
    BY FilesBelow, FileTypes
  <2>2. index \in Nat
    BY FileTypes
  <2> HIDE DEF index
  <2> QED BY <2>1, <2>2
<1>4. v.files = u.files \cup {file} /\ file.index = index /\ file.complete = complete
      /\ row = Row(file)
  BY <1>2, <1>3 DEF Row
<1>5. row \in [index : Nat, size : Nat] /\ u.closed \in Seq([index : Nat, size : Nat])
      /\ n \in Nat /\ row.index = index /\ index \in Nat /\ index < u.next
  BY FileTypes
<1>6. /\ Len(v.closed) = n + 1 /\ v.closed[n + 1] = row
      /\ \A i \in 1..n : v.closed[i] = u.closed[i]
  BY <1>2, <1>5, AppendProperties
<1> HIDE DEF index, n, file, row, v
<1>7. \A i \in 1..n : v.closed[i].index < index
  BY <1>6 DEF Below, n, index
<1>8. \A i \in 1..(n + 1) : i \in 1..n \/ i = n + 1
  BY <1>5
<1>9. ASSUME NEW i \in 1..(n + 1), NEW j \in 1..(n + 1), i < j
      PROVE  v.closed[i].index < v.closed[j].index
  <2>1. i \in 1..n
    BY <1>5, <1>9
  <2>2. CASE j = n + 1
    BY <2>1, <2>2, <1>5, <1>6, <1>7
  <2>3. CASE j \in 1..n
    BY <2>1, <2>3, <1>6, <1>9 DEF Sound, n
  <2> QED BY <2>2, <2>3, <1>8
<1>10. ASSUME NEW f \in v.files PROVE \E i \in 1..(n + 1) : v.closed[i] = Row(f)
  <2>1. CASE f = file
    <3>1. n + 1 \in 1..(n + 1)
      BY <1>5
    <3> QED BY <2>1, <3>1, <1>4, <1>6
  <2>2. CASE f \in u.files
    <3>1. PICK i \in 1..n : u.closed[i] = Row(f)
      BY <2>2 DEF Sound, n
    <3>2. i \in 1..(n + 1)
      BY <1>5
    <3> QED BY <3>1, <3>2, <1>6
  <2> QED BY <2>1, <2>2, <1>4
<1>11. \A f, g \in v.files : f.index = g.index => f = g
  <2>1. \A f, g \in u.files : f.index = g.index => f = g
    BY DEF Sound
  <2> QED BY <2>1, <1>3, <1>4
<1>12. IsFiniteSet(v.files)
  <2>1. IsFiniteSet({file}) /\ IsFiniteSet(u.files)
    BY FS_Singleton DEF Sound
  <2>2. IsFiniteSet(u.files \cup {file})
    BY <2>1, FS_Union
  <2> QED BY <2>2, <1>4
<1>13. Below(v, u.next)
  <2> SUFFICES ASSUME NEW i \in 1..(n + 1) PROVE v.closed[i].index < u.next
    BY <1>6 DEF Below
  <2>1. CASE i = n + 1
    BY <2>1, <1>5, <1>6
  <2>2. CASE i \in 1..n
    <3>1. v.closed[i].index \in Nat /\ u.next \in Nat
      BY <1>6, <2>2, FileTypes DEF n
    <3>2. v.closed[i].index < index
      BY <1>7, <2>2
    <3> QED BY <3>1, <3>2, <1>5
  <2> QED BY <2>1, <2>2, <1>8
<1>14. Sound(v)
  BY <1>6, <1>9, <1>10, <1>11, <1>12 DEF Sound
<1>15. SealAdds(u, v, complete)
  BY <1>1, <1>2, <1>4, <1>13, <1>14 DEF SealAdds, index
<1> QED BY <1>15 DEF v

-----------------------------------------------------------------------------
(* The methods the flush loop calls.                                       *)

LEMMA RotateAdvances ==
    ASSUME NEW u \in WriterTypes(E), WriterOk(u), NEW kind \in SealKinds, NEW io
    PROVE  Advances(u, Rotate(u, kind, io), kind)
<1> DEFINE stamped == [u EXCEPT !.prior = kind, !.drainDue = FALSE,
                                !.rotateDue = FALSE, !.state = "Finished"]
           closed  == IF io.seal = "notfound" THEN Abandoned(stamped)
                      ELSE Sealed(stamped, Complete(u, kind))
           advanced == [closed EXCEPT !.next = @ + 1]
           fresh == FreshSegment(advanced)
<1>1. CASE u.state = "Finished"
  <2>1. u.state # "Active"
    BY <1>1
  <2>2. Advances(u, u, kind)
    BY <2>1, SameAdvances
  <2> QED BY <1>1, <2>2 DEF Rotate
<1>2. CASE u.state # "Finished"
  <2>0. u.state = "Active" /\ Sound(u) /\ Below(u, u.next - 1) /\ Below(u, u.next)
    BY <1>2, FileTypes DEF WriterOk
  <2>1. /\ stamped \in WriterTypes(E) /\ stamped.files = u.files /\ stamped.closed = u.closed
        /\ stamped.state = "Finished" /\ stamped.next = u.next /\ stamped.prior = kind
    BY DEF WriterTypes
  <2>2. Complete(u, kind) \in BOOLEAN
        /\ (Complete(u, kind) => kind = "Drained" /\ u.prior = "Drained")
    BY DEF Complete
  <2>3. Rotate(u, kind, io) \in {stamped, advanced, EvictOldest(fresh)}
    BY <1>2 DEF Rotate
  <2> HIDE DEF stamped
  <2>4. Advances(u, stamped, kind)
    <3>1. stamped.state # "Active"
      BY <2>1
    <3> QED BY <2>1, <3>1, SameAdvances
  <2>5. Sound(stamped) /\ Below(stamped, stamped.next - 1) /\ Below(stamped, u.next)
    BY <2>0, <2>1 DEF Sound, Below
  <2>6. /\ closed \in WriterTypes(E) /\ Sound(closed) /\ Below(closed, u.next)
        /\ closed.next = u.next /\ closed.state = "Finished" /\ closed.prior = kind
        /\ u.files \subseteq closed.files
        /\ \A g \in closed.files \ u.files :
             g.index = u.next - 1 /\ (g.complete => kind = "Drained" /\ u.prior = "Drained")
    <3>1. CASE io.seal = "notfound"
      <4> DEFINE a == Abandoned(stamped)
      <4>1. a \in WriterTypes(E)
        BY <2>1, AbandonedType
      <4>2. /\ a.files = stamped.files /\ a.closed = stamped.closed /\ a.next = stamped.next
            /\ a.state = stamped.state /\ a.prior = stamped.prior
        BY <2>1 DEF Abandoned, WriterTypes
      <4>3. closed = a
        BY <3>1
      <4> HIDE DEF a, closed
      <4>4. Sound(a) /\ Below(a, u.next)
        BY <4>2, <2>5 DEF Sound, Below
      <4> QED BY <4>1, <4>2, <4>3, <4>4, <2>1
    <3>2. CASE io.seal # "notfound"
      <4>1. SealAdds(stamped, Sealed(stamped, Complete(u, kind)), Complete(u, kind))
        BY <2>1, <2>2, <2>5, SealedAdds
      <4>2. closed = Sealed(stamped, Complete(u, kind))
        BY <3>2
      <4> HIDE DEF closed
      <4> QED BY <4>1, <4>2, <2>1, <2>2 DEF SealAdds
    <3> QED BY <3>1, <3>2
  <2> HIDE DEF closed
  <2>7. u.next \in Nat \ {0} /\ u.next + 1 \in Nat \ {0} /\ u.next + 1 - 1 = u.next
    BY FileTypes
  <2>8. /\ advanced \in WriterTypes(E) /\ advanced.files = closed.files
        /\ advanced.closed = closed.closed /\ advanced.next = u.next + 1
        /\ advanced.state = closed.state /\ advanced.prior = kind
    BY <2>6, <2>7 DEF WriterTypes
  <2> HIDE DEF advanced
  <2>9. Below(closed, u.next + 1)
    <3>1. \A i \in 1..Len(closed.closed) : closed.closed[i].index \in Nat
      BY <2>6, FileTypes
    <3> QED BY <2>6, <2>7, <3>1 DEF Below
  <2>10. Appends(u, advanced, kind)
    <3>1. Sound(advanced) /\ Below(advanced, advanced.next)
      BY <2>6, <2>8, <2>9 DEF Sound, Below
    <3>2. advanced.state # "Active" /\ advanced.next >= u.next
      BY <2>6, <2>7, <2>8
    <3> QED BY <3>1, <3>2, <2>0, <2>6, <2>8 DEF Appends
  <2>11. /\ fresh \in WriterTypes(E) /\ fresh.files = advanced.files
         /\ fresh.closed = advanced.closed /\ fresh.next = advanced.next
         /\ fresh.state = "Active" /\ fresh.bytes = Header /\ fresh.prior = kind
    <3>1. fresh \in WriterTypes(E)
      BY <2>8, FreshSegmentType
    <3> QED BY <2>8, <3>1 DEF FreshSegment, WriterTypes
  <2> HIDE DEF fresh
  <2>12. Appends(u, fresh, kind)
    <3>1. Sound(fresh) /\ Below(fresh, fresh.next)
      BY <2>10, <2>11 DEF Sound, Below, Appends
    <3>2. Below(fresh, fresh.next - 1)
      BY <2>6, <2>7, <2>8, <2>11 DEF Below
    <3>3. fresh.next = u.next + 1 /\ fresh.next >= u.next
      BY <2>7, <2>8, <2>11
    <3> QED BY <3>1, <3>2, <3>3, <2>0, <2>6, <2>8, <2>11 DEF Appends
  <2>13. Advances(u, advanced, kind)
    BY <2>6, <2>8, <2>10, EvictAfter
  <2>14. Advances(u, EvictOldest(fresh), kind)
    BY <2>11, <2>12, EvictAfter
  <2> QED BY <2>3, <2>4, <2>13, <2>14
<1> QED BY <1>1, <1>2

(* Seen from a writer with the same files, list, index and state.          *)
LEMMA AdvancesFrom ==
    ASSUME NEW u, NEW x, NEW v, NEW kind, Advances(x, v, kind), x.files = u.files,
           x.next = u.next, x.state = u.state, x.prior = u.prior
    PROVE  Advances(u, v, kind)
BY DEF Advances

LEMMA WriteAdvances ==
    ASSUME NEW u \in WriterTypes(E), WriterOk(u), NEW io, NEW batch,
           batch.events \in SUBSET E, batch.count \in Nat \ {0}
    PROVE  /\ (u.state = "Active" /\ Overflows(u, batch)) =>
                  Advances(u, WriteEncodedBatch(u, batch, io), "Overflow")
           /\ ~(u.state = "Active" /\ Overflows(u, batch)) =>
                  Advances(u, WriteEncodedBatch(u, batch, io), "Drained")
           /\ Advances(u, WriteLost(u, batch), "Drained")
<1> DEFINE written == [u EXCEPT !.events = @ \cup batch.events,
                                !.bytes = @ + batch.count, !.hasReal = TRUE]
           counted == [u EXCEPT !.dropped = @ + batch.count,
                                !.lost = @ \cup batch.events]
           lost == WriteLost(u, batch)
<1>1. u.events \cup batch.events \in SUBSET E /\ u.bytes + batch.count \in Nat
  BY DEF WriterTypes
<1>2. /\ written \in WriterTypes(E) /\ written.files = u.files /\ written.closed = u.closed
      /\ written.next = u.next /\ written.state = u.state /\ written.prior = u.prior
  BY <1>1 DEF WriterTypes
<1>3. /\ counted.files = u.files /\ counted.closed = u.closed
      /\ counted.next = u.next /\ counted.state = u.state /\ counted.prior = u.prior
  BY DEF WriterTypes
<1>4. /\ lost.files = u.files /\ lost.closed = u.closed
      /\ lost.next = u.next /\ lost.state = u.state /\ lost.prior = u.prior
  BY DEF WriterTypes, WriteLost
<1>5. WriteEncodedBatch(u, batch, io) =
        IF u.state = "Finished" THEN counted
        ELSE IF Overflows(u, batch) THEN Rotate(written, "Overflow", io) ELSE written
  BY DEF WriteEncodedBatch
<1>6. u.state = "Active" <=> u.state # "Finished"
  BY FileTypes
<1> HIDE DEF written, counted, lost
<1>7. WriterOk(written)
  BY <1>2 DEF WriterOk, Sound, Below
<1>8. Advances(u, Rotate(written, "Overflow", io), "Overflow")
  <2>1. Advances(written, Rotate(written, "Overflow", io), "Overflow")
    BY <1>2, <1>7, RotateAdvances DEF SealKinds
  <2> QED BY <2>1, <1>2, AdvancesFrom
<1>9. /\ Advances(u, written, "Drained") /\ Advances(u, counted, "Drained")
      /\ Advances(u, lost, "Drained")
  BY <1>2, <1>3, <1>4, SameAdvances
<1> QED BY <1>5, <1>6, <1>8, <1>9 DEF lost

LEMMA DrainedAdvances ==
    ASSUME NEW u \in WriterTypes(E), WriterOk(u), NEW io
    PROVE  Advances(u, Drained(u, io), "Drained")
<1> DEFINE quiet == [u EXCEPT !.drainDue = FALSE]
<1>1. Advances(u, Rotate(u, "Drained", io), "Drained")
  BY RotateAdvances DEF SealKinds
<1>2. /\ quiet.files = u.files /\ quiet.closed = u.closed /\ quiet.next = u.next
      /\ quiet.state = u.state /\ quiet.prior = u.prior
  BY DEF WriterTypes
<1>3. Drained(u, io) \in {u, Rotate(u, "Drained", io), quiet}
  BY DEF Drained
<1> HIDE DEF quiet
<1>4. Advances(u, u, "Drained") /\ Advances(u, quiet, "Drained")
  BY <1>2, SameAdvances
<1> QED BY <1>1, <1>3, <1>4

(* The calls that change only a flag of the writer.                        *)
LEMMA FlagAdvances ==
    ASSUME NEW u \in WriterTypes(E), WriterOk(u)
    PROVE  /\ Advances(u, UpdateSegmentMetadata(u), "Drained")
           /\ Advances(u, [u EXCEPT !.drainDue = TRUE], "Drained")
           /\ Advances(u, [u EXCEPT !.rotateDue = TRUE], "Drained")
           /\ [u EXCEPT !.drainDue = TRUE] \in WriterTypes(E)
           /\ [u EXCEPT !.rotateDue = TRUE] \in WriterTypes(E)
<1> DEFINE a == UpdateSegmentMetadata(u)
           b == [u EXCEPT !.drainDue = TRUE]
           c == [u EXCEPT !.rotateDue = TRUE]
<1>1. /\ a.files = u.files /\ a.closed = u.closed /\ a.next = u.next
      /\ a.state = u.state /\ a.prior = u.prior
  BY DEF WriterTypes, UpdateSegmentMetadata
<1>2. /\ b.files = u.files /\ b.closed = u.closed /\ b.next = u.next
      /\ b.state = u.state /\ b.prior = u.prior /\ b \in WriterTypes(E)
  BY DEF WriterTypes
<1>3. /\ c.files = u.files /\ c.closed = u.closed /\ c.next = u.next
      /\ c.state = u.state /\ c.prior = u.prior /\ c \in WriterTypes(E)
  BY DEF WriterTypes
<1> HIDE DEF a, b, c
<1>4. Advances(u, a, "Drained") /\ Advances(u, b, "Drained") /\ Advances(u, c, "Drained")
  BY <1>1, <1>2, <1>3, SameAdvances
<1> QED BY <1>2, <1>3, <1>4 DEF a, b, c

LEMMA FinalizeAdvances ==
    ASSUME NEW u \in WriterTypes(E), WriterOk(u), NEW io
    PROVE  Advances(u, Finalize(u, io), "Drained")
<1> DEFINE closing == [u EXCEPT !.state = "Finished", !.done = TRUE]
           marked == [u EXCEPT !.done = TRUE]
           sealed == Sealed(closing, Complete(u, "Drained"))
           left == Abandoned(closing)
<1>1. /\ marked.files = u.files /\ marked.closed = u.closed /\ marked.next = u.next
      /\ marked.state = u.state /\ marked.prior = u.prior
  BY DEF WriterTypes
<1>2. /\ closing.files = u.files /\ closing.closed = u.closed /\ closing.next = u.next
      /\ closing.state = "Finished" /\ closing.prior = u.prior /\ closing \in WriterTypes(E)
  BY DEF WriterTypes
<1>3. \/ Finalize(u, io) = marked
      \/ /\ u.state = "Active"
         /\ Finalize(u, io) \in
              {closing, EvictOldest(closing), EvictOldest(left), EvictOldest(sealed)}
  BY FileTypes DEF Finalize
<1> HIDE DEF closing, marked
<1>4. Advances(u, marked, "Drained")
  BY <1>1, SameAdvances
<1>5. ASSUME u.state = "Active"
      PROVE  /\ Advances(u, closing, "Drained") /\ Advances(u, EvictOldest(closing), "Drained")
             /\ Advances(u, EvictOldest(left), "Drained")
             /\ Advances(u, EvictOldest(sealed), "Drained")
  <2>1. /\ Sound(closing) /\ Below(closing, closing.next) /\ Below(closing, closing.next - 1)
        /\ u.next \in Nat
    BY <1>2, <1>5, FileTypes DEF WriterOk, Sound, Below
  <2>2. Appends(u, closing, "Drained")
    BY <2>1, <1>2 DEF Appends
  <2>3. left \in WriterTypes(E) /\ Appends(u, left, "Drained")
    <3>1. left \in WriterTypes(E)
      BY <1>2, AbandonedType
    <3>2. /\ left.files = closing.files /\ left.closed = closing.closed
          /\ left.next = closing.next /\ left.state = closing.state
      BY <1>2 DEF Abandoned, WriterTypes
    <3> HIDE DEF left
    <3>3. Sound(left) /\ Below(left, left.next) /\ left.state # "Active"
      BY <2>1, <1>2, <3>2 DEF Sound, Below
    <3> QED BY <3>1, <3>2, <3>3, <2>1, <1>2 DEF Appends
  <2>4. sealed \in WriterTypes(E) /\ Appends(u, sealed, "Drained")
    <3>1. Complete(u, "Drained") \in BOOLEAN
          /\ (Complete(u, "Drained") => u.prior = "Drained")
      BY DEF Complete
    <3>2. SealAdds(closing, sealed, Complete(u, "Drained"))
      BY <1>2, <2>1, <3>1, SealedAdds
    <3> HIDE DEF sealed
    <3> QED BY <3>1, <3>2, <2>1, <1>2, <1>5 DEF SealAdds, Appends
  <2> HIDE DEF left, sealed
  <2> QED BY <1>2, <2>2, <2>3, <2>4, EvictAfter
<1> QED BY <1>3, <1>4, <1>5

-----------------------------------------------------------------------------
(* What follows for the directory.                                         *)

LEMMA AdvancesKeepFiles ==
    ASSUME NEW u \in WriterTypes(E), WriterOk(u), NEW v, NEW kind, Advances(u, v, kind)
    PROVE  /\ \A f \in u.files, g \in v.files : f.index = g.index => f = g
           /\ \A f \in u.files, g \in u.files \cap v.files :
                f.index \notin Indices(v.files) => f.index < g.index
<1>1. ASSUME NEW f \in u.files, NEW g \in v.files, f.index = g.index PROVE f = g
  <2>1. CASE g \in u.files
    BY <1>1, <2>1 DEF WriterOk, Sound
  <2>2. CASE g \notin u.files
    <3>1. u.state = "Active" /\ g.index = u.next - 1
      BY <2>2 DEF Advances
    <3>2. f.index < u.next - 1
      BY <3>1, FilesBelow DEF WriterOk
    <3>3. f.index \in Nat /\ u.next \in Nat
      BY FileTypes
    <3> QED BY <1>1, <3>1, <3>2, <3>3
  <2> QED BY <2>1, <2>2
<1>2. ASSUME NEW f \in u.files, NEW g \in u.files \cap v.files, f.index \notin Indices(v.files)
      PROVE  f.index < g.index
  <2>1. f \notin v.files
    BY <1>2 DEF Indices
  <2> QED BY <2>1 DEF Advances
<1> QED BY <1>1, <1>2

LEMMA TaintKept ==
    ASSUME NEW u \in WriterTypes(E), WriterOk(u), NEW v \in WriterTypes(E), NEW over,
           Tainted(u, over), Advances(u, v, "Drained")
    PROVE  Tainted(v, over)
<1>1. u.next \in Nat /\ v.next \in Nat /\ over \subseteq Nat
  BY FileTypes DEF Tainted
<1>2. \A o \in over : o \in Nat /\ o < u.next
  BY <1>1 DEF Tainted
<1>3. \A o \in over : o < v.next
  BY <1>1, <1>2 DEF Advances
<1>4. ASSUME v.state = "Active"
      PROVE  /\ \A o \in over : o < v.next - 1
             /\ (v.next - 2 \in over) => v.prior = "Overflow"
  <2>1. \A o \in over : o < u.next - 1
    BY <1>4 DEF Advances, Tainted
  <2>2. CASE v.next = u.next /\ v.prior = u.prior
    BY <2>1, <2>2, <1>4 DEF Advances, Tainted
  <2>3. CASE v.next = u.next + 1
    <3>1. v.next - 1 = u.next /\ v.next - 2 = u.next - 1
      BY <1>1, <2>3
    <3>2. u.next - 1 \notin over
      BY <1>1, <2>1
    <3> QED BY <3>1, <3>2, <1>2
  <2> QED BY <1>4, <2>2, <2>3 DEF Advances
<1>5. ASSUME NEW f \in v.files, f.complete
      PROVE  f.index \notin over /\ f.index - 1 \notin over
  <2>1. CASE f \in u.files
    BY <1>5, <2>1 DEF Tainted
  <2>2. CASE f \notin u.files
    <3>1. u.state = "Active" /\ f.index = u.next - 1 /\ u.prior = "Drained"
      BY <1>5, <2>2 DEF Advances
    <3>2. (\A o \in over : o < u.next - 1) /\ u.next - 2 \notin over
      BY <3>1 DEF Tainted
    <3>3. f.index - 1 = u.next - 2
      BY <1>1, <3>1
    <3> QED BY <1>1, <3>1, <3>2, <3>3
  <2> QED BY <2>1, <2>2
<1> QED BY <1>1, <1>3, <1>4, <1>5 DEF Tainted

LEMMA TaintGrows ==
    ASSUME NEW u \in WriterTypes(E), WriterOk(u), NEW v \in WriterTypes(E), NEW over,
           Tainted(u, over), u.state = "Active", Advances(u, v, "Overflow")
    PROVE  Tainted(v, over \cup {u.next - 1})
<1> DEFINE all == over \cup {u.next - 1}
<1>1. u.next \in Nat \ {0} /\ v.next \in Nat /\ over \subseteq Nat /\ u.next - 1 \in Nat
  BY FileTypes DEF Tainted
<1>2. \A o \in over : o \in Nat /\ o < u.next - 1
  BY <1>1 DEF Tainted
<1>3. all \subseteq Nat /\ \A o \in all : o \in Nat /\ o < u.next
  <2>1. \A o \in over : o < u.next
    BY <1>1, <1>2
  <2>2. u.next - 1 < u.next
    BY <1>1
  <2> QED BY <1>1, <2>1, <2>2
<1> HIDE DEF all
<1>4. \A o \in all : o < v.next
  BY <1>1, <1>3 DEF Advances
<1>5. ASSUME v.state = "Active"
      PROVE  /\ \A o \in all : o < v.next - 1
             /\ v.prior = "Overflow"
  <2>1. v.next = u.next + 1 /\ v.prior = "Overflow"
    BY <1>5 DEF Advances
  <2>2. v.next - 1 = u.next
    BY <2>1, <1>1
  <2> QED BY <2>1, <2>2, <1>3
<1>6. ASSUME NEW f \in v.files, f.complete
      PROVE  f.index \notin all /\ f.index - 1 \notin all
  <2>1. f \in u.files
    BY <1>6 DEF Advances
  <2>2. f.index \notin over /\ f.index - 1 \notin over
    BY <1>6, <2>1 DEF Tainted
  <2>3. f.index < u.next - 1 /\ f.index \in Nat
    BY <2>1, FilesBelow, FileTypes DEF WriterOk
  <2>4. f.index # u.next - 1 /\ f.index - 1 # u.next - 1
    BY <2>3, <1>1
  <2> QED BY <2>2, <2>4 DEF all
<1>7. Tainted(v, all)
  BY <1>3, <1>4, <1>5, <1>6 DEF Tainted
<1> QED BY <1>7 DEF all

(***************************************************************************)
(* The bytes on disk are among the bytes the list accounts for.            *)
(***************************************************************************)
LEMMA DiskWithinList ==
    ASSUME NEW v \in WriterTypes(E), Sound(v)
    PROVE  /\ Cardinality(BytesOnDisk(v.files)) \in Nat
           /\ Cardinality(BytesOnDisk(v.files)) <= ClosedBytes(v.closed)
<1> DEFINE At(f) == CHOOSE i \in 1..Len(v.closed) : v.closed[i] = Row(f)
           S == BytesOnDisk(v.files)
           T == BytesIn(v.closed)
           h == [p \in S |-> <<At(p[1]), p[2]>>]
<1>1. \A f \in v.files : At(f) \in 1..Len(v.closed) /\ v.closed[At(f)] = Row(f)
  BY DEF Sound
<1>2. ASSUME NEW p \in S
      PROVE  p[1] \in v.files /\ p[2] \in 1 .. p[1].size /\ p = <<p[1], p[2]>>
  BY DEF BytesOnDisk
<1> HIDE DEF At
<1>3. ASSUME NEW p \in S PROVE <<At(p[1]), p[2]>> \in T
  <2>1. p[1] \in v.files /\ p[2] \in 1 .. p[1].size
    BY <1>2
  <2>2. At(p[1]) \in 1..Len(v.closed) /\ v.closed[At(p[1])].size = p[1].size
    <3>1. At(p[1]) \in 1..Len(v.closed) /\ v.closed[At(p[1])] = Row(p[1])
      BY <1>1, <2>1
    <3>2. Row(p[1]).size = p[1].size
      BY DEF Row
    <3> QED BY <3>1, <3>2
  <2> QED BY <2>1, <2>2 DEF BytesIn
<1>4. ASSUME NEW p \in S, NEW q \in S, <<At(p[1]), p[2]>> = <<At(q[1]), q[2]>>
      PROVE  p = q
  <2>1. At(p[1]) = At(q[1]) /\ p[2] = q[2]
    BY <1>4
  <2>2. p[1] \in v.files /\ q[1] \in v.files
    BY <1>2
  <2>3. Row(p[1]) = Row(q[1])
    <3>1. v.closed[At(p[1])] = Row(p[1]) /\ v.closed[At(q[1])] = Row(q[1])
      BY <1>1, <2>2
    <3> QED BY <2>1, <3>1
  <2>4. p[1].index = q[1].index
    BY <2>3 DEF Row
  <2>5. p[1] = q[1]
    BY <2>2, <2>4 DEF Sound
  <2> QED BY <1>2, <2>1, <2>5
<1> HIDE DEF S, T
<1>5. h \in [S -> T] /\ IsInjective(h)
  BY <1>3, <1>4 DEF IsInjective
<1>6. h \in Injection(S, T)
  BY <1>5 DEF Injection
<1>7. IsFiniteSet(T)
  BY FileTypes, BytesFinite DEF T
<1> HIDE DEF h
<1>8. IsFiniteSet(S) /\ Cardinality(S) <= Cardinality(T)
  BY <1>6, <1>7, FS_Injection
<1>9. Cardinality(S) \in Nat
  BY <1>8, FS_CardinalityType
<1> QED BY <1>8, <1>9 DEF S, T, ClosedBytes

-----------------------------------------------------------------------------
(* discover_existing lists what it finds in index order.                   *)

UpTo(files, f) == {g \in files : g.index <= f.index}

RankIn(files, f) == Cardinality(UpTo(files, f))

Ranked(files, k) == CHOOSE g \in files : RankIn(files, g) = k

Directory(files) ==
    /\ files \in SUBSET SegmentFiles(E)
    /\ IsFiniteSet(files)
    /\ \A f, g \in files : f.index = g.index => f = g

LEMMA RankOrder ==
    ASSUME NEW files, Directory(files)
    PROVE  /\ \A f \in files : f.index \in Nat /\ RankIn(files, f) \in 1..Cardinality(files)
           /\ \A f, g \in files : f.index < g.index => RankIn(files, f) < RankIn(files, g)
           /\ \A f, g \in files : RankIn(files, f) = RankIn(files, g) => f = g
<1> DEFINE N == Cardinality(files)
<1>1. N \in Nat
  BY FS_CardinalityType DEF Directory
<1>2. \A f \in files : f.index \in Nat
  BY DEF Directory, SegmentFiles
<1>3. ASSUME NEW f \in files
      PROVE  IsFiniteSet(UpTo(files, f)) /\ RankIn(files, f) \in 1..N
  <2>1. UpTo(files, f) \in SUBSET files
    BY DEF UpTo
  <2>2. IsFiniteSet(UpTo(files, f)) /\ RankIn(files, f) <= N
    BY <2>1, FS_Subset DEF RankIn, Directory
  <2>3. f \in UpTo(files, f)
    BY <1>2 DEF UpTo
  <2>4. RankIn(files, f) \in Nat /\ RankIn(files, f) # 0
    BY <2>2, <2>3, FS_CardinalityType, FS_EmptySet DEF RankIn
  <2> QED BY <1>1, <2>2, <2>4
<1>4. ASSUME NEW f \in files, NEW g \in files, f.index < g.index
      PROVE  RankIn(files, f) < RankIn(files, g)
  <2>1. UpTo(files, f) \in SUBSET UpTo(files, g)
    <3>1. ASSUME NEW x \in files, x.index <= f.index PROVE x.index <= g.index
      <4>1. x.index \in Nat /\ f.index \in Nat /\ g.index \in Nat
        BY <1>2
      <4> QED BY <4>1, <3>1, <1>4
    <3> QED BY <3>1 DEF UpTo
  <2>2. g \in UpTo(files, g) /\ g \notin UpTo(files, f)
    <3>1. f.index \in Nat /\ g.index \in Nat
      BY <1>2
    <3> QED BY <3>1, <1>4 DEF UpTo
  <2>3. IsFiniteSet(UpTo(files, g))
    BY <1>3
  <2>4. /\ RankIn(files, f) <= RankIn(files, g)
        /\ RankIn(files, f) # RankIn(files, g)
    BY <2>1, <2>2, <2>3, FS_Subset DEF RankIn
  <2>5. RankIn(files, f) \in Nat /\ RankIn(files, g) \in Nat
    BY <1>1, <1>3
  <2> QED BY <2>4, <2>5
<1>5. ASSUME NEW f \in files, NEW g \in files, RankIn(files, f) = RankIn(files, g)
      PROVE  f = g
  <2>1. f.index \in Nat /\ g.index \in Nat
    BY <1>2
  <2>2. RankIn(files, f) \in Nat /\ RankIn(files, g) \in Nat
    BY <1>1, <1>3
  <2>3. ~(f.index < g.index)
    BY <1>4, <1>5, <2>2
  <2>4. ~(g.index < f.index)
    BY <1>4, <1>5, <2>2
  <2>5. f.index = g.index
    BY <2>1, <2>3, <2>4
  <2> QED BY <2>5 DEF Directory
<1> QED BY <1>2, <1>3, <1>4, <1>5

LEMMA RankedFile ==
    ASSUME NEW files, Directory(files), NEW k \in 1..Cardinality(files)
    PROVE  Ranked(files, k) \in files /\ RankIn(files, Ranked(files, k)) = k
<1> DEFINE N == Cardinality(files)
           h == [f \in files |-> RankIn(files, f)]
<1>1. N \in Nat /\ N \in Int /\ 1 \in Int
  BY FS_CardinalityType DEF Directory
<1>2. IsFiniteSet(1..N) /\ Cardinality(1..N) = N
  BY <1>1, FS_Interval
<1>3. h \in [files -> 1..N] /\ IsInjective(h)
  BY RankOrder DEF IsInjective
<1>4. h \in Injection(files, 1..N)
  BY <1>3 DEF Injection
<1> HIDE DEF h
<1>5. h \in Surjection(files, 1..N)
  BY <1>2, <1>4, FS_Injection
<1>6. \E f \in files : RankIn(files, f) = k
  BY <1>5 DEF Surjection, h
<1> QED BY <1>6 DEF Ranked

Lists(c, files) ==
    /\ c \in Seq([index : Nat, size : Nat])
    /\ \A i, j \in 1..Len(c) : i < j => c[i].index < c[j].index
    /\ \A f \in files : \E i \in 1..Len(c) : c[i] = Row(f)
    /\ \A i \in 1..Len(c) : \E f \in files : c[i] = Row(f)

LEMMA ListedInOrder ==
    ASSUME NEW files, Directory(files)
    PROVE  Lists(InIndexOrder(files), files)
<1> DEFINE c == InIndexOrder(files)
           N == Cardinality(files)
           At(k) == Ranked(files, k)
<1>1. N \in Nat
  BY FS_CardinalityType DEF Directory
<1>2. c = [k \in 1..N |-> Row(At(k))]
  BY DEF InIndexOrder, Row, Ranked, RankIn, UpTo
<1>3. \A k \in 1..N : At(k) \in files /\ RankIn(files, At(k)) = k
  BY RankedFile
<1>4. \A f \in files : f.index \in Nat /\ f.size \in Nat
  BY DEF Directory, SegmentFiles
<1> HIDE DEF At, N, c
<1>5. \A k \in 1..N : Row(At(k)) \in [index : Nat, size : Nat]
  BY <1>3, <1>4 DEF Row
<1>6. c \in Seq([index : Nat, size : Nat]) /\ Len(c) = N
  BY <1>1, <1>2, <1>5
<1>7. \A k \in 1..N : c[k] = Row(At(k)) /\ c[k].index = At(k).index
  BY <1>2 DEF Row
<1>8. ASSUME NEW i \in 1..N, NEW j \in 1..N, i < j PROVE At(i).index < At(j).index
  <2>1. /\ At(i) \in files /\ RankIn(files, At(i)) = i
        /\ At(j) \in files /\ RankIn(files, At(j)) = j
    BY <1>3
  <2>2. At(i).index \in Nat /\ At(j).index \in Nat
    BY <2>1, <1>4
  <2>3. At(i).index # At(j).index
    <3>1. At(i).index = At(j).index => At(i) = At(j)
      BY <2>1 DEF Directory
    <3> QED BY <2>1, <3>1, <1>1, <1>8
  <2>4. ~(At(j).index < At(i).index)
    <3>1. At(j).index < At(i).index => RankIn(files, At(j)) < RankIn(files, At(i))
      BY <2>1, RankOrder
    <3> QED BY <2>1, <3>1, <1>1, <1>8
  <2> QED BY <2>2, <2>3, <2>4
<1>9. ASSUME NEW f \in files PROVE \E i \in 1..N : c[i] = Row(f)
  <2> DEFINE k == RankIn(files, f)
  <2>1. k \in 1..N
    BY RankOrder DEF N
  <2>2. At(k) \in files /\ RankIn(files, At(k)) = RankIn(files, f)
    BY <2>1, <1>3
  <2>3. At(k) = f
    BY <2>2, RankOrder
  <2> QED BY <2>1, <2>3, <1>7
<1>10. \A i \in 1..N : \E f \in files : c[i] = Row(f)
  BY <1>3, <1>7
<1>11. \A i, j \in 1..N : i < j => c[i].index < c[j].index
  BY <1>7, <1>8
<1>12. Lists(c, files)
  BY <1>6, <1>9, <1>10, <1>11 DEF Lists
<1> QED BY <1>12 DEF c

(* The next index is ahead of every index found.                           *)
LEMMA NextAhead ==
    ASSUME NEW files, Directory(files)
    PROVE  /\ NextActiveIndex(files) \in Nat
           /\ \A f \in files : f.index < NextActiveIndex(files)
<1> DEFINE N == Cardinality(files)
           m == Ranked(files, N)
<1>1. CASE files = {}
  BY <1>1 DEF NextActiveIndex
<1>2. CASE files # {}
  <2>1. N \in Nat /\ N # 0
    BY <1>2, FS_CardinalityType, FS_EmptySet DEF Directory
  <2>2. m \in files /\ Cardinality(UpTo(files, m)) = Cardinality(files)
    <3>1. N \in 1..N
      BY <2>1
    <3> QED BY <3>1, RankedFile DEF RankIn
  <2>3. UpTo(files, m) \in SUBSET files
    BY DEF UpTo
  <2> HIDE DEF m
  <2>4. UpTo(files, m) = files
    BY <2>2, <2>3, FS_Subset DEF Directory
  <2>5. m.index \in Indices(files) /\ \A j \in Indices(files) : j <= m.index
    BY <2>2, <2>4 DEF UpTo, Indices
  <2> DEFINE top == CHOOSE i \in Indices(files) : \A j \in Indices(files) : j <= i
  <2>6. top \in Indices(files) /\ \A j \in Indices(files) : j <= top
    BY <2>5
  <2>7. NextActiveIndex(files) = top + 1
    BY <1>2 DEF NextActiveIndex
  <2> HIDE DEF top
  <2>8. Indices(files) \in SUBSET Nat
    BY DEF Indices, Directory, SegmentFiles
  <2>9. \A f \in files : f.index \in Indices(files)
    BY DEF Indices
  <2>10. \A j \in Indices(files) : j < top + 1
    BY <2>6, <2>8
  <2> QED BY <2>6, <2>7, <2>8, <2>9, <2>10
<1> QED BY <1>1, <1>2

(* What SegmentWriter::create makes of the directory it finds.             *)
Reopens(files, v) ==
    /\ v \in WriterTypes(E)
    /\ WriterOk(v)
    /\ v.files \subseteq files
    /\ \A f \in files \ v.files, g \in v.files : f.index < g.index

LEMMA CreateReopens ==
    ASSUME NEW files, Directory(files)
    PROVE  Reopens(files, CreateWriter(files))
<1> DEFINE c == InIndexOrder(files)
           first == NextActiveIndex(files)
           o == OpenWriter(c, files, first)
<1>1. /\ c \in Seq([index : Nat, size : Nat])
      /\ \A i, j \in 1..Len(c) : i < j => c[i].index < c[j].index
      /\ \A f \in files : \E i \in 1..Len(c) : c[i] = Row(f)
      /\ \A i \in 1..Len(c) : \E f \in files : c[i] = Row(f)
  BY ListedInOrder DEF Lists
<1>2. first \in Nat /\ \A f \in files : f.index < first
  BY NextAhead
<1>3. CreateWriter(files) = EvictOldest(o)
  BY DEF CreateWriter, NewWriter
<1> HIDE DEF c, first
<1>4. /\ o.closed = c /\ o.files = files /\ o.next = first + 1 /\ o.bytes = Header
  BY DEF OpenWriter
<1>5. o \in WriterTypes(E)
  <2>1. first + 1 \in Nat \ {0} /\ files \in SUBSET SegmentFiles(E) /\ Header \in Nat
    BY <1>2, SizesAreNaturals DEF Directory
  <2> QED BY <1>1, <2>1 DEF OpenWriter, WriterTypes, SealKinds
<1> HIDE DEF o
<1>6. Sound(o)
  BY <1>1, <1>4 DEF Sound, Directory
<1>7. first + 1 - 1 = first
  BY <1>2
<1>8. \A i \in 1..Len(c) : c[i].index < first /\ c[i].index \in Nat
  <2> SUFFICES ASSUME NEW i \in 1..Len(c) PROVE c[i].index < first /\ c[i].index \in Nat
    OBVIOUS
  <2>1. PICK f \in files : c[i] = Row(f)
    BY <1>1
  <2>2. c[i].index = f.index
    BY <2>1 DEF Row
  <2>3. f.index \in Nat
    BY DEF Directory, SegmentFiles
  <2> QED BY <2>2, <2>3, <1>2
<1>9. Below(o, o.next - 1) /\ Below(o, o.next)
  <2>1. \A i \in 1..Len(c) : c[i].index < first + 1
    BY <1>2, <1>8
  <2>2. o.next - 1 = first
    <3>1. o.next = first + 1
      BY <1>4
    <3> QED BY <3>1, <1>2
  <2> QED BY <1>4, <1>8, <2>1, <2>2 DEF Below
<1>10. Advances(o, EvictOldest(o), "Drained") /\ EvictOldest(o).files \subseteq o.files
  BY <1>4, <1>5, <1>6, <1>9, EvictAdvances
<1>11. EvictOldest(o) \in WriterTypes(E)
  BY <1>5, EvictOldestType
<1> QED BY <1>3, <1>4, <1>10, <1>11 DEF Reopens, Advances

-----------------------------------------------------------------------------
(* The invariant, and what a step does to the directory.                   *)

(* What no step may do to the sealed segments.                             *)
KeepsFiles(u, v) ==
    /\ \A f \in u.files, g \in v.files : f.index = g.index => f = g
    /\ \A f \in u.files, g \in u.files \cap v.files :
         f.index \notin Indices(v.files) => f.index < g.index

LEMMA InitInv == Init => DInv
<1> SUFFICES ASSUME Init PROVE DInv
  OBVIOUS
<1>1. Directory({})
  BY FS_EmptySet DEF Directory
<1>2. Reopens({}, w)
  BY <1>1, CreateReopens DEF Init
<1>3. Tainted(w, overflowed)
  BY <1>2 DEF Init, Tainted, Reopens
<1> QED BY <1>2, <1>3, DiskAssumption DEF DInv, Init, Reopens

(* A step that advances the writer and seals nothing by overflow.          *)
LEMMA AdvanceStep ==
    ASSUME DInv, w' \in WriterTypes(E), Advances(w, w', "Drained"),
           overflowed' = overflowed, running' \in BOOLEAN, batches' \in 0..MaxBatches
    PROVE  DInv' /\ KeepsFiles(w, w')
<1>1. w \in WriterTypes(E) /\ WriterOk(w) /\ Tainted(w, overflowed)
  BY DEF DInv
<1>2. Tainted(w', overflowed)
  BY <1>1, TaintKept
<1>3. WriterOk(w')
  BY DEF Advances
<1>4. KeepsFiles(w, w')
  BY <1>1, AdvancesKeepFiles DEF KeepsFiles
<1> QED BY <1>2, <1>3, <1>4 DEF DInv, E

LEMMA WriteStep ==
    ASSUME DInv, NEW size \in BatchSizes, NEW io \in IoOutcomes, Write(size, io)
    PROVE  DInv' /\ KeepsFiles(w, w')
<1> DEFINE batch == [events |-> {batches + 1}, count |-> size, torn |-> FALSE]
<1>1. /\ w \in WriterTypes(E) /\ WriterOk(w) /\ Tainted(w, overflowed)
      /\ batches \in 0..MaxBatches /\ running \in BOOLEAN
  BY DEF DInv
<1>2. /\ w' = WriteEncodedBatch(w, batch, io)
      /\ overflowed' = IF w.state = "Active" /\ Overflows(w, batch)
                       THEN overflowed \cup {w.next - 1} ELSE overflowed
      /\ running' = running
  BY DEF Write
<1>3. batches + 1 \in E /\ batches' \in 0..MaxBatches
  BY <1>1, DiskAssumption DEF Write, E
<1>4. batch.events \in SUBSET E /\ batch.count \in Nat \ {0}
  BY <1>3, DiskAssumption
<1> HIDE DEF batch
<1>5. batch.count \in Nat
  BY <1>4
<1>6. w' \in WriterTypes(E)
  BY <1>1, <1>2, <1>4, <1>5, WriteEncodedBatchType
<1>7. CASE w.state = "Active" /\ Overflows(w, batch)
  <2>1. Advances(w, w', "Overflow")
    BY <1>1, <1>2, <1>4, <1>7, WriteAdvances
  <2>2. overflowed' = overflowed \cup {w.next - 1}
    BY <1>2, <1>7
  <2>3. Tainted(w', overflowed \cup {w.next - 1})
    BY <1>1, <1>6, <1>7, <2>1, TaintGrows
  <2>4. WriterOk(w')
    BY <2>1 DEF Advances
  <2>5. KeepsFiles(w, w')
    BY <1>1, <2>1, AdvancesKeepFiles DEF KeepsFiles
  <2> QED BY <1>1, <1>2, <1>3, <1>6, <2>2, <2>3, <2>4, <2>5 DEF DInv, E
<1>8. CASE ~(w.state = "Active" /\ Overflows(w, batch))
  <2>1. Advances(w, w', "Drained")
    BY <1>1, <1>2, <1>4, <1>8, WriteAdvances
  <2> QED BY <1>1, <1>2, <1>3, <1>6, <1>8, <2>1, AdvanceStep
<1> QED BY <1>7, <1>8

LEMMA WriteErrorStep ==
    ASSUME DInv, NEW size \in BatchSizes, WriteError(size)
    PROVE  DInv' /\ KeepsFiles(w, w')
<1> DEFINE batch == [events |-> {batches + 1}, count |-> size, torn |-> FALSE]
<1>1. /\ w \in WriterTypes(E) /\ WriterOk(w) /\ batches \in 0..MaxBatches
      /\ running \in BOOLEAN
  BY DEF DInv
<1>2. w' = WriteLost(w, batch) /\ overflowed' = overflowed /\ running' = running
  BY DEF WriteError
<1>3. batches + 1 \in E /\ batches' \in 0..MaxBatches
  BY <1>1, DiskAssumption DEF WriteError, E
<1>4. batch.events \in SUBSET E /\ batch.count \in Nat \ {0}
  BY <1>3, DiskAssumption
<1> HIDE DEF batch
<1>5. batch.count \in Nat
  BY <1>4
<1>6. w' \in WriterTypes(E)
  BY <1>1, <1>2, <1>4, <1>5, WriteEncodedBatchType
<1>7. Advances(w, w', "Drained")
  BY <1>1, <1>2, <1>4, WriteAdvances
<1> QED BY <1>1, <1>2, <1>3, <1>6, <1>7, AdvanceStep

(* The calls of the flush loop that hand the writer no batch.              *)
LEMMA CallStep ==
    ASSUME DInv, \/ \E io \in IoOutcomes : DrainedCall(io) \/ FinalizeCall(io)
                 \/ MetadataChange
                 \/ Timers
                 \/ Crash
    PROVE  DInv' /\ KeepsFiles(w, w')
<1>1. /\ w \in WriterTypes(E) /\ WriterOk(w) /\ batches \in 0..MaxBatches
      /\ running \in BOOLEAN
  BY DEF DInv
<1>2. overflowed' = overflowed /\ batches' = batches /\ running' \in BOOLEAN
  BY <1>1 DEF DrainedCall, FinalizeCall, MetadataChange, Timers, Crash
<1>3. Advances(w, w', "Drained") /\ w' \in WriterTypes(E)
  <2>1. ASSUME NEW io, DrainedCall(io) PROVE Advances(w, w', "Drained") /\ w' \in WriterTypes(E)
    BY <1>1, <2>1, DrainedAdvances, DrainedType DEF DrainedCall
  <2>2. ASSUME NEW io, FinalizeCall(io) PROVE Advances(w, w', "Drained") /\ w' \in WriterTypes(E)
    BY <1>1, <2>2, FinalizeAdvances, FinalizeType DEF FinalizeCall
  <2>3. CASE MetadataChange
    BY <1>1, <2>3, FlagAdvances, DrainedType DEF MetadataChange
  <2>4. CASE Timers
    <3>1. w' \in {[w EXCEPT !.drainDue = TRUE], [w EXCEPT !.rotateDue = TRUE]}
      BY <2>4 DEF Timers
    <3> QED BY <1>1, <3>1, FlagAdvances
  <2>5. CASE Crash
    <3>1. w' = w
      BY <2>5 DEF Crash
    <3>2. Advances(w, w, "Drained")
      BY <1>1, SameAdvances
    <3> QED BY <1>1, <3>1, <3>2
  <2> QED BY <2>1, <2>2, <2>3, <2>4, <2>5
<1> QED BY <1>1, <1>2, <1>3, AdvanceStep

LEMMA DeletedStep ==
    ASSUME DInv, NEW f \in w.files, Deleted(f)
    PROVE  /\ DInv'
           /\ \A d \in w.files, g \in w'.files : d.index = g.index => d = g
<1>1. /\ w \in WriterTypes(E) /\ WriterOk(w) /\ Tainted(w, overflowed)
      /\ batches \in 0..MaxBatches /\ running \in BOOLEAN
  BY DEF DInv
<1>2. /\ w' = [w EXCEPT !.files = @ \ {f}]
      /\ overflowed' = overflowed /\ batches' = batches /\ running' = running
  BY DEF Deleted
<1>3. /\ w' \in WriterTypes(E) /\ w'.files = w.files \ {f} /\ w'.closed = w.closed
      /\ w'.next = w.next /\ w'.state = w.state /\ w'.prior = w.prior
  <2>1. w.files \ {f} \in SUBSET SegmentFiles(E)
    BY <1>1 DEF WriterTypes
  <2> QED BY <1>1, <1>2, <2>1 DEF WriterTypes
<1>4. IsFiniteSet(w'.files)
  BY <1>1, <1>3, FS_RemoveElement DEF WriterOk, Sound
<1>5. WriterOk(w')
  BY <1>1, <1>3, <1>4 DEF WriterOk, Sound, Below
<1>6. Tainted(w', overflowed)
  BY <1>1, <1>3 DEF Tainted
<1>7. \A d \in w.files, g \in w'.files : d.index = g.index => d = g
  BY <1>1, <1>3 DEF WriterOk, Sound
<1> QED BY <1>1, <1>2, <1>3, <1>5, <1>6, <1>7 DEF DInv, E

LEMMA RestartStep ==
    ASSUME DInv, Restart
    PROVE  DInv' /\ KeepsFiles(w, w')
<1>1. w \in WriterTypes(E) /\ WriterOk(w) /\ batches \in 0..MaxBatches
  BY DEF DInv
<1>2. w' = CreateWriter(w.files) /\ overflowed' = {} /\ batches' = batches /\ running' = TRUE
  BY DEF Restart
<1>3. Directory(w.files)
  BY <1>1 DEF Directory, WriterOk, Sound, WriterTypes
<1>4. Reopens(w.files, w')
  BY <1>2, <1>3, CreateReopens
<1>5. Tainted(w', {})
  BY DEF Tainted
<1>6. KeepsFiles(w, w')
  <2>1. \A f, g \in w.files : f.index = g.index => f = g
    BY <1>3 DEF Directory
  <2>2. ASSUME NEW f \in w.files, NEW g \in w.files \cap w'.files, f.index \notin Indices(w'.files)
        PROVE  f.index < g.index
    <3>1. f \notin w'.files
      BY <2>2 DEF Indices
    <3> QED BY <3>1, <1>4 DEF Reopens
  <2> QED BY <2>1, <2>2, <1>4 DEF KeepsFiles, Reopens
<1> QED BY <1>1, <1>2, <1>4, <1>5, <1>6 DEF DInv, Reopens, E

LEMMA NextStep ==
    ASSUME DInv, Next
    PROVE  /\ DInv'
           /\ \A f \in w.files, g \in w'.files : f.index = g.index => f = g
           /\ lastCall' # "deleted" => KeepsFiles(w, w')
<1>1. ASSUME NEW f \in w.files, Deleted(f)
      PROVE  /\ DInv' /\ lastCall' = "deleted"
             /\ \A d \in w.files, g \in w'.files : d.index = g.index => d = g
  BY <1>1, DeletedStep DEF Deleted
<1>2. ASSUME ~(\E f \in w.files : Deleted(f))
      PROVE  DInv' /\ KeepsFiles(w, w')
  BY <1>2, WriteStep, WriteErrorStep, CallStep, RestartStep DEF Next
<1> QED BY <1>1, <1>2 DEF KeepsFiles

LEMMA StepInv == DInv /\ [Next]_vars => DInv'
<1> SUFFICES ASSUME DInv, [Next]_vars PROVE DInv'
  OBVIOUS
<1>1. CASE Next
  BY <1>1, NextStep
<1>2. CASE UNCHANGED vars
  BY <1>2 DEF vars, DInv, E, WriterOk, Sound, Below, Tainted
<1> QED BY <1>1, <1>2

(* The writer and the directory are well formed and the directory keeps    *)
(* the budget.                                                             *)
LEMMA InvImpliesWriterInv == DInv => WriterInv
<1> SUFFICES ASSUME DInv PROVE WriterInv
  OBVIOUS
<1>1. w \in WriterTypes(E) /\ WriterOk(w) /\ Sound(w)
  BY DEF DInv, WriterOk
<1>2. TypeOK
  BY <1>1 DEF TypeOK, DInv, WriterTypes, E, Sound
<1>3. /\ Cardinality(BytesOnDisk(w.files)) \in Nat
      /\ Cardinality(BytesOnDisk(w.files)) <= ClosedBytes(w.closed)
  BY <1>1, DiskWithinList
<1>4. ClosedBytes(w.closed) \in Nat
  BY <1>1, FileTypes, BytesFinite
<1>5. ASSUME w.state = "Active"
      PROVE  Cardinality(BytesOnDisk(w.files)) + Header <= MaxTotalSize
  <2>1. ClosedBytes(w.closed) + Header <= MaxTotalSize
    BY <1>1, <1>5 DEF WriterOk
  <2> QED BY <2>1, <1>3, <1>4, SizesAreNaturals
<1> QED BY <1>2, <1>5 DEF WriterInv, DiskBudget

(***************************************************************************)
(* The writer and its directory are well formed, and while the writer is   *)
(* open the sealed segments and the header of the active one fit           *)
(* max_total_size: over overflows, evictions, failed rotations, deletions  *)
(* behind the writer's back, crashes and restarts, for every budget.       *)
(***************************************************************************)
THEOREM WriterTheorem == Spec => []WriterInv
<1>1. Init => DInv
  BY InitInv
<1>2. DInv /\ [Next]_vars => DInv'
  BY StepInv
<1>3. DInv => WriterInv
  BY InvImpliesWriterInv
<1> QED BY <1>1, <1>2, <1>3, PTL DEF Spec

(***************************************************************************)
(* A segment sealed by overflow and the one after it are not stamped       *)
(* complete, whatever happens to the rotations in between.                 *)
(***************************************************************************)
THEOREM TaintTheorem == Spec => []OverflowTaintsTwo
<1>1. Init => DInv
  BY InitInv
<1>2. DInv /\ [Next]_vars => DInv'
  BY StepInv
<1>3. DInv => OverflowTaintsTwo
  BY DEF DInv, Tainted, OverflowTaintsTwo
<1> QED BY <1>1, <1>2, <1>3, PTL DEF Spec

(***************************************************************************)
(* No step writes over a sealed segment, not even the first rotations of a *)
(* process that starts in a directory with gaps, and the writer gives up   *)
(* segments oldest first, the ones a restart found included.               *)
(***************************************************************************)
THEOREM SealedTheorem == Spec => SealedSegmentsKept
<1>1. Init => DInv
  BY InitInv
<1>2. DInv /\ [Next]_vars => DInv'
  BY StepInv
<1>3. DInv /\ [Next]_vars =>
        [\A f \in w.files, g \in w'.files : f.index = g.index => f = g]_vars
  BY NextStep
<1>4. DInv /\ [Next]_vars =>
        [lastCall' # "deleted" =>
            \A f \in w.files, g \in w.files \cap w'.files :
                f.index \notin Indices(w'.files) => f.index < g.index]_vars
  BY NextStep DEF KeepsFiles
<1> QED BY <1>1, <1>2, <1>3, <1>4, PTL DEF Spec, SealedSegmentsKept, SealedImmutable, OldestGoFirst
=============================================================================
