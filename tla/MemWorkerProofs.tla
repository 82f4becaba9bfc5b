--------------------------- MODULE MemWorkerProofs ---------------------------
(***************************************************************************)
(* The memory ring and its worker, for every budget, segment size, retry   *)
(* budget and number of stages: the ring's accounts are right, memory is   *)
(* bounded, a drain leaves nothing behind, Stopped is the last word, and   *)
(* ring and worker together implement the abstract storage of Delivery.    *)
(*                                                                         *)
(* The first part is about the ring's operators: bytes are a set, so that  *)
(* what a seal evicts and a take or a retry moves is counted by adding     *)
(* cardinalities, and the eviction loop of MemFs::seal stops because the   *)
(* slots it pops are an initial segment of the ring.                       *)
(***************************************************************************)
EXTENDS MemWorker, FiniteSetTheorems, FunctionTheorems, SequenceTheorems,
        WellFoundedInduction, TLAPS

(* The least element of a set of numbers.                                  *)
LEMMA Least ==
    ASSUME NEW T, T \subseteq Nat, T # {}
    PROVE  \E x \in T : \A y \in T : x <= y
<1> DEFINE R == {ss \in Nat \X Nat : ss[1] < ss[2]}
<1>1. IsWellFoundedOn(R, Nat)
  BY NatLessThanWellFounded DEF OpToRel
<1>2. PICK x \in T : \A y \in T : <<y, x>> \notin R
  <2> HIDE DEF R
  <2> QED BY <1>1, WFMin
<1>3. ASSUME NEW y \in T, y < x
      PROVE  FALSE
  <2>1. <<y, x>> \in Nat \X Nat /\ <<y, x>>[1] = y /\ <<y, x>>[2] = x
    OBVIOUS
  <2>2. <<y, x>> \in R
    BY <1>3, <2>1
  <2> QED BY <1>2, <2>2
<1> QED BY <1>3

-----------------------------------------------------------------------------
(* The bytes of the slots                                                  *)

AnySlot == Slots(Nat, Nat, Nat, Nat)

LEMMA SizesKnown ==
    ASSUME NEW s \in Seq(AnySlot), NEW k \in 1..Len(s)
    PROVE  s[k] \in AnySlot /\ s[k].size \in Nat
<1>1. s[k] \in AnySlot
  BY ElementOfSeq
<1> QED BY <1>1 DEF AnySlot, Slots

LEMMA BytesMember ==
    ASSUME NEW s \in Seq(AnySlot), NEW x
    PROVE  x \in BytesOf(s) <=>
             \E k \in 1..Len(s), b \in Nat : b \in 1..s[k].size /\ x = <<k, b>>
<1>1. \A k \in 1..Len(s) : s[k].size \in Nat
  BY SizesKnown
<1> QED BY <1>1 DEF BytesOf

LEMMA BytesFinite ==
    ASSUME NEW s \in Seq(AnySlot)
    PROVE  IsFiniteSet(BytesOf(s)) /\ SlotBytes(s) \in Nat
<1> DEFINE Rows == {{k} \X (1 .. s[k].size) : k \in 1..Len(s)}
<1>1. IsFiniteSet(1..Len(s))
  BY LenProperties, FS_Interval
<1>2. IsFiniteSet(Rows)
  <2> DEFINE f == [k \in 1..Len(s) |-> {k} \X (1 .. s[k].size)]
  <2>1. f \in Surjection(1..Len(s), Rows)
    BY DEF Surjection
  <2> HIDE DEF Rows, f
  <2> QED BY <1>1, <2>1, FS_Surjection
<1>3. ASSUME NEW k \in 1..Len(s)
      PROVE  IsFiniteSet({k} \X (1 .. s[k].size))
  <2>1. 1 \in Int /\ s[k].size \in Int
    BY SizesKnown
  <2>2. IsFiniteSet(1 .. s[k].size) /\ IsFiniteSet({k})
    BY <2>1, FS_Interval, FS_Singleton
  <2> QED BY <2>2, FS_Product
<1>4. IsFiniteSet(UNION Rows)
  BY <1>2, <1>3, FS_UNION
<1> QED BY <1>4, FS_CardinalityType DEF BytesOf, SlotBytes

(* The bytes of two sequences of slots, one after the other.               *)
LEMMA BytesConcat ==
    ASSUME NEW s \in Seq(AnySlot), NEW t \in Seq(AnySlot)
    PROVE  SlotBytes(s \o t) = SlotBytes(s) + SlotBytes(t)
<1> DEFINE Up(x) == <<x[1] + Len(s), x[2]>>
           c == s \o t
           U == {Up(x) : x \in BytesOf(t)}
<1>1. c \in Seq(AnySlot) /\ Len(c) = Len(s) + Len(t) /\ Len(s) \in Nat /\ Len(t) \in Nat
  BY ConcatProperties
<1>2. \A k \in 1..(Len(s) + Len(t)) : c[k] = IF k <= Len(s) THEN s[k] ELSE t[k - Len(s)]
  BY ConcatProperties
<1>3. BytesOf(c) = BytesOf(s) \cup U
  <2>1. ASSUME NEW x \in BytesOf(c)
        PROVE  x \in BytesOf(s) \cup U
    <3>1. PICK k \in 1..Len(c), b \in Nat : b \in 1..c[k].size /\ x = <<k, b>>
      <4> HIDE DEF c
      <4> QED BY <1>1, <2>1, BytesMember
    <3>2. CASE k <= Len(s)
      BY <1>1, <1>2, <3>1, <3>2, BytesMember
    <3>3. CASE ~(k <= Len(s))
      <4>1. k - Len(s) \in 1..Len(t) /\ c[k] = t[k - Len(s)]
        BY <1>1, <1>2, <3>1, <3>3
      <4>2. <<k - Len(s), b>> \in BytesOf(t)
        BY <3>1, <4>1, BytesMember
      <4>3. Up(<<k - Len(s), b>>) = <<k, b>>
        BY <1>1, <4>1
      <4> QED BY <3>1, <4>2, <4>3
    <3> QED BY <3>2, <3>3
  <2>2. ASSUME NEW x \in BytesOf(s)
        PROVE  x \in BytesOf(c)
    <3>1. PICK k \in 1..Len(s), b \in Nat : b \in 1..s[k].size /\ x = <<k, b>>
      BY BytesMember
    <3>2. k \in 1..Len(c) /\ c[k] = s[k]
      BY <1>1, <1>2
    <3> QED BY <1>1, <3>1, <3>2, BytesMember
  <2>3. ASSUME NEW y \in BytesOf(t)
        PROVE  Up(y) \in BytesOf(c)
    <3>1. PICK k \in 1..Len(t), b \in Nat : b \in 1..t[k].size /\ y = <<k, b>>
      BY BytesMember
    <3>2. k + Len(s) \in 1..Len(c) /\ c[k + Len(s)] = t[k]
      BY <1>1, <1>2
    <3>3. Up(y) = <<k + Len(s), b>>
      BY <3>1
    <3> QED BY <1>1, <3>1, <3>2, <3>3, BytesMember
  <2> QED BY <2>1, <2>2, <2>3
<1>4. BytesOf(s) \cap U = {}
  <2>1. ASSUME NEW x \in BytesOf(s), NEW y \in BytesOf(t), x = Up(y)
        PROVE  FALSE
    <3>1. PICK k \in 1..Len(s), b \in Nat : b \in 1..s[k].size /\ x = <<k, b>>
      BY BytesMember
    <3>2. PICK l \in 1..Len(t), d \in Nat : d \in 1..t[l].size /\ y = <<l, d>>
      BY BytesMember
    <3>3. k = l + Len(s)
      BY <2>1, <3>1, <3>2
    <3> QED BY <1>1, <3>3
  <2> QED BY <2>1
<1>5. IsFiniteSet(U) /\ Cardinality(U) = Cardinality(BytesOf(t))
  <2> DEFINE f == [x \in BytesOf(t) |-> Up(x)]
  <2>1. ASSUME NEW x \in BytesOf(t), NEW y \in BytesOf(t), Up(x) = Up(y)
        PROVE  x = y
    <3>1. PICK k \in 1..Len(t), b \in Nat : b \in 1..t[k].size /\ x = <<k, b>>
      BY BytesMember
    <3>2. PICK l \in 1..Len(t), d \in Nat : d \in 1..t[l].size /\ y = <<l, d>>
      BY BytesMember
    <3>3. k + Len(s) = l + Len(s) /\ b = d
      BY <2>1, <3>1, <3>2
    <3> QED BY <1>1, <3>1, <3>2, <3>3
  <2>2. f \in Bijection(BytesOf(t), U)
    BY <2>1 DEF Bijection, Injection, Surjection, IsInjective
  <2>3. ExistsBijection(BytesOf(t), U)
    BY <2>2 DEF ExistsBijection
  <2> QED BY <2>3, BytesFinite, FS_Bijection
<1>6. Cardinality(BytesOf(s) \cap U) = 0
  BY <1>4, FS_EmptySet
<1>7. Cardinality(BytesOf(s) \cup U) = Cardinality(BytesOf(s)) + Cardinality(U) - Cardinality(BytesOf(s) \cap U)
  <2> HIDE DEF U
  <2> QED BY <1>5, BytesFinite, FS_Union
<1> HIDE DEF U
<1> QED BY <1>3, <1>5, <1>6, <1>7, BytesFinite DEF SlotBytes

LEMMA BytesEmpty == SlotBytes(<<>>) = 0
<1>1. BytesOf(<<>>) = {}
  BY DEF BytesOf
<1> QED BY <1>1, FS_EmptySet DEF SlotBytes

LEMMA BytesOne ==
    ASSUME NEW x \in AnySlot
    PROVE  SlotBytes(<<x>>) = x.size
<1>1. x.size \in Nat
  BY DEF AnySlot, Slots
<1>2. BytesOf(<<x>>) = {1} \X (1 .. x.size)
  BY DEF BytesOf
<1>3. IsFiniteSet({1}) /\ Cardinality({1}) = 1
  BY FS_Singleton
<1>4. IsFiniteSet(1 .. x.size) /\ Cardinality(1 .. x.size) = x.size
  <2>1. 1 \in Int /\ x.size \in Int
    BY <1>1
  <2>2. IsFiniteSet(1 .. x.size) /\ Cardinality(1 .. x.size) = IF 1 > x.size THEN 0 ELSE x.size - 1 + 1
    BY <2>1, FS_Interval
  <2> QED BY <1>1, <2>2
<1>5. Cardinality({1} \X (1 .. x.size)) = Cardinality({1}) * Cardinality(1 .. x.size)
  BY <1>3, <1>4, FS_Product
<1>6. 1 * x.size = x.size
  BY <1>1
<1> QED BY <1>2, <1>3, <1>4, <1>5, <1>6 DEF SlotBytes

(* A sequence of slots in two pieces.                                      *)
LEMMA Pieces ==
    ASSUME NEW T, NEW s \in Seq(T), NEW n \in 0 .. Len(s)
    PROVE  /\ SubSeq(s, 1, n) \in Seq(T) /\ Len(SubSeq(s, 1, n)) = n
           /\ SubSeq(s, n + 1, Len(s)) \in Seq(T) /\ Len(SubSeq(s, n + 1, Len(s))) = Len(s) - n
           /\ \A k \in 1..n : SubSeq(s, 1, n)[k] = s[k]
           /\ \A k \in 1..(Len(s) - n) : SubSeq(s, n + 1, Len(s))[k] = s[n + k]
           /\ SubSeq(s, 1, n) \o SubSeq(s, n + 1, Len(s)) = s
<1>1. Len(s) \in Nat /\ n \in Nat /\ n <= Len(s)
  BY LenProperties
<1>2. \A k \in 1..Len(s) : s[k] \in T
  BY ElementOfSeq
<1>3. /\ 1 \in Int /\ n \in Int /\ n + 1 \in Int /\ Len(s) \in Int
      /\ \A k \in 1..n : s[k] \in T
      /\ \A k \in (n + 1)..Len(s) : s[k] \in T
  BY <1>1, <1>2
<1>4. /\ SubSeq(s, 1, n) \in Seq(T)
      /\ Len(SubSeq(s, 1, n)) = IF 1 <= n THEN n - 1 + 1 ELSE 0
      /\ \A k \in 1..(n - 1 + 1) : SubSeq(s, 1, n)[k] = s[1 + k - 1]
  BY <1>3, SubSeqProperties
<1>5. /\ SubSeq(s, n + 1, Len(s)) \in Seq(T)
      /\ Len(SubSeq(s, n + 1, Len(s))) = IF n + 1 <= Len(s) THEN Len(s) - (n + 1) + 1 ELSE 0
      /\ \A k \in 1..(Len(s) - (n + 1) + 1) : SubSeq(s, n + 1, Len(s))[k] = s[(n + 1) + k - 1]
  BY <1>3, SubSeqProperties
<1>6. SubSeq(s, 1, n) \o SubSeq(s, n + 1, Len(s)) = SubSeq(s, 1, Len(s))
  <2>1. 1 \in 1..(Len(s) + 1) /\ n \in (1 - 1)..Len(s) /\ Len(s) \in n..Len(s)
    BY <1>1
  <2> QED BY <2>1, ConcatAdjacentSubSeq
<1>7. SubSeq(s, 1, Len(s)) = s
  BY SubSeqFull
<1>8. n - 1 + 1 = n /\ Len(s) - (n + 1) + 1 = Len(s) - n
  BY <1>1
<1>9. \A k \in 1..n : SubSeq(s, 1, n)[k] = s[k]
  BY <1>1, <1>4
<1>10. \A k \in 1..(Len(s) - n) : SubSeq(s, n + 1, Len(s))[k] = s[n + k]
  BY <1>1, <1>5
<1>11. Len(SubSeq(s, 1, n)) = n /\ Len(SubSeq(s, n + 1, Len(s))) = Len(s) - n
  BY <1>1, <1>4, <1>5
<1>12. SubSeq(s, 1, n) \o SubSeq(s, n + 1, Len(s)) = s
  BY <1>6, <1>7
<1> QED BY <1>4, <1>5, <1>9, <1>10, <1>11, <1>12

(* A set of numbers without gaps from 1 on is an interval.                 *)
LEMMA InitialSegment ==
    ASSUME NEW m \in Nat, NEW K \in SUBSET (1..m),
           \A k \in K : \A j \in 1..k : j \in K
    PROVE  Cardinality(K) \in 0..m /\ K = 1..Cardinality(K)
<1> DEFINE n == Cardinality(K)
<1>1. \A a \in Nat : IsFiniteSet(1..a) /\ Cardinality(1..a) = a
  <2>1. SUFFICES ASSUME NEW a \in Nat PROVE IsFiniteSet(1..a) /\ Cardinality(1..a) = a
    OBVIOUS
  <2>2. 1 \in Int /\ a \in Int
    OBVIOUS
  <2>3. IsFiniteSet(1..a) /\ Cardinality(1..a) = IF 1 > a THEN 0 ELSE a - 1 + 1
    BY <2>2, FS_Interval
  <2> QED BY <2>3
<1>2. IsFiniteSet(K) /\ n \in Nat /\ n <= m
  <2>1. IsFiniteSet(1..m) /\ Cardinality(1..m) = m
    BY <1>1
  <2>2. IsFiniteSet(K) /\ Cardinality(K) <= Cardinality(1..m)
    BY <2>1, FS_Subset
  <2> QED BY <2>1, <2>2, FS_CardinalityType
<1>3. ASSUME NEW k \in K
      PROVE  k \in 1..n
  <2>1. k \in Nat /\ 1..k \in SUBSET K
    OBVIOUS
  <2>2. Cardinality(1..k) <= n /\ Cardinality(1..k) = k
    BY <1>1, <1>2, <2>1, FS_Subset
  <2> QED BY <1>2, <2>1, <2>2
<1>4. K \in SUBSET (1..n)
  BY <1>3
<1>5. IsFiniteSet(1..n) /\ Cardinality(1..n) = Cardinality(K)
  BY <1>1, <1>2
<1>6. K = 1..n
  <2> HIDE DEF n
  <2> QED BY <1>4, <1>5, FS_Subset
<1> QED BY <1>2, <1>6

LEMMA OverflowFacts ==
    ASSUME NEW q, q.slots \in Seq(AnySlot), q.bytes = SlotBytes(q.slots),
           NEW size \in 1..RingBudget
    PROVE  /\ Overflow(q, size) \in 0..Len(q.slots)
           /\ q.bytes - SlotBytes(SubSeq(q.slots, 1, Overflow(q, size))) + size <= RingBudget
<1> DEFINE P(j) == q.bytes - SlotBytes(SubSeq(q.slots, 1, j)) + size > RingBudget
           K == {k \in 1..Len(q.slots) : \A j \in 0..(k - 1) : P(j)}
           n == Overflow(q, size)
<1>1. Len(q.slots) \in Nat /\ RingBudget \in Nat
  BY LenProperties, RingBudgetAssumption
<1>2. \A k \in K : \A j \in 1..k : j \in K
  BY <1>1
<1>3. Cardinality(K) \in 0..Len(q.slots) /\ K = 1..Cardinality(K)
  <2>1. K \in SUBSET (1..Len(q.slots))
    OBVIOUS
  <2> HIDE DEF K
  <2> QED BY <1>1, <1>2, <2>1, InitialSegment
<1>4. n \in 0..Len(q.slots) /\ K = 1..n
  BY <1>3 DEF Overflow
<1>5. SlotBytes(q.slots) \in Nat /\ SlotBytes(SubSeq(q.slots, 1, n)) \in Nat
  BY <1>4, BytesFinite, Pieces
<1>6. CASE n = Len(q.slots)
  <2>1. SubSeq(q.slots, 1, n) = q.slots
    BY <1>6, SubSeqFull
  <2>2. SlotBytes(SubSeq(q.slots, 1, n)) = q.bytes /\ q.bytes \in Nat
    BY <1>5, <2>1
  <2> HIDE DEF n
  <2>3. q.bytes - SlotBytes(SubSeq(q.slots, 1, n)) + size <= RingBudget
    BY <1>1, <2>2
  <2> QED BY <1>4, <2>3 DEF n
<1>7. CASE n # Len(q.slots)
  <2>1. n + 1 \in 1..Len(q.slots) /\ n + 1 \notin K
    BY <1>1, <1>4, <1>7
  <2>2. PICK j \in 0..n : ~P(j)
    BY <1>1, <1>4, <2>1
  <2>3. j = n
    <3>1. CASE j # n
      <4>1. j \in 0..(n - 1) /\ n \in 1..n
        BY <1>1, <1>4, <2>2, <3>1
      <4>2. n \in K
        BY <1>4, <4>1
      <4>3. P(j)
        BY <4>1, <4>2
      <4> QED BY <2>2, <4>3
    <3> QED BY <3>1
  <2> QED BY <1>1, <1>4, <1>5, <2>2, <2>3
<1> QED BY <1>6, <1>7

-----------------------------------------------------------------------------
(* The inductive invariant                                                 *)

SlotSet == Slots(Segments, SegSizes, 0..RetryBudget, {0})

IsRing(q) ==
    /\ q = [slots |-> q.slots, bytes |-> q.bytes, dropped |-> q.dropped]
    /\ q.slots \in Seq(SlotSet) /\ q.bytes = SlotBytes(q.slots) /\ q.dropped \in Nat

Types ==
    /\ LifecycleTypeOK
    /\ IsRing(ring)
    /\ taken \in Seq(SlotSet) /\ Len(taken) <= 1
    /\ sealed \in 0..MaxSegments
    /\ writerDone \in BOOLEAN /\ permit \in BOOLEAN
    /\ waiter \in {"none", "registered", "notified", "done"}
    /\ pc \in {"live", "take", "seglive", "stage", "backoff", "after",
               "enable", "recheck", "await", "drained", "interrupted", "dropped"}
    /\ emptying \in BOOLEAN /\ live \in BOOLEAN
    /\ stage \in 1..Processors
    /\ reported \in Nat
    /\ outcome \in [Segments -> {"none", "delivered", "failed", "exhausted",
                                 "evicted", "abandoned"}]

(* The driver's way from its start to its end.                             *)
Ways ==
    /\ phase = Stopped <=> driver = "gone"
    /\ cause = NoCause <=> driver \in {"spawned", "polling", "draining"}
    /\ disabled => cause[1] = "InitializeFailed"
    /\ cause[1] = "DrainTimedOut" \/ driver = "draining" \/ stop => shutdown # "none"
    /\ shutdown # "none" => writerDone

(* Where the run loop holds a segment, and where it is over.               *)
Loop ==
    /\ pc \in {"seglive", "stage", "backoff"} <=> taken # <<>>
    /\ pc = "backoff" => taken[1].retry < RetryBudget
    /\ pc \in {"drained", "interrupted"} => driver \in {"recorded", "unwound", "gone"}
    /\ pc = "dropped" => driver \in {"unwound", "gone"}
    /\ driver \in {"unwound", "gone"} => pc \in {"drained", "interrupted", "dropped"}
    /\ emptying => writerDone
    /\ pc = "drained" => ring.slots = <<>> /\ writerDone

(* The segments wait in order, the one in flight is older than all of them.*)
Line ==
    /\ \A j, k \in 1..Len(ring.slots) : j < k => ring.slots[j].index < ring.slots[k].index
    /\ \A k \in 1..Len(ring.slots) : ring.slots[k].index <= sealed
    /\ taken # <<>> =>
          /\ taken[1].index <= sealed
          /\ \A k \in 1..Len(ring.slots) : taken[1].index < ring.slots[k].index

(* A sealed segment is in one place.                                       *)
Placed ==
    \A i \in Segments :
        /\ outcome[i] # "none" => i <= sealed /\ i \notin Indices(ring.slots) /\ i \notin InFlight
        /\ i <= sealed => outcome[i] # "none" \/ i \in Indices(ring.slots) \/ i \in InFlight

Lost == {i \in Segments : outcome[i] = "evicted"}

Counted == reported + ring.dropped = Cardinality(Lost)

IInv == Types /\ Ways /\ Loop /\ Line /\ Placed /\ Counted /\ MemoryBound

-----------------------------------------------------------------------------
(* The lifecycle                                                           *)

LEMMA LifecycleMoves ==
    ASSUME Next
    PROVE  /\ \/ UNCHANGED lifecycle
              \/ LifecycleStep(writerDone, Suspended)
              \/ RunLoopReturns
              \/ DropRunFuture
           /\ writerDone => writerDone'
<1>1. CASE \/ \E size \in SegSizes : Seal(size)
           \/ MarkWriterDone \/ ProcessorRecovers \/ Terminated
  BY <1>1 DEF Seal, MarkWriterDone, ProcessorRecovers, Terminated, vars, lifecycle, writer
<1>2. CASE RunLoop
  BY <1>2 DEF RunLoop, PipelineLive, PipelineStopped, TakeOne, TakeNone, SegmentEnters,
              ReleaseUnprocessed, ReleaseForRetry, EndCycle, EnableWaiter, Recheck, Wake,
              WakeOnStop, writer
<1>3. CASE RunStage
  BY <1>3 DEF RunStage, StageSucceeds, StageFails, StageRetries, writer
<1>4. CASE Driver \/ DropWorker
  BY <1>4 DEF Driver, DropWorker, writer
<1> QED BY <1>1, <1>2, <1>3, <1>4 DEF Next

(* The driver records a cause before it lets go of the run loop, and       *)
(* publishes Stopped after that.                                           *)
LEMMA WaysStep ==
    ASSUME LifecycleTypeOK, Ways, [Next]_vars
    PROVE  LifecycleTypeOK' /\ Ways'
<1> USE ProcessorsAssumption DEF LifecycleTypeOK, Ways
<1>1. CASE UNCHANGED vars
  BY <1>1 DEF vars, lifecycle
<1>2. CASE Next /\ UNCHANGED lifecycle
  BY <1>2, LifecycleMoves DEF lifecycle
<1>3. ASSUME NEW c \in Causes \ {NoCause}, Record(c), driver \in {"spawned", "polling", "draining"}
      PROVE  driver' = "recorded" /\ cause' = c
  BY <1>3 DEF Record
<1>4. /\ NoCause[1] = "none" /\ \A i \in Nat : <<"InitializeFailed", i>>[1] = "InitializeFailed"
      /\ <<"Exited", 0>>[1] = "Exited" /\ <<"Panicked", 0>>[1] = "Panicked"
      /\ <<"DrainTimedOut", 0>>[1] = "DrainTimedOut"
  BY DEF NoCause
<1>5. /\ {<<"Exited", 0>>, <<"Panicked", 0>>, <<"DrainTimedOut", 0>>} \subseteq Causes \ {NoCause}
      /\ \A i \in Initializing : <<"InitializeFailed", i>> \in Causes \ {NoCause}
  BY DEF Causes, NoCause
<1>6. ASSUME LifecycleStep(writerDone, Suspended), writerDone => writerDone'
      PROVE  LifecycleTypeOK' /\ Ways'
  <2> USE DEF Stopped, Running, NotStarted, Initializing
  <2>1. CASE StartThread
    BY <2>1, <1>6 DEF StartThread
  <2>2. CASE StartHookPanics
    BY <2>2, <1>3, <1>4, <1>5, <1>6 DEF StartHookPanics
  <2>3. CASE InitializeOk
    BY <2>3, <1>6 DEF InitializeOk, Polled
  <2>4. ASSUME NEW marker \in BOOLEAN, InitializeFails(marker)
        PROVE  LifecycleTypeOK' /\ Ways'
    <3>1. /\ driver \in {"polling", "draining"} /\ phase \in Initializing
          /\ driver' = "recorded" /\ cause' = <<"InitializeFailed", phase>>
      BY <2>4, <1>3, <1>5 DEF InitializeFails, Polled
    <3> QED BY <3>1, <2>4, <1>4, <1>5, <1>6 DEF InitializeFails
  <2>5. CASE InitializePanics
    BY <2>5, <1>3, <1>4, <1>5, <1>6 DEF InitializePanics, Polled
  <2>6. ASSUME NEW how \in {"graceful", "dropped"}, SignalShutdown(how, writerDone)
        PROVE  LifecycleTypeOK' /\ Ways'
    BY <2>6, <1>6 DEF SignalShutdown
  <2>7. CASE ReceiveShutdown
    BY <2>7, <1>6 DEF ReceiveShutdown
  <2>8. CASE DrainTimesOut(Suspended)
    BY <2>8, <1>3, <1>4, <1>5, <1>6 DEF DrainTimesOut
  <2>9. CASE PublishStopped
    BY <2>9, <1>6 DEF PublishStopped, MayPublish
  <2> QED BY <1>6, <2>1, <2>2, <2>3, <2>4, <2>5, <2>6, <2>7, <2>8, <2>9 DEF LifecycleStep
<1>7. ASSUME RunLoopReturns, writerDone => writerDone'
      PROVE  LifecycleTypeOK' /\ Ways'
  BY <1>7, <1>3, <1>4, <1>5 DEF RunLoopReturns, RunLoopRuns, Polled
<1>8. ASSUME DropRunFuture, writerDone => writerDone'
      PROVE  LifecycleTypeOK' /\ Ways'
  BY <1>8 DEF DropRunFuture
<1> QED BY <1>1, <1>2, <1>6, <1>7, <1>8, LifecycleMoves

-----------------------------------------------------------------------------
(* The ring's operations                                                   *)

LEMMA SlotFacts ==
    /\ SlotSet \subseteq AnySlot
    /\ \A x \in SlotSet : /\ x.index \in Segments /\ x.size \in SegSizes
                          /\ x.size \in 1..RingBudget /\ x.retry \in 0..RetryBudget
    /\ \A s \in Seq(SlotSet) : s \in Seq(AnySlot) /\ Len(s) \in Nat
<1> USE MemWorkerAssumption, RingBudgetAssumption
<1>1. SlotSet \subseteq AnySlot
  <2>1. Segments \subseteq Nat /\ SegSizes \subseteq Nat /\ 0..RetryBudget \subseteq Nat /\ {0} \subseteq Nat
    BY DEF Segments
  <2> QED BY <2>1 DEF SlotSet, AnySlot, Slots
<1>2. \A x \in SlotSet : /\ x.index \in Segments /\ x.size \in SegSizes
                         /\ x.size \in 1..RingBudget /\ x.retry \in 0..RetryBudget
  BY DEF SlotSet, Slots
<1>3. \A s \in Seq(SlotSet) : s \in Seq(AnySlot) /\ Len(s) \in Nat
  BY <1>1, SeqMonotonic, LenProperties
<1> QED BY <1>1, <1>2, <1>3

(* MemFs::seal: the bytes still agree with the slots, and there are no     *)
(* more of them than the budget.                                           *)
Seals(q, slot, n, r) ==
    /\ n \in 0..Len(q.slots)
    /\ IsRing(r) /\ r.bytes <= RingBudget
    /\ r.dropped = q.dropped + n
    /\ Len(r.slots) = Len(q.slots) - n + 1
    /\ \A k \in 1..(Len(q.slots) - n) : r.slots[k] = q.slots[n + k]
    /\ r.slots[Len(q.slots) - n + 1] = slot

LEMMA SealFacts ==
    ASSUME NEW q, IsRing(q), NEW slot \in SlotSet
    PROVE  Seals(q, slot, Overflow(q, slot.size), RingSeal(q, slot))
<1> DEFINE n == Overflow(q, slot.size)
           r == RingSeal(q, slot)
           gone == SubSeq(q.slots, 1, n)
           left == SubSeq(q.slots, n + 1, Len(q.slots))
<1>1. q.slots \in Seq(AnySlot) /\ q.bytes = SlotBytes(q.slots) /\ slot.size \in 1..RingBudget
      /\ Len(q.slots) \in Nat /\ slot \in AnySlot
  BY SlotFacts DEF IsRing
<1>2. n \in 0..Len(q.slots) /\ q.bytes - SlotBytes(gone) + slot.size <= RingBudget
  BY <1>1, OverflowFacts
<1>3. /\ gone \in Seq(SlotSet) /\ left \in Seq(SlotSet) /\ gone \o left = q.slots
      /\ Len(left) = Len(q.slots) - n
      /\ \A k \in 1..(Len(q.slots) - n) : left[k] = q.slots[n + k]
  <2> HIDE DEF n
  <2> QED BY <1>2, Pieces DEF IsRing
<1>4. r = [slots |-> Append(left, slot), bytes |-> q.bytes - SlotBytes(gone) + slot.size,
           dropped |-> q.dropped + n]
  BY DEF RingSeal
<1> HIDE DEF n, r, gone, left
<1>5. Append(left, slot) \in Seq(SlotSet) /\ Len(Append(left, slot)) = Len(q.slots) - n + 1
  BY <1>1, <1>3
<1>6. /\ \A k \in 1..(Len(q.slots) - n) : Append(left, slot)[k] = q.slots[n + k]
      /\ Append(left, slot)[Len(q.slots) - n + 1] = slot
  <2>1. Len(left) \in Nat /\ Len(left) = Len(q.slots) - n /\ slot \in SlotSet
    BY <1>1, <1>2, <1>3
  <2>2. /\ Append(left, slot)[Len(left) + 1] = slot
        /\ \A k \in 1..Len(left) : Append(left, slot)[k] = left[k]
    BY <1>3, <2>1, AppendProperties
  <2> QED BY <1>3, <2>1, <2>2
<1>7. SlotBytes(Append(left, slot)) = q.bytes - SlotBytes(gone) + slot.size
  <2>1. gone \in Seq(AnySlot) /\ left \in Seq(AnySlot) /\ <<slot>> \in Seq(AnySlot)
    BY <1>1, <1>3, SlotFacts
  <2>2. Append(left, slot) = left \o <<slot>>
    BY <1>3
  <2>3. SlotBytes(left \o <<slot>>) = SlotBytes(left) + SlotBytes(<<slot>>)
    BY <2>1, BytesConcat
  <2>4. SlotBytes(gone \o left) = SlotBytes(gone) + SlotBytes(left)
    BY <2>1, BytesConcat
  <2>5. SlotBytes(<<slot>>) = slot.size /\ slot.size \in Nat
    BY <1>1, BytesOne DEF AnySlot, Slots
  <2>6. SlotBytes(gone) \in Nat /\ SlotBytes(left) \in Nat
    BY <2>1, BytesFinite
  <2> QED BY <1>1, <1>3, <2>2, <2>3, <2>4, <2>5, <2>6
<1>8. q.dropped + n \in Nat
  BY <1>1, <1>2 DEF IsRing
<1>9. IsRing(r)
  BY <1>4, <1>5, <1>7, <1>8 DEF IsRing
<1>10. r.bytes <= RingBudget /\ r.dropped = q.dropped + n /\ r.slots = Append(left, slot)
  BY <1>2, <1>4
<1>11. Seals(q, slot, n, r)
  BY <1>2, <1>5, <1>6, <1>9, <1>10 DEF Seals
<1> QED BY <1>11 DEF n, r

(* MemFs::take_files at the front.                                         *)
LEMMA TakeFacts ==
    ASSUME NEW q, IsRing(q), q.slots # <<>>
    PROVE  LET r == RingTake(q, 1)
           IN  /\ IsRing(r) /\ r.dropped = 0
               /\ Head(q.slots) = q.slots[1] /\ q.slots[1] \in SlotSet
               /\ Len(q.slots) \in Nat \ {0} /\ Len(r.slots) = Len(q.slots) - 1
               /\ \A k \in 1..(Len(q.slots) - 1) : r.slots[k] = q.slots[k + 1]
               /\ r.bytes + q.slots[1].size = q.bytes /\ r.bytes \in Nat
<1> DEFINE x == q.slots[1]
           left == SubSeq(q.slots, 1 + 1, Len(q.slots))
<1>1. Len(q.slots) \in Nat \ {0} /\ Head(q.slots) = x /\ x \in SlotSet /\ x \in AnySlot
  BY SlotFacts DEF IsRing
<1>2. /\ SubSeq(q.slots, 1, 1) \in Seq(SlotSet) /\ Len(SubSeq(q.slots, 1, 1)) = 1
      /\ SubSeq(q.slots, 1, 1)[1] = x
      /\ left \in Seq(SlotSet) /\ Len(left) = Len(q.slots) - 1
      /\ \A k \in 1..(Len(q.slots) - 1) : left[k] = q.slots[k + 1]
      /\ SubSeq(q.slots, 1, 1) \o left = q.slots
  <2>1. 1 \in 0..Len(q.slots) /\ q.slots \in Seq(SlotSet)
    BY <1>1 DEF IsRing
  <2>2. /\ SubSeq(q.slots, 1, 1) \in Seq(SlotSet) /\ Len(SubSeq(q.slots, 1, 1)) = 1
        /\ \A k \in 1..1 : SubSeq(q.slots, 1, 1)[k] = q.slots[k]
        /\ left \in Seq(SlotSet) /\ Len(left) = Len(q.slots) - 1
        /\ \A k \in 1..(Len(q.slots) - 1) : left[k] = q.slots[1 + k]
        /\ SubSeq(q.slots, 1, 1) \o left = q.slots
    BY <2>1, Pieces
  <2> HIDE DEF left
  <2> QED BY <1>1, <2>2
<1>3. SubSeq(q.slots, 1, 1) = <<x>>
  <2>1. <<x>> \in Seq(SlotSet) /\ Len(<<x>>) = 1 /\ <<x>>[1] = x
    BY <1>1
  <2>2. \A i \in 1..Len(SubSeq(q.slots, 1, 1)) : SubSeq(q.slots, 1, 1)[i] = <<x>>[i]
    BY <1>2, <2>1
  <2> QED BY <1>2, <2>1, <2>2, SeqEqual
<1>4. Without(q.slots, 1) = left
  <2>1. SubSeq(q.slots, 1, 0) = <<>>
    BY SubSeqEmpty
  <2>2. <<>> \o left = left
    BY <1>2, ConcatEmptySeq
  <2> QED BY <2>1, <2>2 DEF Without
<1>5. SlotBytes(q.slots) = x.size + SlotBytes(left) /\ SlotBytes(left) \in Nat /\ x.size \in Nat
  <2>1. left \in Seq(AnySlot) /\ <<x>> \in Seq(AnySlot)
    BY <1>1, <1>2, SlotFacts
  <2>2. SlotBytes(<<x>> \o left) = SlotBytes(<<x>>) + SlotBytes(left)
    BY <2>1, BytesConcat
  <2>3. SlotBytes(<<x>>) = x.size /\ x.size \in Nat
    BY <1>1, BytesOne DEF AnySlot, Slots
  <2> QED BY <1>2, <1>3, <2>1, <2>2, <2>3, BytesFinite
<1> HIDE DEF left
<1>6. RingTake(q, 1) = [slots |-> left, bytes |-> q.bytes - x.size, dropped |-> 0]
  BY <1>4 DEF RingTake
<1>7. q.bytes - x.size = SlotBytes(left)
  BY <1>5 DEF IsRing
<1> QED BY <1>1, <1>2, <1>5, <1>6, <1>7 DEF IsRing

(* MemFs::release_for_retry and release_unprocessed.                       *)
LEMMA ReleaseFacts ==
    ASSUME NEW q, IsRing(q), NEW x \in SlotSet
    PROVE  LET r == RingRelease(q, x)
           IN  /\ IsRing(r) /\ r.dropped = q.dropped
               /\ Len(q.slots) \in Nat /\ Len(r.slots) = Len(q.slots) + 1
               /\ r.slots[1] = x
               /\ \A k \in 1..Len(q.slots) : r.slots[k + 1] = q.slots[k]
               /\ r.bytes = q.bytes + x.size /\ q.bytes \in Nat /\ x.size \in Nat
<1>1. <<x>> \in Seq(SlotSet) /\ q.slots \in Seq(SlotSet) /\ Len(<<x>>) = 1 /\ <<x>>[1] = x
  BY DEF IsRing
<1>2. /\ <<x>> \o q.slots \in Seq(SlotSet) /\ Len(<<x>> \o q.slots) = 1 + Len(q.slots)
      /\ \A k \in 1..(1 + Len(q.slots)) :
            (<<x>> \o q.slots)[k] = IF k <= 1 THEN <<x>>[k] ELSE q.slots[k - 1]
  BY <1>1, ConcatProperties
<1>3. Len(q.slots) \in Nat /\ x \in AnySlot /\ <<x>> \in Seq(AnySlot) /\ q.slots \in Seq(AnySlot)
  BY <1>1, SlotFacts
<1>4. SlotBytes(<<x>> \o q.slots) = SlotBytes(<<x>>) + SlotBytes(q.slots)
  BY <1>3, BytesConcat
<1>5. SlotBytes(<<x>>) = x.size /\ x.size \in Nat /\ SlotBytes(q.slots) \in Nat
  BY <1>3, BytesOne, BytesFinite DEF AnySlot, Slots
<1>6. RingRelease(q, x) = [slots |-> <<x>> \o q.slots, bytes |-> q.bytes + x.size,
                           dropped |-> q.dropped]
  BY DEF RingRelease
<1>7. /\ (<<x>> \o q.slots)[1] = x
      /\ \A k \in 1..Len(q.slots) : (<<x>> \o q.slots)[k + 1] = q.slots[k]
  BY <1>1, <1>2, <1>3
<1>8. SlotBytes(<<x>> \o q.slots) = q.bytes + x.size
  BY <1>4, <1>5 DEF IsRing
<1> HIDE DEF IsRing
<1>9. IsRing(RingRelease(q, x))
  BY <1>2, <1>6, <1>8 DEF IsRing
<1> QED BY <1>2, <1>3, <1>5, <1>6, <1>7, <1>9 DEF IsRing

LEMMA TakeNoneFacts ==
    ASSUME NEW q, IsRing(q)
    PROVE  IsRing(RingTakeNone(q)) /\ RingTakeNone(q) = [slots |-> q.slots, bytes |-> q.bytes, dropped |-> 0]
<1>1. RingTakeNone(q) = [slots |-> q.slots, bytes |-> q.bytes, dropped |-> 0]
  BY DEF RingTakeNone, IsRing
<1> QED BY <1>1 DEF IsRing

-----------------------------------------------------------------------------
(* What a step does to the segments                                        *)

Idle == UNCHANGED <<ring, taken, outcome, sealed, reported>>

NewSlot(size) == Slot(sealed + 1, size, 0, 0, 0)

Sealing(size) ==
    /\ WriterOpen
    /\ ring' = RingSeal(ring, NewSlot(size))
    /\ sealed' = sealed + 1
    /\ outcome' = [i \in Segments |-> IF i \in Evicted(ring, NewSlot(size))
                                      THEN "evicted" ELSE outcome[i]]
    /\ UNCHANGED <<taken, reported>>

Taking ==
    /\ ring.slots # <<>> /\ taken = <<>>
    /\ taken' = <<Head(ring.slots)>>
    /\ ring' = RingTake(ring, 1)
    /\ reported' = reported + ring.dropped
    /\ UNCHANGED <<outcome, sealed>>

TakingNone ==
    /\ ring' = RingTakeNone(ring)
    /\ reported' = reported + ring.dropped
    /\ UNCHANGED <<taken, outcome, sealed>>

Releasing(x) ==
    /\ taken # <<>>
    /\ x \in SlotSet /\ x.index = taken[1].index /\ x.size = taken[1].size
    /\ ring' = RingRelease(ring, x)
    /\ taken' = <<>>
    /\ UNCHANGED <<outcome, sealed, reported>>

Ends == {"delivered", "failed", "exhausted", "abandoned"}

Settling(how) ==
    /\ taken # <<>>
    /\ taken' = <<>>
    /\ outcome' = [outcome EXCEPT ![taken[1].index] = how]
    /\ UNCHANGED <<ring, sealed, reported>>

LEMMA TakenFacts ==
    ASSUME Types
    PROVE  /\ taken # <<>> => Len(taken) = 1 /\ taken[1] \in SlotSet /\ taken = <<taken[1]>>
                              /\ InFlight = {taken[1].index}
           /\ taken = <<>> => InFlight = {}
<1>1. ASSUME taken # <<>>
      PROVE  Len(taken) = 1 /\ taken[1] \in SlotSet /\ taken = <<taken[1]>>
  <2>1. taken \in Seq(SlotSet) /\ Len(taken) \in Nat /\ Len(taken) # 0 /\ Len(taken) <= 1
    BY <1>1, EmptySeq, LenProperties DEF Types
  <2>2. Len(taken) = 1
    <3>1. \A l \in Nat : l # 0 /\ l <= 1 => l = 1
      OBVIOUS
    <3> QED BY <2>1, <3>1
  <2>3. taken[1] \in SlotSet
    BY <2>1, <2>2, ElementOfSeq
  <2>4. <<taken[1]>> \in Seq(SlotSet) /\ Len(<<taken[1]>>) = 1 /\ <<taken[1]>>[1] = taken[1]
    BY <2>3
  <2>5. \A i \in 1..Len(taken) : taken[i] = <<taken[1]>>[i]
    BY <2>2, <2>4
  <2> QED BY <2>1, <2>2, <2>3, <2>4, <2>5, SeqEqual
<1>2. ASSUME taken # <<>>
      PROVE  InFlight = {taken[1].index}
  <2>1. Len(taken) = 1
    BY <1>1, <1>2
  <2>2. 1..Len(taken) = {1}
    BY <2>1
  <2> HIDE <1>1
  <2> QED BY <2>2 DEF InFlight, Indices
<1>3. ASSUME taken = <<>>
      PROVE  InFlight = {}
  BY <1>3 DEF InFlight, Indices
<1> QED BY <1>1, <1>2, <1>3

LEMMA Moves ==
    ASSUME Types, Loop, [Next]_vars
    PROVE  \/ Idle \/ Taking \/ TakingNone
           \/ \E size \in SegSizes : Sealing(size)
           \/ \E x \in SlotSet : Releasing(x)
           \/ \E how \in Ends : Settling(how)
<1>1. CASE UNCHANGED vars
  BY <1>1 DEF vars, Idle
<1>2. CASE \E size \in SegSizes : Seal(size)
  BY <1>2 DEF Seal, Sealing, NewSlot
<1>3. CASE MarkWriterDone \/ ProcessorRecovers \/ Driver \/ Terminated
  BY <1>3 DEF MarkWriterDone, ProcessorRecovers, Driver, Terminated, vars, history, writer, Idle
<1>4. CASE RunLoop
  <2>1. CASE TakeOne
    BY <2>1 DEF TakeOne, Taking, At, Loop, writer
  <2>2. CASE TakeNone
    BY <2>2 DEF TakeNone, TakingNone, writer
  <2>3. CASE ReleaseUnprocessed
    <3>1. taken # <<>> /\ taken[1] \in SlotSet
      BY <2>3, TakenFacts DEF ReleaseUnprocessed, At, Loop
    <3>2. Releasing(taken[1])
      BY <2>3, <3>1 DEF ReleaseUnprocessed, Releasing, history, writer
    <3> QED BY <3>1, <3>2
  <2>4. CASE ReleaseForRetry
    <3>1. taken # <<>> /\ taken[1] \in SlotSet /\ taken[1].retry < RetryBudget
      BY <2>4, TakenFacts DEF ReleaseForRetry, At, Loop
    <3>2. /\ Retried(taken[1]) \in SlotSet /\ Retried(taken[1]).index = taken[1].index
          /\ Retried(taken[1]).size = taken[1].size
      BY <3>1, MemWorkerAssumption DEF Retried, SlotSet, Slots
    <3>3. Releasing(Retried(taken[1]))
      BY <2>4, <3>1, <3>2 DEF ReleaseForRetry, Releasing, history, writer
    <3> QED BY <3>2, <3>3
  <2>5. CASE \/ PipelineLive \/ PipelineStopped \/ SegmentEnters \/ EndCycle \/ EnableWaiter
             \/ Recheck \/ Wake \/ WakeOnStop
    BY <2>5 DEF PipelineLive, PipelineStopped, SegmentEnters, EndCycle, EnableWaiter, Recheck,
                Wake, WakeOnStop, history, writer, Idle
  <2> QED BY <1>4, <2>1, <2>2, <2>3, <2>4, <2>5 DEF RunLoop
<1>5. CASE RunStage
  <2>1. pc = "stage" => taken # <<>>
    BY DEF Loop
  <2> QED BY <1>5, <2>1 DEF RunStage, StageSucceeds, StageFails, StageRetries, At, Settling, Idle, Ends, writer
<1>6. CASE DropWorker
  <2>1. CASE taken = <<>>
    <3>1. outcome' = outcome
      BY <1>6, <2>1, TakenFacts DEF DropWorker, Types
    <3> QED BY <1>6, <2>1, <3>1 DEF DropWorker, Idle, writer
  <2>2. CASE taken # <<>>
    <3>1. InFlight = {taken[1].index} /\ taken[1].index \in Segments
      BY <2>2, TakenFacts, SlotFacts
    <3>2. outcome' = [outcome EXCEPT ![taken[1].index] = "abandoned"]
      BY <1>6, <3>1 DEF DropWorker, Types
    <3>3. Settling("abandoned")
      BY <1>6, <2>2, <3>2 DEF DropWorker, Settling, writer
    <3> QED BY <3>3 DEF Ends
  <2> QED BY <2>1, <2>2
<1> QED BY <1>1, <1>2, <1>3, <1>4, <1>5, <1>6 DEF Next

LEMMA NewSlotFacts ==
    ASSUME Types, WriterOpen, NEW size \in SegSizes
    PROVE  /\ NewSlot(size) \in SlotSet /\ NewSlot(size).index = sealed + 1 /\ NewSlot(size).size = size
           /\ sealed \in Nat /\ sealed + 1 \in Segments
<1>1. sealed \in Nat /\ sealed + 1 \in Segments
  BY MemWorkerAssumption DEF Types, WriterOpen, Segments
<1>2. 0 \in 0..RetryBudget
  BY MemWorkerAssumption
<1> QED BY <1>1, <1>2 DEF NewSlot, Slot, SlotSet, Slots

(* The types of what a step does to the segments.                          *)
LEMMA DataStep ==
    ASSUME Types, Loop, [Next]_vars
    PROVE  /\ IsRing(ring') /\ taken' \in Seq(SlotSet) /\ Len(taken') <= 1
           /\ sealed' \in 0..MaxSegments /\ reported' \in Nat
           /\ outcome' \in [Segments -> {"none", "delivered", "failed", "exhausted",
                                         "evicted", "abandoned"}]
<1>1. /\ IsRing(ring) /\ taken \in Seq(SlotSet) /\ Len(taken) <= 1
      /\ sealed \in 0..MaxSegments /\ reported \in Nat /\ ring.dropped \in Nat
      /\ outcome \in [Segments -> {"none", "delivered", "failed", "exhausted",
                                   "evicted", "abandoned"}]
  BY DEF Types, IsRing
<1>2. <<>> \in Seq(SlotSet) /\ Len(<<>>) <= 1
  OBVIOUS
<1>3. CASE Idle
  BY <1>1, <1>3 DEF Idle
<1>4. ASSUME NEW size \in SegSizes, Sealing(size)
      PROVE  /\ IsRing(ring') /\ taken' \in Seq(SlotSet) /\ Len(taken') <= 1
             /\ sealed' \in 0..MaxSegments /\ reported' \in Nat
             /\ outcome' \in [Segments -> {"none", "delivered", "failed", "exhausted",
                                           "evicted", "abandoned"}]
  <2>1. NewSlot(size) \in SlotSet /\ sealed + 1 \in 0..MaxSegments
    BY <1>4, NewSlotFacts, MemWorkerAssumption DEF Sealing, Segments
  <2>2. IsRing(ring')
    BY <1>1, <1>4, <2>1, SealFacts DEF Sealing, Seals
  <2> QED BY <1>1, <1>4, <2>1, <2>2 DEF Sealing
<1>5. CASE Taking
  <2>1. IsRing(RingTake(ring, 1)) /\ Head(ring.slots) \in SlotSet
    BY <1>1, <1>5, TakeFacts DEF Taking
  <2>2. <<Head(ring.slots)>> \in Seq(SlotSet) /\ Len(<<Head(ring.slots)>>) <= 1
    BY <2>1
  <2> QED BY <1>1, <1>5, <2>1, <2>2 DEF Taking
<1>6. CASE TakingNone
  <2>1. IsRing(RingTakeNone(ring))
    BY <1>1, TakeNoneFacts
  <2> QED BY <1>1, <1>6, <2>1 DEF TakingNone
<1>7. ASSUME NEW x \in SlotSet, Releasing(x)
      PROVE  IsRing(ring') /\ UNCHANGED <<sealed, reported, outcome>> /\ taken' = <<>>
  BY <1>1, <1>7, ReleaseFacts DEF Releasing
<1>8. ASSUME NEW how \in Ends, Settling(how)
      PROVE  /\ UNCHANGED <<ring, sealed, reported>> /\ taken' = <<>>
             /\ outcome' \in [Segments -> {"none", "delivered", "failed", "exhausted",
                                           "evicted", "abandoned"}]
  BY <1>1, <1>8 DEF Settling, Ends
<1> QED BY <1>1, <1>2, <1>3, <1>4, <1>5, <1>6, <1>7, <1>8, Moves

(* The types of what a step does to the worker's control.                  *)
ControlTypes ==
    /\ writerDone \in BOOLEAN /\ permit \in BOOLEAN
    /\ waiter \in {"none", "registered", "notified", "done"}
    /\ pc \in {"live", "take", "seglive", "stage", "backoff", "after",
               "enable", "recheck", "await", "drained", "interrupted", "dropped"}
    /\ emptying \in BOOLEAN /\ live \in BOOLEAN
    /\ stage \in 1..Processors

LEMMA ControlStep ==
    ASSUME Types, [Next]_vars
    PROVE  ControlTypes'
<1>1. ControlTypes /\ stop \in BOOLEAN
  BY DEF Types, ControlTypes, LifecycleTypeOK
<1> USE <1>1, ProcessorsAssumption DEF ControlTypes
<1>2. CASE UNCHANGED vars
  BY <1>2 DEF vars
<1>3. CASE \E size \in SegSizes : Seal(size)
  BY <1>3 DEF Seal, NotifyOne
<1>4. CASE MarkWriterDone \/ ProcessorRecovers \/ Driver \/ Terminated
  BY <1>4 DEF MarkWriterDone, ProcessorRecovers, Driver, Terminated, vars, NotifyOne, notify, writer
<1>5. CASE RunLoop
  <2>1. CASE TakeOne \/ TakeNone \/ ReleaseUnprocessed \/ ReleaseForRetry
    BY <2>1 DEF TakeOne, TakeNone, ReleaseUnprocessed, ReleaseForRetry, NotifyOne, notify, writer
  <2>2. CASE PipelineLive \/ PipelineStopped \/ SegmentEnters \/ EndCycle
    BY <2>2 DEF PipelineLive, PipelineStopped, SegmentEnters, EndCycle, notify, writer
  <2>3. CASE EnableWaiter \/ Recheck \/ Wake \/ WakeOnStop
    BY <2>3 DEF EnableWaiter, Recheck, Wake, WakeOnStop, DropWaiter, notify, writer
  <2> QED BY <1>5, <2>1, <2>2, <2>3 DEF RunLoop
<1>6. CASE RunStage
  BY <1>6 DEF RunStage, StageSucceeds, StageFails, StageRetries, notify, writer
<1>7. CASE DropWorker
  BY <1>7 DEF DropWorker, DropWaiter, writer
<1> QED BY <1>2, <1>3, <1>4, <1>5, <1>6, <1>7 DEF Next

LEMMA TypesStep ==
    ASSUME Types, Ways, Loop, [Next]_vars
    PROVE  Types'
<1>1. LifecycleTypeOK'
  BY WaysStep DEF Types
<1> QED BY <1>1, DataStep, ControlStep DEF Types, IsRing, ControlTypes

(* Where the run loop stands.                                              *)
LEMMA LoopStep ==
    ASSUME Types, Ways, Loop, [Next]_vars
    PROVE  Loop'
<1> USE DEF Loop, RunLoopRuns, Polled, At
<1>1. LifecycleTypeOK /\ stop \in BOOLEAN
  BY DEF Types, LifecycleTypeOK
<1>2. CASE UNCHANGED vars
  BY <1>2 DEF vars, lifecycle
<1>3. CASE \E size \in SegSizes : Seal(size)
  BY <1>3 DEF Seal, WriterOpen, lifecycle
<1>4. CASE MarkWriterDone \/ ProcessorRecovers \/ Terminated
  BY <1>4 DEF MarkWriterDone, ProcessorRecovers, Terminated, vars, lifecycle, writer
<1>5. CASE Driver
  <2>1. /\ UNCHANGED <<ring, writerDone, pc, emptying, taken>>
        /\ driver' \in {"unwound", "gone"} <=> driver \in {"unwound", "gone"}
        /\ driver \in {"recorded", "unwound", "gone"} => driver' \in {"recorded", "unwound", "gone"}
    BY <1>5 DEF Driver, LifecycleStep, StartThread, StartHookPanics, InitializeOk, InitializeFails,
                InitializePanics, SignalShutdown, ReceiveShutdown, DrainTimesOut, PublishStopped,
                MayPublish, Record, writer
  <2> QED BY <2>1
<1>6. CASE RunLoop
  <2>1. CASE TakeOne \/ ReleaseUnprocessed \/ ReleaseForRetry
    BY <2>1 DEF TakeOne, ReleaseUnprocessed, ReleaseForRetry, lifecycle, writer
  <2>2. CASE TakeNone
    <3>1. ring'.slots = ring.slots
      BY <2>2, TakeNoneFacts DEF TakeNone, Types
    <3> QED BY <2>2, <3>1 DEF TakeNone, RunLoopReturns, Record, lifecycle, writer
  <2>3. CASE PipelineStopped
    BY <2>3 DEF PipelineStopped, RunLoopReturns, Record, writer
  <2>4. CASE EndCycle
    BY <1>1, <2>4 DEF EndCycle, lifecycle, writer, Ways
  <2>5. CASE PipelineLive \/ SegmentEnters \/ EnableWaiter \/ Recheck \/ Wake \/ WakeOnStop
    BY <2>5 DEF PipelineLive, SegmentEnters, EnableWaiter, Recheck, Wake, WakeOnStop, lifecycle, writer
  <2> QED BY <1>6, <2>1, <2>2, <2>3, <2>4, <2>5 DEF RunLoop
<1>7. CASE RunStage
  <2>1. CASE StageSucceeds \/ StageFails
    BY <2>1 DEF StageSucceeds, StageFails, lifecycle, writer
  <2>2. CASE StageRetries
    <3>1. taken # <<>> /\ taken[1].retry \in 0..RetryBudget
      BY <2>2, TakenFacts, SlotFacts DEF StageRetries
    <3>2. ~BudgetSpent => taken[1].retry < RetryBudget
      BY <3>1, MemWorkerAssumption DEF BudgetSpent, Attempt
    <3> QED BY <2>2, <3>2 DEF StageRetries, lifecycle, writer
  <2> QED BY <1>7, <2>1, <2>2 DEF RunStage
<1>8. CASE DropWorker
  BY <1>8 DEF DropWorker, DropRunFuture, writer
<1> QED BY <1>2, <1>3, <1>4, <1>5, <1>6, <1>7, <1>8 DEF Next

-----------------------------------------------------------------------------
(* Which segments the ring holds after a step                              *)

LEMMA IndicesMember ==
    ASSUME NEW s, NEW i
    PROVE  i \in Indices(s) <=> \E k \in 1..Len(s) : s[k].index = i
BY DEF Indices

LEMMA RingSegments ==
    ASSUME Types
    PROVE  /\ Len(ring.slots) \in Nat
           /\ \A k \in 1..Len(ring.slots) : ring.slots[k] \in SlotSet /\ ring.slots[k].index \in Segments
                                            /\ ring.slots[k].index \in Nat
           /\ Indices(ring.slots) \subseteq Segments
<1>1. ring.slots \in Seq(SlotSet) /\ Len(ring.slots) \in Nat
  BY SlotFacts DEF Types, IsRing
<1>2. \A k \in 1..Len(ring.slots) : ring.slots[k] \in SlotSet
  BY <1>1, ElementOfSeq
<1>3. \A k \in 1..Len(ring.slots) : ring.slots[k].index \in Segments /\ ring.slots[k].index \in Nat
  BY <1>2, SlotFacts DEF Segments
<1> QED BY <1>1, <1>2, <1>3 DEF Indices

(* A seal: the evicted ones are the front of the line.                     *)
LEMMA SealIndices ==
    ASSUME Types, Line, NEW size \in SegSizes, Sealing(size)
    PROVE  LET n == Overflow(ring, NewSlot(size).size)
               gone == Evicted(ring, NewSlot(size))
           IN  /\ n \in 0..Len(ring.slots)
               /\ \A i : i \in gone <=> \E k \in 1..n : ring.slots[k].index = i
               /\ gone \subseteq Indices(ring.slots)
               /\ Indices(ring'.slots) = (Indices(ring.slots) \ gone) \cup {sealed + 1}
<1> DEFINE x == NewSlot(size)
           n == Overflow(ring, x.size)
           gone == Evicted(ring, x)
           L == Len(ring.slots)
<1>1. x \in SlotSet /\ x.index = sealed + 1 /\ sealed \in Nat
  BY NewSlotFacts DEF Sealing
<1>2. IsRing(ring) /\ L \in Nat /\ ring.slots \in Seq(SlotSet)
  BY RingSegments DEF Types, IsRing
<1>3. /\ n \in 0..L
      /\ Len(ring'.slots) = L - n + 1
      /\ \A k \in 1..(L - n) : ring'.slots[k] = ring.slots[n + k]
      /\ ring'.slots[L - n + 1] = x
  <2>1. ring' = RingSeal(ring, x)
    BY DEF Sealing
  <2> HIDE DEF x
  <2>2. Seals(ring, x, n, ring')
    BY <1>1, <1>2, <2>1, SealFacts
  <2> HIDE DEF n
  <2> QED BY <2>2 DEF Seals
<1>4. /\ Len(SubSeq(ring.slots, 1, n)) = n
      /\ \A k \in 1..n : SubSeq(ring.slots, 1, n)[k] = ring.slots[k]
  <2> HIDE DEF n
  <2> QED BY <1>2, <1>3, Pieces
<1>5. \A i : i \in gone <=> \E k \in 1..n : ring.slots[k].index = i
  <2>1. gone = Indices(SubSeq(ring.slots, 1, n))
    BY DEF Evicted
  <2> DEFINE front == SubSeq(ring.slots, 1, n)
  <2>2. /\ Len(front) = n /\ gone = Indices(front)
        /\ \A k \in 1..n : front[k] = ring.slots[k]
    BY <1>4, <2>1
  <2> HIDE DEF front, gone, n
  <2> QED BY <2>2, IndicesMember
<1> HIDE DEF x, n, gone
<1>6. gone \subseteq Indices(ring.slots)
  BY <1>2, <1>3, <1>5, IndicesMember
<1>7. ASSUME NEW i
      PROVE  i \in Indices(ring'.slots) <=> i = sealed + 1 \/ \E k \in (n + 1)..L : ring.slots[k].index = i
  <2>1. ASSUME NEW k \in 1..Len(ring'.slots), ring'.slots[k].index = i, i # sealed + 1
        PROVE  \E m \in (n + 1)..L : ring.slots[m].index = i
    <3>1. k \in 1..(L - n)
      BY <1>1, <1>2, <1>3, <2>1
    <3>2. n + k \in (n + 1)..L
      <4>1. L \in Nat /\ n \in 0..L
        BY <1>2, <1>3
      <4> HIDE DEF L
      <4> QED BY <3>1, <4>1
    <3>3. ring.slots[n + k].index = i
      BY <1>3, <2>1, <3>1
    <3> QED BY <3>2, <3>3
  <2>2. ASSUME NEW m \in (n + 1)..L, ring.slots[m].index = i
        PROVE  \E k \in 1..Len(ring'.slots) : ring'.slots[k].index = i
    <3>1. m - n \in 1..(L - n) /\ n + (m - n) = m
      BY <1>2, <1>3
    <3>2. m - n \in 1..Len(ring'.slots) /\ ring'.slots[m - n].index = i
      BY <1>2, <1>3, <2>2, <3>1
    <3> QED BY <3>2
  <2>3. L - n + 1 \in 1..Len(ring'.slots) /\ ring'.slots[L - n + 1].index = sealed + 1
    BY <1>1, <1>2, <1>3
  <2> QED BY <2>1, <2>2, <2>3, IndicesMember
<1>8. ASSUME NEW i
      PROVE  i \in Indices(ring.slots) /\ i \notin gone <=> \E k \in (n + 1)..L : ring.slots[k].index = i
  <2>1. ASSUME NEW k \in 1..L, ring.slots[k].index = i, i \notin gone
        PROVE  k \in (n + 1)..L
    BY <1>2, <1>3, <1>5, <2>1
  <2>2. ASSUME NEW k \in (n + 1)..L, ring.slots[k].index = i, i \in gone
        PROVE  FALSE
    <3>1. PICK m \in 1..n : ring.slots[m].index = i
      BY <1>5, <2>2
    <3>2. m \in 1..L /\ k \in 1..L /\ m < k
      BY <1>2, <1>3
    <3>3. ring.slots[m].index < ring.slots[k].index /\ ring.slots[m].index \in Nat
      BY <3>2, RingSegments DEF Line
    <3> QED BY <2>2, <3>1, <3>3
  <2>3. (n + 1)..L \subseteq 1..L
    BY <1>2, <1>3
  <2> QED BY <2>1, <2>2, <2>3, IndicesMember
<1>9. Indices(ring'.slots) = (Indices(ring.slots) \ gone) \cup {sealed + 1}
  BY <1>7, <1>8
<1> QED BY <1>3, <1>5, <1>6, <1>9 DEF x, n, gone

LEMMA TakeIndices ==
    ASSUME Types, Line, Taking
    PROVE  /\ taken' = <<ring.slots[1]>> /\ ring.slots[1] \in SlotSet
           /\ Indices(taken') = {ring.slots[1].index}
           /\ ring.slots[1].index \in Indices(ring.slots)
           /\ Indices(ring'.slots) = Indices(ring.slots) \ {ring.slots[1].index}
<1> DEFINE L == Len(ring.slots)
           i == ring.slots[1].index
<1>1. /\ Head(ring.slots) = ring.slots[1] /\ ring.slots[1] \in SlotSet
      /\ L \in Nat \ {0} /\ Len(ring'.slots) = L - 1
      /\ \A k \in 1..(L - 1) : ring'.slots[k] = ring.slots[k + 1]
  BY TakeFacts DEF Types, Taking
<1>2. taken' = <<ring.slots[1]>>
  BY <1>1 DEF Taking
<1>3. Indices(taken') = {i}
  <2>1. Len(taken') = 1 /\ taken'[1] = ring.slots[1] /\ 1..1 = {1}
    BY <1>2
  <2> QED BY <2>1 DEF Indices
<1>4. i \in Indices(ring.slots)
  <2>1. 1 \in 1..L
    BY <1>1
  <2> QED BY <2>1, IndicesMember
<1>5. ASSUME NEW k \in 1..Len(ring'.slots)
      PROVE  ring'.slots[k].index \in Indices(ring.slots) \ {i}
  <2>1. k + 1 \in 1..L /\ 1 \in 1..L /\ 1 < k + 1 /\ ring'.slots[k] = ring.slots[k + 1]
    BY <1>1
  <2>2. i < ring.slots[k + 1].index /\ i \in Nat
    BY <2>1, RingSegments DEF Line
  <2> QED BY <2>1, <2>2, IndicesMember
<1>6. ASSUME NEW k \in 1..L, ring.slots[k].index # i
      PROVE  ring.slots[k].index \in Indices(ring'.slots)
  <2>1. k - 1 \in 1..(L - 1) /\ (k - 1) + 1 = k
    BY <1>1, <1>6
  <2>2. k - 1 \in 1..Len(ring'.slots) /\ ring'.slots[k - 1] = ring.slots[k]
    BY <1>1, <2>1
  <2> QED BY <2>2, IndicesMember
<1>7. Indices(ring'.slots) = Indices(ring.slots) \ {i}
  <2> HIDE DEF i
  <2> QED BY <1>5, <1>6, IndicesMember
<1> QED BY <1>1, <1>2, <1>3, <1>4, <1>7

LEMMA ReleaseIndices ==
    ASSUME Types, NEW x \in SlotSet, Releasing(x)
    PROVE  Indices(ring'.slots) = Indices(ring.slots) \cup {taken[1].index}
<1> DEFINE L == Len(ring.slots)
<1>1. /\ L \in Nat /\ Len(ring'.slots) = L + 1 /\ ring'.slots[1] = x
      /\ \A k \in 1..L : ring'.slots[k + 1] = ring.slots[k]
      /\ x.index = taken[1].index
  BY ReleaseFacts DEF Types, Releasing
<1>2. ASSUME NEW k \in 1..Len(ring'.slots), k # 1
      PROVE  ring'.slots[k].index \in Indices(ring.slots)
  <2>1. k - 1 \in 1..L /\ (k - 1) + 1 = k
    BY <1>1, <1>2
  <2>2. ring'.slots[k] = ring.slots[k - 1]
    BY <1>1, <2>1
  <2> QED BY <2>1, <2>2, IndicesMember
<1>3. ASSUME NEW k \in 1..L
      PROVE  ring.slots[k].index \in Indices(ring'.slots)
  <2>1. k + 1 \in 1..Len(ring'.slots) /\ ring'.slots[k + 1] = ring.slots[k]
    BY <1>1
  <2> QED BY <2>1, IndicesMember
<1>4. 1 \in 1..Len(ring'.slots) /\ taken[1].index \in Indices(ring'.slots)
  <2>1. 1 \in 1..Len(ring'.slots)
    BY <1>1
  <2> QED BY <1>1, <2>1, IndicesMember
<1>5. ASSUME NEW i \in Indices(ring'.slots)
      PROVE  i \in Indices(ring.slots) \cup {taken[1].index}
  <2>1. PICK k \in 1..Len(ring'.slots) : ring'.slots[k].index = i
    BY IndicesMember
  <2> QED BY <1>1, <1>2, <2>1
<1>6. ASSUME NEW i \in Indices(ring.slots)
      PROVE  i \in Indices(ring'.slots)
  <2>1. PICK k \in 1..L : ring.slots[k].index = i
    BY IndicesMember
  <2> QED BY <1>3, <2>1
<1> QED BY <1>4, <1>5, <1>6

-----------------------------------------------------------------------------
(* The invariant is kept                                                   *)

LEMMA LineStep ==
    ASSUME Types, Loop, Line, [Next]_vars
    PROVE  Line'
<1> DEFINE L == Len(ring.slots)
<1>1. sealed \in Nat /\ IsRing(ring) /\ L \in Nat
  BY RingSegments, MemWorkerAssumption DEF Types
<1>2. CASE Idle
  BY <1>2 DEF Idle, Line
<1>3. ASSUME NEW size \in SegSizes, Sealing(size)
      PROVE  Line'
  <2> DEFINE x == NewSlot(size)
             n == Overflow(ring, x.size)
  <2>1. x \in SlotSet /\ x.index = sealed + 1
    BY <1>3, NewSlotFacts DEF Sealing
  <2>2. ring' = RingSeal(ring, x) /\ sealed' = sealed + 1 /\ taken' = taken
    BY <1>3 DEF Sealing
  <2> HIDE DEF x
  <2>3. Seals(ring, x, n, ring')
    BY <1>1, <2>1, <2>2, SealFacts
  <2>4. /\ n \in 0..L /\ Len(ring'.slots) = L - n + 1
        /\ \A k \in 1..(L - n) : ring'.slots[k] = ring.slots[n + k]
        /\ ring'.slots[L - n + 1] = x
    <3> HIDE DEF n
    <3> QED BY <2>3 DEF Seals
  <2> HIDE DEF n
  <2>5. \A k \in 1..(L - n) : n + k \in 1..L
    BY <1>1, <2>4
  <2>6. \A k \in 1..(L - n) : /\ ring'.slots[k].index \in Nat
                              /\ ring'.slots[k].index <= sealed
                              /\ taken # <<>> => taken[1].index < ring'.slots[k].index
    BY <2>4, <2>5, RingSegments DEF Line
  <2>7. ASSUME NEW j \in 1..Len(ring'.slots), NEW k \in 1..Len(ring'.slots), j < k
        PROVE  ring'.slots[j].index < ring'.slots[k].index
    <3>1. j \in 1..(L - n)
      BY <1>1, <2>4, <2>7
    <3>2. CASE k = L - n + 1
      <4>1. ring'.slots[k].index = sealed + 1
        BY <2>1, <2>4, <3>2
      <4>2. ring'.slots[j].index \in Nat /\ ring'.slots[j].index <= sealed
        BY <2>6, <3>1
      <4> QED BY <1>1, <4>1, <4>2
    <3>3. CASE k # L - n + 1
      <4>0. L \in Nat /\ n \in 0..L /\ k \in 1..(L - n + 1) /\ j \in 1..(L - n)
        BY <1>1, <2>4, <3>1
      <4>1. k \in 1..(L - n) /\ n + j < n + k
        <5> HIDE DEF L
        <5> QED BY <4>0, <2>7, <3>3
      <4>2. ring.slots[n + j].index < ring.slots[n + k].index
        BY <2>5, <3>1, <4>1 DEF Line
      <4> QED BY <2>4, <3>1, <4>1, <4>2
    <3> QED BY <3>2, <3>3
  <2>8. ASSUME NEW k \in 1..Len(ring'.slots)
        PROVE  /\ ring'.slots[k].index <= sealed'
               /\ taken # <<>> => taken[1].index < ring'.slots[k].index /\ taken[1].index <= sealed'
    <3>1. taken # <<>> => taken[1].index \in Nat /\ taken[1].index <= sealed
      BY TakenFacts, SlotFacts DEF Line, Segments
    <3>2. CASE k = L - n + 1
      BY <1>1, <2>1, <2>2, <2>4, <3>1, <3>2
    <3>3. CASE k # L - n + 1
      <4>0. L \in Nat /\ n \in 0..L /\ k \in 1..(L - n + 1)
        BY <1>1, <2>4
      <4>1. k \in 1..(L - n)
        <5> HIDE DEF L
        <5> QED BY <4>0, <3>3
      <4> QED BY <1>1, <2>2, <2>6, <3>1, <4>1
    <3> QED BY <3>2, <3>3
  <2>9. taken # <<>> => taken[1].index <= sealed'
    <3>1. taken # <<>> => taken[1].index \in Nat /\ taken[1].index <= sealed
      BY TakenFacts, SlotFacts DEF Line, Segments
    <3> QED BY <1>1, <2>2, <3>1
  <2> QED BY <2>2, <2>7, <2>8, <2>9 DEF Line
<1>4. CASE Taking
  <2>1. /\ L \in Nat \ {0} /\ Len(ring'.slots) = L - 1
        /\ \A k \in 1..(L - 1) : ring'.slots[k] = ring.slots[k + 1]
    BY <1>1, <1>4, TakeFacts DEF Taking
  <2>2. taken' = <<ring.slots[1]>> /\ taken'[1] = ring.slots[1] /\ sealed' = sealed
    BY <1>4, TakeIndices DEF Taking
  <2>3. \A k \in 1..(L - 1) : k + 1 \in 1..L /\ 1 < k + 1
    BY <2>1
  <2>4. 1 \in 1..L
    BY <2>1
  <2>5. \A j, k \in 1..(L - 1) : j < k => j + 1 < k + 1
    BY <2>1
  <2> QED BY <2>1, <2>2, <2>3, <2>4, <2>5 DEF Line
<1>5. CASE TakingNone
  <2>1. ring'.slots = ring.slots
    BY <1>1, <1>5, TakeNoneFacts DEF TakingNone
  <2> QED BY <1>5, <2>1 DEF TakingNone, Line
<1>6. ASSUME NEW x \in SlotSet, Releasing(x)
      PROVE  Line'
  <2>1. /\ Len(ring'.slots) = L + 1 /\ ring'.slots[1] = x
        /\ \A k \in 1..L : ring'.slots[k + 1] = ring.slots[k]
    BY <1>1, <1>6, ReleaseFacts DEF Releasing
  <2>2. /\ x.index <= sealed /\ taken' = <<>> /\ sealed' = sealed
        /\ \A k \in 1..L : x.index < ring.slots[k].index
    BY <1>6 DEF Releasing, Line
  <2>3. ASSUME NEW k \in 1..Len(ring'.slots), k # 1
        PROVE  k - 1 \in 1..L /\ ring'.slots[k] = ring.slots[k - 1]
    <3>1. k - 1 \in 1..L /\ (k - 1) + 1 = k
      BY <1>1, <2>1, <2>3
    <3> QED BY <2>1, <3>1
  <2>4. ASSUME NEW j \in 1..Len(ring'.slots), NEW k \in 1..Len(ring'.slots), j < k
        PROVE  ring'.slots[j].index < ring'.slots[k].index
    <3>1. k # 1
      BY <1>1, <2>1, <2>4
    <3>2. CASE j = 1
      BY <2>1, <2>2, <2>3, <3>1, <3>2
    <3>3. CASE j # 1
      <4>1. j - 1 < k - 1
        BY <1>1, <2>1, <2>4
      <4> QED BY <2>3, <3>1, <3>3, <4>1 DEF Line
    <3> QED BY <3>2, <3>3
  <2>5. ASSUME NEW k \in 1..Len(ring'.slots)
        PROVE  ring'.slots[k].index <= sealed
    BY <2>1, <2>2, <2>3 DEF Line
  <2> QED BY <2>2, <2>4, <2>5 DEF Line
<1>7. ASSUME NEW how \in Ends, Settling(how)
      PROVE  Line'
  BY <1>7 DEF Settling, Line
<1> QED BY <1>2, <1>3, <1>4, <1>5, <1>6, <1>7, Moves

(* No segment is in two places, none is lost without an account.           *)
LEMMA PlacedStep ==
    ASSUME Types, Loop, Line, Placed, [Next]_vars
    PROVE  Placed'
<1>1. sealed \in Nat /\ \A i \in Segments : i \in Nat
  BY MemWorkerAssumption DEF Types, Segments
<1>2. outcome \in [Segments -> {"none", "delivered", "failed", "exhausted", "evicted", "abandoned"}]
  BY DEF Types
<1>3. CASE Idle
  BY <1>3 DEF Idle, Placed, InFlight
<1>4. ASSUME NEW size \in SegSizes, Sealing(size)
      PROVE  Placed'
  <2> DEFINE gone == Evicted(ring, NewSlot(size))
  <2>1. /\ gone \subseteq Indices(ring.slots)
        /\ Indices(ring'.slots) = (Indices(ring.slots) \ gone) \cup {sealed + 1}
    BY <1>4, SealIndices
  <2>2. /\ sealed' = sealed + 1 /\ InFlight' = InFlight
        /\ outcome' = [i \in Segments |-> IF i \in gone THEN "evicted" ELSE outcome[i]]
    BY <1>4 DEF Sealing, InFlight
  <2> HIDE DEF gone
  <2>3. \A k \in 1..Len(ring.slots) : ring.slots[k].index <= sealed
    BY DEF Line
  <2>4. \A i \in Indices(ring.slots) : i <= sealed
    BY <2>3 DEF Indices
  <2>5. \A i \in InFlight : i <= sealed /\ i \notin Indices(ring.slots)
    <3>1. CASE taken = <<>>
      BY <3>1, TakenFacts
    <3>2. CASE taken # <<>>
      <4>1. InFlight = {taken[1].index} /\ taken[1].index <= sealed
        BY <3>2, TakenFacts DEF Line
      <4>2. \A k \in 1..Len(ring.slots) : taken[1].index < ring.slots[k].index /\ ring.slots[k].index \in Nat
        BY <3>2, RingSegments DEF Line
      <4>3. \A k \in 1..Len(ring.slots) : ring.slots[k].index # taken[1].index
        BY <4>2
      <4> QED BY <4>1, <4>3 DEF Indices
    <3> QED BY <3>1, <3>2
  <2>6. ASSUME NEW i \in Segments
        PROVE  /\ outcome'[i] # "none" => i <= sealed + 1 /\ i \notin Indices(ring'.slots) /\ i \notin InFlight
               /\ i <= sealed + 1 => outcome'[i] # "none" \/ i \in Indices(ring'.slots) \/ i \in InFlight
    <3>1. outcome'[i] = IF i \in gone THEN "evicted" ELSE outcome[i]
      BY <2>2
    <3>2. i <= sealed + 1 <=> i <= sealed \/ i = sealed + 1
      BY <1>1
    <3>3. ~(sealed + 1 <= sealed)
      BY <1>1
    <3> QED BY <2>1, <2>4, <2>5, <3>1, <3>2, <3>3 DEF Placed
  <2> QED BY <2>2, <2>6 DEF Placed
<1>5. CASE Taking
  <2>1. /\ InFlight' = {ring.slots[1].index} /\ ring.slots[1].index \in Indices(ring.slots)
        /\ Indices(ring'.slots) = Indices(ring.slots) \ {ring.slots[1].index}
    BY <1>5, TakeIndices DEF InFlight
  <2>2. outcome' = outcome /\ sealed' = sealed /\ InFlight = {}
    BY <1>5, TakenFacts DEF Taking
  <2> QED BY <2>1, <2>2 DEF Placed
<1>6. CASE TakingNone
  <2>1. ring'.slots = ring.slots
    BY <1>6, TakeNoneFacts DEF TakingNone, Types
  <2> QED BY <1>6, <2>1 DEF TakingNone, Placed, InFlight
<1>7. ASSUME NEW x \in SlotSet, Releasing(x)
      PROVE  Placed'
  <2>1. Indices(ring'.slots) = Indices(ring.slots) \cup {taken[1].index}
    BY <1>7, ReleaseIndices
  <2>2. outcome' = outcome /\ sealed' = sealed /\ InFlight = {taken[1].index} /\ InFlight' = {}
    BY <1>7, TakenFacts DEF Releasing, InFlight, Indices
  <2> QED BY <2>1, <2>2 DEF Placed
<1>8. ASSUME NEW how \in Ends, Settling(how)
      PROVE  Placed'
  <2>1. InFlight = {taken[1].index} /\ InFlight' = {} /\ ring' = ring /\ sealed' = sealed
        /\ taken[1].index \in Segments /\ taken[1].index <= sealed
    <3>1. InFlight = {taken[1].index} /\ taken[1] \in SlotSet
      BY <1>8, TakenFacts DEF Settling
    <3>2. InFlight' = {} /\ ring' = ring /\ sealed' = sealed
      BY <1>8 DEF Settling, InFlight, Indices
    <3>3. taken[1].index \in Segments /\ taken[1].index <= sealed
      BY <1>8, <3>1, SlotFacts DEF Line, Settling
    <3> QED BY <3>1, <3>2, <3>3
  <2>2. how # "none"
    BY DEF Ends
  <2>3. \A i \in Segments : outcome'[i] = IF i = taken[1].index THEN how ELSE outcome[i]
    <3>1. outcome' = [outcome EXCEPT ![taken[1].index] = how]
      BY <1>8 DEF Settling
    <3> QED BY <1>2, <2>1, <3>1
  <2>4. taken[1].index \notin Indices(ring.slots)
    <3>1. \A k \in 1..Len(ring.slots) : taken[1].index < ring.slots[k].index /\ ring.slots[k].index \in Nat
      BY <1>8, RingSegments DEF Line, Settling
    <3>2. \A k \in 1..Len(ring.slots) : ring.slots[k].index # taken[1].index
      BY <3>1
    <3> QED BY <3>2 DEF Indices
  <2> QED BY <2>1, <2>2, <2>3, <2>4 DEF Placed
<1> QED BY <1>3, <1>4, <1>5, <1>6, <1>7, <1>8, Moves

(* As many segments are marked evicted as slots were popped.               *)
LEMMA EvictedCount ==
    ASSUME Types, Line, NEW size \in SegSizes, Sealing(size)
    PROVE  LET gone == Evicted(ring, NewSlot(size))
           IN  /\ IsFiniteSet(gone)
               /\ Cardinality(gone) = Overflow(ring, NewSlot(size).size)
<1> DEFINE gone == Evicted(ring, NewSlot(size))
           n == Overflow(ring, NewSlot(size).size)
           f == [k \in 1..n |-> ring.slots[k].index]
<1>1. /\ n \in 0..Len(ring.slots) /\ n \in Nat /\ Len(ring.slots) \in Nat
      /\ \A i : i \in gone <=> \E k \in 1..n : ring.slots[k].index = i
  BY SealIndices, RingSegments
<1> HIDE DEF n, gone
<1>2. ASSUME NEW j \in 1..n, NEW k \in 1..n, ring.slots[j].index = ring.slots[k].index
      PROVE  j = k
  <2>1. j \in 1..Len(ring.slots) /\ k \in 1..Len(ring.slots) /\ j \in Nat /\ k \in Nat
    BY <1>1
  <2>2. ~(j < k)
    BY <1>2, <2>1, RingSegments DEF Line
  <2>3. ~(k < j)
    BY <1>2, <2>1, RingSegments DEF Line
  <2> QED BY <2>1, <2>2, <2>3
<1>3. f \in Bijection(1..n, gone)
  BY <1>1, <1>2 DEF Bijection, Injection, Surjection, IsInjective
<1>4. ExistsBijection(1..n, gone)
  <2> HIDE DEF f
  <2> QED BY <1>3 DEF ExistsBijection
<1>5. IsFiniteSet(1..n) /\ Cardinality(1..n) = n
  <2>1. 1 \in Int /\ n \in Int
    BY <1>1
  <2>2. IsFiniteSet(1..n) /\ Cardinality(1..n) = IF 1 > n THEN 0 ELSE n - 1 + 1
    BY <2>1, FS_Interval
  <2> QED BY <1>1, <2>2
<1> QED BY <1>4, <1>5, FS_Bijection DEF gone, n

(* Every eviction is counted, once.                                        *)
LEMMA CountedStep ==
    ASSUME Types, Loop, Line, Placed, Counted, [Next]_vars
    PROVE  Counted'
<1>1. reported \in Nat /\ IsRing(ring) /\ ring.dropped \in Nat
  BY DEF Types, IsRing
<1>2. CASE Idle
  BY <1>2 DEF Idle, Counted, Lost
<1>3. ASSUME NEW size \in SegSizes, Sealing(size)
      PROVE  Counted'
  <2> DEFINE x == NewSlot(size)
             gone == Evicted(ring, x)
             n == Overflow(ring, x.size)
  <2>1. IsFiniteSet(gone) /\ Cardinality(gone) = n
    BY <1>3, EvictedCount
  <2>2. gone \subseteq Indices(ring.slots) /\ Indices(ring.slots) \subseteq Segments
    BY <1>3, SealIndices, RingSegments
  <2>3. x \in SlotSet /\ ring' = RingSeal(ring, x) /\ reported' = reported
        /\ outcome' = [i \in Segments |-> IF i \in gone THEN "evicted" ELSE outcome[i]]
    BY <1>3, NewSlotFacts DEF Sealing
  <2> HIDE DEF x
  <2>4. Seals(ring, x, n, ring')
    BY <1>1, <2>3, SealFacts
  <2>5. n \in Nat /\ ring'.dropped = ring.dropped + n
    <3> HIDE DEF n
    <3> QED BY <2>4, RingSegments DEF Seals
  <2> HIDE DEF n, gone
  <2>6. Lost' = Lost \cup gone
    BY <2>2, <2>3 DEF Lost
  <2>7. Lost \cap gone = {}
    BY <2>2 DEF Lost, Placed
  <2>8. IsFiniteSet(Lost)
    <3>1. 1 \in Int /\ MaxSegments \in Int
      BY MemWorkerAssumption
    <3>2. IsFiniteSet(Segments)
      BY <3>1, FS_Interval DEF Segments
    <3>3. Lost \subseteq Segments
      BY DEF Lost
    <3> QED BY <3>2, <3>3, FS_Subset
  <2>9. Cardinality(Lost \cup gone) = Cardinality(Lost) + Cardinality(gone) - Cardinality(Lost \cap gone)
    BY <2>1, <2>8, FS_Union
  <2>10. Cardinality(Lost \cap gone) = 0
    BY <2>7, FS_EmptySet
  <2>11. Cardinality(Lost) \in Nat
    BY <2>8, FS_CardinalityType
  <2> QED BY <1>1, <2>1, <2>3, <2>5, <2>6, <2>9, <2>10, <2>11 DEF Counted
<1>4. CASE Taking
  <2>1. ring'.dropped = 0 /\ reported' = reported + ring.dropped /\ Lost' = Lost
    BY <1>1, <1>4, TakeFacts DEF Taking, Lost
  <2> QED BY <1>1, <2>1 DEF Counted
<1>5. CASE TakingNone
  <2>1. ring'.dropped = 0 /\ reported' = reported + ring.dropped /\ Lost' = Lost
    BY <1>1, <1>5, TakeNoneFacts DEF TakingNone, Lost
  <2> QED BY <1>1, <2>1 DEF Counted
<1>6. ASSUME NEW x \in SlotSet, Releasing(x)
      PROVE  Counted'
  <2>1. ring'.dropped = ring.dropped /\ reported' = reported /\ Lost' = Lost
    BY <1>1, <1>6, ReleaseFacts DEF Releasing, Lost
  <2> QED BY <2>1 DEF Counted
<1>7. ASSUME NEW how \in Ends, Settling(how)
      PROVE  Counted'
  <2>1. taken[1].index \in Segments /\ taken[1].index \in InFlight
    BY <1>7, TakenFacts, SlotFacts DEF Settling
  <2>2. outcome[taken[1].index] = "none"
    BY <2>1 DEF Placed
  <2>3. outcome \in [Segments -> {"none", "delivered", "failed", "exhausted", "evicted", "abandoned"}]
    BY DEF Types
  <2>4. outcome' = [outcome EXCEPT ![taken[1].index] = how]
    BY <1>7 DEF Settling
  <2>5. \A i \in Segments : outcome'[i] = IF i = taken[1].index THEN how ELSE outcome[i]
    BY <2>1, <2>3, <2>4
  <2>6. how # "evicted"
    BY DEF Ends
  <2>7. Lost' = Lost
    BY <2>1, <2>2, <2>5, <2>6 DEF Lost
  <2>8. ring' = ring /\ reported' = reported
    BY <1>7 DEF Settling
  <2> QED BY <2>7, <2>8 DEF Counted
<1> QED BY <1>2, <1>3, <1>4, <1>5, <1>6, <1>7, Moves

LEMMA LargestSegment == MaxSegment \in SegSizes /\ MaxSegment \in Nat /\ \A s \in SegSizes : s <= MaxSegment
<1> DEFINE T == {m \in Nat : \A s \in SegSizes : s <= m}
<1>1. RingBudget \in Nat /\ SegSizes \subseteq 1..RingBudget /\ SegSizes # {}
  BY RingBudgetAssumption, MemWorkerAssumption
<1>2. RingBudget \in T /\ T \subseteq Nat
  BY <1>1
<1>3. PICK m \in T : \A y \in T : m <= y
  <2> HIDE DEF T
  <2> QED BY <1>2, Least
<1>4. m \in SegSizes
  <2>1. CASE m \notin SegSizes
    <3>1. \A s \in SegSizes : s \in Nat /\ s <= m /\ s # m /\ 1 <= s
      BY <1>1, <1>3, <2>1
    <3>2. m - 1 \in T
      <4>1. PICK s \in SegSizes : TRUE
        BY <1>1
      <4>2. m \in Nat /\ m - 1 \in Nat
        BY <1>3, <3>1, <4>1
      <4>3. \A t \in SegSizes : t <= m - 1
        BY <3>1, <4>2
      <4> QED BY <4>2, <4>3
    <3>3. m <= m - 1 /\ m \in Nat
      BY <1>3, <3>2
    <3> QED BY <3>3
  <2> QED BY <2>1
<1>5. \A t \in SegSizes : t <= m
  BY <1>3
<1>6. \E s \in SegSizes : \A t \in SegSizes : t <= s
  BY <1>4, <1>5
<1>7. MaxSegment \in SegSizes /\ \A t \in SegSizes : t <= MaxSegment
  BY <1>6 DEF MaxSegment
<1> QED BY <1>1, <1>7

(* The ring and the segment in flight fit in the budget and one segment    *)
(* more: a retry takes the room its own take left.                         *)
LEMMA MemoryBoundStep ==
    ASSUME Types, Loop, MemoryBound, [Next]_vars
    PROVE  MemoryBound'
<1>1. ring.bytes \in Nat /\ IsRing(ring) /\ RingBudget \in Nat /\ MaxSegment \in Nat
  BY BytesFinite, SlotFacts, RingBudgetAssumption, LargestSegment DEF Types, IsRing
<1>2. /\ taken = <<>> => SlotBytes(taken) = 0
      /\ taken # <<>> => SlotBytes(taken) = taken[1].size
      /\ SlotBytes(taken) \in Nat /\ SlotBytes(taken) <= MaxSegment
  <2>1. CASE taken = <<>>
    BY <1>1, <2>1, BytesEmpty
  <2>2. CASE taken # <<>>
    <3>1. taken[1] \in SlotSet /\ taken = <<taken[1]>>
      BY <2>2, TakenFacts
    <3>2. taken[1] \in AnySlot /\ taken[1].size \in SegSizes /\ taken[1].size \in Nat
      BY <3>1, SlotFacts
    <3>3. SlotBytes(taken) = taken[1].size
      BY <3>1, <3>2, BytesOne
    <3> QED BY <2>2, <3>2, <3>3, LargestSegment
  <2> QED BY <2>1, <2>2
<1>3. CASE Idle
  BY <1>3 DEF Idle, MemoryBound
<1>4. ASSUME NEW size \in SegSizes, Sealing(size)
      PROVE  MemoryBound'
  <2> DEFINE x == NewSlot(size)
  <2>1. x \in SlotSet /\ ring' = RingSeal(ring, x) /\ taken' = taken
    BY <1>4, NewSlotFacts DEF Sealing
  <2> HIDE DEF x
  <2>2. IsRing(RingSeal(ring, x)) /\ RingSeal(ring, x).bytes <= RingBudget
    BY <1>1, <2>1, SealFacts DEF Seals
  <2>3. ring'.bytes <= RingBudget /\ ring'.bytes \in Nat
    BY <2>1, <2>2, BytesFinite, SlotFacts DEF IsRing
  <2> QED BY <1>1, <1>2, <2>1, <2>3 DEF MemoryBound
<1>5. CASE Taking
  <2>1. /\ ring'.bytes + ring.slots[1].size = ring.bytes /\ ring'.bytes \in Nat
        /\ Head(ring.slots) = ring.slots[1] /\ ring.slots[1] \in SlotSet
    BY <1>1, <1>5, TakeFacts DEF Taking
  <2>2. SlotBytes(taken') = ring.slots[1].size /\ ring.slots[1].size \in Nat
    BY <1>5, <2>1, BytesOne, SlotFacts DEF Taking
  <2>3. SlotBytes(taken) = 0
    BY <1>2, <1>5 DEF Taking
  <2> QED BY <1>1, <2>1, <2>2, <2>3 DEF MemoryBound
<1>6. CASE TakingNone
  <2>1. ring'.bytes = ring.bytes /\ taken' = taken
    BY <1>1, <1>6, TakeNoneFacts DEF TakingNone
  <2> QED BY <2>1 DEF MemoryBound
<1>7. ASSUME NEW x \in SlotSet, Releasing(x)
      PROVE  MemoryBound'
  <2>1. ring'.bytes = ring.bytes + x.size /\ x.size \in Nat
    BY <1>1, <1>7, ReleaseFacts DEF Releasing
  <2>2. SlotBytes(taken) = x.size /\ SlotBytes(taken') = 0
    BY <1>2, <1>7, BytesEmpty DEF Releasing
  <2> QED BY <1>1, <2>1, <2>2 DEF MemoryBound
<1>8. ASSUME NEW how \in Ends, Settling(how)
      PROVE  MemoryBound'
  <2>1. ring' = ring /\ SlotBytes(taken') = 0
    BY <1>8, BytesEmpty DEF Settling
  <2> QED BY <1>1, <1>2, <2>1 DEF MemoryBound
<1> QED BY <1>3, <1>4, <1>5, <1>6, <1>7, <1>8, Moves

LEMMA InitIInv == Init => IInv
<1> SUFFICES ASSUME Init PROVE IInv
  OBVIOUS
<1>1. /\ ring.slots = <<>> /\ ring.bytes = 0 /\ ring.dropped = 0
      /\ ring = [slots |-> ring.slots, bytes |-> ring.bytes, dropped |-> ring.dropped]
      /\ taken = <<>> /\ Len(<<>>) = 0 /\ <<>> \in Seq(SlotSet)
  BY DEF Init, EmptyRing
<1>2. LifecycleTypeOK /\ Ways
  <2>1. /\ driver = "spawned" /\ phase = NotStarted /\ cause = NoCause /\ shutdown = "none"
        /\ stop = FALSE /\ disabled = FALSE
    BY DEF Init, LifecycleInit
  <2>2. NoCause \in Causes /\ NoCause[1] = "none"
    BY DEF Causes, NoCause
  <2>3. NotStarted \in 1..Stopped /\ NotStarted # Stopped
    BY ProcessorsAssumption DEF NotStarted, Stopped
  <2>4. LifecycleTypeOK
    BY <2>1, <2>2, <2>3 DEF LifecycleTypeOK
  <2>5. Ways
    BY <2>1, <2>2, <2>3 DEF Ways
  <2> QED BY <2>4, <2>5
<1>3. Types
  <2>1. IsRing(ring)
    BY <1>1, BytesEmpty DEF IsRing
  <2>2. 0 \in 0..MaxSegments /\ 1 \in 1..Processors
    BY MemWorkerAssumption, ProcessorsAssumption
  <2>3. taken \in Seq(SlotSet) /\ Len(taken) <= 1
    BY <1>1
  <2>4. outcome \in [Segments -> {"none", "delivered", "failed", "exhausted", "evicted", "abandoned"}]
    BY DEF Init
  <2> QED BY <1>2, <2>1, <2>2, <2>3, <2>4 DEF Types, Init
<1>4. Loop
  BY <1>1 DEF Loop, Init, LifecycleInit
<1>5. Indices(ring.slots) = {} /\ InFlight = {}
  BY <1>1 DEF Indices, InFlight
<1>6. Line
  BY <1>1 DEF Line
<1>7. Placed
  <2>1. \A i \in Segments : ~(i <= 0)
    BY MemWorkerAssumption DEF Segments
  <2> QED BY <1>5, <2>1 DEF Placed, Init
<1>8. Counted
  <2>1. Lost = {}
    BY DEF Lost, Init
  <2> QED BY <1>1, <2>1, FS_EmptySet DEF Counted, Init
<1>9. MemoryBound
  <2>1. SlotBytes(taken) = 0 /\ RingBudget \in Nat /\ MaxSegment \in Nat
    BY <1>1, BytesEmpty, RingBudgetAssumption, LargestSegment
  <2> QED BY <1>1, <2>1 DEF MemoryBound
<1> QED BY <1>2, <1>3, <1>4, <1>6, <1>7, <1>8, <1>9 DEF IInv

LEMMA StepIInv == IInv /\ [Next]_vars => IInv'
<1> SUFFICES ASSUME IInv, [Next]_vars PROVE IInv'
  OBVIOUS
<1> QED BY WaysStep, TypesStep, LoopStep, LineStep, PlacedStep, CountedStep, MemoryBoundStep
        DEF IInv, Types

LEMMA Invariance == Spec => []IInv
BY InitIInv, StepIInv, PTL DEF Spec

-----------------------------------------------------------------------------
(* What follows                                                            *)

(* MAX_TOTAL holds for every choice of segment sizes and of budgets: the   *)
(* ring and the segment in flight never exceed the ring's budget by more   *)
(* than one segment, retries to a full ring included.                      *)
THEOREM MemoryTheorem == Spec => []MemoryBound
BY Invariance, PTL DEF IInv

(* A worker that left because it found nothing more has left nothing.      *)
THEOREM DrainTheorem == Spec => []DrainLeavesNothing
<1>1. IInv => DrainLeavesNothing
  BY DEF IInv, Loop, DrainLeavesNothing
<1> QED BY <1>1, Invariance, PTL

(* A reader of Stopped finds its cause, and no stage holds a segment.      *)
THEOREM StoppedTheorem == Spec => []StoppedMeansStopped
<1>1. ASSUME IInv
      PROVE  StoppedMeansStopped
  <2>1. StoppedTellsWhy
    BY <1>1 DEF IInv, Ways, StoppedTellsWhy
  <2>2. NoStageAfterStopped
    BY <1>1 DEF IInv, Ways, Loop, NoStageAfterStopped
  <2> QED BY <2>1, <2>2 DEF StoppedMeansStopped
<1> QED BY <1>1, Invariance, PTL

(* A segment is in the ring or in flight, not both.                        *)
LEMMA Apart ==
    ASSUME Types, Line
    PROVE  /\ Indices(ring.slots) \cap InFlight = {}
           /\ \A i \in Indices(ring.slots) \cup InFlight : i \in Segments /\ i <= sealed
<1>1. \A k \in 1..Len(ring.slots) :
         /\ ring.slots[k].index \in Segments /\ ring.slots[k].index <= sealed
         /\ taken # <<>> => taken[1].index < ring.slots[k].index /\ ring.slots[k].index \in Nat
  BY RingSegments DEF Line
<1>2. taken # <<>> => taken[1].index \in Segments /\ taken[1].index <= sealed /\ InFlight = {taken[1].index}
  BY TakenFacts, SlotFacts DEF Line
<1>3. \A k \in 1..Len(ring.slots) : taken # <<>> => taken[1].index # ring.slots[k].index
  BY <1>1
<1>4. taken = <<>> => InFlight = {}
  BY TakenFacts
<1> QED BY <1>1, <1>2, <1>3, <1>4 DEF Indices

(* The accounts of the ring agree with the segments, in every state.       *)
THEOREM RingTheorem == Spec => []RingInv
<1> SUFFICES ASSUME IInv PROVE RingInv
  BY Invariance, PTL
<1>0. Types /\ Line /\ Placed /\ Counted
  BY DEF IInv
<1>1. TypeOK
  <2>1. ring.bytes \in Nat
    BY <1>0, BytesFinite, SlotFacts DEF Types, IsRing
  <2> QED BY <1>0, <2>1 DEF TypeOK, Types, IsRing, SlotSet
<1>2. SegmentAccounted
  <2>1. ASSUME NEW i \in Segments
        PROVE  IF i > sealed THEN outcome[i] = "none" /\ i \notin Indices(ring.slots)
               ELSE Cardinality({p \in {"ring", "flight", "out"} :
                      \/ p = "ring" /\ i \in Indices(ring.slots)
                      \/ p = "flight" /\ i \in InFlight
                      \/ p = "out" /\ outcome[i] # "none"}) = 1
    <3> DEFINE P == {p \in {"ring", "flight", "out"} :
                        \/ p = "ring" /\ i \in Indices(ring.slots)
                        \/ p = "flight" /\ i \in InFlight
                        \/ p = "out" /\ outcome[i] # "none"}
    <3>1. i \in Nat /\ sealed \in Nat
      BY <1>0, MemWorkerAssumption DEF Segments, Types
    <3>2. CASE i > sealed
      <4>1. ~(i <= sealed)
        BY <3>1, <3>2
      <4> QED BY <1>0, <3>2, <4>1, Apart DEF Placed
    <3>3. CASE ~(i > sealed)
      <4>1. i <= sealed
        BY <3>1, <3>3
      <4>2. \/ P = {"ring"} \/ P = {"flight"} \/ P = {"out"}
        <5>1. CASE outcome[i] # "none"
          BY <1>0, <5>1 DEF Placed
        <5>2. CASE outcome[i] = "none" /\ i \in Indices(ring.slots)
          BY <1>0, <5>2, Apart
        <5>3. CASE outcome[i] = "none" /\ i \notin Indices(ring.slots)
          BY <1>0, <4>1, <5>3 DEF Placed
        <5> QED BY <5>1, <5>2, <5>3
      <4> HIDE DEF P
      <4>3. Cardinality(P) = 1
        BY <4>2, FS_Singleton
      <4> QED BY <3>3, <4>3 DEF P
    <3> QED BY <3>2, <3>3
  <2> QED BY <1>0, <2>1 DEF SegmentAccounted, Types, IsRing, Counted, Lost
<1>3. OldestFirst
  <2> DEFINE line == taken \o ring.slots
             L == Len(ring.slots)
  <2>1. /\ taken \in Seq(SlotSet) /\ ring.slots \in Seq(SlotSet) /\ L \in Nat
    BY <1>0, RingSegments DEF Types, IsRing
  <2>2. /\ Len(line) = Len(taken) + L
        /\ \A k \in 1..(Len(taken) + L) : line[k] = IF k <= Len(taken) THEN taken[k] ELSE ring.slots[k - Len(taken)]
    BY <2>1, ConcatProperties
  <2> HIDE DEF line
  <2>3. ASSUME NEW j \in 1..Len(line), NEW k \in 1..Len(line), j < k
        PROVE  line[j].index < line[k].index
    <3>1. CASE taken = <<>>
      <4>1. Len(taken) = 0
        BY <3>1
      <4>2. Len(line) = L /\ line[j] = ring.slots[j] /\ line[k] = ring.slots[k]
        BY <2>1, <2>2, <4>1
      <4> QED BY <1>0, <2>3, <4>2 DEF Line
    <3>2. CASE taken # <<>>
      <4>1. Len(taken) = 1
        BY <1>0, <3>2, TakenFacts
      <4>2. Len(line) = 1 + L /\ k # 1 /\ k - 1 \in 1..L /\ line[k] = ring.slots[k - 1]
        BY <2>1, <2>2, <2>3, <4>1
      <4>3. CASE j = 1
        <5>1. line[j] = taken[1]
          BY <2>1, <2>2, <4>1, <4>3
        <5> QED BY <1>0, <3>2, <4>2, <5>1 DEF Line
      <4>4. CASE j # 1
        <5>1. j - 1 \in 1..L /\ line[j] = ring.slots[j - 1] /\ j - 1 < k - 1
          BY <2>1, <2>2, <2>3, <4>1, <4>2, <4>4
        <5> QED BY <1>0, <4>2, <5>1 DEF Line
      <4> QED BY <4>3, <4>4
    <3> QED BY <3>1, <3>2
  <2> QED BY <2>3 DEF OldestFirst, line
<1> QED BY <1>1, <1>2, <1>3 DEF RingInv

-----------------------------------------------------------------------------
(* The abstract storage                                                    *)

(* What the abstract storage sees is the account and the number sealed.    *)
StatusOf(i) ==
    IF outcome[i] = "delivered" THEN "delivered"
    ELSE IF outcome[i] # "none" THEN "lost"
    ELSE IF i <= sealed THEN "held" ELSE "unsealed"

LEMMA StatusIs == IInv => \A i \in Segments : Status(i) = StatusOf(i)
<1> SUFFICES ASSUME IInv, NEW i \in Segments
             PROVE  Status(i) = StatusOf(i)
  OBVIOUS
<1>0. Types /\ Line /\ Placed
  BY DEF IInv
<1>1. i \in Nat /\ sealed \in Nat
  BY <1>0, MemWorkerAssumption DEF Segments, Types
<1>2. i > sealed <=> ~(i <= sealed)
  BY <1>1
<1> QED BY <1>0, <1>2, Apart DEF Status, StatusOf, Placed

LEMMA AbstractInit == Init => Abstract!Init
<1> SUFFICES ASSUME Init PROVE Abstract!Init
  OBVIOUS
<1>1. \A i \in Segments : Status(i) = "unsealed"
  <2>1. \A i \in Segments : ~(i <= 0)
    BY MemWorkerAssumption DEF Segments
  <2> QED BY <2>1, InitIInv, StatusIs DEF Init, StatusOf
<1> QED BY <1>1 DEF Abstract!Init, Segments

(* Every step is a seal, the end of one segment or invisible.              *)
LEMMA AbstractStep ==
    ASSUME IInv, [Next]_vars
    PROVE  [Abstract!Next]_([i \in Segments |-> Status(i)])
<1> DEFINE Of(o, n, i) == IF o = "delivered" THEN "delivered" ELSE IF o # "none" THEN "lost"
                          ELSE IF i <= n THEN "held" ELSE "unsealed"
           S == [i \in Segments |-> Status(i)]
<1>1. Types /\ Ways /\ Loop /\ Line /\ Placed
  BY DEF IInv
<1>2. IInv'
  BY StepIInv
<1>3. \A i \in Segments : S[i] = Of(outcome[i], sealed, i)
  BY StatusIs DEF StatusOf
<1>4. \A i \in Segments : S'[i] = Of(outcome'[i], sealed', i)
  <2>1. (IInv => \A i \in Segments : Status(i) = StatusOf(i))'
    BY StatusIs, PTL
  <2>2. \A i \in Segments : Status(i)' = Of(outcome'[i], sealed', i)
    BY <1>2, <2>1 DEF StatusOf, Segments
  <2> QED BY <2>2 DEF Segments
<1>5. ASSUME outcome' = outcome, sealed' = sealed
      PROVE  S' = S
  <2>1. \A i \in Segments : S'[i] = S[i]
    <3> HIDE DEF S, Of
    <3> QED BY <1>3, <1>4, <1>5
  <2> QED BY <2>1
<1>6. CASE Idle \/ Taking \/ TakingNone \/ \E x \in SlotSet : Releasing(x)
  <2>1. outcome' = outcome /\ sealed' = sealed
    BY <1>6 DEF Idle, Taking, TakingNone, Releasing
  <2> QED BY <1>5, <2>1
<1>7. /\ Segments = 1..MaxSegments /\ sealed \in Nat /\ \A i \in Segments : i \in Nat
      /\ outcome \in [Segments -> {"none", "delivered", "failed", "exhausted", "evicted", "abandoned"}]
  BY <1>1, MemWorkerAssumption DEF Segments, Types
<1>8. ASSUME NEW size \in SegSizes, Sealing(size)
      PROVE  Abstract!Next
  <2> DEFINE gone == Evicted(ring, NewSlot(size))
             n == sealed + 1
  <2>1. n \in Segments /\ gone \subseteq Indices(ring.slots)
    BY <1>1, <1>8, NewSlotFacts, SealIndices DEF Sealing
  <2>2. \A i \in gone : i \in Segments /\ i <= sealed /\ outcome[i] = "none"
    BY <1>1, <2>1, Apart DEF Placed
  <2>3. sealed' = n /\ \A i \in Segments : outcome'[i] = IF i \in gone THEN "evicted" ELSE outcome[i]
    BY <1>8 DEF Sealing
  <2>4. ~(n <= sealed) /\ \A i \in Segments : i <= n <=> i <= sealed \/ i = n
    BY <1>7
  <2>5. outcome[n] = "none" /\ n \notin gone
    BY <1>1, <2>1, <2>2, <2>4 DEF Placed
  <2> HIDE DEF gone, S, n
  <2>6. S[n] = "unsealed"
    BY <1>3, <2>1, <2>4, <2>5
  <2>7. \A i \in 1..(n - 1) : S[i] # "unsealed"
    <3>1. ASSUME NEW i \in 1..(n - 1)
          PROVE  i \in Segments /\ i <= sealed
      BY <1>7, <2>1, <3>1, MemWorkerAssumption DEF n
    <3> QED BY <1>3, <3>1
  <2>8. gone \in SUBSET {i \in 1..MaxSegments : S[i] = "held"}
    BY <1>3, <1>7, <2>2
  <2>9. ASSUME NEW i \in Segments
        PROVE  S'[i] = IF i = n THEN "held" ELSE IF i \in gone THEN "lost" ELSE S[i]
    <3>1. CASE i = n
      BY <1>4, <2>1, <2>3, <2>4, <2>5, <3>1
    <3>2. CASE i # n
      BY <1>3, <1>4, <2>3, <2>4, <3>2
    <3> QED BY <3>1, <3>2
  <2>10. S' = [i \in 1..MaxSegments |-> IF i = n THEN "held" ELSE IF i \in gone THEN "lost" ELSE S[i]]
    BY <1>7, <2>9 DEF S
  <2>11. Abstract!Seal(n)
    BY <2>6, <2>7, <2>8, <2>10 DEF Abstract!Seal, Abstract!Held, S
  <2> QED BY <1>7, <2>1, <2>11 DEF Abstract!Next
<1>9. ASSUME NEW how \in Ends, Settling(how)
      PROVE  Abstract!Next
  <2> DEFINE n == taken[1].index
             end == IF how = "delivered" THEN "delivered" ELSE "lost"
  <2>1. n \in Segments /\ n \in InFlight /\ n <= sealed
    BY <1>1, <1>9, TakenFacts, SlotFacts DEF Settling, Line
  <2>2. outcome[n] = "none"
    BY <1>1, <2>1 DEF Placed
  <2>3. sealed' = sealed /\ outcome' = [outcome EXCEPT ![n] = how]
    BY <1>9 DEF Settling
  <2> HIDE DEF n, S
  <2>4. S[n] = "held"
    BY <1>3, <2>1, <2>2
  <2>5. \A i \in Segments : outcome'[i] = IF i = n THEN how ELSE outcome[i]
    BY <1>7, <2>1, <2>3
  <2>6. \A i \in Segments : S'[i] = IF i = n THEN end ELSE S[i]
    BY <1>3, <1>4, <2>3, <2>5 DEF Ends
  <2>7. S' = [S EXCEPT ![n] = end]
    BY <2>1, <2>6 DEF S
  <2>8. Abstract!Settle(n, end)
    BY <2>4, <2>7 DEF Abstract!Settle, S
  <2>9. end \in {"delivered", "lost"}
    OBVIOUS
  <2> QED BY <1>7, <2>1, <2>8, <2>9 DEF Abstract!Next
<1> QED BY <1>1, <1>6, <1>8, <1>9, Moves

(* The ring and its worker implement the abstract storage, for every       *)
(* budget, retry budget and number of segments.                            *)
THEOREM DeliveryTheorem == Spec => Abstract!Spec
<1>1. IInv /\ [Next]_vars => [Abstract!Next]_([i \in Segments |-> Status(i)])
  BY AbstractStep
<1> QED BY <1>1, AbstractInit, Invariance, PTL DEF Spec, Abstract!Spec
====
