--------------------------- MODULE DiskWorkerProofs ---------------------------
(***************************************************************************)
(* The trace directory, its writer and its worker, across crashes, for any *)
(* number of segments, restarts and stages and for every choice of faults: *)
(* no data is lost that was to be delivered, a process is dispensed a      *)
(* segment once, the circuit breaker follows the uploads, and all of it    *)
(* implements the abstract storage of Delivery.                            *)
(*                                                                         *)
(* The argument rests on one fact about names: an index is the home of at  *)
(* most one segment and a segment has at most one home (Homes), although   *)
(* a restart over an emptied directory uses indices again.  The rest says  *)
(* what is known of the segment in the worker's hands (InHand), of the one *)
(* the writer is removing (Removal), and of those that may still be        *)
(* dispensed (Claimed).                                                    *)
(***************************************************************************)
EXTENDS DiskWorker, FiniteSetTheorems, SequenceTheorems,
        WellFoundedInduction, TLAPS

Segment == 1..MaxSegments

Busy == {"load", "gzip", "create", "write", "original", "cleanup", "put", "delete",
         "terminal"}

(* The program counter against the worker's locals and the driver.         *)
Control ==
    /\ cur # 0 <=> pc \in Busy
    /\ payload # 0 <=> pc \in Busy \ {"load"} \/ detached # 0
    /\ detached # 0 => pc = "dropped"
    /\ pc = "dropped" => driver \in {"unwound", "gone"}
    /\ found # {} => pc \in {"snapshot", "claim"}
    /\ fresh # {} => pc = "claim"
    /\ pending # {} => pc \in Busy \cup {"next"}
    /\ cur \notin pending

Tracks ==
    /\ pc \notin {"delete", "dropped"} =>
         (breaker.open <=> lastPut \in {"failed", "undeleted"})
    /\ pc = "delete" => lastPut = "ok"

(* The index whose segment the worker, or a write it left behind, holds.   *)
InHandAt(i) == payload # 0 /\ (cur = i \/ detached = i)

Home(i, n) ==
    \/ bin[i] = n
    \/ gz[i] = n
    \/ payload = n /\ InHandAt(i)

Homes ==
    /\ next <= sealed + 1
    /\ \A i \in Index, n \in Segment : Home(i, n) => i < next /\ n <= sealed
    /\ \A i, j \in Index, n, m \in Segment :
         Home(i, n) /\ Home(j, m) => (i = j <=> n = m)
    /\ \A i \in claimed \cup found \cup fresh \cup pending \cup {cur} : i < next
    /\ \A n \in Segment : outcome[n] # "none" => n <= sealed

InHand ==
    /\ \A i \in Index : InHandAt(i) => bin[i] = payload \/ payload \in evicted
    /\ pc \in {"write", "original"} => gz[cur] = payload \/ payload \in evicted
    /\ pc = "original" => cur \in whole \/ payload \in evicted
    /\ pc = "cleanup" => bin[cur] = 0
    /\ pc = "delete" => payload \in stored
    /\ payload # 0 => outcome[payload] = "none" \/ payload \in unremoved

Removal ==
    /\ evicting # 0 =>
         /\ \A n \in Segment : Home(evicting, n) => n \in evicted
         /\ bin[evicting] # 0 => "bin" \in listed \/ bin[evicting] \in unremoved

(* What the claims protect: a segment the process could not read.          *)
Claimed ==
    /\ \A i \in Index : bin[i] # 0 /\ outcome[bin[i]] \notin {"none", "unread"} =>
         bin[i] \in unremoved
    /\ \A i \in Index : bin[i] # 0 /\ outcome[bin[i]] = "unread" /\ bin[i] \notin unremoved =>
         i \in claimed /\ i \notin fresh \cup pending \cup {cur}
    /\ \A i \in pending \cup {cur} : i # 0 =>
         i \in claimed \/ bin[i] = 0 \/ bin[i] \in unremoved
    /\ pc \in {"snapshot", "claim"} =>
         \A i \in claimed : bin[i] # 0 => i \in found

IInv == TypeOK /\ Control /\ Tracks /\ Homes /\ InHand /\ Removal /\ Claimed /\ DataSurvives

-----------------------------------------------------------------------------
(* The lifecycle                                                           *)

LEMMA LifecycleTypes ==
    ASSUME LifecycleTypeOK,
           \/ UNCHANGED lifecycle
           \/ \E done, suspended \in BOOLEAN : LifecycleStep(done, suspended)
           \/ RunLoopReturns
           \/ DropRunFuture
    PROVE  LifecycleTypeOK'
<1>1. CASE UNCHANGED lifecycle
  BY <1>1 DEF LifecycleTypeOK, lifecycle
<1>2. ASSUME NEW done \in BOOLEAN, NEW suspended \in BOOLEAN, LifecycleStep(done, suspended)
      PROVE  LifecycleTypeOK'
  <2>1. Processors \in Nat
    BY ProcessorsAssumption
  <2>2. CASE StartThread
    BY <2>1, <2>2 DEF LifecycleTypeOK, StartThread, Stopped
  <2>3. CASE StartHookPanics
    BY <2>3 DEF LifecycleTypeOK, StartHookPanics, Record, Causes
  <2>4. CASE InitializeOk
    BY <2>1, <2>4 DEF LifecycleTypeOK, InitializeOk, Stopped, Running, Initializing
  <2>5. CASE \E marker \in BOOLEAN : InitializeFails(marker)
    <3>1. <<"InitializeFailed", phase>> \in Causes
      BY <2>5 DEF InitializeFails, Causes
    <3> QED BY <2>5, <3>1 DEF LifecycleTypeOK, InitializeFails, Record
  <2>6. CASE InitializePanics
    BY <2>6 DEF LifecycleTypeOK, InitializePanics, Record, Causes
  <2>7. CASE \E how \in {"graceful", "dropped"} : SignalShutdown(how, done)
    BY <2>7 DEF LifecycleTypeOK, SignalShutdown
  <2>8. CASE ReceiveShutdown
    BY <2>8 DEF LifecycleTypeOK, ReceiveShutdown
  <2>9. CASE DrainTimesOut(suspended)
    BY <2>9 DEF LifecycleTypeOK, DrainTimesOut, Record, Causes
  <2>10. CASE PublishStopped
    BY <2>1, <2>10 DEF LifecycleTypeOK, PublishStopped, Stopped
  <2> QED BY <1>2, <2>2, <2>3, <2>4, <2>5, <2>6, <2>7, <2>8, <2>9, <2>10 DEF LifecycleStep
<1>3. CASE RunLoopReturns
  BY <1>3 DEF LifecycleTypeOK, RunLoopReturns, Record, Causes
<1>4. CASE DropRunFuture
  BY <1>4 DEF LifecycleTypeOK, DropRunFuture
<1> QED BY <1>1, <1>2, <1>3, <1>4

LEMMA Bounds ==
    /\ MaxSegments \in Nat /\ Index = 1..MaxSegments /\ Segment = 1..MaxSegments
    /\ \A i \in Index : i \in 0..MaxSegments /\ i # 0
    /\ \A i \in 0..MaxSegments : i # 0 => i \in Index
BY DiskWorkerAssumption DEF Index, Segment

(* How a step moves the driver, when no process starts.                    *)
LEMMA LifecycleMoves ==
    ASSUME Next, ~Restart
    PROVE  \/ UNCHANGED lifecycle
           \/ LifecycleStep(writerDone, Suspended)
           \/ RunLoopReturns
           \/ DropRunFuture
<1>1. CASE Writer
  BY <1>1 DEF Writer, Seal, EvictOpen, EvictNotices, EvictUnlink, EvictForget, MarkWriterDone,
              worker
<1>2. CASE Stage
  BY <1>2 DEF Stage, Gzip, StageFails, CreateDest, WriteDest, PutOk, PutRetryable, PutFatal,
              DeleteLocal, DeleteLocalFails
<1>3. CASE RunLoop
  BY <1>3 DEF RunLoop, PipelineLive, PipelineStopped, Scan, ScanFails, SnapshotClaims, Claim,
              NextSegment, ReleaseUnprocessed, Load, LoadFails, RemoveOriginal,
              RemoveOriginalFails, CleanUpDest, RemoveTerminal, EndCycle, Poll
<1>4. CASE BreakerDelay \/ DropWorker \/ DetachedWrite \/ Driver \/ Terminated
  BY <1>4 DEF BreakerDelay, DropWorker, DetachedWrite, Driver, Terminated, vars
<1> QED BY <1>1, <1>2, <1>3, <1>4 DEF Next

(* Where a segment is in hand its index and its number are known.          *)
LEMMA HandFacts ==
    ASSUME TypeOK, Control
    PROVE  /\ pc \in Busy => cur \in Index
           /\ pc \in Busy \ {"load"} => payload \in Segment
           /\ detached # 0 => detached \in Index /\ payload \in Segment
           /\ evicting # 0 => evicting \in Index
BY Bounds DEF TypeOK, Control

LEMMA SealFacts ==
    ASSUME TypeOK, Homes, Seal
    PROVE  /\ next \in Index /\ next + 1 \in 1..(MaxSegments + 1)
           /\ sealed + 1 \in Segment /\ sealed + 1 \in 0..MaxSegments
           /\ bin[next] = 0 /\ gz[next] = 0
<1>1. next \in Index /\ next + 1 \in 1..(MaxSegments + 1)
      /\ sealed + 1 \in Segment /\ sealed + 1 \in 0..MaxSegments
  BY Bounds DEF TypeOK, Homes, Seal
<1>2. bin[next] \in 0..MaxSegments /\ gz[next] \in 0..MaxSegments
  BY <1>1 DEF TypeOK, Files
<1>3. ~(next < next)
  BY DEF TypeOK
<1>4. bin[next] = 0 /\ gz[next] = 0
  BY <1>1, <1>2, <1>3, Bounds DEF Homes, Home
<1> QED BY <1>1, <1>4

(* The steps that touch the sealed files.                                  *)
LEMMA BinMoves ==
    ASSUME TypeOK, Control, Homes, Next
    PROVE  \/ bin' = bin
           \/ Seal /\ bin' = [bin EXCEPT ![next] = sealed + 1]
           \/ evicting # 0 /\ bin' = [bin EXCEPT ![evicting] = 0]
                /\ \E ok \in BOOLEAN : EvictUnlink(ok)
           \/ pc \in {"original", "delete", "terminal"} /\ bin' = [bin EXCEPT ![cur] = 0]
                /\ (RemoveOriginal \/ DeleteLocal \/ \E ok \in BOOLEAN : RemoveTerminal(ok))
<1> USE DEF directory, At
<1>1. CASE Writer
  BY <1>1 DEF Writer, Seal, EvictOpen, EvictNotices, EvictUnlink, EvictForget, MarkWriterDone,
              Unlinked
<1>2. CASE Stage
  BY <1>2 DEF Stage, Gzip, StageFails, CreateDest, WriteDest, PutOk, PutRetryable, PutFatal,
              DeleteLocal, DeleteLocalFails
<1>3. CASE RunLoop
  BY <1>3 DEF RunLoop, PipelineLive, PipelineStopped, Scan, ScanFails, SnapshotClaims, Claim,
              NextSegment, ReleaseUnprocessed, Load, LoadFails, RemoveOriginal,
              RemoveOriginalFails, CleanUpDest, RemoveTerminal, EndCycle, Poll, Unlinked
<1>4. CASE BreakerDelay \/ DropWorker \/ DetachedWrite \/ Driver \/ Terminated \/ Restart
  BY <1>4 DEF BreakerDelay, DropWorker, DetachedWrite, Driver, Terminated, Restart, vars
<1> QED BY <1>1, <1>2, <1>3, <1>4 DEF Next

(* The steps that touch the copies.                                        *)
LEMMA GzMoves ==
    ASSUME TypeOK, Control, Next
    PROVE  \/ gz' = gz /\ whole' = whole
           \/ /\ evicting # 0 /\ \E ok \in BOOLEAN : EvictUnlink(ok)
              /\ gz' = [gz EXCEPT ![evicting] = 0] /\ whole' = whole \ {evicting}
           \/ /\ CreateDest
              /\ gz' = [gz EXCEPT ![cur] = payload] /\ whole' = whole \ {cur}
           \/ WriteDest /\ gz' = gz /\ gz[cur] = payload /\ whole' = whole \cup {cur}
           \/ /\ pc \in {"cleanup", "terminal"}
              /\ CleanUpDest \/ \E ok \in BOOLEAN : RemoveTerminal(ok)
              /\ gz' = [gz EXCEPT ![cur] = 0] /\ whole' = whole \ {cur}
           \/ /\ detached # 0 /\ DetachedWrite
              /\ gz' = [gz EXCEPT ![detached] = payload] /\ whole' = whole \cup {detached}
<1> USE DEF directory, At
<1>1. CASE Writer
  BY <1>1 DEF Writer, Seal, EvictOpen, EvictNotices, EvictUnlink, EvictForget, MarkWriterDone,
              Unlinked
<1>2. CASE Stage
  BY <1>2 DEF Stage, Gzip, StageFails, CreateDest, WriteDest, PutOk, PutRetryable, PutFatal,
              DeleteLocal, DeleteLocalFails
<1>3. CASE RunLoop
  BY <1>3 DEF RunLoop, PipelineLive, PipelineStopped, Scan, ScanFails, SnapshotClaims, Claim,
              NextSegment, ReleaseUnprocessed, Load, LoadFails, RemoveOriginal,
              RemoveOriginalFails, CleanUpDest, RemoveTerminal, EndCycle, Poll, Unlinked
<1>4. CASE BreakerDelay \/ DropWorker \/ DetachedWrite \/ Driver \/ Terminated \/ Restart
  BY <1>4 DEF BreakerDelay, DropWorker, DetachedWrite, Driver, Terminated, Restart, vars
<1> QED BY <1>1, <1>2, <1>3, <1>4 DEF Next

LEMMA FileTypes ==
    ASSUME TypeOK, Control, Homes, Next
    PROVE  bin' \in Files /\ gz' \in Files /\ whole' \subseteq OnDisk(gz)'
<1>1. bin \in [Index -> 0..MaxSegments] /\ gz \in [Index -> 0..MaxSegments]
      /\ whole \subseteq OnDisk(gz) /\ 0 \in 0..MaxSegments
  BY Bounds DEF TypeOK, Files
<1>2. bin' \in [Index -> 0..MaxSegments]
  <2>1. Seal => sealed + 1 \in 0..MaxSegments
    BY SealFacts
  <2> QED BY <1>1, <2>1, BinMoves
<1>3. payload \in 0..MaxSegments
  BY DEF TypeOK
<1>4. gz' \in [Index -> 0..MaxSegments]
  BY <1>1, <1>3, GzMoves
<1>5. \A i \in whole : i \in Index /\ gz[i] # 0
  BY <1>1 DEF OnDisk
<1>6. ASSUME NEW i \in whole'
      PROVE  i \in Index /\ gz'[i] # 0
  <2>1. CASE gz' = gz /\ whole' = whole
    BY <1>5, <1>6, <2>1
  <2>2. CASE gz' = [gz EXCEPT ![evicting] = 0] /\ whole' = whole \ {evicting}
    BY <1>1, <1>5, <1>6, <2>2
  <2>3. CASE gz' = [gz EXCEPT ![cur] = payload] /\ whole' = whole \ {cur}
    BY <1>1, <1>5, <1>6, <2>3
  <2>4. CASE WriteDest /\ gz' = gz /\ gz[cur] = payload /\ whole' = whole \cup {cur}
    <3>1. cur \in Index /\ payload # 0
      BY <2>4, HandFacts, Bounds DEF WriteDest, At, Busy, Control
    <3> QED BY <1>5, <1>6, <2>4, <3>1
  <2>5. CASE gz' = [gz EXCEPT ![cur] = 0] /\ whole' = whole \ {cur}
    BY <1>1, <1>5, <1>6, <2>5
  <2>6. CASE /\ detached # 0
             /\ gz' = [gz EXCEPT ![detached] = payload] /\ whole' = whole \cup {detached}
    <3>1. detached \in Index /\ payload # 0
      BY <2>6, HandFacts, Bounds DEF Control
    <3> QED BY <1>1, <1>5, <1>6, <2>6, <3>1
  <2> QED BY <2>1, <2>2, <2>3, <2>4, <2>5, <2>6, GzMoves
<1>7. \A i \in whole' : i \in OnDisk(gz)'
  BY <1>6 DEF OnDisk, Index
<1> QED BY <1>2, <1>4, <1>7 DEF Files, Index

-----------------------------------------------------------------------------
(* discover_existing puts the indices it finds in order                    *)

LEMMA Least ==
    ASSUME NEW T, T \subseteq Nat, T # {}
    PROVE  \E x \in T : \A y \in T : x <= y
<1> DEFINE R == {ss \in Nat \X Nat : ss[1] < ss[2]}
<1>1. IsWellFoundedOn(R, Nat)
  BY NatLessThanWellFounded DEF OpToRel
<1>2. PICK x \in T : \A y \in T : <<y, x>> \notin R
  <2> HIDE DEF R
  <2> QED BY <1>1, WFMin
<1>3. ASSUME NEW y \in T, y < x
      PROVE  FALSE
  <2>1. <<y, x>> \in Nat \X Nat /\ <<y, x>>[1] = y /\ <<y, x>>[2] = x
    OBVIOUS
  <2>2. <<y, x>> \in R
    BY <1>3, <2>1
  <2> QED BY <1>2, <2>2
<1> QED BY <1>3

-----------------------------------------------------------------------------
(* The bytes of the slots                                                  *)
LEMMA Greatest ==
    ASSUME NEW N \in Nat, NEW T, T \subseteq 0..N, T # {}
    PROVE  \E x \in T : \A y \in T : y <= x
<1> DEFINE U == {N - x : x \in T}
<1>1. U \subseteq Nat /\ U # {}
  <2>1. \A x \in T : N - x \in Nat
    OBVIOUS
  <2> QED BY <2>1
<1>2. PICK u \in U : \A v \in U : u <= v
  <2> HIDE DEF U
  <2> QED BY <1>1, Least
<1>3. PICK x \in T : u = N - x
  BY <1>2
<1>4. ASSUME NEW y \in T
      PROVE  y <= x
  <2>1. N - x <= N - y
    BY <1>2, <1>3
  <2> QED BY <2>1
<1> QED BY <1>4

(* For every k up to their number there is one with k of them up to it.    *)
LEMMA Ranked ==
    ASSUME NEW N \in Nat, NEW S, S \subseteq 1..N, NEW k \in 1..Cardinality(S)
    PROVE  \E i \in S : Cardinality({j \in S : j <= i}) = k
<1> DEFINE UpTo(i) == {j \in S : j <= i}
           T == {i \in S : Cardinality(UpTo(i)) >= k}
<1>1. IsFiniteSet(S) /\ Cardinality(S) \in Nat
  <2>1. IsFiniteSet(1..N)
    BY FS_Interval
  <2> QED BY <2>1, FS_Subset, FS_CardinalityType
<1>2. \A i : IsFiniteSet(UpTo(i)) /\ Cardinality(UpTo(i)) \in Nat
  BY <1>1, FS_Subset, FS_CardinalityType
<1>3. S # {} /\ S \subseteq 0..N /\ S \subseteq Nat
  BY <1>1, FS_EmptySet
<1>4. T # {}
  <2>1. PICK x \in S : \A y \in S : y <= x
    BY <1>3, Greatest
  <2>2. UpTo(x) = S
    BY <2>1
  <2>3. Cardinality(S) >= k
    BY <1>1
  <2> QED BY <2>2, <2>3
<1>5. PICK i \in T : \A y \in T : i <= y
  <2>1. T \subseteq Nat
    BY <1>3
  <2> HIDE DEF T
  <2> QED BY <1>4, <2>1, Least
<1>6. i \in S /\ Cardinality(UpTo(i)) >= k /\ i \in Nat /\ i \in UpTo(i)
  BY <1>3, <1>5
<1>7. CASE Cardinality(UpTo(i)) = k
  BY <1>6, <1>7
<1>8. CASE Cardinality(UpTo(i)) # k
  <2> DEFINE B == UpTo(i) \ {i}
  <2>1. IsFiniteSet(B) /\ Cardinality(B) = Cardinality(UpTo(i)) - 1
    <3> HIDE DEF UpTo
    <3> QED BY <1>2, <1>6, FS_RemoveElement
  <2>2. Cardinality(B) >= k
    <3> HIDE DEF B, UpTo
    <3> QED BY <1>1, <1>2, <1>6, <1>8, <2>1
  <2>3. B # {}
    <3> HIDE DEF B
    <3> QED BY <1>1, <2>2, FS_EmptySet
  <2>4. PICK m \in B : \A y \in B : y <= m
    <3>1. B \subseteq 0..N
      BY <1>3
    <3> HIDE DEF B
    <3> QED BY <2>3, <3>1, Greatest
  <2>5. m \in S /\ m \in Nat /\ m <= i /\ m # i
    BY <1>3, <2>4
  <2>6. UpTo(m) = B
    <3>1. ASSUME NEW y \in UpTo(m) PROVE y \in B
      BY <1>3, <1>6, <2>5
    <3>2. ASSUME NEW y \in B PROVE y \in UpTo(m)
      BY <2>4
    <3> QED BY <3>1, <3>2
  <2>7. m \in T
    BY <2>2, <2>5, <2>6
  <2>8. i <= m
    <3> HIDE DEF T
    <3> QED BY <1>5, <2>7
  <2> QED BY <1>6, <2>5, <2>8
<1> QED BY <1>7, <1>8

LEMMA InIndexOrderType ==
    ASSUME NEW S, S \subseteq Index
    PROVE  InIndexOrder(S) \in Seq(Index)
<1>1. S \subseteq 1..MaxSegments /\ MaxSegments \in Nat
  BY Bounds
<1>2. Cardinality(S) \in Nat
  <2>1. IsFiniteSet(1..MaxSegments)
    BY <1>1, FS_Interval
  <2> QED BY <1>1, <2>1, FS_Subset, FS_CardinalityType
<1>3. ASSUME NEW k \in 1..Cardinality(S)
      PROVE  (CHOOSE i \in S : Cardinality({j \in S : j <= i}) = k) \in Index
  BY <1>1, Ranked
<1>4. InIndexOrder(S) \in [1..Cardinality(S) -> Index]
  BY <1>3 DEF InIndexOrder
<1> QED BY <1>2, <1>4, SeqDef

-----------------------------------------------------------------------------
(* Types                                                                   *)

(* What the writer keeps, and what a restart makes of it.                  *)
LEMMA WriterTypes ==
    ASSUME TypeOK, Control, Homes, Next
    PROVE  /\ closed' \in Seq(Index)
           /\ next' \in 1..(MaxSegments + 1) /\ sealed' \in 0..MaxSegments
           /\ writerDone' \in BOOLEAN
           /\ evicting' \in 0..MaxSegments /\ listed' \subseteq {"bin", "gz"}
<1>0. /\ closed \in Seq(Index)
      /\ next \in 1..(MaxSegments + 1) /\ sealed \in 0..MaxSegments
      /\ writerDone \in BOOLEAN
      /\ evicting \in 0..MaxSegments /\ listed \subseteq {"bin", "gz"}
  BY DEF TypeOK
<1>1. CASE Seal
  <2>1. next \in Index
    BY <1>1, SealFacts
  <2>2. closed' \in Seq(Index)
    BY <1>0, <1>1, <2>1 DEF Seal
  <2> QED BY <1>0, <1>1, <2>2, SealFacts DEF Seal
<1>2. CASE EvictOpen
  <2>1. closed # <<>>
    <3>1. Retain \in Nat
      BY DiskWorkerAssumption
    <3> QED BY <1>2, <3>1, EmptySeq DEF EvictOpen, OverBudget
  <2>2. Head(closed) \in Index /\ Tail(closed) \in Seq(Index)
    BY <1>0, <2>1, HeadTailProperties
  <2> QED BY <1>0, <1>2, <2>2, Bounds DEF EvictOpen, Present
<1>3. CASE EvictNotices \/ (\E ok \in BOOLEAN : EvictUnlink(ok)) \/ EvictForget \/ MarkWriterDone
  <2>1. closed' = closed /\ next' = next /\ sealed' = sealed /\ writerDone' \in BOOLEAN
    BY <1>0, <1>3 DEF EvictNotices, EvictUnlink, EvictForget, MarkWriterDone
  <2>2. (evicting' = evicting \/ evicting' = 0) /\ listed' \subseteq {"bin", "gz"}
    BY <1>0, <1>3 DEF EvictNotices, EvictUnlink, EvictForget, MarkWriterDone
  <2> QED BY <1>0, <2>1, <2>2, Bounds
<1>4. CASE Restart
  <2>1. OnDisk(bin) \cup OnDisk(gz) \subseteq Index
    BY DEF OnDisk
  <2>2. closed' \in Seq(Index)
    BY <1>4, <2>1, InIndexOrderType DEF Restart
  <2>3. next' \in 1..(MaxSegments + 1)
    BY <1>4, <2>1, Bounds DEF Restart
  <2>4. sealed' = sealed /\ writerDone' = FALSE /\ evicting' = 0 /\ listed' = {}
    BY <1>4 DEF Restart, Fresh
  <2>5. 0 \in 0..MaxSegments
    BY Bounds
  <2> QED BY <1>0, <2>2, <2>3, <2>4, <2>5
<1>5. CASE Stage
  BY <1>0, <1>5 DEF Stage, Gzip, StageFails, CreateDest, WriteDest, PutOk, PutRetryable,
                    PutFatal, DeleteLocal, DeleteLocalFails, writer
<1>6. CASE RunLoop
  BY <1>0, <1>6 DEF RunLoop, PipelineLive, PipelineStopped, Scan, ScanFails, SnapshotClaims,
              Claim, NextSegment, ReleaseUnprocessed, Load, LoadFails, RemoveOriginal,
              RemoveOriginalFails, CleanUpDest, RemoveTerminal, EndCycle, Poll, writer
<1>7. CASE BreakerDelay \/ DropWorker \/ DetachedWrite \/ Driver \/ Terminated
  BY <1>0, <1>7 DEF BreakerDelay, DropWorker, DetachedWrite, Driver, Terminated, vars, writer
<1> QED BY <1>1, <1>2, <1>3, <1>4, <1>5, <1>6, <1>7 DEF Next, Writer

(* What the worker has in memory.                                          *)
LEMMA PassTypes ==
    ASSUME TypeOK, Control, Next
    PROVE  /\ emptying' \in BOOLEAN
           /\ claimed' \subseteq Index /\ found' \subseteq Index
           /\ fresh' \subseteq Index /\ pending' \subseteq Index
           /\ cur' \in 0..MaxSegments /\ payload' \in 0..MaxSegments
           /\ detached' \in 0..MaxSegments
<1> USE DEF pass, writer
<1>0. /\ emptying \in BOOLEAN /\ stop \in BOOLEAN /\ writerDone \in BOOLEAN
      /\ claimed \subseteq Index /\ found \subseteq Index
      /\ fresh \subseteq Index /\ pending \subseteq Index
      /\ cur \in 0..MaxSegments /\ payload \in 0..MaxSegments
      /\ detached \in 0..MaxSegments /\ 0 \in 0..MaxSegments
      /\ \A i \in Index : bin[i] \in 0..MaxSegments /\ i \in 0..MaxSegments
      /\ OnDisk(bin) \subseteq Index
  BY Bounds DEF TypeOK, LifecycleTypeOK, Files, OnDisk
<1>1. CASE Writer
  BY <1>0, <1>1 DEF Writer, Seal, EvictOpen, EvictNotices, EvictUnlink, EvictForget,
              MarkWriterDone, worker
<1>2. CASE Stage
  BY <1>0, <1>2 DEF Stage, Gzip, StageFails, CreateDest, WriteDest, PutOk, PutRetryable,
              PutFatal, DeleteLocal, DeleteLocalFails, ReleaseClaim, Done
<1>3. CASE PipelineLive \/ PipelineStopped \/ Scan \/ ScanFails \/ SnapshotClaims \/ Claim
  BY <1>0, <1>3 DEF PipelineLive, PipelineStopped, Scan, ScanFails, SnapshotClaims, Claim, Claims
<1>4. CASE NextSegment
  BY <1>0, <1>4 DEF NextSegment
<1>5. CASE Load
  <2>1. bin[cur] \in 0..MaxSegments
    BY <1>0, <1>5, HandFacts DEF Load, At, Busy
  <2> QED BY <1>0, <1>5, <2>1 DEF Load
<1>6. CASE ReleaseUnprocessed \/ LoadFails \/ RemoveOriginal
             \/ RemoveOriginalFails \/ CleanUpDest \/ \E ok \in BOOLEAN : RemoveTerminal(ok)
  BY <1>0, <1>6 DEF ReleaseUnprocessed, LoadFails, RemoveOriginal,
              RemoveOriginalFails, CleanUpDest, RemoveTerminal, ReleaseClaim, Done
<1>7. CASE EndCycle \/ Poll \/ BreakerDelay \/ DropWorker \/ DetachedWrite
             \/ Driver \/ Terminated \/ Restart
  BY <1>0, <1>7 DEF EndCycle, Poll, BreakerDelay, DropWorker, DetachedWrite, Driver, Terminated,
              Restart, Fresh, vars
<1> QED BY <1>1, <1>2, <1>3, <1>4, <1>5, <1>6, <1>7 DEF Next, RunLoop

(* Where the loop is, and the circuit breaker.                             *)
LEMMA LoopTypes ==
    ASSUME TypeOK, Control, Next
    PROVE  /\ pc' \in {"live", "scan", "snapshot", "claim", "next", "load", "gzip",
                       "create", "write", "original", "cleanup", "put", "delete",
                       "terminal", "after", "sleep", "drained", "interrupted", "dropped"}
           /\ breaker' \in Breakers
           /\ lastPut' \in {"none", "ok", "failed", "undeleted"}
<1>0. /\ pc \in {"live", "scan", "snapshot", "claim", "next", "load", "gzip",
                 "create", "write", "original", "cleanup", "put", "delete",
                 "terminal", "after", "sleep", "drained", "interrupted", "dropped"}
      /\ breaker \in Breakers
      /\ lastPut \in {"none", "ok", "failed", "undeleted"}
  BY DEF TypeOK
<1> USE DEF history, record
<1>9. /\ ClosedBreaker \in Breakers /\ OnFailure(breaker) \in Breakers
      /\ OnSuccess(breaker) \in Breakers /\ DelayElapses(breaker) \in Breakers
  <2>1. breaker.open \in BOOLEAN /\ breaker.backoff \in 0..MaxBackoff /\ MaxBackoff \in Nat \ {0}
    BY <1>0, MaxBackoffAssumption DEF Breakers
  <2>2. AtMost(breaker.backoff * 2, MaxBackoff) \in 0..MaxBackoff
    BY <2>1 DEF AtMost
  <2>3. ClosedBreaker \in Breakers
    BY <2>1 DEF ClosedBreaker, Breakers
  <2>4. 1 \in 0..MaxBackoff
    BY <2>1
  <2>5. OnFailure(breaker) \in Breakers
    BY <2>1, <2>2, <2>4 DEF OnFailure, Breakers
  <2>6. DelayElapses(breaker) \in Breakers
    BY <1>0 DEF DelayElapses, Breakers
  <2> QED BY <2>3, <2>5, <2>6 DEF OnSuccess
<1>1. CASE Writer
  BY <1>0, <1>1 DEF Writer, Seal, EvictOpen, EvictNotices, EvictUnlink, EvictForget,
              MarkWriterDone, worker
<1>2. CASE Stage
  BY <1>0, <1>2, <1>9 DEF Stage, Gzip, StageFails, CreateDest, WriteDest, PutOk, PutRetryable,
              PutFatal, DeleteLocal, DeleteLocalFails, Done
<1>3. CASE RunLoop
  BY <1>0, <1>3 DEF RunLoop, PipelineLive, PipelineStopped, Scan, ScanFails, SnapshotClaims,
              Claim, NextSegment, ReleaseUnprocessed, Load, LoadFails, RemoveOriginal,
              RemoveOriginalFails, CleanUpDest, RemoveTerminal, EndCycle, Poll, Done
<1>4. CASE BreakerDelay \/ DropWorker \/ DetachedWrite \/ Driver \/ Terminated \/ Restart
  BY <1>0, <1>4, <1>9 DEF BreakerDelay, DropWorker, DetachedWrite, Driver, Terminated, Restart,
              Fresh, vars
<1> QED BY <1>1, <1>2, <1>3, <1>4 DEF Next

(* What is recorded of the segments.                                       *)
Outcomes == {"none", "unread", "delivered", "failed", "cleaned"}

(* The steps that settle a segment in the record.                          *)
LEMMA OutcomeMoves ==
    ASSUME TypeOK, Control, Next
    PROVE  \/ outcome' = outcome
           \/ /\ LoadFails /\ bin[cur] # 0 /\ outcome[bin[cur]] # "delivered"
              /\ outcome' = [outcome EXCEPT ![bin[cur]] = "unread"]
           \/ /\ \/ RemoveOriginal /\ bin[cur] # 0
                 \/ RemoveOriginalFails
                 \/ DeleteLocal
              /\ outcome' = [outcome EXCEPT ![payload] = "delivered"]
           \/ CleanUpDest /\ outcome' = [outcome EXCEPT ![payload] = "cleaned"]
           \/ /\ \E ok \in BOOLEAN : RemoveTerminal(ok)
              /\ outcome' = [outcome EXCEPT ![payload] = "failed"]
           \/ Restart /\ outcome' = [n \in Segment |->
                             IF outcome[n] = "unread" THEN "none" ELSE outcome[n]]
<1> USE DEF history
<1>1. CASE Writer
  BY <1>1 DEF Writer, Seal, EvictOpen, EvictNotices, EvictUnlink, EvictForget, MarkWriterDone
<1>2. CASE Gzip \/ StageFails \/ CreateDest \/ WriteDest \/ PutOk \/ PutRetryable \/ PutFatal
             \/ DeleteLocalFails
  BY <1>2 DEF Gzip, StageFails, CreateDest, WriteDest, PutOk, PutRetryable, PutFatal,
              DeleteLocalFails, Done
<1>3. CASE PipelineLive \/ PipelineStopped \/ Scan \/ ScanFails \/ SnapshotClaims \/ Claim
             \/ NextSegment \/ ReleaseUnprocessed \/ Load \/ EndCycle \/ Poll
  BY <1>3 DEF PipelineLive, PipelineStopped, Scan, ScanFails, SnapshotClaims, Claim,
              NextSegment, ReleaseUnprocessed, Load, EndCycle, Poll
<1>4. CASE BreakerDelay \/ DropWorker \/ DetachedWrite \/ Driver \/ Terminated
  BY <1>4 DEF BreakerDelay, DropWorker, DetachedWrite, Driver, Terminated, vars
<1>5. CASE LoadFails
  BY <1>5 DEF LoadFails
<1>6. CASE RemoveOriginal \/ RemoveOriginalFails \/ DeleteLocal \/ CleanUpDest
             \/ \E ok \in BOOLEAN : RemoveTerminal(ok)
  BY <1>6 DEF RemoveOriginal, RemoveOriginalFails, DeleteLocal, CleanUpDest, RemoveTerminal,
              Done, Control, At, Busy
<1>7. CASE Restart
  BY <1>7 DEF Restart, Segment
<1> QED BY <1>1, <1>2, <1>3, <1>4, <1>5, <1>6, <1>7 DEF Next, Stage, RunLoop

LEMMA HistoryTypes ==
    ASSUME TypeOK, Control, Next
    PROVE  /\ destination' \in Destinations
           /\ restarts' \in 0..MaxRestarts
           /\ evicted' \subseteq Segment /\ stored' \subseteq Segment
           /\ unremoved' \subseteq Segment
           /\ outcome' \in [Segment -> Outcomes]
<1> USE DEF history, record
<1>0. /\ destination \in Destinations
      /\ restarts \in 0..MaxRestarts
      /\ evicted \subseteq Segment /\ stored \subseteq Segment
      /\ unremoved \subseteq Segment
      /\ outcome \in [Segment -> Outcomes]
      /\ \A i \in Index : bin[i] \in Segment \cup {0} /\ gz[i] \in Segment \cup {0}
  BY Bounds DEF TypeOK, Outcomes, Segment, Files
<1>1. outcome' \in [Segment -> Outcomes]
  BY <1>0, OutcomeMoves DEF Outcomes
<1>2. /\ destination' = destination
      /\ restarts' = restarts \/ Restart
  <2>1. CASE Writer
    BY <2>1 DEF Writer, Seal, EvictOpen, EvictNotices, EvictUnlink, EvictForget, MarkWriterDone
  <2>2. CASE Stage
    BY <2>2 DEF Stage, Gzip, StageFails, CreateDest, WriteDest, PutOk, PutRetryable, PutFatal,
                DeleteLocal, DeleteLocalFails
  <2>3. CASE RunLoop
    BY <2>3 DEF RunLoop, PipelineLive, PipelineStopped, Scan, ScanFails, SnapshotClaims, Claim,
              NextSegment, ReleaseUnprocessed, Load, LoadFails, RemoveOriginal,
              RemoveOriginalFails, CleanUpDest, RemoveTerminal, EndCycle, Poll
  <2>4. CASE BreakerDelay \/ DropWorker \/ DetachedWrite \/ Driver \/ Terminated \/ Restart
    BY <2>4 DEF BreakerDelay, DropWorker, DetachedWrite, Driver, Terminated, Restart, vars
  <2> QED BY <2>1, <2>2, <2>3, <2>4 DEF Next
<1>3. restarts' \in 0..MaxRestarts
  BY <1>0, <1>2, DiskWorkerAssumption DEF Restart
<1>4. evicted' \subseteq Segment /\ stored' \subseteq Segment /\ unremoved' \subseteq Segment
  <2>1. CASE EvictOpen
    <3>1. closed \in Seq(Index) /\ Len(closed) > Retain /\ Retain \in Nat
      BY <2>1, DiskWorkerAssumption DEF EvictOpen, OverBudget, TypeOK
    <3>2. closed # <<>>
      BY <3>1, EmptySeq
    <3>3. Head(closed) \in Index
      BY <3>1, <3>2, HeadTailProperties
    <3> QED BY <1>0, <2>1, <3>3 DEF EvictOpen
  <2>2. CASE Seal \/ EvictNotices \/ (\E ok \in BOOLEAN : EvictUnlink(ok)) \/ EvictForget
               \/ MarkWriterDone
    BY <1>0, <2>2, HandFacts DEF Seal, EvictNotices, EvictUnlink, EvictForget, MarkWriterDone,
                  Unremoved
  <2>3. CASE Stage
    BY <1>0, <2>3, HandFacts DEF Stage, Gzip, StageFails, CreateDest, WriteDest, PutOk,
                PutRetryable, PutFatal, DeleteLocal, DeleteLocalFails, At, Busy
  <2>4. CASE RunLoop
    BY <1>0, <2>4, HandFacts DEF RunLoop, PipelineLive, PipelineStopped, Scan, ScanFails,
              SnapshotClaims, Claim, NextSegment, ReleaseUnprocessed, Load, LoadFails,
              RemoveOriginal, RemoveOriginalFails, CleanUpDest, RemoveTerminal, EndCycle, Poll,
              Unremoved, At, Busy
  <2>5. CASE BreakerDelay \/ DropWorker \/ DetachedWrite \/ Driver \/ Terminated \/ Restart
    BY <1>0, <2>5 DEF BreakerDelay, DropWorker, DetachedWrite, Driver, Terminated, Restart, vars
  <2> QED BY <2>1, <2>2, <2>3, <2>4, <2>5 DEF Next, Writer
<1> QED BY <1>0, <1>1, <1>2, <1>3, <1>4

LEMMA TypesStep ==
    ASSUME TypeOK, Control, Homes, Next
    PROVE  TypeOK'
<1>1. LifecycleTypeOK'
  <2>1. CASE Restart
    <3>1. NoCause \in Causes
      BY DEF Causes
    <3>2. NotStarted \in 1..Stopped
      BY ProcessorsAssumption DEF NotStarted, Stopped
    <3> QED BY <2>1, <3>1, <3>2 DEF Restart, LifecycleTypeOK
  <2>2. CASE ~Restart
    <3>1. writerDone \in BOOLEAN /\ Suspended \in BOOLEAN /\ LifecycleTypeOK
      BY DEF TypeOK, Suspended
    <3> QED BY <2>2, <3>1, LifecycleMoves, LifecycleTypes
  <2> QED BY <2>1, <2>2
<1>2. /\ bin' \in Files /\ gz' \in Files /\ whole' \subseteq OnDisk(gz)'
  BY FileTypes
<1>3. claimed' \cup found' \cup fresh' \cup pending' \subseteq Index
  BY PassTypes
<1>4. evicted' \cup stored' \cup unremoved' \subseteq 1..MaxSegments
  BY HistoryTypes DEF Segment
<1>5. outcome' \in [1..MaxSegments -> {"none", "unread", "delivered", "failed", "cleaned"}]
  BY HistoryTypes DEF Segment, Outcomes
<1> QED BY <1>1, <1>2, <1>3, <1>4, <1>5, WriterTypes, PassTypes, LoopTypes, HistoryTypes
        DEF TypeOK, Files, Index

-----------------------------------------------------------------------------
(* The program counter and the circuit breaker                             *)

LEMMA ControlStep ==
    ASSUME TypeOK, Control, Next
    PROVE  Control'
<1> USE DEF Control, At, Busy, pass
<1>0. \A i \in Index : i # 0
  BY Bounds
<1>1. CASE Writer
  BY <1>1 DEF Writer, Seal, EvictOpen, EvictNotices, EvictUnlink, EvictForget, MarkWriterDone,
              worker, lifecycle
<1>2. CASE Stage
  <2>1. driver' = driver
    BY <1>2 DEF Stage, Gzip, StageFails, CreateDest, WriteDest, PutOk, PutRetryable, PutFatal,
              DeleteLocal, DeleteLocalFails, lifecycle
  <2>2. CASE Gzip \/ StageFails \/ CreateDest \/ WriteDest
    BY <1>0, <2>1, <2>2 DEF Gzip, StageFails, CreateDest, WriteDest
  <2>3. CASE PutOk \/ PutRetryable \/ PutFatal \/ DeleteLocal \/ DeleteLocalFails
    <3>1. 0 \notin pending
      BY <1>0 DEF TypeOK
    <3> QED BY <2>1, <2>3, <3>1
            DEF PutOk, PutRetryable, PutFatal, DeleteLocal, DeleteLocalFails, Done
  <2> QED BY <1>2, <2>2, <2>3 DEF Stage
<1>3. CASE RunLoop
  <2>0. 0 \notin pending /\ 0 \notin fresh
    BY <1>0 DEF TypeOK
  <2>1. CASE PipelineLive \/ PipelineStopped \/ Scan \/ ScanFails \/ SnapshotClaims
    BY <2>0, <2>1 DEF PipelineLive, PipelineStopped, Scan, ScanFails, SnapshotClaims,
                RunLoopReturns, Record, lifecycle
  <2>2. CASE Claim
    BY <2>0, <2>2 DEF Claim, RunLoopReturns, Record, lifecycle
  <2>3. CASE NextSegment
    <3>1. \A i \in pending : i \in Index
      BY DEF TypeOK
    <3> QED BY <1>0, <2>0, <2>3, <3>1 DEF NextSegment, lifecycle
  <2>4. CASE ReleaseUnprocessed \/ Load \/ LoadFails
    BY <2>0, <2>4 DEF ReleaseUnprocessed, Load, LoadFails, lifecycle
  <2>5. CASE RemoveOriginal \/ RemoveOriginalFails \/ CleanUpDest
               \/ \E ok \in BOOLEAN : RemoveTerminal(ok)
    BY <2>0, <2>5 DEF RemoveOriginal, RemoveOriginalFails, CleanUpDest, RemoveTerminal, Done,
                lifecycle
  <2>6. CASE EndCycle \/ Poll
    BY <2>6 DEF EndCycle, Poll, lifecycle
  <2> QED BY <1>3, <2>1, <2>2, <2>3, <2>4, <2>5, <2>6 DEF RunLoop
<1>4. CASE BreakerDelay \/ DetachedWrite \/ Terminated
  BY <1>4 DEF BreakerDelay, DetachedWrite, Terminated, vars, lifecycle
<1>5. CASE DropWorker
  <2>0. 0 \notin {}
    OBVIOUS
  <2> QED BY <1>5, <2>0 DEF DropWorker, DropRunFuture
<1>6. CASE Driver
  <2>1. driver \in {"unwound", "gone"} => driver' \in {"unwound", "gone"}
    BY <1>6 DEF Driver, LifecycleStep, StartThread, StartHookPanics, InitializeOk,
                InitializeFails, InitializePanics, SignalShutdown, ReceiveShutdown,
                DrainTimesOut, PublishStopped, Polled
  <2> QED BY <1>6, <2>1 DEF Driver
<1>7. CASE Restart
  BY <1>7 DEF Restart, Fresh
<1> QED BY <1>1, <1>2, <1>3, <1>4, <1>5, <1>6, <1>7 DEF Next

LEMMA TracksStep ==
    ASSUME TypeOK, Control, Tracks, Next
    PROVE  Tracks'
<1> USE DEF Tracks, At, history, record
<1>1. CASE Writer
  BY <1>1 DEF Writer, Seal, EvictOpen, EvictNotices, EvictUnlink, EvictForget, MarkWriterDone,
              worker
<1>2. CASE Stage
  <2>1. OnFailure(breaker).open /\ ~OnSuccess(breaker).open
    BY DEF OnFailure, OnSuccess, ClosedBreaker
  <2>2. CASE Gzip \/ StageFails \/ CreateDest \/ WriteDest \/ PutOk
    BY <2>2 DEF Gzip, StageFails, CreateDest, WriteDest, PutOk
  <2>3. CASE PutRetryable \/ PutFatal \/ DeleteLocalFails
    BY <2>1, <2>3 DEF PutRetryable, PutFatal, DeleteLocalFails, Done
  <2>4. CASE DeleteLocal
    BY <2>1, <2>4 DEF DeleteLocal, Done
  <2> QED BY <1>2, <2>2, <2>3, <2>4 DEF Stage
<1>3. CASE RunLoop
  BY <1>3 DEF RunLoop, PipelineLive, PipelineStopped, Scan, ScanFails, SnapshotClaims, Claim,
              NextSegment, ReleaseUnprocessed, Load, LoadFails, RemoveOriginal,
              RemoveOriginalFails, CleanUpDest, RemoveTerminal, EndCycle, Poll, Done
<1>4. CASE BreakerDelay
  <2>1. breaker.open = breaker'.open
    BY <1>4 DEF BreakerDelay, DelayElapses, TypeOK, Breakers
  <2> QED BY <1>4, <2>1 DEF BreakerDelay
<1>5. CASE DropWorker \/ DetachedWrite \/ Driver \/ Terminated \/ Restart
  BY <1>5 DEF DropWorker, DetachedWrite, Driver, Terminated, Restart, Fresh, ClosedBreaker, vars
<1> QED BY <1>1, <1>2, <1>3, <1>4, <1>5 DEF Next

-----------------------------------------------------------------------------
(* An index is the home of one segment                                     *)

(* The steps that change what the worker has in hand.                      *)
LEMMA HandMoves ==
    ASSUME TypeOK, Control, Next
    PROVE  \/ payload' = payload /\ cur' = cur /\ detached' = detached
           \/ payload' = 0
           \/ Load /\ payload' = bin[cur] /\ bin[cur] # 0 /\ cur' = cur /\ detached' = detached
           \/ /\ DropWorker /\ pc \in {"create", "write"}
              /\ payload' = payload /\ detached' = cur /\ cur' = 0
<1> USE DEF pass, Control, At, Busy
<1>1. CASE Writer
  BY <1>1 DEF Writer, Seal, EvictOpen, EvictNotices, EvictUnlink, EvictForget, MarkWriterDone,
              worker
<1>2. CASE Stage
  BY <1>2 DEF Stage, Gzip, StageFails, CreateDest, WriteDest, PutOk, PutRetryable, PutFatal,
              DeleteLocal, DeleteLocalFails, Done
<1>3. CASE RunLoop
  BY <1>3 DEF RunLoop, PipelineLive, PipelineStopped, Scan, ScanFails, SnapshotClaims, Claim,
              NextSegment, ReleaseUnprocessed, Load, LoadFails, RemoveOriginal,
              RemoveOriginalFails, CleanUpDest, RemoveTerminal, EndCycle, Poll, Done
<1>4. CASE BreakerDelay \/ DropWorker \/ DetachedWrite \/ Driver \/ Terminated \/ Restart
  BY <1>4 DEF BreakerDelay, DropWorker, DetachedWrite, Driver, Terminated, Restart, Fresh, vars
<1> QED BY <1>1, <1>2, <1>3, <1>4 DEF Next

LEMMA NoNewHome ==
    ASSUME TypeOK, Control, Homes, Next, ~Seal,
           NEW i \in Index, NEW n \in Segment, Home(i, n)'
    PROVE  Home(i, n)
<1>0. /\ n # 0 /\ i # 0 /\ bin \in [Index -> 0..MaxSegments] /\ gz \in [Index -> 0..MaxSegments]
  BY Bounds DEF TypeOK, Files, Segment
<1>1. CASE bin'[i] = n
  <2>1. bin[i] = n
    BY <1>0, <1>1, BinMoves
  <2> QED BY <2>1 DEF Home
<1>2. CASE gz'[i] = n
  <2>1. CASE gz[i] = n
    BY <2>1 DEF Home
  <2>2. CASE gz[i] # n
    <3>1. \/ CreateDest /\ i = cur /\ payload = n
          \/ detached # 0 /\ i = detached /\ payload = n
      BY <1>0, <1>2, <2>2, GzMoves
    <3> QED BY <1>0, <3>1 DEF Home, InHandAt
  <2> QED BY <2>1, <2>2
<1>3. CASE payload' = n /\ InHandAt(i)'
  <2>1. payload' # 0 /\ (cur' = i \/ detached' = i)
    BY <1>3 DEF InHandAt
  <2>2. CASE payload' = payload /\ cur' = cur /\ detached' = detached
    BY <1>3, <2>1, <2>2 DEF Home, InHandAt
  <2>3. CASE Load /\ payload' = bin[cur] /\ cur' = cur /\ detached' = detached
    <3>1. detached = 0
      BY <2>3 DEF Load, At, Control
    <3> QED BY <1>0, <1>3, <2>1, <2>3, <3>1 DEF Home
  <2>4. CASE payload' = payload /\ detached' = cur /\ cur' = 0
    BY <1>0, <1>3, <2>1, <2>4 DEF Home, InHandAt
  <2> QED BY <2>1, <2>2, <2>3, <2>4, HandMoves
<1> QED BY <1>1, <1>2, <1>3 DEF Home

LEMMA WriterMoves ==
    ASSUME Next
    PROVE  \/ next' = next /\ sealed' = sealed
           \/ Seal
           \/ Restart /\ sealed' = sealed
<1> USE DEF writer
<1>1. CASE EvictOpen \/ EvictNotices \/ (\E ok \in BOOLEAN : EvictUnlink(ok))
             \/ EvictForget \/ MarkWriterDone
  BY <1>1 DEF EvictOpen, EvictNotices, EvictUnlink, EvictForget, MarkWriterDone
<1>2. CASE Stage
  BY <1>2 DEF Stage, Gzip, StageFails, CreateDest, WriteDest, PutOk, PutRetryable, PutFatal,
              DeleteLocal, DeleteLocalFails
<1>3. CASE RunLoop
  BY <1>3 DEF RunLoop, PipelineLive, PipelineStopped, Scan, ScanFails, SnapshotClaims, Claim,
              NextSegment, ReleaseUnprocessed, Load, LoadFails, RemoveOriginal,
              RemoveOriginalFails, CleanUpDest, RemoveTerminal, EndCycle, Poll
<1>4. CASE BreakerDelay \/ DropWorker \/ DetachedWrite \/ Driver \/ Terminated \/ Restart
  BY <1>4 DEF BreakerDelay, DropWorker, DetachedWrite, Driver, Terminated, Restart, vars
<1> QED BY <1>1, <1>2, <1>3, <1>4 DEF Next, Writer

(* The indices the worker has in mind come from the directory.             *)
LEMMA KnownIndices ==
    ASSUME TypeOK, Control, Homes, Next
    PROVE  \A i \in claimed' \cup found' \cup fresh' \cup pending' \cup {cur'} :
             \/ i \in claimed \cup found \cup fresh \cup pending \cup {cur, 0}
             \/ i \in Index /\ bin[i] # 0
<1> USE DEF pass, writer
<1>1. CASE Writer
  BY <1>1 DEF Writer, Seal, EvictOpen, EvictNotices, EvictUnlink, EvictForget,
              MarkWriterDone, worker
<1>2. CASE Stage
  BY <1>2 DEF Stage, Gzip, StageFails, CreateDest, WriteDest, PutOk, PutRetryable, PutFatal,
              DeleteLocal, DeleteLocalFails, Done, ReleaseClaim
<1>3. CASE PipelineLive \/ PipelineStopped \/ Scan \/ ScanFails \/ SnapshotClaims \/ Claim
  BY <1>3 DEF PipelineLive, PipelineStopped, Scan, ScanFails, SnapshotClaims, Claim, Claims,
              OnDisk
<1>4. CASE NextSegment \/ ReleaseUnprocessed \/ Load \/ LoadFails
  BY <1>4 DEF NextSegment, ReleaseUnprocessed, Load, LoadFails
<1>5. CASE RemoveOriginal \/ RemoveOriginalFails \/ CleanUpDest
             \/ (\E ok \in BOOLEAN : RemoveTerminal(ok)) \/ EndCycle \/ Poll
  BY <1>5 DEF RemoveOriginal, RemoveOriginalFails, CleanUpDest, RemoveTerminal, EndCycle, Poll,
              Done, ReleaseClaim
<1>6. CASE BreakerDelay \/ DropWorker \/ DetachedWrite \/ Driver \/ Terminated \/ Restart
  BY <1>6 DEF BreakerDelay, DropWorker, DetachedWrite, Driver, Terminated, Restart, Fresh, vars
<1> QED BY <1>1, <1>2, <1>3, <1>4, <1>5, <1>6 DEF Next, RunLoop

LEMMA HomesStep ==
    ASSUME TypeOK, Control, Homes, Next
    PROVE  Homes'
<1>0. next \in Nat /\ sealed \in Nat /\ next >= 1 /\ TypeOK'
  BY TypesStep, Bounds DEF TypeOK
<1>1. CASE Seal
  <2> DEFINE new == sealed + 1
  <2>1. /\ next \in Index /\ new \in Segment /\ bin[next] = 0 /\ gz[next] = 0
        /\ next' = next + 1 /\ sealed' = new
        /\ gz' = gz /\ payload' = payload /\ cur' = cur /\ detached' = detached
        /\ claimed' = claimed /\ found' = found /\ fresh' = fresh /\ pending' = pending
        /\ outcome' = outcome
    BY <1>1, SealFacts DEF Seal, worker, pass, history
  <2>2. bin' = [bin EXCEPT ![next] = new] /\ bin \in [Index -> 0..MaxSegments]
    BY <1>1 DEF Seal, TypeOK, Files
  <2>3. ~(new <= sealed) /\ ~(next < next) /\ next < next + 1 /\ new <= new
        /\ \A i \in Nat : (i < next => i < next + 1) /\ (i <= sealed => i <= new)
        /\ next + 1 <= new + 1
    BY <1>0 DEF Homes
  <2>4. ASSUME NEW i \in Index, NEW n \in Segment, Home(i, n)'
        PROVE  (i = next /\ n = new) \/ (i # next /\ n # new /\ Home(i, n))
    <3>1. CASE Home(i, n)
      BY <2>3, <3>1 DEF Homes
    <3>2. CASE ~Home(i, n)
      BY <2>1, <2>2, <2>4, <3>2 DEF Home, InHandAt
    <3> QED BY <3>1, <3>2
  <2>5. \A i \in Index : i \in Nat
    BY Bounds
  <2>6. \A n \in Segment : n \in Nat
    BY Bounds
  <2> HIDE DEF new
  <2>7. ASSUME NEW i \in Index, NEW n \in Segment, Home(i, n)'
        PROVE  i < next' /\ n <= sealed'
    <3>1. CASE i = next /\ n = new
      BY <2>1, <2>3, <3>1
    <3>2. CASE Home(i, n)
      <4>1. i < next /\ n <= sealed
        BY <3>2 DEF Homes
      <4> QED BY <2>1, <2>3, <2>5, <2>6, <4>1
    <3> QED BY <2>4, <2>7, <3>1, <3>2
  <2>8. ASSUME NEW i \in Index, NEW j \in Index, NEW n \in Segment, NEW m \in Segment,
               Home(i, n)', Home(j, m)'
        PROVE  i = j <=> n = m
    <3>1. (i = next /\ n = new) \/ (i # next /\ n # new /\ Home(i, n))
      BY <2>4, <2>8
    <3>2. (j = next /\ m = new) \/ (j # next /\ m # new /\ Home(j, m))
      BY <2>4, <2>8
    <3> QED BY <3>1, <3>2 DEF Homes
  <2>9. \A i \in claimed \cup found \cup fresh \cup pending \cup {cur} : i \in Nat /\ i < next
    BY Bounds DEF TypeOK, Homes
  <2>10. \A i \in claimed' \cup found' \cup fresh' \cup pending' \cup {cur'} : i < next'
    BY <2>1, <2>3, <2>9
  <2>11. \A n \in Segment : outcome'[n] # "none" => n <= sealed'
    BY <2>1, <2>3, <2>6 DEF Homes
  <2>12. next' <= sealed' + 1
    BY <2>1, <2>3
  <2> QED BY <2>7, <2>8, <2>10, <2>11, <2>12 DEF Homes, Index, Segment
<1>2. CASE ~Seal
  <2>1. sealed' = sealed
    BY <1>2, WriterMoves
  <2>2. \A i \in Index, n \in Segment : Home(i, n)' => Home(i, n)
    BY <1>2, NoNewHome
  <2>3. \A i, j \in Index, n, m \in Segment : Home(i, n)' /\ Home(j, m)' => (i = j <=> n = m)
    BY <2>2 DEF Homes
  <2>4. \A n \in Segment : outcome'[n] # "none" => n <= sealed'
    <3>1. ASSUME NEW n \in Segment, outcome'[n] # "none", outcome[n] = "none"
          PROVE  \E i \in Index : Home(i, n)
      <4>1. outcome \in [Segment -> Outcomes]
        BY DEF TypeOK, Segment, Outcomes
      <4>2. \/ LoadFails /\ n = bin[cur]
            \/ pc \in Busy \ {"load"} /\ n = payload
        BY <3>1, <4>1, OutcomeMoves
           DEF RemoveOriginal, RemoveOriginalFails, DeleteLocal, CleanUpDest,
               RemoveTerminal, At, Busy
      <4>3. CASE LoadFails /\ n = bin[cur]
        BY <4>3, HandFacts DEF LoadFails, At, Busy, Home
      <4>4. CASE pc \in Busy \ {"load"} /\ n = payload
        BY <4>4, HandFacts DEF Home, InHandAt, Control
      <4> QED BY <4>2, <4>3, <4>4
    <3> QED BY <2>1, <3>1 DEF Homes
  <2>5. CASE Restart
    <3> DEFINE left == OnDisk(bin) \cup OnDisk(gz)
    <3>1. PICK last \in {0} \cup left : (\A i \in left : i <= last) /\ next' = last + 1
      BY <2>5 DEF Restart
    <3>2. left \subseteq Index /\ \A i \in Index : i \in Nat
      BY Bounds DEF OnDisk
    <3>3. \A i \in left : i <= sealed
      <4>1. ASSUME NEW i \in left
            PROVE  i < next
        <5>1. i \in Index /\ (bin[i] # 0 \/ gz[i] # 0)
          BY DEF OnDisk
        <5>2. \E n \in Segment : Home(i, n)
          BY <5>1, Bounds DEF Home, TypeOK, Files
        <5> QED BY <5>1, <5>2 DEF Homes
      <4> QED BY <1>0, <3>2, <4>1 DEF Homes
    <3> HIDE DEF left
    <3>4. next' <= sealed' + 1
      BY <1>0, <2>1, <3>1, <3>2, <3>3
    <3>5. ASSUME NEW i \in Index, NEW n \in Segment, Home(i, n)'
          PROVE  i < next' /\ n <= sealed'
      <4>1. Home(i, n) /\ n # 0
        BY <2>2, <3>5, Bounds
      <4>2. payload' = 0 /\ bin' = bin /\ gz' = gz
        BY <2>5 DEF Restart, Fresh, directory
      <4>3. i \in left
        BY <3>5, <4>1, <4>2 DEF Home, InHandAt, left, OnDisk
      <4>4. n <= sealed
        BY <4>1 DEF Homes
      <4> QED BY <2>1, <3>1, <3>2, <4>3, <4>4
    <3>6. \A i \in claimed' \cup found' \cup fresh' \cup pending' \cup {cur'} : i < next'
      BY <2>5, <3>1, <3>2 DEF Restart, Fresh
    <3> QED BY <2>3, <2>4, <3>4, <3>5, <3>6 DEF Homes, Index, Segment
  <2>6. CASE ~Restart
    <3>1. next' = next
      BY <1>2, <2>6, WriterMoves
    <3>2. \A i \in Index : bin[i] # 0 => i < next
      <4>1. ASSUME NEW i \in Index, bin[i] # 0
            PROVE  \E n \in Segment : Home(i, n)
        BY <4>1, Bounds DEF Home, TypeOK, Files
      <4> QED BY <4>1 DEF Homes
    <3>3. \A i \in claimed \cup found \cup fresh \cup pending \cup {cur, 0} : i < next
      BY <1>0 DEF Homes
    <3>4. \A i \in claimed' \cup found' \cup fresh' \cup pending' \cup {cur'} : i < next'
      BY <3>1, <3>2, <3>3, KnownIndices
    <3>5. \A i \in Index, n \in Segment : Home(i, n)' => i < next' /\ n <= sealed'
      BY <2>1, <2>2, <3>1 DEF Homes
    <3>6. next' <= sealed' + 1
      BY <2>1, <3>1 DEF Homes
    <3> QED BY <2>3, <2>4, <3>4, <3>5, <3>6 DEF Homes, Index, Segment
  <2> QED BY <2>5, <2>6
<1> QED BY <1>1, <1>2

-----------------------------------------------------------------------------
(* The segment in the worker's hands                                       *)

(* What has been evicted, stored or found irremovable remains so.          *)
LEMMA RecordGrows ==
    ASSUME Next
    PROVE  evicted \subseteq evicted' /\ stored \subseteq stored' /\ unremoved \subseteq unremoved'
<1> USE DEF history, record, Unremoved
<1>1. CASE Writer
  BY <1>1 DEF Writer, Seal, EvictOpen, EvictNotices, EvictUnlink, EvictForget, MarkWriterDone
<1>2. CASE Stage
  BY <1>2 DEF Stage, Gzip, StageFails, CreateDest, WriteDest, PutOk, PutRetryable, PutFatal,
              DeleteLocal, DeleteLocalFails
<1>3. CASE RunLoop
  BY <1>3 DEF RunLoop, PipelineLive, PipelineStopped, Scan, ScanFails, SnapshotClaims, Claim,
              NextSegment, ReleaseUnprocessed, Load, LoadFails, RemoveOriginal,
              RemoveOriginalFails, CleanUpDest, RemoveTerminal, EndCycle, Poll
<1>4. CASE BreakerDelay \/ DropWorker \/ DetachedWrite \/ Driver \/ Terminated \/ Restart
  BY <1>4 DEF BreakerDelay, DropWorker, DetachedWrite, Driver, Terminated, Restart, vars
<1> QED BY <1>1, <1>2, <1>3, <1>4 DEF Next

(* How the destination stages are entered.                                 *)
LEMMA StagesEntered ==
    ASSUME Control, Next, pc' \in {"write", "original", "cleanup", "delete"}
    PROVE  /\ cur' = cur /\ payload' = payload
           /\ \/ pc' = pc /\ outcome' = outcome
              \/ CreateDest /\ pc' = "write"
              \/ WriteDest /\ pc' = "original"
              \/ RemoveOriginal /\ pc' = "cleanup" /\ bin[cur] = 0 /\ bin' = bin
              \/ PutOk /\ pc' = "delete"
<1> USE DEF pass, history
<1>1. CASE Writer
  BY <1>1 DEF Writer, Seal, EvictOpen, EvictNotices, EvictUnlink, EvictForget, MarkWriterDone,
              worker
<1>2. CASE Stage
  BY <1>2 DEF Stage, Gzip, StageFails, CreateDest, WriteDest, PutOk, PutRetryable, PutFatal,
              DeleteLocal, DeleteLocalFails, Done
<1>3. CASE RunLoop
  BY <1>3 DEF RunLoop, PipelineLive, PipelineStopped, Scan, ScanFails, SnapshotClaims, Claim,
              NextSegment, ReleaseUnprocessed, Load, LoadFails, RemoveOriginal,
              RemoveOriginalFails, CleanUpDest, RemoveTerminal, EndCycle, Poll, Done
<1>4. CASE BreakerDelay \/ DropWorker \/ DetachedWrite \/ Driver \/ Terminated \/ Restart
  BY <1>4 DEF BreakerDelay, DropWorker, DetachedWrite, Driver, Terminated, Restart, Fresh, vars,
              Control
<1> QED BY <1>1, <1>2, <1>3, <1>4 DEF Next

LEMMA InHandStep ==
    ASSUME TypeOK, Control, Homes, InHand, Removal, Claimed, Next
    PROVE  InHand'
<1>0. /\ bin \in [Index -> 0..MaxSegments] /\ gz \in [Index -> 0..MaxSegments]
      /\ \A i \in Index : i # 0
  BY Bounds DEF TypeOK, Files
<1>1. ASSUME NEW i \in Index, InHandAt(i)'
      PROVE  bin'[i] = payload' \/ payload' \in evicted'
  <2>1. payload' # 0 /\ (cur' = i \/ detached' = i)
    BY <1>1 DEF InHandAt
  <2>2. CASE Load
    <3>1. detached' = 0 /\ bin' = bin /\ cur' = cur /\ payload' = bin[cur]
      BY <2>2 DEF Load, At, Control, directory
    <3> QED BY <1>0, <2>1, <3>1
  <2>3. CASE payload' = payload /\ InHandAt(i)
    <3>1. payload \in Segment /\ Home(i, payload)
      BY <2>1, <2>3, Bounds DEF Home, TypeOK
    <3>2. i < next
      BY <3>1 DEF Homes
    <3>3. bin'[i] = bin[i] \/ (evicting # 0 /\ i = evicting)
      <4>1. Seal => i # next
        BY <3>2 DEF TypeOK
      <4>2. RemoveOriginal \/ DeleteLocal \/ (\E ok \in BOOLEAN : RemoveTerminal(ok))
              => payload' = 0 \/ bin' = bin
        BY DEF RemoveOriginal, DeleteLocal, RemoveTerminal, Done
      <4> QED BY <1>0, <2>1, <4>1, <4>2, BinMoves
    <3>4. evicting # 0 /\ i = evicting => payload \in evicted
      BY <3>1 DEF Removal
    <3> QED BY <2>3, <3>3, <3>4, RecordGrows DEF InHand
  <2>4. Load \/ (payload' = payload /\ InHandAt(i))
    BY <1>0, <2>1, HandMoves DEF InHandAt
  <2> QED BY <2>2, <2>3, <2>4
<1>2. ASSUME pc' \in {"write", "original"}
      PROVE  gz'[cur'] = payload' \/ payload' \in evicted'
  <2>1. cur' = cur /\ payload' = payload
    BY <1>2, StagesEntered
  <2>2. CASE CreateDest
    BY <1>0, <2>1, <2>2, HandFacts DEF CreateDest, At, Busy
  <2>3. CASE ~CreateDest
    <3>1. pc \in {"write", "original"} /\ (WriteDest \/ pc' = pc)
      BY <1>2, <2>3, StagesEntered DEF WriteDest, At
    <3>2. cur \in Index /\ payload \in Segment
      BY <3>1, HandFacts DEF Busy
    <3>3. detached = 0
      BY <3>1 DEF Control
    <3>4. gz'[cur] = gz[cur] \/ (evicting # 0 /\ cur = evicting)
      BY <1>0, <2>3, <3>1, <3>2, <3>3, GzMoves
    <3>5. Home(cur, payload)
      BY <3>2, Bounds DEF Home, InHandAt
    <3>6. evicting # 0 /\ cur = evicting => payload \in evicted
      BY <3>2, <3>5 DEF Removal
    <3> QED BY <2>1, <3>1, <3>4, <3>6, RecordGrows DEF InHand
  <2> QED BY <2>2, <2>3
<1>3. ASSUME pc' = "original"
      PROVE  cur' \in whole' \/ payload' \in evicted'
  <2>1. cur' = cur /\ payload' = payload
    BY <1>3, StagesEntered
  <2>2. CASE WriteDest
    <3>1. gz[cur] = payload \/ payload \in evicted
      BY <2>2 DEF WriteDest, At, InHand
    <3> QED BY <2>1, <2>2, <3>1, RecordGrows DEF WriteDest
  <2>3. CASE ~WriteDest
    <3>1. pc = "original"
      BY <1>3, <2>3, StagesEntered
    <3>2. cur \in Index /\ payload \in Segment
      BY <3>1, HandFacts DEF Busy
    <3>3. detached = 0
      BY <3>1 DEF Control
    <3>4. cur \in whole => cur \in whole' \/ (evicting # 0 /\ cur = evicting)
      BY <1>0, <2>3, <3>1, <3>2, <3>3, GzMoves DEF CreateDest, At
    <3>5. Home(cur, payload)
      BY <3>2, Bounds DEF Home, InHandAt
    <3>6. evicting # 0 /\ cur = evicting => payload \in evicted
      BY <3>2, <3>5 DEF Removal
    <3> QED BY <2>1, <3>1, <3>4, <3>6, RecordGrows DEF InHand
  <2> QED BY <2>2, <2>3
<1>4. ASSUME pc' = "cleanup"
      PROVE  bin'[cur'] = 0
  <2>1. CASE RemoveOriginal
    BY <1>4, <2>1, StagesEntered DEF RemoveOriginal, At
  <2>2. CASE ~RemoveOriginal
    <3>1. pc = "cleanup" /\ cur' = cur
      BY <1>4, <2>2, StagesEntered
    <3>2. cur \in Index /\ cur < next /\ bin[cur] = 0
      BY <3>1, HandFacts DEF Busy, Homes, InHand
    <3>3. Seal => cur # next
      BY <3>2 DEF TypeOK
    <3> QED BY <1>0, <3>1, <3>2, <3>3, BinMoves
  <2> QED BY <2>1, <2>2
<1>5. ASSUME pc' = "delete"
      PROVE  payload' \in stored'
  <2>1. payload' = payload
    BY <1>5, StagesEntered
  <2>2. CASE PutOk
    BY <2>1, <2>2 DEF PutOk
  <2>3. CASE ~PutOk
    BY <1>5, <2>1, <2>3, StagesEntered, RecordGrows DEF InHand
  <2> QED BY <2>2, <2>3
<1>6. ASSUME payload' # 0
      PROVE  outcome'[payload'] = "none" \/ payload' \in unremoved'
  <2>1. outcome' = outcome
    BY <1>6, OutcomeMoves
       DEF LoadFails, At, Busy, RemoveOriginal, RemoveOriginalFails, DeleteLocal, CleanUpDest,
           RemoveTerminal, Restart, Fresh, Done, Control
  <2>2. CASE payload' = payload
    BY <1>6, <2>1, <2>2, RecordGrows DEF InHand
  <2>3. CASE Load /\ payload' = bin[cur] /\ bin[cur] # 0
    <3>1. cur \in Index
      BY <2>3, HandFacts DEF Load, At, Busy
    <3> QED BY <2>1, <2>3, <3>1, RecordGrows DEF Claimed
  <2> QED BY <1>6, <2>2, <2>3, HandMoves
<1> QED BY <1>1, <1>2, <1>3, <1>4, <1>5, <1>6 DEF InHand, Index

-----------------------------------------------------------------------------
(* The segment the writer is removing                                      *)

LEMMA RemovalMoves ==
    ASSUME Next, evicting' # 0
    PROVE  \/ EvictOpen
           \/ /\ evicting' = evicting /\ ~Seal
              /\ \/ listed \subseteq listed'
                 \/ \E ok \in BOOLEAN : EvictUnlink(ok)
<1> USE DEF writer
<1>1. CASE Writer
  BY <1>1 DEF Writer, Seal, EvictNotices, EvictForget, MarkWriterDone, EvictUnlink
<1>2. CASE Stage
  BY <1>2 DEF Stage, Gzip, StageFails, CreateDest, WriteDest, PutOk, PutRetryable, PutFatal,
              DeleteLocal, DeleteLocalFails, Seal
<1>3. CASE RunLoop
  BY <1>3 DEF RunLoop, PipelineLive, PipelineStopped, Scan, ScanFails, SnapshotClaims, Claim,
              NextSegment, ReleaseUnprocessed, Load, LoadFails, RemoveOriginal,
              RemoveOriginalFails, CleanUpDest, RemoveTerminal, EndCycle, Poll, Seal
<1>4. CASE BreakerDelay \/ DropWorker \/ DetachedWrite \/ Driver \/ Terminated \/ Restart
  BY <1>4 DEF BreakerDelay, DropWorker, DetachedWrite, Driver, Terminated, Restart, Fresh, vars,
              Seal
<1> QED BY <1>1, <1>2, <1>3, <1>4 DEF Next

LEMMA RemovalStep ==
    ASSUME TypeOK, Control, Homes, InHand, Removal, Next
    PROVE  Removal'
<1> SUFFICES ASSUME evicting' # 0
             PROVE  /\ \A n \in Segment : Home(evicting, n)' => n \in evicted'
                    /\ bin'[evicting'] # 0 => "bin" \in listed' \/ bin'[evicting'] \in unremoved'
  BY DEF Removal, Segment
<1>0. /\ bin \in [Index -> 0..MaxSegments] /\ evicting' \in Index
      /\ \A n \in Segment : n # 0
  BY TypesStep, Bounds DEF TypeOK, Files
<1>1. CASE EvictOpen
  <2> DEFINE h == Head(closed)
  <2>1. /\ evicting' = h /\ bin' = bin /\ gz' = gz /\ payload' = payload /\ cur' = cur
        /\ detached' = detached /\ listed' = Present(h)
        /\ evicted' = evicted \cup ({bin[h], gz[h]} \ {0})
    BY <1>1 DEF EvictOpen, directory, worker, pass
  <2> HIDE DEF h
  <2>2. ASSUME NEW n \in Segment, Home(evicting, n)'
        PROVE  n \in evicted'
    <3>1. bin[h] = n \/ gz[h] = n \/ (payload = n /\ InHandAt(h))
      BY <2>1, <2>2 DEF Home, InHandAt
    <3>2. InHandAt(h) => bin[h] = payload \/ payload \in evicted
      BY <1>0, <2>1 DEF InHand
    <3> QED BY <1>0, <2>1, <3>1, <3>2
  <2> QED BY <2>1, <2>2 DEF Present
<1>2. CASE ~EvictOpen
  <2>1. evicting' = evicting /\ ~Seal
    BY <1>2, RemovalMoves
  <2>2. ASSUME NEW n \in Segment, Home(evicting, n)'
        PROVE  n \in evicted'
    <3>1. PICK i \in Index : i = evicting'
      BY <1>0
    <3>2. Home(i, n)'
      BY <2>2, <3>1 DEF Home, InHandAt
    <3>3. Home(i, n)
      BY <2>1, <3>2, NoNewHome
    <3>4. Home(evicting, n)
      BY <2>1, <3>1, <3>3
    <3> QED BY <2>1, <3>4, RecordGrows DEF Removal
  <2>3. ASSUME bin'[evicting'] # 0
        PROVE  "bin" \in listed' \/ bin'[evicting'] \in unremoved'
    <3>1. bin'[evicting] = bin[evicting] /\ bin[evicting] # 0
      BY <1>0, <2>1, <2>3, BinMoves
    <3>2. "bin" \in listed \/ bin[evicting] \in unremoved
      BY <2>1, <3>1 DEF Removal
    <3>3. CASE \E ok \in BOOLEAN : EvictUnlink(ok)
      BY <1>0, <2>1, <3>1, <3>2, <3>3 DEF EvictUnlink, Unlinked, Unremoved
    <3>4. CASE listed \subseteq listed'
      BY <2>1, <3>1, <3>2, <3>4, RecordGrows
    <3> QED BY <1>2, <3>3, <3>4, RemovalMoves
  <2> QED BY <2>2, <2>3
<1> QED BY <1>1, <1>2

-----------------------------------------------------------------------------
(* What the claims protect                                                 *)

(* The steps that change the claims or the pass of the worker.             *)
LEMMA ClaimMoves ==
    ASSUME Control, Next
    PROVE  \/ /\ UNCHANGED <<claimed, found, fresh, pending, cur>>
              /\ pc' \in {"snapshot", "claim"} => pc' = pc
           \/ /\ EvictForget /\ claimed' = claimed \ {evicting} /\ evicting # 0 /\ listed = {}
              /\ UNCHANGED <<found, fresh, pending, cur, pc, bin>>
           \/ Scan /\ found' = OnDisk(bin) /\ UNCHANGED <<claimed, fresh, pending, cur, bin>>
           \/ /\ pc = "snapshot" /\ fresh' = found \ claimed
              /\ UNCHANGED <<claimed, found, pending, cur, bin>>
           \/ /\ pc = "claim" /\ claimed' = (claimed \cap found) \cup fresh
              /\ pending' = fresh /\ fresh' = {} /\ cur' = 0
              /\ pc' \notin {"snapshot", "claim"}
              /\ UNCHANGED bin
           \/ /\ pc' = "load" /\ UNCHANGED <<claimed, fresh, bin>>
              /\ cur' \in pending /\ pending' = pending \ {cur'}
           \/ /\ pc' = "after" /\ claimed' = claimed \ pending /\ pending' = {} /\ cur' = 0
              /\ UNCHANGED <<fresh, bin>>
           \/ /\ pc' = "next" /\ pc \in Busy /\ cur' = 0 /\ claimed \ {cur} \subseteq claimed'
              /\ claimed' \subseteq claimed /\ UNCHANGED <<fresh, pending>>
              /\ LoadFails => claimed' = claimed
           \/ /\ pc' \notin {"snapshot", "claim"} /\ UNCHANGED <<claimed, bin>>
              /\ fresh' = {} /\ pending' = {} /\ cur' = 0
           \/ /\ Restart /\ pc' = "live" /\ claimed' = {} /\ fresh' = {}
              /\ pending' = {} /\ cur' = 0
<1> USE DEF pass, directory, Control, At, Busy
<1>1. CASE Seal \/ EvictOpen \/ EvictNotices \/ (\E ok \in BOOLEAN : EvictUnlink(ok))
             \/ MarkWriterDone
  BY <1>1 DEF Seal, EvictOpen, EvictNotices, EvictUnlink, MarkWriterDone, worker
<1>2. CASE EvictForget
  BY <1>2 DEF EvictForget, worker
<1>3. CASE Gzip \/ StageFails \/ CreateDest \/ WriteDest \/ PutOk \/ PutFatal
             \/ DeleteLocalFails \/ PipelineLive \/ PipelineStopped \/ ScanFails \/ Load
             \/ EndCycle \/ Poll \/ BreakerDelay \/ DetachedWrite \/ Driver \/ Terminated
  BY <1>3 DEF Gzip, StageFails, CreateDest, WriteDest, PutOk, PutFatal, DeleteLocalFails,
              PipelineLive, PipelineStopped, ScanFails, Load, EndCycle, Poll, BreakerDelay,
              DetachedWrite, Driver, Terminated, vars
<1>4. CASE PutRetryable \/ DeleteLocal \/ LoadFails \/ RemoveOriginalFails \/ CleanUpDest
             \/ \E ok \in BOOLEAN : RemoveTerminal(ok)
  BY <1>4 DEF PutRetryable, DeleteLocal, LoadFails, RemoveOriginalFails, CleanUpDest,
              RemoveTerminal, Done, ReleaseClaim
<1>5. CASE RemoveOriginal
  BY <1>5 DEF RemoveOriginal, Done, LoadFails
<1>6. CASE Scan
  BY <1>6 DEF Scan
<1>7. CASE SnapshotClaims
  BY <1>7 DEF SnapshotClaims
<1>8. CASE Claim
  BY <1>8 DEF Claim, Claims
<1>9. CASE NextSegment
  BY <1>9 DEF NextSegment
<1>10. CASE ReleaseUnprocessed
  BY <1>10 DEF ReleaseUnprocessed
<1>11. CASE DropWorker
  BY <1>11 DEF DropWorker
<1>12. CASE Restart
  BY <1>12 DEF Restart, Fresh
<1> QED BY <1>1, <1>2, <1>3, <1>4, <1>5, <1>6, <1>7, <1>8, <1>9, <1>10, <1>11, <1>12
        DEF Next, Writer, Stage, RunLoop

(* A file that is there was there before, unless it has just been sealed.  *)
LEMMA BinKept ==
    ASSUME TypeOK, Control, Homes, Next, NEW i \in Index, bin'[i] # 0
    PROVE  \/ bin'[i] = bin[i] /\ ~(Seal /\ i = next)
           \/ Seal /\ i = next /\ bin'[i] = sealed + 1 /\ outcome'[bin'[i]] = "none"
<1>0. bin \in [Index -> 0..MaxSegments]
  BY DEF TypeOK, Files
<1>1. CASE Seal
  <2>1. /\ next \in Index /\ sealed + 1 \in Segment /\ ~(sealed + 1 <= sealed)
        /\ outcome' = outcome /\ bin' = [bin EXCEPT ![next] = sealed + 1]
    BY <1>1, SealFacts DEF Seal, history, TypeOK
  <2>2. outcome[sealed + 1] = "none"
    BY <2>1 DEF Homes
  <2> QED BY <1>0, <1>1, <2>1, <2>2
<1>2. CASE ~Seal
  BY <1>0, <1>2, BinMoves
<1> QED BY <1>1, <1>2

(* The claim on a file that is there is dropped by the stage that has it   *)
(* in hand, by a pass that is given up or by an eviction that failed.      *)
LEMMA ClaimedStep ==
    ASSUME TypeOK, Control, Homes, InHand, Removal, Claimed, Next
    PROVE  Claimed'
<1>0. /\ bin \in [Index -> 0..MaxSegments] /\ outcome \in [Segment -> Outcomes]
      /\ \A i \in Index : i # 0
      /\ \A i \in Index : bin[i] # 0 => bin[i] \in Segment /\ Home(i, bin[i])
      /\ TypeOK'
  BY TypesStep, Bounds DEF TypeOK, Files, Segment, Outcomes, Home
<1>1. ASSUME NEW i \in Index, bin'[i] # 0, outcome'[bin'[i]] \notin {"none", "unread"}
      PROVE  bin'[i] \in unremoved'
  <2>1. bin'[i] = bin[i] /\ bin[i] # 0
    BY <1>1, BinKept
  <2> DEFINE n == bin[i]
  <2>2. n \in Segment /\ Home(i, n)
    BY <1>0, <2>1
  <2>3. CASE outcome'[n] = outcome[n]
    BY <1>1, <2>1, <2>3, RecordGrows DEF Claimed
  <2>4. CASE outcome'[n] # outcome[n]
    <3>1. n = payload /\ cur \in Index /\ payload # 0
          /\ \/ RemoveOriginal /\ bin[cur] # 0
             \/ RemoveOriginalFails
             \/ DeleteLocal
             \/ CleanUpDest
             \/ \E ok \in BOOLEAN : RemoveTerminal(ok)
      <4>1. /\ \/ RemoveOriginal /\ bin[cur] # 0
               \/ RemoveOriginalFails
               \/ DeleteLocal
               \/ CleanUpDest
               \/ \E ok \in BOOLEAN : RemoveTerminal(ok)
            /\ n = payload
        BY <1>0, <1>1, <2>1, <2>2, <2>4, OutcomeMoves
      <4>2. pc \in Busy \ {"load"}
        BY <4>1 DEF RemoveOriginal, RemoveOriginalFails, DeleteLocal, CleanUpDest,
                    RemoveTerminal, At, Busy
      <4> QED BY <4>1, <4>2, HandFacts, Bounds
    <3>2. i = cur
      <4>1. Home(cur, n)
        BY <3>1 DEF Home, InHandAt
      <4> QED BY <2>2, <3>1, <4>1 DEF Homes
    <3>3. bin'[cur] # 0 /\ bin[cur] # 0 /\ bin'[cur] = bin[cur]
      BY <1>1, <2>1, <3>2
    <3>4. RemoveOriginalFails \/ \E ok \in BOOLEAN : RemoveTerminal(ok) /\ ~ok
      BY <1>0, <3>1, <3>3 DEF RemoveOriginal, DeleteLocal, CleanUpDest, RemoveTerminal, InHand, At
    <3>5. Unremoved(cur)
      BY <3>4 DEF RemoveOriginalFails, RemoveTerminal
    <3> QED BY <2>1, <3>2, <3>5 DEF Unremoved
  <2> QED BY <2>3, <2>4
<1>2. ASSUME NEW i \in Index, bin'[i] # 0, outcome'[bin'[i]] = "unread", bin'[i] \notin unremoved'
      PROVE  i \in claimed' /\ i \notin fresh' \cup pending' \cup {cur'}
  <2>1. bin'[i] = bin[i] /\ bin[i] # 0
    BY <1>2, BinKept
  <2> DEFINE n == bin[i]
  <2>2. n \in Segment /\ Home(i, n) /\ n \notin unremoved
    BY <1>0, <1>2, <2>1, RecordGrows
  <2>3. ~Restart
    BY <1>2, <2>1, <2>2, OutcomeMoves DEF Restart, Segment
  <2>4. CASE outcome[n] = "unread"
    <3>1. i \in claimed /\ i \notin fresh \cup pending \cup {cur}
      BY <2>1, <2>2, <2>4 DEF Claimed
    <3>2. evicting # 0 /\ listed = {} => i # evicting
      BY <2>1, <2>2 DEF Removal
    <3>3. pc \in {"snapshot", "claim"} => i \in found
      BY <2>1, <3>1 DEF Claimed
    <3> QED BY <1>0, <2>3, <3>1, <3>2, <3>3, ClaimMoves
  <2>5. CASE outcome[n] # "unread"
    <3>1. LoadFails /\ n = bin[cur]
      BY <1>0, <1>2, <2>1, <2>2, <2>5, OutcomeMoves
    <3>2. pc = "load" /\ cur \in Index
      BY <3>1, HandFacts DEF LoadFails, At, Busy
    <3>3. i = cur
      BY <1>0, <2>1, <2>2, <3>1, <3>2 DEF Homes
    <3>4. i \in claimed
      BY <1>0, <2>1, <2>2, <3>3 DEF Claimed
    <3>5. fresh = {} /\ i \notin pending
      BY <3>2, <3>3 DEF Control
    <3> QED BY <1>0, <3>1, <3>4, <3>5 DEF LoadFails
  <2> QED BY <2>4, <2>5
<1>3. ASSUME NEW i \in pending' \cup {cur'}, i # 0
      PROVE  i \in claimed' \/ bin'[i] = 0 \/ bin'[i] \in unremoved'
  <2>1. i \in Index
    BY <1>0, <1>3, Bounds DEF TypeOK, Index
  <2>2. CASE pc = "claim" /\ pending' = fresh /\ cur' = 0 /\ fresh \subseteq claimed'
    BY <1>3, <2>2
  <2>3. CASE i \in pending \cup {cur}
    <3>1. i \in claimed \/ bin[i] = 0 \/ bin[i] \in unremoved
      BY <1>3, <2>3 DEF Claimed
    <3>2. i < next
      BY <2>3 DEF Homes
    <3>3. bin'[i] = 0 \/ bin'[i] = bin[i]
      <4>1. Seal => i # next
        BY <3>2 DEF TypeOK
      <4> QED BY <2>1, <4>1, BinKept
    <3>4. CASE bin[i] = 0 \/ bin[i] \in unremoved
      BY <3>3, <3>4, RecordGrows
    <3>5. CASE i \in claimed /\ bin[i] # 0 /\ bin[i] \notin unremoved
      <4>1. evicting # 0 /\ listed = {} => i # evicting
        BY <3>5 DEF Removal
      <4>2. cur \notin pending
        BY DEF Control
      <4> QED BY <1>3, <2>3, <3>5, <4>1, <4>2, ClaimMoves
    <3> QED BY <3>1, <3>4, <3>5
  <2> QED BY <1>3, <2>2, <2>3, ClaimMoves
<1>4. ASSUME pc' \in {"snapshot", "claim"}, NEW i \in claimed', bin'[i] # 0
      PROVE  i \in found'
  <2>1. i \in claimed /\ i \in Index
    <3>1. i \in claimed
      BY <1>4, ClaimMoves
    <3> QED BY <3>1 DEF TypeOK
  <2>2. bin[i] # 0
    <3>1. i < next
      BY <2>1 DEF Homes
    <3>2. i # next
      BY <3>1 DEF TypeOK
    <3> QED BY <1>4, <2>1, <3>2, BinKept
  <2>3. CASE Scan
    BY <2>1, <2>2, <2>3 DEF Scan, OnDisk
  <2>4. CASE ~Scan
    BY <1>4, <2>1, <2>2, <2>4, ClaimMoves DEF Claimed
  <2> QED BY <2>3, <2>4
<1> QED BY <1>1, <1>2, <1>3, <1>4 DEF Claimed, Index

-----------------------------------------------------------------------------
(* No data is lost                                                         *)

Safe(n) ==
    \/ InFiles(n)
    \/ n \in stored
    \/ outcome[n] = "failed"
    \/ n \in evicted

(* The steps that end a segment leave its data somewhere, or record why    *)
(* there is none.                                                          *)
LEMMA SettledIsSafe ==
    ASSUME TypeOK, Control, Homes, InHand, Next,
           \/ RemoveOriginal /\ bin[cur] # 0
           \/ RemoveOriginalFails
           \/ DeleteLocal
           \/ CleanUpDest
           \/ \E ok \in BOOLEAN : RemoveTerminal(ok),
           NEW n \in Segment, n = payload
    PROVE  Safe(n)'
<1>0. cur \in Index /\ InHandAt(cur) /\ outcome \in [Segment -> Outcomes]
  <2>1. pc \in Busy \ {"load"}
    BY DEF RemoveOriginal, RemoveOriginalFails, DeleteLocal, CleanUpDest, RemoveTerminal, At, Busy
  <2> QED BY <2>1, HandFacts DEF InHandAt, Control, TypeOK, Segment, Outcomes
<1>1. CASE RemoveOriginal \/ RemoveOriginalFails
  <2>1. pc = "original" /\ gz' = gz /\ whole' = whole
    BY <1>1 DEF RemoveOriginal, RemoveOriginalFails, At, directory
  <2>2. payload \in evicted \/ (gz[cur] = payload /\ cur \in whole)
    BY <2>1 DEF InHand
  <2> QED BY <1>0, <2>1, <2>2, RecordGrows DEF Safe, InFiles, Index
<1>2. CASE DeleteLocal
  BY <1>2, RecordGrows DEF DeleteLocal, At, InHand, Safe
<1>3. CASE CleanUpDest
  <2>1. payload \in evicted
    BY <1>0, <1>3, Bounds DEF CleanUpDest, At, InHand, InHandAt
  <2> QED BY <2>1, RecordGrows DEF Safe
<1>4. CASE \E ok \in BOOLEAN : RemoveTerminal(ok)
  <2>1. outcome' = [outcome EXCEPT ![payload] = "failed"]
    BY <1>0, <1>4 DEF RemoveTerminal, Done, InHandAt
  <2> QED BY <1>0, <2>1 DEF Safe
<1> QED BY <1>1, <1>2, <1>3, <1>4

LEMMA SafeStep ==
    ASSUME TypeOK, Control, Homes, InHand, Removal, DataSurvives, Next
    PROVE  DataSurvives'
<1>0. /\ bin \in [Index -> 0..MaxSegments] /\ gz \in [Index -> 0..MaxSegments]
      /\ outcome \in [Segment -> Outcomes] /\ sealed \in Nat
  BY Bounds DEF TypeOK, Files, Segment, Outcomes
<1> SUFFICES ASSUME NEW n \in 1..sealed'
             PROVE  Safe(n)'
  <2>1. DataSurvives' <=> \A n \in 1..sealed' : Safe(n)'
    BY DEF DataSurvives, Safe, Sealed
  <2> QED BY <2>1
<1>1. n \in Segment /\ n # 0
  <2>1. sealed' \in 0..MaxSegments
    BY WriterTypes
  <2> QED BY <2>1, Bounds
<1>2. CASE Seal
  <2>1. /\ next \in Index /\ bin[next] = 0 /\ bin' = [bin EXCEPT ![next] = sealed + 1]
        /\ gz' = gz /\ whole' = whole /\ outcome' = outcome /\ sealed' = sealed + 1
    BY <1>2, SealFacts DEF Seal, history
  <2>2. CASE n = sealed + 1
    <3>1. bin'[next] = n
      BY <1>0, <2>1, <2>2
    <3> QED BY <2>1, <3>1 DEF Safe, InFiles, Index
  <2>3. CASE n # sealed + 1
    <3>1. n \in 1..sealed
      BY <1>0, <2>1, <2>3
    <3>2. Safe(n)
      BY <3>1 DEF DataSurvives, Safe, Sealed
    <3>3. InFiles(n) => InFiles(n)'
      BY <1>0, <1>1, <2>1 DEF InFiles, Index
    <3> QED BY <2>1, <3>2, <3>3, RecordGrows DEF Safe
  <2> QED BY <2>2, <2>3
<1>3. CASE ~Seal
  <2>1. Safe(n)
    <3>1. sealed' = sealed
      BY <1>3, WriterMoves
    <3> QED BY <3>1 DEF DataSurvives, Safe, Sealed
  <2> DEFINE Ending == \/ RemoveOriginal /\ bin[cur] # 0
                       \/ RemoveOriginalFails
                       \/ DeleteLocal
                       \/ CleanUpDest
                       \/ \E ok \in BOOLEAN : RemoveTerminal(ok)
  <2>2. CASE n = payload /\ Ending
    BY <1>1, <2>2, SettledIsSafe
  <2>3. CASE n # payload \/ ~Ending
    <3>1. CASE n \in stored \/ n \in evicted
      BY <3>1, RecordGrows DEF Safe
    <3>2. CASE outcome[n] = "failed"
      <4>1. CASE outcome'[n] = "failed"
        BY <4>1 DEF Safe
      <4>2. CASE outcome'[n] # "failed"
        <5>1. LoadFails /\ n = bin[cur]
          BY <1>0, <1>1, <2>3, <3>2, <4>2, OutcomeMoves
        <5>2. cur \in Index /\ bin' = bin
          BY <5>1, HandFacts DEF LoadFails, At, Busy, directory
        <5> QED BY <5>1, <5>2 DEF Safe, InFiles, Index
      <4> QED BY <4>1, <4>2
    <3>3. ASSUME NEW i \in Index, bin[i] = n
          PROVE  Safe(n)'
      <4>1. CASE bin'[i] = n
        BY <3>3, <4>1 DEF Safe, InFiles, Index
      <4>2. CASE bin'[i] # n
        <5>1. \/ evicting # 0 /\ i = evicting
              \/ /\ i = cur /\ pc \in {"original", "delete", "terminal"}
                 /\ RemoveOriginal \/ DeleteLocal \/ \E ok \in BOOLEAN : RemoveTerminal(ok)
          BY <1>0, <1>3, <3>3, <4>2, BinMoves
        <5>2. CASE evicting # 0 /\ i = evicting
          <6>1. n \in evicted
            BY <1>1, <3>3, <5>2 DEF Removal, Home
          <6> QED BY <6>1, RecordGrows DEF Safe
        <5>3. CASE i = cur /\ pc \in {"original", "delete", "terminal"}
          <6>1. payload \in Segment /\ Home(cur, payload) /\ Home(i, n)
            BY <3>3, <5>3, HandFacts, Bounds DEF Busy, Home, InHandAt
          <6>2. n = payload
            BY <1>1, <3>3, <5>3, <6>1 DEF Homes
          <6>3. RemoveOriginal => bin[cur] # 0
            BY <1>1, <3>3, <5>3
          <6>4. evicting # 0 /\ i = evicting => Safe(n)'
            BY <5>2
          <6> QED BY <2>3, <5>1, <6>2, <6>3, <6>4
        <5> QED BY <5>1, <5>2, <5>3
      <4> QED BY <4>1, <4>2
    <3>4. ASSUME NEW i \in Index, gz[i] = n, i \in whole
          PROVE  Safe(n)'
      <4>1. CASE gz'[i] = n /\ i \in whole'
        BY <3>4, <4>1 DEF Safe, InFiles, Index
      <4>2. CASE ~(gz'[i] = n /\ i \in whole')
        <5>0. Home(i, n)
          BY <3>4 DEF Home
        <5>1. CASE evicting # 0 /\ i = evicting
          <6>1. n \in evicted
            BY <1>1, <5>0, <5>1 DEF Removal
          <6> QED BY <6>1, RecordGrows DEF Safe
        <5>2. CASE i = cur /\ (CreateDest \/ CleanUpDest \/ \E ok \in BOOLEAN : RemoveTerminal(ok))
          <6>1. pc \in {"create", "cleanup", "terminal"}
            BY <5>2 DEF CreateDest, CleanUpDest, RemoveTerminal, At
          <6>2. payload \in Segment /\ Home(cur, payload) /\ InHandAt(cur)
            BY <6>1, HandFacts, Bounds DEF Busy, Home, InHandAt
          <6>3. n = payload
            BY <1>1, <3>4, <5>0, <5>2, <6>2 DEF Homes
          <6>4. CreateDest
            BY <2>3, <5>2, <6>3
          <6>5. bin[cur] = payload \/ payload \in evicted
            BY <3>4, <5>2, <6>2 DEF InHand
          <6>6. bin' = bin
            BY <6>4 DEF CreateDest
          <6> QED BY <3>4, <5>2, <6>3, <6>5, <6>6, RecordGrows DEF Safe, InFiles, Index
        <5>3. CASE detached # 0 /\ i = detached /\ DetachedWrite
          <6>1. payload \in Segment /\ Home(i, payload)
            BY <5>3, HandFacts, Bounds DEF Home, InHandAt
          <6>2. n = payload
            BY <1>1, <3>4, <5>0, <6>1 DEF Homes
          <6> QED BY <1>0, <3>4, <4>2, <5>3, <6>2 DEF DetachedWrite
        <5> QED BY <1>0, <3>4, <4>2, <5>1, <5>2, <5>3, GzMoves
      <4> QED BY <4>1, <4>2
    <3> QED BY <2>1, <3>1, <3>2, <3>3, <3>4 DEF Safe, InFiles
  <2> QED BY <2>2, <2>3
<1> QED BY <1>2, <1>3

-----------------------------------------------------------------------------
(* The invariant                                                           *)

LEMMA InitIInv == Init => IInv
<1> SUFFICES ASSUME Init PROVE IInv
  OBVIOUS
<1> USE DEF Init
<1>0. /\ MaxSegments \in Nat /\ MaxRestarts \in Nat
      /\ \A i \in Index : bin[i] = 0 /\ gz[i] = 0
  BY DiskWorkerAssumption DEF NoFiles
<1>1. TypeOK
  <2>1. LifecycleTypeOK
    <3>1. NoCause \in Causes
      BY DEF Causes
    <3>2. NotStarted \in 1..Stopped
      BY ProcessorsAssumption DEF NotStarted, Stopped
    <3> QED BY <3>1, <3>2 DEF LifecycleInit, LifecycleTypeOK
  <2>2. breaker \in Breakers
    BY MaxBackoffAssumption DEF ClosedBreaker, Breakers
  <2>3. closed \in Seq(Index)
    BY EmptySeq
  <2>4. bin \in Files /\ gz \in Files
    BY <1>0 DEF NoFiles, Files
  <2>5. outcome \in [1..MaxSegments -> {"none", "unread", "delivered", "failed", "cleaned"}]
    OBVIOUS
  <2>6. next \in 1..(MaxSegments + 1) /\ sealed \in 0..MaxSegments /\ evicting \in 0..MaxSegments
        /\ cur \in 0..MaxSegments /\ payload \in 0..MaxSegments /\ detached \in 0..MaxSegments
        /\ restarts \in 0..MaxRestarts
    BY <1>0
  <2> HIDE DEF Init
  <2>7. /\ destination \in Destinations /\ whole = {} /\ writerDone = FALSE /\ emptying = FALSE
        /\ listed = {} /\ claimed = {} /\ found = {} /\ fresh = {} /\ pending = {} /\ pc = "live"
        /\ evicted = {} /\ stored = {} /\ unremoved = {} /\ lastPut = "none"
    BY DEF Init
  <2> QED BY <2>1, <2>2, <2>3, <2>4, <2>5, <2>6, <2>7 DEF TypeOK
<1>2. Control /\ Tracks
  BY DEF Control, Tracks, Busy, ClosedBreaker
<1>3. \A i \in Index, n \in Segment : ~Home(i, n)
  BY <1>0, Bounds DEF Home, InHandAt
<1>4. Homes
  BY <1>3 DEF Homes, Segment
<1>5. InHand /\ Removal /\ Claimed
  BY <1>0 DEF InHand, Removal, Claimed, InHandAt
<1>6. DataSurvives
  BY DEF DataSurvives, Sealed
<1> QED BY <1>1, <1>2, <1>4, <1>5, <1>6 DEF IInv

LEMMA StepIInv == IInv /\ [Next]_vars => IInv'
<1> SUFFICES ASSUME IInv, [Next]_vars PROVE IInv'
  OBVIOUS
<1>1. CASE Next
  BY <1>1, TypesStep, ControlStep, TracksStep, HomesStep, InHandStep, RemovalStep, ClaimedStep,
     SafeStep DEF IInv
<1>2. CASE UNCHANGED vars
  <2> USE <1>2 DEF vars, directory, writer, pass, history, record, IInv
  <2>1. TypeOK'
    BY DEF TypeOK, LifecycleTypeOK, lifecycle, OnDisk
  <2>2. Control' /\ Tracks'
    BY DEF Control, Tracks, lifecycle
  <2>3. Homes'
    BY DEF Homes, Home, InHandAt
  <2>4. InHand' /\ Removal'
    BY DEF InHand, Removal, Home, InHandAt
  <2>5. Claimed' /\ DataSurvives'
    BY DEF Claimed, DataSurvives, InFiles, Sealed
  <2> QED BY <2>1, <2>2, <2>3, <2>4, <2>5
<1> QED BY <1>1, <1>2

LEMMA Invariance == Spec => []IInv
BY InitIInv, StepIInv, PTL DEF Spec

-----------------------------------------------------------------------------
(* What follows                                                            *)

(* The directory, the claims and the pass of the worker stay well formed,  *)
(* and between uploads the circuit breaker of the S3 stage is open if and  *)
(* only if the last upload failed (connection.rs), for every pattern of    *)
(* failures and evictions and every cap of the backoff.                    *)
THEOREM WorkerTheorem == Spec => []WorkerInv
<1>1. IInv => WorkerInv
  BY DEF IInv, WorkerInv, BreakerTracksUploads, Tracks, Control, RunLoopRuns, Polled
<1> QED BY <1>1, Invariance, PTL

(* No crash between two steps of the writer and the worker loses a segment *)
(* that was to be delivered: its data is in the directory until it is in   *)
(* the bucket, evicted or given up by a stage (write-back writes the copy  *)
(* before it removes the original, the upload stores before it deletes).   *)
THEOREM DataTheorem == Spec => []DataSurvives
BY Invariance, PTL DEF IInv

(* The claims of DiskFs: a process is not given a segment again that it    *)
(* has settled or could not read, unless its file could not be removed.    *)
THEOREM DispensedTheorem == Spec => DispensedOnce
<1>1. ASSUME IInv, [Next]_vars
      PROVE  [restarts' = restarts /\ payload = 0 /\ payload' # 0 =>
                outcome[payload'] = "none" \/ payload' \in unremoved]_vars
  <2> SUFFICES ASSUME Next, payload = 0, payload' # 0
               PROVE  outcome[payload'] = "none" \/ payload' \in unremoved
    BY <1>1
  <2>1. Load /\ payload' = bin[cur] /\ bin[cur] # 0
    BY <1>1, HandMoves DEF IInv
  <2>2. cur \in Index
    BY <1>1, <2>1, HandFacts DEF IInv, Load, At, Busy
  <2> QED BY <1>1, <2>1, <2>2 DEF IInv, Claimed
<1> QED BY <1>1, Invariance, PTL DEF Spec, DispensedOnce

-----------------------------------------------------------------------------
(* The abstract storage                                                    *)

HasData(n) == (\E i \in Index : bin[i] = n \/ gz[i] = n) \/ payload = n

LEMMA StatusIs ==
    \A n : Status(n) = IF outcome[n] = "delivered" /\ n \notin unremoved THEN "delivered"
                       ELSE IF n > sealed THEN "unsealed"
                       ELSE IF HasData(n) THEN "held"
                       ELSE IF outcome[n] = "delivered" THEN "delivered"
                       ELSE "lost"
BY DEF Status, HasData

LEMMA StatusIsNext ==
    \A n : Status(n)' = IF outcome'[n] = "delivered" /\ n \notin unremoved' THEN "delivered"
                        ELSE IF n > sealed' THEN "unsealed"
                        ELSE IF HasData(n)' THEN "held"
                        ELSE IF outcome'[n] = "delivered" THEN "delivered"
                        ELSE "lost"
BY DEF Status, HasData

LEMMA DataHasHome ==
    ASSUME TypeOK, Control, NEW n \in Segment
    PROVE  HasData(n) <=> \E i \in Index : Home(i, n)
<1>1. ASSUME payload = n
      PROVE  \E i \in Index : InHandAt(i)
  <2>1. payload # 0
    BY <1>1, Bounds
  <2>2. pc \in Busy \/ detached # 0
    BY <2>1 DEF Control
  <2> QED BY <2>1, <2>2, HandFacts DEF InHandAt
<1> QED BY <1>1 DEF HasData, Home

LEMMA UnremovedMoves ==
    ASSUME TypeOK, Control, Next
    PROVE  \/ unremoved' = unremoved
           \/ \E i \in Index : bin[i] # 0 /\ unremoved' = unremoved \cup {bin[i]}
<1> USE DEF history, record, Unremoved
<1>1. CASE Writer
  BY <1>1, HandFacts DEF Writer, Seal, EvictOpen, EvictNotices, EvictUnlink, EvictForget,
              MarkWriterDone
<1>2. CASE Stage
  BY <1>2 DEF Stage, Gzip, StageFails, CreateDest, WriteDest, PutOk, PutRetryable, PutFatal,
              DeleteLocal, DeleteLocalFails
<1>3. CASE PipelineLive \/ PipelineStopped \/ Scan \/ ScanFails \/ SnapshotClaims \/ Claim
             \/ NextSegment \/ ReleaseUnprocessed \/ Load \/ LoadFails \/ RemoveOriginal
             \/ CleanUpDest \/ EndCycle \/ Poll
  BY <1>3 DEF PipelineLive, PipelineStopped, Scan, ScanFails, SnapshotClaims, Claim,
              NextSegment, ReleaseUnprocessed, Load, LoadFails, RemoveOriginal,
              CleanUpDest, EndCycle, Poll
<1>4. CASE RemoveOriginalFails \/ \E ok \in BOOLEAN : RemoveTerminal(ok)
  <2>1. cur \in Index
    BY <1>4, HandFacts DEF RemoveOriginalFails, RemoveTerminal, At, Busy
  <2>2. unremoved' = unremoved \/ unremoved' = unremoved \cup ({bin[cur]} \ {0})
    BY <1>4 DEF RemoveOriginalFails, RemoveTerminal
  <2> QED BY <2>1, <2>2
<1>5. CASE BreakerDelay \/ DropWorker \/ DetachedWrite \/ Driver \/ Terminated \/ Restart
  BY <1>5 DEF BreakerDelay, DropWorker, DetachedWrite, Driver, Terminated, Restart, vars
<1> QED BY <1>1, <1>2, <1>3, <1>4, <1>5 DEF Next, RunLoop

(* What is delivered, and could be removed, is settled.                    *)
LEMMA Firm ==
    ASSUME IInv, Next, NEW n \in Segment, outcome[n] = "delivered", n \notin unremoved
    PROVE  outcome'[n] = "delivered" /\ n \notin unremoved'
<1>0. TypeOK /\ Control /\ Claimed /\ outcome \in [Segment -> Outcomes]
  BY DEF IInv, TypeOK, Segment, Outcomes
<1>1. payload # n
  BY Bounds DEF IInv, InHand
<1>2. outcome'[n] = "delivered"
  BY <1>0, <1>1, OutcomeMoves
<1>3. n \notin unremoved'
  BY <1>0, UnremovedMoves DEF Claimed
<1> QED BY <1>2, <1>3

(* Only a segment that is held changes its status, unless one is sealed.   *)
LEMMA Absorbing ==
    ASSUME IInv, Next, ~Seal, NEW n \in Segment, Status(n)' # Status(n)
    PROVE  /\ Status(n) = "held" /\ Status(n)' \in {"delivered", "lost"}
           /\ HasData(n) /\ n <= sealed
           /\ outcome[n] # "delivered" \/ n \in unremoved
<1>0. /\ TypeOK /\ Control /\ Homes /\ outcome \in [Segment -> Outcomes]
      /\ TypeOK' /\ Control' /\ Homes' /\ sealed' = sealed /\ sealed \in Nat /\ n \in Nat
  BY TypesStep, ControlStep, HomesStep, WriterMoves, Bounds DEF IInv, TypeOK, Segment, Outcomes
<1>1. outcome[n] # "delivered" \/ n \in unremoved
  BY Firm, StatusIs, StatusIsNext
<1>2. n <= sealed
  <2>1. CASE ~(n <= sealed)
    <3>1. outcome'[n] = "none" /\ outcome[n] = "none" /\ n > sealed
      BY <1>0, <2>1 DEF Homes
    <3> QED BY <1>0, <3>1, StatusIs, StatusIsNext
  <2> QED BY <2>1
<1>3. ~(n > sealed)
  BY <1>0, <1>2
<1>4. HasData(n)
  <2>1. CASE ~HasData(n)
    <3>1. ~HasData(n)'
      <4>1. \A i \in Index : ~Home(i, n)
        BY <1>0, <2>1, DataHasHome
      <4>2. \A i \in Index : ~Home(i, n)'
        BY <1>0, <4>1, NoNewHome
      <4>3. (TypeOK /\ Control => (HasData(n) <=> \E i \in Index : Home(i, n)))'
        BY DataHasHome, PTL
      <4> QED BY <1>0, <4>2, <4>3 DEF Index
    <3>2. outcome'[n] = "delivered" <=> outcome[n] = "delivered"
      <4>1. payload # n /\ \A i \in Index : bin[i] # n
        BY <2>1 DEF HasData
      <4>2. LoadFails => bin[cur] # n
        BY <1>0, <4>1, HandFacts DEF LoadFails, At, Busy
      <4> QED BY <1>0, <4>1, <4>2, OutcomeMoves
    <3>3. n \in unremoved => n \in unremoved'
      BY RecordGrows
    <3> QED BY <1>0, <1>1, <1>3, <2>1, <3>1, <3>2, <3>3, StatusIs, StatusIsNext
  <2> QED BY <2>1
<1>5. Status(n) = "held"
  BY <1>1, <1>3, <1>4, StatusIs
<1>6. Status(n)' \in {"delivered", "lost"}
  BY <1>0, <1>3, <1>5, StatusIsNext
<1> QED BY <1>1, <1>2, <1>4, <1>5, <1>6

(* A step settles the segment of the index it works on: the one the writer *)
(* is removing, or the one in the worker's hands.                          *)
LEMMA Touched ==
    ASSUME IInv, Next, ~Seal, NEW n \in Segment, Status(n)' # Status(n)
    PROVE  IF \E ok \in BOOLEAN : EvictUnlink(ok)
           THEN evicting \in Index /\ Home(evicting, n)
           ELSE \E i \in Index : i \in {cur, detached} /\ Home(i, n)
<1>0. /\ TypeOK /\ Control /\ Homes /\ outcome \in [Segment -> Outcomes]
      /\ bin \in [Index -> 0..MaxSegments] /\ gz \in [Index -> 0..MaxSegments]
      /\ sealed' = sealed /\ \A i \in Index : i # 0
  BY WriterMoves, Bounds DEF IInv, TypeOK, Segment, Outcomes, Files
<1>1. /\ Status(n) = "held" /\ Status(n)' # "held" /\ HasData(n)
      /\ outcome[n] # "delivered" \/ n \in unremoved
  BY Absorbing
<1>2. n <= sealed /\ ~(n > sealed)
  <2>1. n <= sealed
    BY Absorbing
  <2> QED BY <2>1, Bounds DEF IInv, TypeOK
<1>3. ~HasData(n)' \/ (outcome[n] # "delivered" /\ outcome'[n] = "delivered")
  <2>1. n \in unremoved => n \in unremoved'
    BY RecordGrows
  <2> QED BY <1>0, <1>1, <1>2, <2>1, StatusIsNext
<1>4. CASE \E ok \in BOOLEAN : EvictUnlink(ok)
  <2>1. /\ evicting \in Index /\ outcome' = outcome /\ payload' = payload
        /\ bin' = bin \/ bin' = [bin EXCEPT ![evicting] = 0]
        /\ gz' = gz \/ gz' = [gz EXCEPT ![evicting] = 0]
    <3>1. evicting \in Index
      BY <1>0, <1>4, HandFacts DEF EvictUnlink
    <3> QED BY <1>4, <3>1 DEF EvictUnlink, Unlinked, directory, worker, pass
  <2>2. ~HasData(n)'
    BY <1>3, <2>1
  <2>3. payload # n
    BY <2>1, <2>2 DEF HasData
  <2>4. PICK i \in Index : bin[i] = n \/ gz[i] = n
    BY <1>1, <2>3 DEF HasData
  <2>5. bin'[i] # n /\ gz'[i] # n
    BY <2>2, <2>4 DEF HasData, Index
  <2>6. i = evicting
    BY <1>0, <2>1, <2>4, <2>5
  <2> QED BY <1>4, <2>1, <2>4, <2>6 DEF Home
<1>5. CASE ~(\E ok \in BOOLEAN : EvictUnlink(ok))
  <2>1. CASE payload = n
    <3>1. payload # 0
      BY <1>0, <2>1, Bounds
    <3>2. pc \in Busy \/ detached # 0
      BY <1>0, <3>1 DEF Control
    <3> QED BY <1>0, <1>5, <2>1, <3>1, <3>2, HandFacts DEF Home, InHandAt
  <2>2. CASE payload # n
    <3>1. ~HasData(n)'
      BY <1>0, <1>3, <2>2, OutcomeMoves DEF Restart
    <3>2. PICK i \in Index : bin[i] = n \/ gz[i] = n
      BY <1>1, <2>2 DEF HasData
    <3>3. bin'[i] # n /\ gz'[i] # n
      BY <3>1, <3>2 DEF HasData, Index
    <3>4. i = cur \/ i = detached
      <4>1. CASE bin[i] = n
        <5>1. \/ bin' = bin
              \/ bin' = [bin EXCEPT ![cur] = 0]
          BY <1>0, <1>5, BinMoves
        <5> QED BY <1>0, <3>3, <4>1, <5>1
      <4>2. CASE gz[i] = n
        <5>1. \/ gz' = gz
              \/ gz' = [gz EXCEPT ![cur] = payload]
              \/ gz' = [gz EXCEPT ![cur] = 0]
              \/ gz' = [gz EXCEPT ![detached] = payload]
          BY <1>0, <1>5, GzMoves
        <5> QED BY <1>0, <3>3, <4>2, <5>1
      <4> QED BY <3>2, <4>1, <4>2
    <3> QED BY <1>5, <3>2, <3>4 DEF Home
  <2> QED BY <2>1, <2>2
<1> QED BY <1>4, <1>5

LEMMA OneTouched ==
    ASSUME IInv, Next, ~Seal, NEW n \in Segment, NEW m \in Segment,
           Status(n)' # Status(n), Status(m)' # Status(m)
    PROVE  n = m
<1>0. Homes /\ (cur = 0 \/ detached = 0) /\ \A i \in Index : i # 0
  BY Bounds DEF IInv, Control, Busy
<1>1. CASE \E ok \in BOOLEAN : EvictUnlink(ok)
  <2>1. evicting \in Index /\ Home(evicting, n) /\ Home(evicting, m)
    BY <1>1, Touched
  <2> QED BY <1>0, <2>1 DEF Homes
<1>2. CASE ~(\E ok \in BOOLEAN : EvictUnlink(ok))
  <2>1. PICK i \in Index : i \in {cur, detached} /\ Home(i, n)
    BY <1>2, Touched
  <2>2. PICK j \in Index : j \in {cur, detached} /\ Home(j, m)
    BY <1>2, Touched
  <2>3. i = j
    BY <1>0, <2>1, <2>2
  <2> QED BY <1>0, <2>1, <2>2, <2>3 DEF Homes
<1> QED BY <1>1, <1>2

LEMMA AbstractInit == Init => Abstract!Init
<1> SUFFICES ASSUME Init PROVE Abstract!Init
  OBVIOUS
<1>1. ASSUME NEW n \in 1..MaxSegments
      PROVE  Status(n) = "unsealed"
  <2>1. n > sealed /\ outcome[n] = "none"
    BY Bounds DEF Init
  <2> QED BY <2>1, StatusIs
<1> QED BY <1>1 DEF Abstract!Init

(* Every step is a seal, the end of one segment or invisible.              *)
LEMMA AbstractStep ==
    ASSUME IInv, [Next]_vars
    PROVE  [Abstract!Next]_([n \in 1..MaxSegments |-> Status(n)])
<1> DEFINE S == [n \in 1..MaxSegments |-> Status(n)]
<1>0. /\ Segment = 1..MaxSegments /\ MaxSegments \in Nat /\ sealed \in Nat
      /\ outcome \in [Segment -> Outcomes]
  BY Bounds DEF IInv, TypeOK, Segment, Outcomes
<1>1. CASE UNCHANGED vars
  <2>1. \A n \in 1..MaxSegments : Status(n)' = Status(n)
    BY <1>1, StatusIs, StatusIsNext DEF vars, directory, writer, pass, history, record, HasData
  <2> QED BY <2>1
<1>2. CASE Next /\ Seal
  <2>0. PICK new \in Segment : new = sealed + 1
    BY <1>2, SealFacts DEF IInv
  <2>1. /\ next \in Index /\ bin[next] = 0
        /\ bin' = [bin EXCEPT ![next] = new] /\ gz' = gz /\ payload' = payload
        /\ sealed' = new /\ outcome' = outcome /\ unremoved' = unremoved
    BY <1>2, <2>0, SealFacts DEF IInv, Seal, worker, pass, history, record
  <2>2. bin \in [Index -> 0..MaxSegments]
    BY DEF IInv, TypeOK, Files
  <2>3. /\ new > sealed /\ ~(new > new) /\ ~(new <= sealed)
        /\ \A n \in Segment : n # new => (n > new <=> n > sealed)
        /\ \A n \in 1..(new - 1) : n \in Segment /\ ~(n > sealed)
    BY <1>0, <2>0, Bounds
  <2>4. outcome[new] = "none"
    BY <2>3 DEF IInv, Homes
  <2>5. Status(new) = "unsealed"
    BY <2>3, <2>4, StatusIs
  <2>6. Status(new)' = "held"
    <3>1. bin'[next] = new
      BY <2>1, <2>2
    <3>2. HasData(new)'
      BY <2>1, <3>1 DEF HasData, Index
    <3>3. outcome'[new] = "none" /\ ~(new > sealed')
      BY <2>1, <2>3, <2>4
    <3> QED BY <3>2, <3>3, StatusIsNext
  <2>7. ASSUME NEW n \in Segment, n # new
        PROVE  Status(n)' = Status(n)
    <3>1. \A i \in Index : bin'[i] = n <=> bin[i] = n
      BY <2>1, <2>2, <2>7, Bounds
    <3>2. HasData(n)' <=> HasData(n)
      BY <2>1, <3>1 DEF HasData, Index
    <3>3. n > sealed' <=> n > sealed
      BY <2>1, <2>3, <2>7
    <3> QED BY <2>1, <3>2, <3>3, StatusIs, StatusIsNext
  <2>8. \A n \in 1..(new - 1) : S[n] # "unsealed"
    <3>1. \A n \in 1..(new - 1) : Status(n) # "unsealed"
      BY <2>3, StatusIs
    <3> QED BY <1>0, <2>3, <3>1
  <2>9. S' = [n \in 1..MaxSegments |-> IF n = new THEN "held" ELSE IF n \in {} THEN "lost" ELSE S[n]]
    BY <1>0, <2>6, <2>7
  <2>10. {} \in SUBSET {n \in 1..MaxSegments : S[n] = "held"}
    OBVIOUS
  <2>11. S[new] = "unsealed"
    BY <1>0, <2>5
  <2>12. Abstract!Seal(new)
    BY <2>8, <2>9, <2>10, <2>11 DEF Abstract!Seal, Abstract!Held
  <2> QED BY <1>0, <2>12 DEF Abstract!Next
<1>3. CASE Next /\ ~Seal
  <2>1. CASE \A n \in Segment : Status(n)' = Status(n)
    BY <1>0, <2>1
  <2>2. CASE \E n \in Segment : Status(n)' # Status(n)
    <3>1. PICK n \in Segment : Status(n)' # Status(n)
      BY <2>2
    <3>2. Status(n) = "held" /\ Status(n)' \in {"delivered", "lost"}
      BY <1>3, <3>1, Absorbing
    <3>3. \A m \in Segment : m # n => Status(m)' = Status(m)
      BY <1>3, <3>1, OneTouched
    <3>4. PICK how \in {"delivered", "lost"} : Status(n)' = how
      BY <3>2
    <3>5. S' = [S EXCEPT ![n] = how]
      BY <1>0, <3>3, <3>4
    <3>6. Abstract!Settle(n, how)
      BY <1>0, <3>2, <3>5 DEF Abstract!Settle
    <3> QED BY <1>0, <3>4, <3>6 DEF Abstract!Next
  <2> QED BY <2>1, <2>2
<1> QED BY <1>1, <1>2, <1>3

(* The directory, its writer and its worker implement the abstract storage *)
(* over any number of crashes: a sealed segment is held until it is        *)
(* delivered or lost, and stays so.                                        *)
THEOREM DiskDeliveryTheorem == Spec => ImplementsDelivery
<1>1. IInv /\ [Next]_vars => [Abstract!Next]_([n \in 1..MaxSegments |-> Status(n)])
  BY AbstractStep
<1> QED BY <1>1, AbstractInit, Invariance, PTL DEF Spec, ImplementsDelivery, Abstract!Spec
====
