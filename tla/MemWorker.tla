------------------------------- MODULE MemWorker -------------------------------
(***************************************************************************)
(* The continuous worker over the memory ring: the writer seals segments   *)
(* on the flush thread, run_continuous pops one at a time, runs it through *)
(* the pipeline, retries it up to a budget and parks on the ring's Notify  *)
(* (fs/mem.rs, worker/mod.rs).                                             *)
(*                                                                         *)
(* Processors are external: a stage succeeds, fails for good (an error, a  *)
(* panic) or fails retryably, and a stage that failed may stop accepting   *)
(* work (wait_until_live) until it recovers.                               *)
(***************************************************************************)
EXTENDS WorkerLifecycle, MemRing

CONSTANTS
    MaxSegments,    \* bound: segments the writer seals
    SegSizes,       \* the sizes a sealed segment may have
    RetryBudget     \* MEMORY_RETRY_BUDGET

ASSUME MemWorkerAssumption ==
    /\ MaxSegments \in Nat
    /\ SegSizes \subseteq 1..RingBudget
    /\ SegSizes # {}
    /\ RetryBudget \in Nat

VARIABLES
    ring,           \* the queue under its mutex
    sealed,         \* how many segments the writer has sealed
    writerDone,     \* MemChannel.writer_done
    permit,         \* the permit stored in the Notify
    waiter,         \* the Notified future of wait_for_wakeup
    pc,             \* where the run loop is
    emptying,       \* whether it is in the drain-to-empty loop
    taken,          \* the segment in flight: <<>> or <<slot>>
    stage,          \* the stage it is at
    live,           \* whether every processor accepts work
    reported,       \* history: evictions reported by the cycle metrics
    outcome         \* history: what became of each segment

vars == <<lifecycle, ring, sealed, writerDone, permit, waiter, pc, emptying,
          taken, stage, live, reported, outcome>>

notify == <<permit, waiter>>
writer == <<sealed, writerDone>>
history == <<reported, outcome>>

Segments == 1..MaxSegments

InFlight == Indices(taken)

TypeOK ==
    /\ LifecycleTypeOK
    /\ \A q \in {ring.slots, taken} :
         q \in Seq(Slots(Segments, SegSizes, 0..RetryBudget, {0}))
    /\ Len(taken) <= 1
    /\ ring.bytes \in Nat /\ ring.dropped \in Nat
    /\ sealed \in 0..MaxSegments
    /\ writerDone \in BOOLEAN /\ permit \in BOOLEAN
    /\ waiter \in {"none", "registered", "notified", "done"}
    /\ pc \in {"live", "take", "seglive", "stage", "backoff", "after",
               "enable", "recheck", "await", "drained", "interrupted", "dropped"}
    /\ emptying \in BOOLEAN /\ live \in BOOLEAN
    /\ stage \in 1..Processors
    /\ reported \in Nat
    /\ outcome \in [Segments -> {"none", "delivered", "failed", "exhausted",
                                 "evicted", "abandoned"}]

Init ==
    /\ LifecycleInit
    /\ ring = EmptyRing
    /\ sealed = 0
    /\ writerDone = FALSE
    /\ permit = FALSE
    /\ waiter = "none"
    /\ pc = "live"
    /\ emptying = FALSE
    /\ taken = <<>>
    /\ stage = 1
    /\ live = TRUE
    /\ reported = 0
    /\ outcome = [i \in Segments |-> "none"]

-----------------------------------------------------------------------------
(* tokio's Notify (external).                                              *)

NotifyOne ==
    IF waiter = "registered"
    THEN waiter' = "notified" /\ UNCHANGED permit
    ELSE permit' = TRUE /\ UNCHANGED waiter

(* A Notified that is dropped passes on a notification it was handed.      *)
DropWaiter ==
    /\ waiter' = "none"
    /\ permit' = (permit \/ waiter = "notified")

-----------------------------------------------------------------------------
(* The writer, on the flush thread.                                        *)

(* Variant of WriterOpen: done is announced before the last seal.          *)
WriterOpenLate == sealed < MaxSegments

WriterOpen == ~writerDone /\ sealed < MaxSegments

(* Fs::seal on the memory backend, by a rotation or by finalize.           *)
Seal(size) ==
    LET slot == Slot(sealed + 1, size, 0, 0, 0)
    IN  /\ WriterOpen
        /\ ring' = RingSeal(ring, slot)
        /\ sealed' = sealed + 1
        /\ NotifyOne
        /\ outcome' = [i \in Segments |-> IF i \in Evicted(ring, slot)
                                          THEN "evicted" ELSE outcome[i]]
        /\ UNCHANGED <<lifecycle, writerDone, pc, emptying, taken, stage, live,
                       reported>>

(* The end of finalize.                                                    *)
MarkWriterDone ==
    /\ ~writerDone
    /\ writerDone' = TRUE
    /\ NotifyOne
    /\ UNCHANGED <<lifecycle, ring, sealed, pc, emptying, taken, stage, live,
                   history>>

-----------------------------------------------------------------------------
(* The run loop.                                                           *)

At(p) == RunLoopRuns /\ pc = p

(* wait_until_pipeline_live: the select is biased towards the processors.  *)
PipelineLive ==
    /\ At("live")
    /\ live
    /\ pc' = "take"
    /\ UNCHANGED <<lifecycle, ring, writer, notify, emptying, taken, stage, live,
                   history>>

(* Stopped while a processor is not live: run_continuous returns.          *)
PipelineStopped ==
    /\ At("live")
    /\ ~live /\ stop
    /\ RunLoopReturns
    /\ pc' = "interrupted"
    /\ UNCHANGED <<ring, writer, notify, emptying, taken, stage, live, history>>

(* take_files, after which process_segments asks the processors again: one *)
(* may have stopped accepting work meanwhile.                              *)
TakeOne ==
    /\ At("take")
    /\ ring.slots # <<>>
    /\ taken' = <<Head(ring.slots)>>
    /\ ring' = RingTake(ring, 1)
    /\ reported' = reported + ring.dropped
    /\ pc' = "seglive"
    /\ live' \in BOOLEAN
    /\ UNCHANGED <<lifecycle, writer, notify, emptying, stage, outcome>>

(* In the drain-to-empty loop an empty ring ends the worker.               *)
TakeNone ==
    /\ At("take")
    /\ ring.slots = <<>>
    /\ ring' = RingTakeNone(ring)
    /\ reported' = reported + ring.dropped
    /\ IF emptying THEN RunLoopReturns /\ pc' = "drained"
                   ELSE UNCHANGED lifecycle /\ pc' = "after"
    /\ UNCHANGED <<writer, notify, emptying, taken, stage, live, outcome>>

(* The wait at the head of process_segments.                               *)
SegmentEnters ==
    /\ At("seglive")
    /\ live
    /\ stage' = 1
    /\ pc' = "stage"
    /\ UNCHANGED <<lifecycle, ring, writer, notify, emptying, taken, live, history>>

(* release_unprocessed: back to the ring, no attempt spent.                *)
ReleaseUnprocessed ==
    /\ At("seglive")
    /\ ~live /\ stop
    /\ ring' = RingRelease(ring, taken[1])
    /\ taken' = <<>>
    /\ NotifyOne
    /\ pc' = "after"
    /\ UNCHANGED <<lifecycle, writer, emptying, stage, live, history>>

StageSucceeds ==
    /\ At("stage")
    /\ IF stage < Processors
       THEN /\ stage' = stage + 1
            /\ UNCHANGED <<taken, pc, outcome>>
       ELSE /\ taken' = <<>>
            /\ pc' = "after"
            /\ outcome' = [outcome EXCEPT ![taken[1].index] = "delivered"]
            /\ UNCHANGED stage
    /\ UNCHANGED <<lifecycle, ring, writer, notify, emptying, live, reported>>

(* An error that is not retryable, or a panic: the segment is dropped.     *)
StageFails ==
    /\ At("stage")
    /\ taken' = <<>>
    /\ outcome' = [outcome EXCEPT ![taken[1].index] = "failed"]
    /\ pc' = "after"
    /\ live' \in BOOLEAN
    /\ UNCHANGED <<lifecycle, ring, writer, notify, emptying, stage, reported>>

Attempt == taken[1].retry + 1

BudgetSpent == Attempt > RetryBudget

StageRetries ==
    /\ At("stage")
    /\ IF BudgetSpent
       THEN /\ taken' = <<>>
            /\ outcome' = [outcome EXCEPT ![taken[1].index] = "exhausted"]
            /\ pc' = "after"
       ELSE /\ pc' = "backoff"
            /\ UNCHANGED <<taken, outcome>>
    /\ live' \in BOOLEAN
    /\ UNCHANGED <<lifecycle, ring, writer, notify, emptying, stage, reported>>

(* Variant of Retried: the attempt is not counted.                         *)
RetriedForFree(slot) == slot

Retried(slot) == [slot EXCEPT !.retry = @ + 1]

(* After poll_interval the original bytes go back to the ring.             *)
ReleaseForRetry ==
    /\ At("backoff")
    /\ ring' = RingRelease(ring, Retried(taken[1]))
    /\ taken' = <<>>
    /\ NotifyOne
    /\ pc' = "after"
    /\ UNCHANGED <<lifecycle, writer, emptying, stage, live, history>>

(* The end of a cycle: from the first stop or writer_done on, the loop     *)
(* drains to empty; otherwise it parks.                                    *)
EndCycle ==
    /\ At("after")
    /\ emptying' = (emptying \/ stop \/ writerDone)
    /\ pc' = IF emptying' THEN "live" ELSE "enable"
    /\ UNCHANGED <<lifecycle, ring, writer, notify, taken, stage, live, history>>

(* wait_for_more on the memory backend: wait_for_wakeup against stop.      *)
EnableWaiter ==
    /\ At("enable")
    /\ waiter' = IF permit THEN "done" ELSE "registered"
    /\ permit' = FALSE
    /\ pc' = "recheck"
    /\ UNCHANGED <<lifecycle, ring, writer, emptying, taken, stage, live, history>>

HasPending == ring.slots # <<>>

Recheck ==
    /\ At("recheck")
    /\ IF HasPending \/ writerDone
       THEN DropWaiter /\ pc' = "live"
       ELSE pc' = "await" /\ UNCHANGED notify
    /\ UNCHANGED <<lifecycle, ring, writer, emptying, taken, stage, live, history>>

Wake ==
    /\ At("await")
    /\ waiter \in {"notified", "done"}
    /\ waiter' = "none"
    /\ pc' = "live"
    /\ UNCHANGED <<lifecycle, ring, writer, permit, emptying, taken, stage, live,
                   history>>

WakeOnStop ==
    /\ RunLoopRuns /\ pc \in {"enable", "await"}
    /\ stop
    /\ DropWaiter
    /\ pc' = "live"
    /\ UNCHANGED <<lifecycle, ring, writer, emptying, taken, stage, live, history>>

(* A processor that stopped accepting work does so again (external).       *)
ProcessorRecovers ==
    /\ ~live
    /\ live' = TRUE
    /\ UNCHANGED <<lifecycle, ring, writer, notify, pc, emptying, taken, stage,
                   history>>

-----------------------------------------------------------------------------
(* Variant of Suspended: initialization is outside the drain's timeout.    *)
SuspendedInRunLoop ==
    \/ pc \in {"stage", "backoff"}
    \/ pc \in {"live", "seglive"} /\ ~live
    \/ pc = "await" /\ waiter = "registered"

(* Where the run loop's future can be suspended.                           *)
Suspended ==
    \/ phase \in Initializing
    \/ pc \in {"stage", "backoff"}
    \/ pc \in {"live", "seglive"} /\ ~live
    \/ pc = "await" /\ waiter = "registered"

(* The dropped future takes the segment in flight with it.                 *)
DropWorker ==
    /\ DropRunFuture
    /\ taken' = <<>>
    /\ outcome' = [i \in Segments |-> IF i \in InFlight THEN "abandoned"
                                      ELSE outcome[i]]
    /\ DropWaiter
    /\ pc' = IF pc \in {"drained", "interrupted"} THEN pc ELSE "dropped"
    /\ UNCHANGED <<ring, writer, emptying, stage, live, reported>>

Driver ==
    /\ LifecycleStep(writerDone, Suspended)
    /\ UNCHANGED <<ring, writer, notify, pc, emptying, taken, stage, live, history>>

Terminated == driver = "gone" /\ writerDone /\ UNCHANGED vars

RunStage == StageSucceeds \/ StageFails \/ StageRetries

RunLoop ==
    \/ PipelineLive \/ PipelineStopped
    \/ TakeOne \/ TakeNone
    \/ SegmentEnters \/ ReleaseUnprocessed
    \/ ReleaseForRetry
    \/ EndCycle \/ EnableWaiter \/ Recheck \/ Wake \/ WakeOnStop

Next ==
    \/ \E size \in SegSizes : Seal(size)
    \/ MarkWriterDone
    \/ RunLoop
    \/ RunStage
    \/ ProcessorRecovers
    \/ Driver
    \/ DropWorker
    \/ Terminated

Spec == Init /\ [][Next]_vars

(***************************************************************************)
(* The worker thread is scheduled, a processor that is not live recovers   *)
(* (a breaker's delay elapses), the timeout of a drain fires although the  *)
(* loop may wake up in between.  Nothing is assumed of process(), of       *)
(* initialize() or of the application that shuts down.                     *)
(***************************************************************************)
Fairness ==
    /\ WF_vars(RunLoop)
    /\ WF_vars(ProcessorRecovers)
    /\ WF_vars(DropWorker)
    /\ WF_vars(Driver /\ (StartThread \/ ReceiveShutdown \/ PublishStopped))
    /\ SF_vars(Driver /\ DrainTimesOut(Suspended))

FairSpec == Spec /\ Fairness

-----------------------------------------------------------------------------
(* MAX_TOTAL = ring + one in flight + one active: PIPELINE_RESERVE_SEGMENTS *)
(* keeps room for the segment in flight, and a retry that goes back to a   *)
(* full ring uses that room and no more.                                   *)
MaxSegment == CHOOSE s \in SegSizes : \A t \in SegSizes : t <= s

MemoryBound == ring.bytes + SlotBytes(taken) <= RingBudget + MaxSegment

(* MemFs::seal says that the ring keeps its budget at every observable     *)
(* moment; release_for_retry pushes without evicting.                      *)
RingWithinBudget == ring.bytes <= RingBudget

(* Every sealed segment is in the ring, in flight or accounted for, never  *)
(* in two places, the byte count agrees with the slots, and every eviction *)
(* is counted once, in the ring's counter or in a cycle's metrics.         *)
SegmentAccounted ==
    /\ \A i \in Segments :
         IF i > sealed THEN outcome[i] = "none" /\ i \notin Indices(ring.slots)
         ELSE Cardinality({p \in {"ring", "flight", "out"} :
                  \/ p = "ring" /\ i \in Indices(ring.slots)
                  \/ p = "flight" /\ i \in InFlight
                  \/ p = "out" /\ outcome[i] # "none"}) = 1
    /\ ring.bytes = SlotBytes(ring.slots)
    /\ reported + ring.dropped =
         Cardinality({i \in Segments : outcome[i] = "evicted"})

(* Segments leave oldest first, retried ones too: what is in flight is     *)
(* older than all that waits, and what waits is in order.                  *)
OldestFirst ==
    LET line == taken \o ring.slots
    IN  \A j, k \in 1..Len(line) : j < k => line[j].index < line[k].index

(* The ring's accounts are right whatever seals, evictions, takes, retries *)
(* and failures came before: every segment in one place, its bytes and its *)
(* loss counted once, and the oldest next in line.                         *)
RingInv == TypeOK /\ SegmentAccounted /\ OldestFirst

(* A worker that left because it found nothing more has left nothing: the  *)
(* writer announces its end only after its last seal.                      *)
DrainLeavesNothing == pc = "drained" => ring.slots = <<>>

(* A reader of Stopped knows that no stage holds a segment any more.       *)
NoStageAfterStopped ==
    phase = Stopped => taken = <<>> /\ pc \in {"drained", "interrupted", "dropped"}

(* Stopped is the last word: its reader finds the cause, and no stage of   *)
(* the pipeline still holds a segment, however the worker ended.           *)
StoppedMeansStopped == StoppedTellsWhy /\ NoStageAfterStopped

(* What the abstract storage knows of a segment: what has left the ring    *)
(* and is not accounted for is lost.                                       *)
Status(i) ==
    IF outcome[i] = "delivered" THEN "delivered"
    ELSE IF outcome[i] # "none" THEN "lost"
    ELSE IF i \in Indices(ring.slots) \cup InFlight THEN "held"
    ELSE IF i > sealed THEN "unsealed" ELSE "lost"

Abstract == INSTANCE Delivery
    WITH Last <- MaxSegments, status <- [i \in Segments |-> Status(i)]

(* No wakeup is lost and no retry goes on for ever: if stages return, a    *)
(* sealed segment is delivered or dropped unless the worker ends.          *)
SegmentsSettle ==
    []<>(pc # "stage") /\ []<>(phase \notin Initializing) =>
        \A i \in Segments :
            (i \in Indices(ring.slots)) ~>
                (Status(i) # "held" \/ ~Polled)

(* The ring and the worker implement the abstract storage, and settle what *)
(* it holds: a segment is delivered or lost once and for good, only an     *)
(* eviction, its own failure or the worker's end loses it, and no lost     *)
(* wakeup or endless retry keeps it held.                                  *)
ImplementsDelivery == Abstract!Spec /\ SegmentsSettle

(* Whatever the processors do, hang included, a shutdown ends the worker.  *)
ShutdownEnds == shutdown # "none" ~> phase = Stopped
=============================================================================
