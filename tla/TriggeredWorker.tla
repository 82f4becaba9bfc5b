---------------------------- MODULE TriggeredWorker ----------------------------
(***************************************************************************)
(* On-demand dumps over the memory ring: application threads request dumps *)
(* through a debounced trigger (dump.rs), and run_triggered parks between  *)
(* requests, drains the segments that overlap an open window, holds a dump *)
(* open over a retry, and answers every request (worker/mod.rs).  The      *)
(* manifest is the S3 stage's (finalize_dump in s3.rs).                    *)
(*                                                                         *)
(* Time is one clock of whole seconds.  Segments have one byte, so         *)
(* RingBudget counts segments, and the pipeline is one step: it succeeds,  *)
(* fails for good or fails retryably, and may then stop accepting work.    *)
(***************************************************************************)
EXTENDS WorkerLifecycle, MemRing

CONSTANTS
    MaxTime,        \* bound: the last instant
    MaxSegments,    \* bound: segments the writer seals
    MaxDumps,       \* bound: requests the application makes
    Requests,       \* the <<lookback, lookforward>> pairs it makes them with
    DebounceWindow, \* seconds a request keeps the gate shut; 0: no debounce
    RetryBudget     \* MEMORY_RETRY_BUDGET

ASSUME TriggeredAssumption ==
    /\ {MaxTime, MaxSegments, MaxDumps, DebounceWindow, RetryBudget} \subseteq Nat
    /\ Requests \subseteq Nat \X Nat

VARIABLES
    now,            \* the clock
    ring,           \* the queue under its mutex
    sealed,         \* how many segments the writer has sealed
    activeStart,    \* creation epoch of the segment being written
    writerDone,     \* MemChannel.writer_done
    permit,         \* the permit stored in the ring's Notify
    request,        \* the requests made, in order
    gate,           \* Debounce.last: the request that holds it, 0 for none
    answer,         \* what became of each request
    triggers,       \* whether a DumpTrigger is still alive
    channel,        \* the mpsc channel to the worker
    pc,             \* where run_triggered is
    rxOpen,         \* its rx_open
    dumps,          \* its Vec<ActiveDump>
    closing,        \* the dump in resolve_dump: <<>> or <<dump>>
    hold,           \* whether retry_hold names a dump
    cursor,         \* the index i of the resolving loops
    asOf,           \* the now those loops sampled
    final,          \* whether the pass is the final one
    taken,          \* the segment in flight: <<>> or <<slot>>
    live,           \* whether every processor accepts work
    keys,           \* the S3 stage's dump_keys
    manifest,       \* the manifests it wrote
    receipt,        \* segments_processed of the receipts sent
    owed            \* history: of the matching segments that the ring held when
                    \* a dump registered, the ones not settled yet

clients == <<request, gate, answer, receipt, triggers, channel>>
writer == <<sealed, activeStart, writerDone>>
stages == <<keys, manifest>>
loop == <<pc, rxOpen, dumps, closing, hold, cursor, asOf, final>>

vars == <<lifecycle, now, ring, writer, permit, clients, loop, taken, live,
          stages, owed>>

Segments == 1..MaxSegments
Dumps == 1..MaxDumps
Times == 0..MaxTime

NoManifest == {0}   \* no set of segments

Answers == {"none", "built", "open", "coalesced", "rejected",
            "ok", "pipeline", "unavailable", "stopped"}

ActiveDumps ==
    [id : Dumps, before : SUBSET Dumps, deadline : Times, processed : 0..MaxSegments,
     error : BOOLEAN, unavailable : BOOLEAN]

TypeOK ==
    /\ LifecycleTypeOK
    /\ {now, activeStart, asOf} \subseteq Times
    /\ \A q \in {ring.slots, taken} :
         q \in Seq(Slots(Segments, {1}, 0..RetryBudget, Times))
    /\ Len(taken) <= 1 /\ Len(closing) <= 1
    /\ sealed \in 0..MaxSegments
    /\ {writerDone, permit, triggers, rxOpen, hold, final, live} \subseteq BOOLEAN
    /\ request \in Seq([at : Times, lookback : Nat, forward : Nat, into : 0..MaxDumps])
    /\ gate \in 0..Len(request)
    /\ answer \in [Dumps -> Answers]
    /\ channel \in Seq(Dumps)
    /\ pc \in {"wait", "take", "seglive", "stage", "backoff", "settle",
               "resolve", "expire", "check", "select", "finish", "closed"}
    /\ dumps \in Seq(ActiveDumps) /\ closing \in Seq(ActiveDumps)
    /\ cursor \in 1..(MaxDumps + 1)
    /\ keys \in [Dumps -> SUBSET Segments]
    /\ manifest \in [Dumps -> (SUBSET Segments) \cup {NoManifest}]

Init ==
    /\ LifecycleInit
    /\ now = 0 /\ activeStart = 0 /\ asOf = 0
    /\ ring = EmptyRing
    /\ sealed = 0
    /\ writerDone = FALSE /\ permit = FALSE
    /\ request = <<>> /\ gate = 0 /\ channel = <<>>
    /\ triggers = TRUE /\ rxOpen = TRUE
    /\ pc = "check"
    /\ dumps = <<>> /\ closing = <<>> /\ taken = <<>>
    /\ hold = FALSE /\ final = FALSE
    /\ cursor = 1
    /\ live = TRUE
    /\ answer = [d \in Dumps |-> "none"]
    /\ keys = [d \in Dumps |-> {}]
    /\ manifest = [d \in Dumps |-> NoManifest]
    /\ receipt = [d \in Dumps |-> 0]
    /\ owed = [d \in Dumps |-> {}]

-----------------------------------------------------------------------------
(* Windows.                                                                *)

Monus(a, b) == IF a > b THEN a - b ELSE 0

(* EpochWindow::overlaps, of the window that register gives dump d.        *)
Overlaps(d, slot) ==
    LET r == request[d]
    IN  slot.start <= r.at + r.forward /\ slot.seal >= Monus(r.at, r.lookback)

(* The positions in dumps of those that want the slot.                     *)
Matched(slot) == {k \in 1..Len(dumps) : Overlaps(dumps[k].id, slot)}

(* Variant of Wanted: a dump that is open wants everything.                *)
WantedByAny(slot) == dumps # <<>>

Wanted(slot) == Matched(slot) # {}

NoDeadline == 0

Deadlines == {dumps[k].deadline : k \in 1..Len(dumps)} \ {NoDeadline}

(* sleep_until(the least deadline) is ready.                               *)
DeadlinePassed == \E t \in Deadlines : t <= now

-----------------------------------------------------------------------------
(* The application's threads.                                              *)

Tick ==
    /\ now < MaxTime /\ driver # "gone"
    /\ now' = now + 1
    /\ UNCHANGED <<lifecycle, ring, writer, permit, clients, loop, taken, live,
                   stages, owed>>

(* Debounce: the gate is shut for DebounceWindow after the request that    *)
(* holds it.                                                               *)
GateShut == gate # 0 /\ now - request[gate].at < DebounceWindow

(* DumpTrigger::request: coalesced at once, or built with the gate armed.  *)
(* Bound: none is made, and time stops, once the worker is gone.           *)
Request(lookback, forward) ==
    LET id == Len(request) + 1
    IN  /\ triggers /\ driver # "gone"
        /\ id <= MaxDumps
        /\ now + forward <= MaxTime
        /\ request' = Append(request,
             [at |-> now, lookback |-> lookback, forward |-> forward,
              into |-> IF GateShut THEN gate ELSE 0])
        /\ answer' = [answer EXCEPT ![id] = IF GateShut THEN "coalesced" ELSE "built"]
        /\ gate' = IF GateShut \/ DebounceWindow = 0 THEN gate ELSE id
        /\ UNCHANGED <<lifecycle, now, ring, writer, permit, receipt, triggers,
                       channel, loop, taken, live, stages, owed>>

(* The receiver lives until the loop closes it or its future is dropped.   *)
ReceiverAlive == pc # "closed" /\ driver \notin {"unwound", "gone"}

(* DumpRun::dispatch, when the run is awaited or dropped.                  *)
Dispatch(d) ==
    /\ answer[d] = "built"
    /\ IF ReceiverAlive
       THEN /\ channel' = Append(channel, d)
            /\ answer' = [answer EXCEPT ![d] = "open"]
       ELSE /\ answer' = [answer EXCEPT ![d] = "stopped"]
            /\ UNCHANGED channel
    /\ UNCHANGED <<lifecycle, now, ring, writer, permit, request, gate, receipt,
                   triggers, loop, taken, live, stages, owed>>

(* The last DumpTrigger is dropped.                                        *)
DropTriggers ==
    /\ triggers
    /\ \A d \in Dumps : answer[d] # "built"
    /\ triggers' = FALSE
    /\ UNCHANGED <<lifecycle, now, ring, writer, permit, request, gate, answer,
                   receipt, channel, loop, taken, live, stages, owed>>

-----------------------------------------------------------------------------
(* The writer, on the flush thread.                                        *)

(* Fs::seal: the segment spans [its creation, now].                        *)
Seal ==
    LET slot == Slot(sealed + 1, 1, 0, activeStart, now)
    IN  /\ ~writerDone /\ sealed < MaxSegments
        /\ ring' = RingSeal(ring, slot)
        /\ sealed' = sealed + 1
        /\ activeStart' = now
        /\ permit' = TRUE
        /\ owed' = [d \in Dumps |-> owed[d] \ Evicted(ring, slot)]
        /\ UNCHANGED <<lifecycle, now, writerDone, clients, loop, taken, live, stages>>

MarkWriterDone ==
    /\ ~writerDone
    /\ writerDone' = TRUE
    /\ permit' = TRUE
    /\ UNCHANGED <<lifecycle, now, ring, sealed, activeStart, clients, loop, taken,
                   live, stages, owed>>

-----------------------------------------------------------------------------
(* run_triggered.                                                          *)

At(p) == RunLoopRuns /\ pc = p

(* The head of the loop: with dumps open, drain_matching.                  *)
Top(open) == pc' = IF open # <<>> THEN "wait" ELSE "check"

(* Where a pass goes when drain_matching returns: the final pass ignores   *)
(* why, the others settle what is due, or expire it on a deadline.         *)
AfterDrain(why) ==
    IF final THEN "finish" ELSE IF why = "deadline" THEN "expire" ELSE "settle"

(* wait_until_pipeline_live_triggered, biased: live, stop, deadline, recv. *)
WaitLive ==
    /\ RunLoopRuns /\ pc \in {"wait", "seglive"}
    /\ live
    /\ pc' = IF pc = "wait" THEN "take" ELSE "stage"
    /\ UNCHANGED <<lifecycle, now, ring, writer, permit, clients, rxOpen, dumps,
                   closing, hold, cursor, asOf, final, taken, live, stages, owed>>

(* An interrupted wait puts back the segment it was for.                   *)
WaitInterrupted ==
    /\ RunLoopRuns /\ pc \in {"wait", "seglive"}
    /\ ~live
    /\ stop \/ DeadlinePassed
    /\ pc' = AfterDrain(IF stop THEN "stopped" ELSE "deadline")
    /\ asOf' = now
    /\ cursor' = 1
    /\ IF pc = "seglive"
       THEN /\ ring' = RingRelease(ring, taken[1])
            /\ permit' = TRUE
            /\ taken' = <<>>
       ELSE UNCHANGED <<ring, permit, taken>>
    /\ UNCHANGED <<lifecycle, now, writer, clients, rxOpen, dumps, closing, hold,
                   final, live, stages, owed>>

(* Variant of Released: whoever holds the gate loses it.                   *)
ReleasedAny(d) == 0

(* Debounce::release: only the request that holds the gate opens it.       *)
Released(d) == IF gate = d THEN 0 ELSE gate

(* reject_pipeline_unavailable.                                            *)
Reject ==
    /\ RunLoopRuns /\ pc \in {"wait", "seglive"}
    /\ ~live /\ ~stop /\ ~DeadlinePassed
    /\ rxOpen /\ channel # <<>>
    /\ gate' = Released(Head(channel))
    /\ answer' = [answer EXCEPT ![Head(channel)] = "rejected"]
    /\ channel' = Tail(channel)
    /\ UNCHANGED <<lifecycle, now, ring, writer, permit, request, receipt, triggers, loop,
                   taken, live, stages, owed>>

(* recv yields None: the branch is disabled.  In the select the loop goes  *)
(* round.                                                                  *)
ReceiverEnds ==
    /\ RunLoopRuns
    /\ pc = "select" \/ (pc \in {"wait", "seglive"} /\ ~live /\ ~stop /\ ~DeadlinePassed)
    /\ rxOpen /\ channel = <<>> /\ ~triggers
    /\ rxOpen' = FALSE
    /\ IF pc = "select" THEN Top(dumps) ELSE UNCHANGED pc
    /\ UNCHANGED <<lifecycle, now, ring, writer, permit, clients, dumps, closing,
                   hold, cursor, asOf, final, taken, live, stages, owed>>

(* take_files_matching: the oldest slot that a window wants.               *)
TakeMatching ==
    /\ At("take")
    /\ \E k \in 1..Len(ring.slots) :
         /\ Wanted(ring.slots[k])
         /\ \A j \in 1..(k - 1) : ~Wanted(ring.slots[j])
         /\ taken' = <<ring.slots[k]>>
         /\ ring' = RingTake(ring, k)
    /\ pc' = "seglive"
    /\ UNCHANGED <<lifecycle, now, writer, permit, clients, rxOpen, dumps, closing,
                   hold, cursor, asOf, final, live, stages, owed>>

TakeNone ==
    /\ At("take")
    /\ \A k \in 1..Len(ring.slots) : ~Wanted(ring.slots[k])
    /\ ring' = RingTakeNone(ring)
    /\ pc' = AfterDrain("quiesced")
    /\ UNCHANGED <<lifecycle, now, writer, permit, clients, rxOpen, dumps, closing,
                   hold, cursor, asOf, final, taken, live, stages, owed>>

(* The segment went through: every dump that wants it counts it, and the   *)
(* S3 stage notes its key under each of their ids.                         *)
StageSucceeds ==
    LET slot == taken[1]
        ids == {dumps[k].id : k \in Matched(slot)}
    IN  /\ At("stage")
        /\ dumps' = [k \in 1..Len(dumps) |->
             IF k \in Matched(slot) THEN [dumps[k] EXCEPT !.processed = @ + 1]
                                    ELSE dumps[k]]
        /\ keys' = [d \in Dumps |-> IF d \in ids THEN keys[d] \cup {slot.index}
                                                 ELSE keys[d]]
        /\ owed' = [d \in Dumps |-> IF d \in ids THEN owed[d] \ {slot.index}
                                                 ELSE owed[d]]
        /\ taken' = <<>>
        /\ pc' = "wait"
        /\ UNCHANGED <<lifecycle, now, ring, writer, permit, clients, rxOpen, closing,
                       hold, cursor, asOf, final, live, manifest>>

(* record_dump_error; the segment is gone.                                 *)
FailSegment ==
    LET slot == taken[1]
    IN  /\ dumps' = [k \in 1..Len(dumps) |->
             IF k \in Matched(slot) THEN [dumps[k] EXCEPT !.error = TRUE]
                                    ELSE dumps[k]]
        /\ owed' = [d \in Dumps |-> owed[d] \ {slot.index}]
        /\ taken' = <<>>
        /\ pc' = "wait"

(* A terminal error or a panic.                                            *)
StageFails ==
    /\ At("stage")
    /\ FailSegment
    /\ live' \in BOOLEAN
    /\ UNCHANGED <<lifecycle, now, ring, writer, permit, clients, rxOpen, closing,
                   hold, cursor, asOf, final, stages>>

(* A retryable error: terminal when the budget is spent.                   *)
StageRetries ==
    /\ At("stage")
    /\ IF taken[1].retry + 1 > RetryBudget
       THEN FailSegment
       ELSE pc' = "backoff" /\ UNCHANGED <<dumps, owed, taken>>
    /\ live' \in BOOLEAN
    /\ UNCHANGED <<lifecycle, now, ring, writer, permit, clients, rxOpen, closing,
                   hold, cursor, asOf, final, stages>>

(* Variant of HoldOver: the dump does not wait for the retry.              *)
HoldOverNothing == FALSE

(* retry_hold is not empty: on the memory backend it holds every dump.     *)
HoldOver == TRUE

ReleaseForRetry ==
    /\ At("backoff")
    /\ ring' = RingRelease(ring, [taken[1] EXCEPT !.retry = @ + 1])
    /\ permit' = TRUE
    /\ taken' = <<>>
    /\ hold' = HoldOver
    /\ pc' = AfterDrain("retry")
    /\ UNCHANGED <<lifecycle, now, writer, clients, rxOpen, dumps, closing, cursor,
                   asOf, final, live, stages, owed>>

Settle ==
    /\ At("settle")
    /\ asOf' = now
    /\ cursor' = 1
    /\ pc' = "resolve"
    /\ UNCHANGED <<lifecycle, now, ring, writer, permit, clients, rxOpen, dumps,
                   closing, hold, final, taken, live, stages, owed>>

Due(dump) == dump.deadline <= asOf

SwapRemove(s, k) ==
    SubSeq([s EXCEPT ![k] = s[Len(s)]], 1, Len(s) - 1)

(* mark_pipeline_unavailable                                               *)
MarkUnavailable(dump) == [dump EXCEPT !.unavailable = ~dump.error]

(* One turn of either loop over the dumps.                                 *)
ResolveTurn ==
    /\ RunLoopRuns /\ pc \in {"resolve", "expire"}
    /\ closing = <<>>
    /\ cursor <= Len(dumps)
    /\ IF Due(dumps[cursor]) /\ (pc = "resolve" => ~hold)
       THEN /\ closing' = <<IF pc = "expire" THEN MarkUnavailable(dumps[cursor])
                                             ELSE dumps[cursor]>>
            /\ dumps' = SwapRemove(dumps, cursor)
            /\ UNCHANGED cursor
       ELSE /\ cursor' = cursor + 1
            /\ UNCHANGED <<closing, dumps>>
    /\ UNCHANGED <<lifecycle, now, ring, writer, permit, clients, pc, rxOpen, hold,
                   asOf, final, taken, live, stages, owed>>

ResolveEnds ==
    /\ RunLoopRuns /\ pc \in {"resolve", "expire"}
    /\ closing = <<>>
    /\ cursor > Len(dumps)
    /\ IF pc = "resolve" THEN pc' = "check" ELSE Top(dumps)
    /\ hold' = FALSE /\ cursor' = 1 /\ asOf' = 0
    /\ UNCHANGED <<lifecycle, now, ring, writer, permit, clients, rxOpen, dumps,
                   closing, final, taken, live, stages, owed>>

(* Variant of Failed: any error fails the dump.                            *)
FailedOnAnyError(dump) == dump.error \/ dump.unavailable

Failed(dump) == (dump.error \/ dump.unavailable) /\ dump.processed = 0

(* ActiveDump::into_result                                                 *)
Result(dump) ==
    IF ~Failed(dump) THEN "ok"
    ELSE IF dump.error THEN "pipeline" ELSE "unavailable"

(* finalize_dump: best effort, and none for a dump that failed.            *)
ManifestOf(dump) ==
    IF Failed(dump) THEN {NoManifest} ELSE {keys[dump.id], NoManifest}

(* resolve_dump: the stages finalize, then the receipt is sent.            *)
Resolve ==
    /\ RunLoopRuns
    /\ closing # <<>>
    /\ LET dump == closing[1]
       IN  /\ \E m \in ManifestOf(dump) :
                manifest' = [manifest EXCEPT ![dump.id] = m]
           /\ keys' = [keys EXCEPT ![dump.id] = {}]
           /\ answer' = [answer EXCEPT ![dump.id] = Result(dump)]
           /\ receipt' = [receipt EXCEPT ![dump.id] = dump.processed]
           /\ owed' = [owed EXCEPT ![dump.id] = {}]
    /\ closing' = <<>>
    /\ UNCHANGED <<lifecycle, now, ring, writer, permit, request, gate, triggers,
                   channel, pc, rxOpen, dumps, hold, cursor, asOf, final, taken, live>>

(* Stopped, or the writer is done: one more pass, then everything resolves. *)
Check ==
    /\ At("check")
    /\ final' = (stop \/ writerDone)
    /\ pc' = IF ~final' THEN "select" ELSE IF dumps # <<>> THEN "wait" ELSE "finish"
    /\ UNCHANGED <<lifecycle, now, ring, writer, permit, clients, rxOpen, dumps,
                   closing, hold, cursor, asOf, taken, live, stages, owed>>

FinishTurn ==
    /\ At("finish")
    /\ closing = <<>> /\ dumps # <<>>
    /\ closing' = <<Head(dumps)>>
    /\ dumps' = Tail(dumps)
    /\ UNCHANGED <<lifecycle, now, ring, writer, permit, clients, pc, rxOpen, hold,
                   cursor, asOf, final, taken, live, stages, owed>>

(* The requests in the channel.                                            *)
Queued == {channel[k] : k \in 1..Len(channel)}

AnswerStopped(ds) ==
    answer' = [d \in Dumps |-> IF d \in ds THEN "stopped" ELSE answer[d]]

(* Variant of Close: the requests in the channel are left behind.          *)
CloseAtOnce ==
    /\ At("finish")
    /\ closing = <<>> /\ dumps = <<>>
    /\ channel' = <<>>
    /\ pc' = "closed"
    /\ RunLoopReturns
    /\ UNCHANGED <<now, ring, writer, permit, request, gate, answer, receipt, triggers,
                   rxOpen, dumps, closing, hold, cursor, asOf, final, taken, live, stages,
                   owed>>

Close ==
    /\ At("finish")
    /\ closing = <<>> /\ dumps = <<>>
    /\ AnswerStopped(Queued)
    /\ channel' = <<>>
    /\ pc' = "closed"
    /\ RunLoopReturns
    /\ UNCHANGED <<now, ring, writer, permit, request, gate, receipt, triggers, rxOpen,
                   dumps, closing, hold, cursor, asOf, final, taken, live, stages, owed>>

(* The select: tokio polls its branches in random order.                   *)

(* ActiveDump::register: the deadline is anchored at the trigger.          *)
Deadline(r) ==
    IF r.forward = 0 THEN NoDeadline
    ELSE now + Monus(r.forward, now - r.at)

(* The window and the segment's span have an instant in common.            *)
InWindow(d, slot) ==
    \E t \in slot.start..slot.seal :
        t + request[d].lookback >= request[d].at /\ t <= request[d].at + request[d].forward

Register ==
    LET d == Head(channel)
    IN  /\ At("select")
        /\ rxOpen /\ channel # <<>>
        /\ dumps' = Append(dumps,
             [id |-> d, before |-> {dumps[k].id : k \in 1..Len(dumps)},
              deadline |-> Deadline(request[d]), processed |-> 0,
              error |-> FALSE, unavailable |-> FALSE])
        /\ channel' = Tail(channel)
        /\ owed' = [owed EXCEPT ![d] =
             {ring.slots[k].index : k \in {j \in 1..Len(ring.slots) : InWindow(d, ring.slots[j])}}]
        /\ Top(dumps')
        /\ UNCHANGED <<lifecycle, now, ring, writer, permit, request, gate, answer,
                       receipt, triggers, rxOpen, closing, hold, cursor, asOf, final,
                       taken, live, stages>>

(* stop.cancelled(), or sleep_until the least deadline.                    *)
SelectWakes == stop \/ DeadlinePassed

SelectTimed ==
    /\ At("select")
    /\ SelectWakes
    /\ Top(dumps)
    /\ UNCHANGED <<lifecycle, now, ring, writer, permit, clients, rxOpen, dumps,
                   closing, hold, cursor, asOf, final, taken, live, stages, owed>>

HasPending == ring.slots # <<>>

(* wait_for_wakeup: the branch is there only with dumps open.              *)
SelectWoken ==
    /\ At("select")
    /\ dumps # <<>>
    /\ permit \/ HasPending \/ writerDone
    /\ permit' = FALSE
    /\ Top(dumps)
    /\ UNCHANGED <<lifecycle, now, ring, writer, clients, rxOpen, dumps, closing,
                   hold, cursor, asOf, final, taken, live, stages, owed>>

-----------------------------------------------------------------------------
(* A processor that stopped accepting work does so again (external).       *)
ProcessorRecovers ==
    /\ ~live
    /\ live' = TRUE
    /\ UNCHANGED <<lifecycle, now, ring, writer, permit, clients, loop, taken, stages,
                   owed>>

(* Variant of Suspended: finalize_dump is outside the drain's timeout.     *)
SuspendedNotInFinalize ==
    \/ phase \in Initializing
    \/ closing = <<>> /\ pc \in {"stage", "backoff", "select"}
    \/ closing = <<>> /\ pc \in {"wait", "seglive"} /\ ~live

(* Where the run loop's future can be suspended.                           *)
Suspended ==
    \/ phase \in Initializing
    \/ pc \in {"stage", "backoff"}
    \/ pc \in {"wait", "seglive"} /\ ~live
    \/ pc = "select"
    \/ closing # <<>>

OpenDumps == {dumps[k].id : k \in 1..Len(dumps)} \cup
             {closing[k].id : k \in 1..Len(closing)}

(* The dropped future takes its dumps, the channel and the segment in      *)
(* flight with it: a sender that is gone reads as WorkerStopped.           *)
DropWorker ==
    /\ DropRunFuture
    /\ AnswerStopped(OpenDumps \cup Queued)
    /\ dumps' = <<>> /\ closing' = <<>> /\ channel' = <<>> /\ taken' = <<>>
    /\ keys' = [d \in Dumps |-> {}]
    /\ owed' = [d \in Dumps |-> {}]
    /\ UNCHANGED <<now, ring, writer, permit, request, gate, receipt, triggers, pc, rxOpen,
                   hold, cursor, asOf, final, live, manifest>>

Driver ==
    /\ LifecycleStep(writerDone, Suspended)
    /\ UNCHANGED <<now, ring, writer, permit, clients, loop, taken, live, stages,
                   owed>>

Terminated ==
    /\ driver = "gone"
    /\ \A d \in Dumps : answer[d] \notin {"built", "open"}
    /\ UNCHANGED vars

RunLoop ==
    \/ WaitLive \/ WaitInterrupted \/ Reject \/ ReceiverEnds
    \/ TakeMatching \/ TakeNone \/ ReleaseForRetry
    \/ Settle \/ ResolveTurn \/ ResolveEnds \/ Check \/ FinishTurn \/ Close
    \/ Register \/ SelectTimed \/ SelectWoken

RunStage == StageSucceeds \/ StageFails \/ StageRetries

Next ==
    \/ Tick
    \/ \E r \in Requests : Request(r[1], r[2])
    \/ \E d \in Dumps : Dispatch(d)
    \/ DropTriggers
    \/ Seal
    \/ MarkWriterDone
    \/ RunLoop
    \/ RunStage
    \/ Resolve
    \/ ProcessorRecovers
    \/ Driver
    \/ DropWorker
    \/ Terminated

Spec == Init /\ [][Next]_vars

(***************************************************************************)
(* The worker thread is scheduled, time passes, a processor recovers, and  *)
(* a select that goes round for ever takes every branch that is ready (its *)
(* order is random).  A run is dropped, hence dispatched, at the end of    *)
(* its statement.  Nothing is assumed of a stage: process() may hang.      *)
(***************************************************************************)
Fairness ==
    /\ WF_vars(Tick)
    /\ \A d \in Dumps : WF_vars(Dispatch(d))
    /\ WF_vars(RunLoop)
    /\ WF_vars(ProcessorRecovers)
    /\ SF_vars(Register)
    /\ SF_vars(SelectTimed)
    /\ WF_vars(Driver /\ (StartThread \/ ReceiveShutdown \/ PublishStopped))
    /\ WF_vars(DropWorker)
    /\ SF_vars(Driver /\ DrainTimesOut(Suspended))

FairSpec == Spec /\ Fairness

-----------------------------------------------------------------------------
(* A receipt and its manifest tell the same: the S3 stage has noted, under *)
(* the ids that ride the segment, exactly as many keys as the worker       *)
(* counted, a dump that failed has captured nothing and leaves no          *)
(* manifest, and no keys are kept for a dump that is not open.             *)
ReceiptsAgree ==
    /\ \A d \in Dumps :
         /\ manifest[d] # NoManifest =>
              answer[d] = "ok" /\ Cardinality(manifest[d]) = receipt[d]
         /\ answer[d] \in {"pipeline", "unavailable"} => receipt[d] = 0
         /\ keys[d] # {} => d \in OpenDumps
    /\ \A q \in {dumps, closing} : \A k \in 1..Len(q) :
         q[k].processed = Cardinality(keys[q[k].id])

(* The dumps' state is well formed, and receipts and manifests agree.      *)
DumpInv == TypeOK /\ ReceiptsAgree

(* A segment reaches the pipeline only for an open dump whose window has   *)
(* an instant in common with it: what lies outside every window stays in   *)
(* the ring for later dumps.                                               *)
OnlyWhatWasAskedFor ==
    pc = "stage" /\ taken # <<>> => \E d \in OpenDumps : InWindow(d, taken[1])

(* A dump that resolves in the normal course (not stopped, not expired)    *)
(* has settled every matching segment the ring held when it registered:    *)
(* captured by this dump, failed for good or evicted by the writer, never  *)
(* back in the ring for a retry.                                           *)
SettlesWhatTheRingHeld ==
    pc = "resolve" /\ closing # <<>> /\ ~stop => owed[closing[1].id] = {}

(* At most one dump per debounce window: of two requests accepted within   *)
(* one, the earlier was rejected because the pipeline was unavailable, and *)
(* its rejection opened no gate but its own.                               *)
RateLimited ==
    \A d, e \in 1..Len(request) :
        d < e /\ {request[d].into, request[e].into} = {0}
              /\ request[e].at - request[d].at < DebounceWindow
            => answer[d] = "rejected"

(* Every request that was sent is answered, whatever the pipeline does     *)
(* short of hanging, and whenever the recorder shuts down.                 *)
EveryRequestAnswered ==
    []<>(pc # "stage") /\ []<>(closing = <<>>) /\ []<>(phase \notin Initializing) =>
        \A d \in Dumps : answer[d] = "open" ~> answer[d] # "open"

(* Whatever the processors do, hang included, a shutdown ends the worker,  *)
(* a loop that is parked without a dump too.                               *)
ShutdownEnds == shutdown # "none" ~> phase = Stopped

-----------------------------------------------------------------------------
(* process_segments says that on conflicting metadata the first-registered *)
(* dump wins; it takes the first in dumps of those that want the segment.  *)
FirstRegisteredWins ==
    \A k \in 1..Len(ring.slots) : LET wants == Matched(ring.slots[k]) IN
        \A i, j \in wants : (\A m \in wants : i <= m) => dumps[j].id \notin dumps[i].before

(* DumpError::Coalesced says that `into` names the dump that covers the    *)
(* trigger; the gate is armed before that dump is accepted.                *)
CoalescedIsCovered ==
    \A d \in Dumps :
        answer[d] = "coalesced" => answer[request[d].into] # "rejected"

(* wait_for_wakeup parks until the ring may have new work: when it lets    *)
(* the loop go, something was sealed or put back, the writer is done or a  *)
(* segment matches an open window.                                         *)
ParksWithoutWork ==
    [][SelectWoken =>
         permit \/ writerDone \/ \E k \in 1..Len(ring.slots) : Wanted(ring.slots[k])]_vars
=============================================================================
