------------------------------- MODULE Recorder -------------------------------
(***************************************************************************)
(* A recorder of dial9-core: the flush thread (flush_loop.rs), the drain   *)
(* of the thread-local buffers it performs (shared_state.rs), and starting *)
(* and stopping it (recording.rs, recorder.rs), over the event bus that    *)
(* the application threads write to and the segment writer that the flush  *)
(* thread owns.                                                            *)
(*                                                                         *)
(* A cycle of the flush loop is a walk of fpc:                             *)
(*   wait -> [snapshot -> visit <-> lock ->] sources -> self -> pop        *)
(*        -> after | aborted -> wait | exited                              *)
(* The bracketed part is drain_all_tl_buffers, on a drain or on exit.      *)
(***************************************************************************)
EXTENDS EventBus, SegmentWriter

CONSTANTS
    HasSources,     \* whether a Source may record events during a flush
    MaxDrains       \* bound: drain epochs of one recorder

ASSUME RecorderAssumption == HasSources \in BOOLEAN /\ MaxDrains \in Nat

VARIABLES
    live,           \* the recorder holding the SoleRecorderGuard (the latest)
    fpc,            \* where its flush thread is
    drainState,     \* DrainState
    exit,           \* this cycle is the last one
    doDrain,        \* do_drain of this cycle
    todo,           \* handles drain_all_tl_buffers has still to visit
    cur,            \* the one it is about to lock (Flusher: none)
    stopSent,       \* FinalizeAndStop is in the control channel
    w,              \* the SegmentWriter
    barrier,        \* history: events the current drain has to move out
    archive         \* history: events in traces of earlier recorders

flushVars == <<live, fpc, drainState, exit, doDrain, todo, cur,
               stopSent, w, barrier, archive>>
vars == <<busVars, flushVars>>

FlushSteps == {"wait", "snapshot", "visit", "lock", "sources", "self", "pop",
               "after", "aborted", "exited"}

Init ==
    /\ BusInit
    /\ live = 1
    /\ fpc = "wait"
    /\ drainState = "Idle"
    /\ exit = FALSE
    /\ doDrain = FALSE
    /\ todo = {}
    /\ cur = Flusher
    /\ stopSent = FALSE
    /\ w = NewWriter(<<>>, {}, 0)
    /\ barrier = {}
    /\ archive = {}

-----------------------------------------------------------------------------
(* The head of a cycle: the control channel and the drain state machine.   *)

(* Variant of CycleRuns: a stop request does not get past the check.       *)
CycleRunsOnlyEnabled(stop) == state[live] = "Enabled"

(* A cycle does nothing but poll the channel while recording is disabled.  *)
CycleRuns(stop) == stop \/ state[live] = "Enabled"

(* Idle polls should_drain, except on exit; EpochBumped drains this cycle. *)
StartsDrain(stop) == drainState = "Idle" /\ ~stop /\ ShouldDrain(w)

(* The cycles that bump the epoch: the one that starts a drain, and the    *)
(* last one, which has no later cycle to drain in.                         *)
Bumps(stop) == StartsDrain(stop) \/ stop

NextDrainState(stop) == IF StartsDrain(stop) THEN "EpochBumped" ELSE "Idle"

(* Variant of DrainsNow: should_drain is polled again, and as the drain    *)
(* has not happened yet it is put off again.                               *)
DrainsNowUnlessDue(stop) == drainState = "EpochBumped" /\ ~ShouldDrain(w)

DrainsNow(stop) == drainState = "EpochBumped"

(* recv_timeout, the enabled check, source metadata (which may change or   *)
(* not), and the state machine.  The bound on the epoch binds only if a    *)
(* drain becomes due again without a timer.                                *)
Tick(stop, metadata) ==
    /\ fpc = "wait"
    /\ stop = stopSent
    /\ CycleRuns(stop)
    /\ metadata => HasSources
    /\ Bumps(stop) => drainEpoch[live] <= MaxDrains
    /\ exit' = stop
    /\ doDrain' = DrainsNow(stop)
    /\ drainState' = NextDrainState(stop)
    /\ IF Bumps(stop)
       THEN /\ drainEpoch' = [drainEpoch EXCEPT ![live] = @ + 1]
            /\ barrier' = Drainable(live)
       ELSE UNCHANGED <<drainEpoch, barrier>>
    /\ w' = IF metadata THEN UpdateSegmentMetadata(w) ELSE w
    /\ fpc' = IF exit' \/ doDrain' THEN "snapshot" ELSE "sources"
    /\ UNCHANGED <<state, tlBuffers, collector, buf, flushEpoch, owner,
                   poisoned, pc, via, seen, first, log, gone, live, todo, cur,
                   stopSent, archive>>

-----------------------------------------------------------------------------
(* SharedState::drain_all_tl_buffers.                                      *)

(* The handles are cloned under the lock and visited without it.           *)
Snapshot ==
    /\ fpc = "snapshot"
    /\ todo' = tlBuffers[live]
    /\ fpc' = "visit"
    /\ UNCHANGED <<busVars, live, drainState, exit, doDrain, cur, stopSent, w,
                   barrier, archive>>

(* Variant of SkipsBusy: off by one epoch.                                 *)
SkipsBusyEarly(t) == flushEpoch[t] + 1 >= drainEpoch[live]

(* buffers_skipped_busy: the owner has flushed during this epoch.          *)
SkipsBusy(t) == flushEpoch[t] >= drainEpoch[live]

Visit(t) ==
    /\ fpc = "visit"
    /\ t \in todo
    /\ todo' = todo \ {t}
    /\ IF SkipsBusy(t)
       THEN UNCHANGED <<fpc, cur>>
       ELSE fpc' = "lock" /\ cur' = t
    /\ UNCHANGED <<busVars, live, drainState, exit, doDrain, stopSent, w,
                   barrier, archive>>

(* upgrade fails once the thread has gone; a poisoned buffer is left as it *)
(* is.                                                                     *)
LockSkips(t) == ~Alive(t) \/ poisoned[t]

(* upgrade, lock, flush if anything is pending, stamp, unlock.             *)
LockAndFlush(t) ==
    /\ fpc = "lock"
    /\ t = cur
    /\ ~Locked(t)
    /\ IF LockSkips(t)
       THEN UNCHANGED <<collector, gone, buf, flushEpoch>>
       ELSE /\ IF buf[t].count > 0
               THEN /\ AcceptFlush(live, buf[t])
                    /\ buf' = [buf EXCEPT ![t] = Reset(@)]
               ELSE UNCHANGED <<collector, gone, buf>>
            /\ flushEpoch' = [flushEpoch EXCEPT ![t] = drainEpoch[live]]
    /\ cur' = Flusher
    /\ fpc' = "visit"
    /\ UNCHANGED <<state, drainEpoch, tlBuffers, owner, poisoned, pc, via,
                   seen, first, log, live, drainState, exit, doDrain, todo,
                   stopSent, w, barrier, archive>>

(* Dead handles go once every buffer has been visited.                     *)
Prune ==
    /\ fpc = "visit"
    /\ todo = {}
    /\ tlBuffers' = [tlBuffers EXCEPT ![live] = {t \in @ : Alive(t)}]
    /\ fpc' = "sources"
    /\ UNCHANGED <<state, drainEpoch, collector, buf, flushEpoch, owner,
                   poisoned, pc, via, seen, first, log, gone, live, drainState,
                   exit, doDrain, todo, cur, stopSent, w, barrier, archive>>

-----------------------------------------------------------------------------
(* flush_once.                                                             *)

(* A Source records an event, or none, through the flush thread's own      *)
(* buffer, which is never registered (FlushContext drops the handle).      *)
FlushSources(wrote) ==
    LET b == Extended(buf[Flusher], wrote, Len(log) + 1)
    IN  /\ fpc = "sources"
        /\ wrote => /\ HasSources
                    /\ state[live] = "Enabled"
                    /\ Len(log) < MaxEvents
        /\ fpc' = "self"
        /\ IF ~wrote
           THEN UNCHANGED <<collector, gone, buf, flushEpoch, log, owner>>
           ELSE /\ owner' = [owner EXCEPT
                                ![Flusher] = SetCollector(Flusher, live)]
                /\ log' = Append(log, [thread |-> Flusher, rec |-> live])
                /\ IF MustFlush(b, flushEpoch[Flusher], drainEpoch[live])
                   THEN /\ AcceptFlush(live, b)
                        /\ buf' = [buf EXCEPT ![Flusher] = Reset(b)]
                        /\ flushEpoch' = [flushEpoch EXCEPT
                                            ![Flusher] = drainEpoch[live]]
                   ELSE /\ buf' = [buf EXCEPT ![Flusher] = b]
                        /\ UNCHANGED <<collector, gone, flushEpoch>>
        /\ UNCHANGED <<state, drainEpoch, tlBuffers, poisoned, pc, via, seen,
                       first, live, drainState, exit, doDrain, todo, cur,
                       stopSent, w, barrier, archive>>

(* encoder::drain_to_collector by the flush thread: on exit, and on every  *)
(* SELF_DRAIN_INTERVAL-th cycle.                                           *)
DrainSelf(due) ==
    /\ fpc = "self"
    /\ exit => due
    /\ IF due /\ buf[Flusher].count > 0
       THEN /\ AcceptFlush(live, buf[Flusher])
            /\ buf' = [buf EXCEPT ![Flusher] = Reset(@)]
       ELSE UNCHANGED <<collector, gone, buf>>
    /\ fpc' = "pop"
    /\ UNCHANGED <<state, drainEpoch, tlBuffers, flushEpoch, owner, poisoned,
                   pc, via, seen, first, log, live, drainState, exit, doDrain,
                   todo, cur, stopSent, w, barrier, archive>>

(* SharedState::disable, as flush_once calls it after a failed write.      *)
AfterWriteError ==
    [state EXCEPT ![live] = IF @ = "Enabled" THEN "Disabled" ELSE @]

(* One batch from the queue to the writer.  An empty batch is discarded;   *)
(* an error disables recording and abandons the rest of the queue.         *)
PopBatch(io, failed) ==
    LET q     == collector[live]
        batch == Head(q)
    IN  /\ fpc = "pop"
        /\ q # <<>>
        /\ failed => /\ "write" \in IoFaults
                     /\ w.state = "Active"
                     /\ batch.count > 0
        /\ collector' = [collector EXCEPT ![live] = Tail(q)]
        /\ w' = IF failed THEN WriteLost(w, batch)
                          ELSE WriteEncodedBatch(w, batch, io)
        /\ IF failed \/ (batch.count > 0 /\ WriteRotateFails(w, batch, io))
           THEN state' = AfterWriteError /\ fpc' = "aborted" /\ barrier' = {}
           ELSE UNCHANGED <<state, fpc, barrier>>
        /\ UNCHANGED <<drainEpoch, tlBuffers, buf, flushEpoch, owner, poisoned,
                       pc, via, seen, first, log, gone, live, drainState, exit,
                       doDrain, todo, cur, stopSent, archive>>

PopDone ==
    /\ fpc = "pop"
    /\ collector[live] = <<>>
    /\ fpc' = "after"
    /\ UNCHANGED <<busVars, live, drainState, exit, doDrain, todo, cur,
                   stopSent, w, barrier, archive>>

-----------------------------------------------------------------------------
(* The tail of a cycle.                                                    *)

(* writer.drained() after a drain, unless this is the last cycle.          *)
EndCycle(io) ==
    /\ fpc \in {"after", "aborted"}
    /\ ~exit
    /\ w' = IF doDrain THEN Drained(w, io) ELSE w
    /\ doDrain' = FALSE
    /\ barrier' = IF doDrain THEN {} ELSE barrier
    /\ fpc' = "wait"
    /\ UNCHANGED <<busVars, live, drainState, exit, todo, cur, stopSent,
                   archive>>

(* Sources that panicked in this last cycle are noted in the metadata,     *)
(* then writer.finalize(), the ack, and the end of the flush thread.       *)
FinalizeAndStop(panicked, io) ==
    /\ fpc \in {"after", "aborted"}
    /\ exit
    /\ panicked => HasSources
    /\ w' = Finalize(IF panicked THEN UpdateSegmentMetadata(w) ELSE w, io)
    /\ fpc' = "exited"
    /\ UNCHANGED <<busVars, live, drainState, exit, doDrain, todo, cur,
                   stopSent, barrier, archive>>

FlushThreadStep ==
    \/ \E stop, metadata \in BOOLEAN : Tick(stop, metadata)
    \/ Snapshot
    \/ \E t \in Threads : Visit(t) \/ LockAndFlush(t)
    \/ Prune
    \/ \E wrote \in BOOLEAN : FlushSources(wrote)
    \/ \E due \in BOOLEAN : DrainSelf(due)
    \/ \E io \in IoOutcomes, failed \in BOOLEAN : PopBatch(io, failed)
    \/ PopDone
    \/ \E io \in IoOutcomes : EndCycle(io)
    \/ \E panicked \in BOOLEAN, io \in IoOutcomes : FinalizeAndStop(panicked, io)

-----------------------------------------------------------------------------
(* Time, and the calls that stop a recorder and build the next one.        *)

(* next_drain_time passes.  The bound leaves room for the bump on exit.    *)
DrainTimer ==
    /\ fpc # "exited"
    /\ ~w.drainDue
    /\ drainEpoch[live] < MaxDrains
    /\ w' = [w EXCEPT !.drainDue = TRUE]
    /\ UNCHANGED <<busVars, live, fpc, drainState, exit, doDrain, todo, cur,
                   stopSent, barrier, archive>>

(* next_rotation_time passes.                                              *)
RotateTimer ==
    /\ fpc # "exited"
    /\ ~w.rotateDue
    /\ w' = [w EXCEPT !.rotateDue = TRUE]
    /\ UNCHANGED <<busVars, live, fpc, drainState, exit, doDrain, todo, cur,
                   stopSent, barrier, archive>>

(* stop_flush_thread: the one owner of the Recorder drains its own buffer, *)
StopRequest(t) ==
    /\ pc[t] = "idle"
    /\ ~stopSent
    /\ \A u \in Threads : pc[u] # "sending"
    /\ pc' = [pc EXCEPT ![t] = "sending"]
    /\ IF ~poisoned[t] /\ buf[t].count > 0
       THEN /\ AcceptFlush(live, buf[t])
            /\ buf' = [buf EXCEPT ![t] = Reset(@)]
       ELSE UNCHANGED <<collector, gone, buf>>
    /\ UNCHANGED <<state, drainEpoch, tlBuffers, flushEpoch, owner, poisoned,
                   via, seen, first, log, flushVars>>

(* sends FinalizeAndStop and waits for the ack.                            *)
SendStop(t) ==
    /\ pc[t] = "sending"
    /\ stopSent' = TRUE
    /\ pc' = [pc EXCEPT ![t] = "stopping"]
    /\ UNCHANGED <<state, drainEpoch, tlBuffers, collector, buf, flushEpoch,
                   owner, poisoned, via, seen, first, log, gone, live, fpc,
                   drainState, exit, doDrain, todo, cur, w, barrier, archive>>

(* The rest of stop_flush_thread, once the flush thread has been joined.   *)
MarkStopped(t) ==
    /\ pc[t] = "stopping"
    /\ fpc = "exited"
    /\ pc' = [pc EXCEPT ![t] = "idle"]
    /\ state' = [state EXCEPT ![live] = "Stopped"]
    /\ UNCHANGED <<drainEpoch, tlBuffers, collector, buf, flushEpoch, owner,
                   poisoned, via, seen, first, log, gone, flushVars>>

(* RecorderBuilder::build once the guard of the last recorder is released: *)
(* a new SharedState, a new writer and a new flush thread.                 *)
Build ==
    /\ live < MaxRecorders
    /\ state[live] = "Stopped"
    /\ live' = live + 1
    /\ state' = [state EXCEPT ![live + 1] = "Disabled"]
    /\ fpc' = "wait"
    /\ drainState' = "Idle"
    /\ exit' = FALSE
    /\ doDrain' = FALSE
    /\ todo' = {}
    /\ cur' = Flusher
    /\ stopSent' = FALSE
    /\ archive' = archive \cup WriterEvents(w)
    /\ gone' = gone \cup w.lost
    /\ w' = NewWriter(<<>>, {}, 0)
    /\ barrier' = {}
    /\ buf' = [buf EXCEPT ![Flusher] = EmptyBatch]
    /\ flushEpoch' = [flushEpoch EXCEPT ![Flusher] = 0]
    /\ owner' = [owner EXCEPT ![Flusher] = 0]
    /\ UNCHANGED <<drainEpoch, tlBuffers, collector, poisoned, pc, via, seen,
                   first, log>>

-----------------------------------------------------------------------------
Next ==
    \/ (\E t \in Threads : ThreadStep(t)) /\ UNCHANGED flushVars
    \/ LifecycleStep /\ UNCHANGED flushVars
    \/ FlushThreadStep
    \/ DrainTimer
    \/ RotateTimer
    \/ \E t \in Threads : StopRequest(t) \/ SendStop(t) \/ MarkStopped(t)
    \/ Build

Spec == Init /\ [][Next]_vars

-----------------------------------------------------------------------------
(* Safety.                                                                 *)

FlushTypeOK ==
    /\ live \in Recorders
    /\ fpc \in FlushSteps
    /\ drainState \in {"Idle", "EpochBumped"}
    /\ exit \in BOOLEAN
    /\ doDrain \in BOOLEAN
    /\ todo \in SUBSET Threads
    /\ cur \in Buffers
    /\ stopSent \in BOOLEAN
    /\ barrier \in SUBSET Events
    /\ archive \in SUBSET Events

(* Types, the writer's included, and the bounds on the log and the queue.  *)
TypeOK == BusTypeOK /\ FlushTypeOK /\ w \in WriterTypes(Events)

(* Where an event may be.                                                  *)
Places ==
    {<<"buf", t>> : t \in Buffers}
        \cup {<<"queue", r, i>> : r \in Recorders, i \in 1..Capacity}
        \cup {<<"file", f>> : f \in w.files}
        \cup {<<"active">>, <<"gone">>, <<"archive">>}

IsAt(n, p) ==
    CASE p[1] = "buf" -> n \in buf[p[2]].events
      [] p[1] = "queue" -> /\ p[3] <= Len(collector[p[2]])
                           /\ n \in collector[p[2]][p[3]].events
      [] p[1] = "file" -> n \in p[2].events
      [] p[1] = "active" -> n \in w.events
      [] p[1] = "gone" -> n \in w.lost \cup gone
      [] p[1] = "archive" -> n \in archive

(* Every encoded event is in exactly one place: buffered, queued, in one   *)
(* segment, or accounted for as lost.  No interleaving of threads, drains, *)
(* rotations, I/O errors and recorders makes one vanish, and no drain      *)
(* racing a self-flush, an exit or a shutdown writes one twice.            *)
EventInOnePlace ==
    \A n \in 1..Len(log) : Cardinality({p \in Places : IsAt(n, p)}) = 1

(* A drain, and the last drain of a shutdown, leave no event behind that   *)
(* was recorded before the epoch was bumped: once the cycle has emptied    *)
(* the queue such an event is in the writer, whatever its thread did       *)
(* meanwhile.  Not covered: a thread that panicked while encoding, one     *)
(* that is exiting, whose last batch may still be on its way, and a cycle  *)
(* that a write error cut short.                                           *)
DrainBarrier ==
    fpc \in {"after", "exited"} /\ (doDrain \/ exit) =>
        \A n \in barrier :
            LET t == log[n].thread
            IN  poisoned[t] \/ ~Alive(t)
                \/ n \notin buf[t].events \cup QueueEvents(collector[live])

(***************************************************************************)
(* Why DrainBarrier holds, as an invariant that every step preserves.      *)
(***************************************************************************)
(* A buffer holds events of its own thread, and a reset one holds none.    *)
BuffersOwnTheirEvents ==
    /\ \A t \in Buffers : \A n \in buf[t].events :
         n \in 1..Len(log) /\ log[n].thread = t
    /\ \A t \in Buffers : buf[t].count = 0 => buf[t].events = {}
    /\ \A t \in Threads : pc[t] = "stamping" => buf[t].events = {}

(* Every thread that has recorded is visited by the next drain, but for a  *)
(* first call that is still under way, a poisoned buffer and a dead thread. *)
RecordersAreRegistered ==
    /\ \A n \in 1..Len(log) : owner[log[n].thread] # 0
    /\ \A t \in Threads :
         /\ first[t] => pc[t] \in {"flushing", "stamping", "registering"}
         /\ \/ owner[t] = 0
            \/ first[t]
            \/ poisoned[t]
            \/ ~Alive(t)
            \/ t \in tlBuffers[live]

(* No stamp is ahead of the epoch ...                                      *)
StampsAreBehind ==
    \A t \in Threads : /\ flushEpoch[t] <= drainEpoch[live]
                       /\ seen[t] <= drainEpoch[live]

(* ... and the stamp of a thread that still buffers an event of the        *)
(* barrier is behind it, so no drain skips the thread as busy.             *)
BarrierIsBehind ==
    \A n \in barrier :
        LET t == log[n].thread
        IN  /\ n \in 1..Len(log)
            /\ t \in Threads
            /\ ~first[t]
            /\ n \in buf[t].events => flushEpoch[t] < drainEpoch[live]

(* As far as a drain has got, the barrier's events are out of the buffers. *)
DrainIsOnTrack ==
    /\ fpc = "aborted" => barrier = {}
    /\ \A n \in barrier :
        LET t == log[n].thread
        IN  \/ poisoned[t]
            \/ ~Alive(t)
            \/ /\ fpc \in {"visit", "lock"} /\ n \in buf[t].events =>
                    t \in todo \/ (fpc = "lock" /\ t = cur)
               /\ fpc \in {"sources", "self", "pop", "after", "exited"}
                    /\ (doDrain \/ exit) => n \notin buf[t].events
               /\ fpc \in {"after", "exited"} /\ (doDrain \/ exit) =>
                    n \notin QueueEvents(collector[live])

(* Nobody records for a recorder that is not built yet.                    *)
LaterRecordersUnbuilt ==
    /\ \A r \in Recorders : r > live => state[r] = "NotBuilt"
    /\ \A t \in Threads : via[t] <= live

DrainInv ==
    /\ BuffersOwnTheirEvents
    /\ RecordersAreRegistered
    /\ StampsAreBehind
    /\ BarrierIsBehind
    /\ DrainIsOnTrack

FirstRecorderInv == LaterRecordersUnbuilt /\ (live = 1 => DrainInv)

(* How far an event of the live recorder has come: the index of its        *)
(* segment, then the queue, then a buffer.                                 *)
Position(n) ==
    IF n \in WriterEvents(w)
    THEN IF n \in w.events THEN w.next - 1
         ELSE (CHOOSE f \in w.files : n \in f.events).index
    ELSE IF n \in QueuedEvents
    THEN w.next + (CHOOSE i \in 1..Capacity :
                      /\ i <= Len(collector[live])
                      /\ n \in collector[live][i].events)
    ELSE w.next + Capacity + 1

(* The events of one thread reach the segments in the order it recorded    *)
(* them, whichever of its own flush, the intrusive drain, its exit and a   *)
(* shutdown carries each of them (MaxRecorders = 1).                       *)
ThreadOrder ==
    \A m, n \in (1..Len(log)) \ (w.lost \cup gone) :
        m < n /\ log[m].thread = log[n].thread => Position(m) <= Position(n)

(* A late failure of the worker, or a late enable, does not bring back a   *)
(* recorder that failed or was stopped.                                    *)
LifecycleMonotone ==
    [][\A r \in Recorders :
        /\ state[r] = "Failed" => state'[r] \in {"Failed", "Stopped"}
        /\ state[r] = "Stopped" => state'[r] = "Stopped"]_vars

(* What the recorder promises about every event, whatever the path.        *)
Promise == INSTANCE TraceLog WITH
    recorded <- Len(log),
    pending <- BufferedEvents \cup QueuedEvents,
    kept <- WriterEvents(w) \cup archive,
    gone <- w.lost \cup gone

(* Recorder implements TraceLog: an event moves from pending to kept to    *)
(* gone, never back and never into two of them.                            *)
ImplementsTraceLog == Promise!Spec

-----------------------------------------------------------------------------
(* Liveness.                                                               *)

(***************************************************************************)
(* The flush thread runs whenever it can, and a thread that holds the      *)
(* mutex of its buffer gets on with it, as does the caller that waits for  *)
(* the flush thread: the operating system schedules them.  Nothing is      *)
(* assumed about when threads record, about lifecycle calls or about       *)
(* timers.                                                                 *)
(***************************************************************************)
Fairness ==
    /\ WF_vars(FlushThreadStep)
    /\ WF_vars(\E t \in Threads : MarkStopped(t))
    /\ \A t \in Threads :
        WF_vars((SelfFlush(t) \/ SelfStamp(t)) /\ UNCHANGED flushVars)

FairSpec == Spec /\ Fairness

(* A drain that is due happens while recording stays enabled: the two-step *)
(* state machine does not put it off for ever.                             *)
DueDrainHappens ==
    ShouldDrain(w) ~> \/ ~ShouldDrain(w)
                      \/ state[live] # "Enabled"
                      \/ stopSent

(* A stop, once sent, is carried through and its caller returns, also if   *)
(* recording is disabled.                                                  *)
StopReturns == stopSent ~> state[live] = "Stopped"

-----------------------------------------------------------------------------
(* What comments and design notes say, and the code does not do.           *)

(* docs/design/tl-buffer-drain.md: an idle thread is drained each time the *)
(* drain interval has passed.  should_drain also asks for events in the    *)
(* active segment.                                                         *)
IdleThreadsDrained ==
    \A t \in Threads :
        (w.drainDue /\ buf[t].count > 0 /\ state[live] = "Enabled") ~>
            (buf[t].count = 0 \/ ~Alive(t) \/ state[live] # "Enabled")

(* SEGMENT_COMPLETE_KEY: a segment sealed as complete after a drain is not *)
(* missing events that were still buffered: none of `events` that is older *)
(* than one of the segment's own turns up after it.                        *)
CompleteAmong(events) ==
    \A f \in w.files : f.complete /\ ~w.done =>
        LET later == BufferedEvents \cup QueuedEvents \cup w.events
                       \cup FilesEvents({g \in w.files : g.index > f.index})
        IN  \A n \in later \cap events, m \in f.events : n > m

(* For registered application threads: the drain skips, or has already     *)
(* visited, a thread that carries the stamp of this epoch, and what that   *)
(* thread records afterwards stays buffered.                               *)
CompleteSegmentsMissNoThread ==
    CompleteAmong({n \in 1..Len(log) :
        LET t == log[n].thread
        IN  /\ t \in Threads
            /\ flushEpoch[t] = drainEpoch[live]
            /\ \E k \in 1..(n - 1) : log[k].thread = t})

(* For the flush thread: its own buffer is not registered, so no drain     *)
(* flushes what its sources have recorded.                                 *)
CompleteSegmentsMissNoSource ==
    CompleteAmong({n \in 1..Len(log) : log[n].thread = Flusher})

(* SEGMENT_COMPLETE_KEY again, for the queue: a drain whose writes failed  *)
(* has left batches in the queue, and drained() must not seal as complete  *)
(* a segment that has newer events than those.                             *)
AbandonedQueueIsIncomplete ==
    [][fpc = "aborted" =>
          \A f \in w'.files \ w.files : f.complete =>
              \A n \in QueuedEvents, m \in f.events : n > m]_vars

(* tl-buffer-drain.md on mutex poisoning: a buffer an encoder panicked in  *)
(* is never flushed.                                                       *)
TornBuffersStayPut ==
    \A r \in Recorders : \A i \in 1..Len(collector[r]) : ~collector[r][i].torn

(* Recorder: dropping it flushes the remaining events, also if it is not   *)
(* the first recorder of the process.                                      *)
LaterRecorderDrains == live > 1 => DrainBarrier
=============================================================================
