------------------------------- MODULE EventBus -------------------------------
(***************************************************************************)
(* The recording side of dial9-core: the lifecycle state and the registry  *)
(* of SharedState (shared_state.rs), the thread-local buffers              *)
(* (encoder.rs) and the bounded queue of batches (collector.rs).           *)
(*                                                                         *)
(* An application thread records an event in several steps that other      *)
(* threads may come between: the enabled check, the encoding under the     *)
(* mutex of its own buffer, the push of a full or stale buffer to the      *)
(* collector, the stamp of flush_epoch, and, after the mutex is released,  *)
(* the registration of the buffer.  The flush thread (module Recorder)     *)
(* reads and drains the same buffers.                                      *)
(*                                                                         *)
(* An event is its position in `log`, the history of encoded events, so    *)
(* that m < n says m was recorded first.                                   *)
(***************************************************************************)
EXTENDS Naturals, Sequences, FiniteSets

CONSTANTS
    Threads,        \* application threads
    Flusher,        \* the flush thread, for the buffer its sources write to
    MaxRecorders,   \* bound: recorders built one after the other
    Capacity,       \* slots of the collector's queue (DEFAULT_CAPACITY)
    BatchSize,      \* events at which a buffer flushes itself
    MaxEvents,      \* bound: events recorded in a behaviour
    MayPanic,       \* whether an Encodable may panic while it encodes
    HasPipeline     \* whether a background worker can fail the recording

ASSUME ThreadsAssumption == Flusher \notin Threads

ASSUME SizesAssumption ==
    /\ MaxRecorders \in Nat \ {0}
    /\ Capacity \in Nat \ {0}
    /\ BatchSize \in Nat \ {0}
    /\ MaxEvents \in Nat

ASSUME FeaturesAssumption == MayPanic \in BOOLEAN /\ HasPipeline \in BOOLEAN

VARIABLES
    state,          \* SharedState.state of each recorder
    drainEpoch,     \* SharedState.drain_epoch
    tlBuffers,      \* SharedState.tl_buffers: the registered threads
    collector,      \* CentralCollector.queue
    buf,            \* ThreadLocalBuffer: the batch being filled
    flushEpoch,     \* ThreadLocalBuffer.flush_epoch
    owner,          \* ThreadLocalBuffer.collector: the recorder, 0 for None
    poisoned,       \* whether the buffer's mutex is poisoned
    pc,             \* where each application thread is
    via,            \* the recorder whose handle the thread is recording with
    seen,           \* current_epoch in with_encoder
    first,          \* first_call in with_encoder
    log,            \* history: who encoded event i, and for which recorder
    gone            \* history: events lost before they reached a segment, and
                    \* the ones earlier recorders lost

busVars == <<state, drainEpoch, tlBuffers, collector, buf, flushEpoch, owner,
             poisoned, pc, via, seen, first, log, gone>>

Recorders == 1..MaxRecorders
Buffers == Threads \cup {Flusher}
Events == 1..MaxEvents

(* `torn` marks bytes an encoder left half written when it panicked.       *)
Batches == [events : SUBSET Events, count : Nat, torn : BOOLEAN]
EmptyBatch == [events |-> {}, count |-> 0, torn |-> FALSE]

States == {"NotBuilt", "Disabled", "Enabled", "Failed", "Stopped"}

(* "flushing" and "stamping" hold the mutex of the thread's buffer.        *)
ThreadSteps == {"idle", "recording", "flushing", "stamping", "registering",
                "sending", "stopping", "exiting", "exited"}
Locked(t) == pc[t] \in {"flushing", "stamping"}

(* The thread-local Arc is alive: Weak::upgrade succeeds, strong_count > 0. *)
Alive(t) == pc[t] \notin {"exiting", "exited"}

BusTypeOK ==
    /\ state \in [Recorders -> States]
    /\ drainEpoch \in [Recorders -> Nat]
    /\ tlBuffers \in [Recorders -> SUBSET Threads]
    /\ collector \in [Recorders -> Seq(Batches)]
    /\ buf \in [Buffers -> Batches]
    /\ flushEpoch \in [Buffers -> Nat]
    /\ owner \in [Buffers -> Recorders \cup {0}]
    /\ poisoned \in [Threads -> BOOLEAN]
    /\ pc \in [Threads -> ThreadSteps]
    /\ via \in [Threads -> Recorders]
    /\ seen \in [Threads -> Nat]
    /\ first \in [Threads -> BOOLEAN]
    /\ log \in Seq([thread : Buffers, rec : Recorders])
    /\ Len(log) <= MaxEvents
    /\ \A r \in Recorders : Len(collector[r]) <= Capacity
    /\ gone \in SUBSET Events

BusInit ==
    /\ state = [r \in Recorders |-> IF r = 1 THEN "Disabled" ELSE "NotBuilt"]
    /\ drainEpoch = [r \in Recorders |-> 0]
    /\ tlBuffers = [r \in Recorders |-> {}]
    /\ collector = [r \in Recorders |-> <<>>]
    /\ buf = [t \in Buffers |-> EmptyBatch]
    /\ flushEpoch = [t \in Buffers |-> 0]
    /\ owner = [t \in Buffers |-> 0]
    /\ poisoned = [t \in Threads |-> FALSE]
    /\ pc = [t \in Threads |-> "idle"]
    /\ via = [t \in Threads |-> 1]
    /\ seen = [t \in Threads |-> 0]
    /\ first = [t \in Threads |-> FALSE]
    /\ log = <<>>
    /\ gone = {}

-----------------------------------------------------------------------------
(* CentralCollector.                                                       *)

(* Variants of Pushed: a queue that grows, and one filled at the wrong end. *)
PushedUnbounded(q, b) == Append(q, b)
PushedAtHead(q, b) == IF Len(q) = Capacity THEN q ELSE <<b>> \o q

(* ArrayQueue::force_push: a full queue gives up its oldest batch.         *)
Pushed(q, b) == IF Len(q) = Capacity THEN Append(Tail(q), b) ELSE Append(q, b)
Displaced(q) == IF Len(q) = Capacity THEN Head(q).events ELSE {}

AcceptFlush(r, b) ==
    /\ collector' = [collector EXCEPT ![r] = Pushed(@, b)]
    /\ gone' = gone \cup Displaced(collector[r])

-----------------------------------------------------------------------------
(* Recording an event.                                                     *)

(* SharedState::if_enabled: the check is not repeated later in the call.   *)
BeginRecord(t, r) ==
    /\ pc[t] = "idle"
    /\ state[r] = "Enabled"
    /\ pc' = [pc EXCEPT ![t] = "recording"]
    /\ via' = [via EXCEPT ![t] = r]
    /\ UNCHANGED <<state, drainEpoch, tlBuffers, collector, buf, flushEpoch,
                   owner, poisoned, seen, first, log, gone>>

(* with_encoder on a poisoned buffer: the event is dropped.                *)
RecordRefused(t) ==
    /\ pc[t] = "recording"
    /\ poisoned[t]
    /\ pc' = [pc EXCEPT ![t] = "idle"]
    /\ UNCHANGED <<state, drainEpoch, tlBuffers, collector, buf, flushEpoch,
                   owner, poisoned, via, seen, first, log, gone>>

(* ThreadLocalBuffer::set_collector keeps the first recorder for good.     *)
SetCollector(t, r) == IF owner[t] = 0 THEN r ELSE owner[t]

(* A batch after the closure of with_encoder wrote event n, or nothing.    *)
Extended(b, wrote, n) ==
    IF wrote THEN [b EXCEPT !.events = @ \cup {n}, !.count = @ + 1] ELSE b

(* Variant of Reset: the encoder keeps the bytes it has handed out.        *)
ResetForgotten(b) == b

(* What ThreadLocalBuffer::flush leaves in the buffer whose batch it took. *)
Reset(b) == EmptyBatch

(* The two reasons to self-flush: a full buffer, or a bumped epoch.        *)
MustFlush(b, stamp, epoch) == b.count >= BatchSize \/ stamp < epoch

(* After the mutex is released a first call registers the buffer.          *)
AfterUnlock(isFirst) == IF isFirst THEN "registering" ELSE "idle"

(* The locked part of with_encoder up to the decision to flush.            *)
Encode(t, wrote) ==
    LET r      == via[t]
        b      == Extended(buf[t], wrote, Len(log) + 1)
        isOne  == owner[t] = 0
        flush  == MustFlush(b, flushEpoch[t], drainEpoch[r])
    IN  /\ pc[t] = "recording"
        /\ ~poisoned[t]
        /\ wrote => Len(log) < MaxEvents
        /\ owner' = [owner EXCEPT ![t] = SetCollector(t, r)]
        /\ first' = [first EXCEPT ![t] = isOne]
        /\ buf' = [buf EXCEPT ![t] = b]
        /\ log' = IF wrote THEN Append(log, [thread |-> t, rec |-> r]) ELSE log
        /\ seen' = [seen EXCEPT ![t] = IF flush THEN drainEpoch[r] ELSE 0]
        /\ pc' = [pc EXCEPT ![t] =
                    IF flush THEN "flushing" ELSE AfterUnlock(isOne)]
        /\ UNCHANGED <<state, drainEpoch, tlBuffers, collector, flushEpoch,
                       poisoned, via, gone>>

(* collector.accept_flush(buf.flush()), the mutex still held.              *)
SelfFlush(t) ==
    /\ pc[t] = "flushing"
    /\ AcceptFlush(via[t], buf[t])
    /\ buf' = [buf EXCEPT ![t] = Reset(@)]
    /\ pc' = [pc EXCEPT ![t] = "stamping"]
    /\ UNCHANGED <<state, drainEpoch, tlBuffers, flushEpoch, owner, poisoned,
                   via, seen, first, log>>

(* buf.flush_epoch.store(current_epoch), and the mutex is released.        *)
SelfStamp(t) ==
    /\ pc[t] = "stamping"
    /\ flushEpoch' = [flushEpoch EXCEPT ![t] = seen[t]]
    /\ seen' = [seen EXCEPT ![t] = 0]
    /\ pc' = [pc EXCEPT ![t] = AfterUnlock(first[t])]
    /\ UNCHANGED <<state, drainEpoch, tlBuffers, collector, buf, owner,
                   poisoned, via, first, log, gone>>

(* EventBuffer pushes the handle of a new buffer to tl_buffers.  A set     *)
(* stands for the Vec: a buffer is registered once, and the order of the   *)
(* handles only fixes the order in which a drain visits them.              *)
Register(t) ==
    /\ pc[t] = "registering"
    /\ tlBuffers' = [tlBuffers EXCEPT ![via[t]] = @ \cup {t}]
    /\ first' = [first EXCEPT ![t] = FALSE]
    /\ pc' = [pc EXCEPT ![t] = "idle"]
    /\ UNCHANGED <<state, drainEpoch, collector, buf, flushEpoch, owner,
                   poisoned, via, seen, log, gone>>

(* An Encodable panics with the mutex held: the buffer is poisoned with    *)
(* half an event in it, and the handle of a first call is never returned.  *)
EncodePanics(t) ==
    /\ MayPanic
    /\ pc[t] = "recording"
    /\ ~poisoned[t]
    /\ owner' = [owner EXCEPT ![t] = SetCollector(t, via[t])]
    /\ poisoned' = [poisoned EXCEPT ![t] = TRUE]
    /\ buf' = [buf EXCEPT ![t].torn = TRUE]
    /\ pc' = [pc EXCEPT ![t] = "idle"]
    /\ UNCHANGED <<state, drainEpoch, tlBuffers, collector, flushEpoch, via,
                   seen, first, log, gone>>

(* The thread ends: the last Arc goes, so upgrade fails from here on ...   *)
BeginExit(t) ==
    /\ pc[t] = "idle"
    /\ pc' = [pc EXCEPT ![t] = "exiting"]
    /\ UNCHANGED <<state, drainEpoch, tlBuffers, collector, buf, flushEpoch,
                   owner, poisoned, via, seen, first, log, gone>>

(* ... and then ThreadLocalBuffer::drop flushes to its own collector, or   *)
(* drops what it holds if it never had one.                                *)
FinishExit(t) ==
    /\ pc[t] = "exiting"
    /\ pc' = [pc EXCEPT ![t] = "exited"]
    /\ IF buf[t].count > 0
       THEN /\ IF owner[t] # 0
               THEN AcceptFlush(owner[t], buf[t])
               ELSE gone' = gone \cup buf[t].events /\ UNCHANGED collector
            /\ buf' = [buf EXCEPT ![t] = Reset(@)]
       ELSE UNCHANGED <<collector, gone, buf>>
    /\ UNCHANGED <<state, drainEpoch, tlBuffers, flushEpoch, owner, poisoned,
                   via, seen, first, log>>

ThreadStep(t) ==
    \/ \E r \in Recorders : BeginRecord(t, r)
    \/ RecordRefused(t)
    \/ \E wrote \in BOOLEAN : Encode(t, wrote)
    \/ SelfFlush(t)
    \/ SelfStamp(t)
    \/ Register(t)
    \/ EncodePanics(t)
    \/ BeginExit(t)
    \/ FinishExit(t)

-----------------------------------------------------------------------------
(* The lifecycle calls of SharedState.                                     *)

SetState(r, s) ==
    /\ state' = [state EXCEPT ![r] = s]
    /\ UNCHANGED <<drainEpoch, tlBuffers, collector, buf, flushEpoch, owner,
                   poisoned, pc, via, seen, first, log, gone>>

(* enable: compare_exchange(Disabled, Enabled).                            *)
Enable(r) == state[r] = "Disabled" /\ SetState(r, "Enabled")

(* disable: compare_exchange(Enabled, Disabled).                           *)
Disable(r) == state[r] = "Enabled" /\ SetState(r, "Disabled")

(* Variant of DisablePermanently: a plain store of Failed.                 *)
FailUnconditionally(r) ==
    /\ HasPipeline
    /\ state[r] # "NotBuilt"
    /\ SetState(r, "Failed")

(* disable_permanently: fetch_max(Failed), which leaves Stopped alone.     *)
DisablePermanently(r) ==
    /\ HasPipeline
    /\ state[r] \in {"Disabled", "Enabled"}
    /\ SetState(r, "Failed")

LifecycleStep == \E r \in Recorders :
    Enable(r) \/ Disable(r) \/ DisablePermanently(r)

-----------------------------------------------------------------------------
(* Views of the state that the properties use.                             *)

(* Events of application threads that a drain starting now must move out   *)
(* of the thread-local buffers: all but the event of a thread that is in   *)
(* its first call and so has not registered its buffer.                    *)
Drainable(r) ==
    {n \in 1..Len(log) : /\ log[n].rec = r
                         /\ log[n].thread \in Threads
                         /\ ~first[log[n].thread]}

QueueEvents(q) == UNION {q[i].events : i \in 1..Len(q)}

QueuedEvents == UNION {QueueEvents(collector[r]) : r \in Recorders}

BufferedEvents == UNION {buf[t].events : t \in Buffers}
=============================================================================
