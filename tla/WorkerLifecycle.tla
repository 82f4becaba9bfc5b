--------------------------- MODULE WorkerLifecycle ---------------------------
(***************************************************************************)
(* The background worker's thread around its run loop: initialization of   *)
(* the processors, the shutdown signal and its drain timeout, and what a   *)
(* handle reads about it (worker/mod.rs: spawn, run_background_task_inner, *)
(* new_reporting; worker/state.rs: PipelineState, StoppedOnDrop).  The run *)
(* loops over the two backends, and the triggered one, extend this module. *)
(***************************************************************************)
EXTENDS Naturals, Sequences, FiniteSets

CONSTANTS
    Processors,     \* number of stages in the pipeline
    InitFaults      \* what initialize() may do besides succeeding

ASSUME ProcessorsAssumption == Processors \in Nat \ {0}

ASSUME InitFaultsAssumption ==
    InitFaults \subseteq {"error", "disabling", "panic", "hook"}

VARIABLES
    driver,         \* where run_background_task_inner is
    phase,          \* PipelineState.phase
    cause,          \* PipelineState.cause
    shutdown,       \* the oneshot channel to the worker
    stop,           \* the CancellationToken of the run loop
    disabled        \* whether the worker disabled its recorder

lifecycle == <<driver, phase, cause, shutdown, stop, disabled>>

NoCause == <<"none", 0>>

(* phase is the processor being initialized or one of three values no      *)
(* index can have.                                                         *)
Initializing == 1..Processors
NotStarted == Processors + 1
Running == Processors + 2
Stopped == Processors + 3

Causes ==
    {NoCause, <<"Exited", 0>>, <<"Panicked", 0>>, <<"DrainTimedOut", 0>>}
        \cup ({"InitializeFailed"} \X Initializing)

LifecycleTypeOK ==
    /\ driver \in {"spawned", "polling", "draining", "recorded", "unwound", "gone"}
    /\ phase \in 1..Stopped
    /\ cause \in Causes
    /\ shutdown \in {"none", "graceful", "dropped"}
    /\ stop \in BOOLEAN
    /\ disabled \in BOOLEAN

LifecycleInit ==
    /\ driver = "spawned"
    /\ phase = NotStarted
    /\ cause = NoCause
    /\ shutdown = "none"
    /\ stop = FALSE
    /\ disabled = FALSE

(* The future of the run loop is being polled.                             *)
Polled == driver \in {"polling", "draining"}

RunLoopRuns == Polled /\ phase = Running

-----------------------------------------------------------------------------
(* StoppedOnDrop::record, as the driver's way out: the first cause wins.   *)
Record(c) ==
    /\ driver' = "recorded"
    /\ cause' = IF cause = NoCause THEN c ELSE cause

(* The thread's start hook returns; the first processor is initialized.    *)
StartThread ==
    /\ driver = "spawned"
    /\ driver' = "polling"
    /\ phase' = 1
    /\ UNCHANGED <<cause, shutdown, stop, disabled>>

(* The start hook panics: the guard of spawn finds no cause.               *)
StartHookPanics ==
    /\ driver = "spawned"
    /\ "hook" \in InitFaults
    /\ Record(<<"Panicked", 0>>)
    /\ UNCHANGED <<phase, shutdown, stop, disabled>>

(* new_reporting: one processor after the other, then set_running.         *)
InitializeOk ==
    /\ Polled
    /\ phase \in Initializing
    /\ phase' = IF phase < Processors THEN phase + 1 ELSE Running
    /\ UNCHANGED <<driver, cause, shutdown, stop, disabled>>

(* An error that carries the DisableRecording marker fails the recorder.   *)
InitializeFails(marker) ==
    /\ Polled
    /\ phase \in Initializing
    /\ (IF marker THEN "disabling" ELSE "error") \in InitFaults
    /\ Record(<<"InitializeFailed", phase>>)
    /\ disabled' = (disabled \/ marker)
    /\ UNCHANGED <<phase, shutdown, stop>>

InitializePanics ==
    /\ Polled
    /\ phase \in Initializing
    /\ "panic" \in InitFaults
    /\ Record(<<"Panicked", 0>>)
    /\ UNCHANGED <<phase, shutdown, stop, disabled>>

(* graceful_shutdown sends the drain timeout, Drop drops the sender; both  *)
(* after stop_flush_thread has finalized the writer.                       *)
SignalShutdown(how, writerDone) ==
    /\ writerDone
    /\ shutdown = "none"
    /\ shutdown' = how
    /\ UNCHANGED <<driver, phase, cause, stop, disabled>>

(* The select takes the shutdown branch and cancels the token.             *)
ReceiveShutdown ==
    /\ driver = "polling"
    /\ shutdown # "none"
    /\ driver' = "draining"
    /\ stop' = TRUE
    /\ UNCHANGED <<phase, cause, shutdown, disabled>>

RunLoopReturns ==
    /\ RunLoopRuns
    /\ Record(<<"Exited", 0>>)
    /\ UNCHANGED <<phase, shutdown, stop, disabled>>

(* A timeout drops a future only where it awaits (suspended).              *)
DrainTimesOut(suspended) ==
    /\ driver = "draining"
    /\ suspended
    /\ Record(<<"DrainTimedOut", 0>>)
    /\ UNCHANGED <<phase, shutdown, stop, disabled>>

(* run_fut drops, with the stages and the segment it holds.                *)
DropRunFuture ==
    /\ driver = "recorded"
    /\ driver' = "unwound"
    /\ UNCHANGED <<phase, cause, shutdown, stop, disabled>>

(* Variant of MayPublish: the guard is declared after the future.          *)
MayPublishEarly == driver \in {"recorded", "unwound"}

(* The guard is declared before run_fut, so it drops after it.             *)
MayPublish == driver = "unwound"

(* StoppedOnDrop::drop.                                                    *)
PublishStopped ==
    /\ MayPublish
    /\ driver' = "gone"
    /\ phase' = Stopped
    /\ UNCHANGED <<cause, shutdown, stop, disabled>>

(* Everything but the run loop's own exits and the drop of its future.     *)
LifecycleStep(writerDone, suspended) ==
    \/ StartThread
    \/ StartHookPanics
    \/ InitializeOk
    \/ \E marker \in BOOLEAN : InitializeFails(marker)
    \/ InitializePanics
    \/ \E how \in {"graceful", "dropped"} : SignalShutdown(how, writerDone)
    \/ ReceiveShutdown
    \/ DrainTimesOut(suspended)
    \/ PublishStopped

-----------------------------------------------------------------------------
(* A handle that reads Stopped finds out why, and a recorder the worker    *)
(* disabled was disabled by a processor that failed to initialize          *)
(* (PipelineState::status expects a cause).                                *)
StoppedTellsWhy ==
    /\ phase = Stopped => cause # NoCause
    /\ disabled => cause[1] = "InitializeFailed"
    /\ cause[1] = "DrainTimedOut" => shutdown # "none"
=============================================================================
