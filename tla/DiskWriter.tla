------------------------------ MODULE DiskWriter ------------------------------
(***************************************************************************)
(* The segment writer over a trace directory, across crashes and restarts  *)
(* of the process (buffer.rs, fs/disk.rs).  The calls the flush loop makes *)
(* arrive in any order; the background worker and operators delete sealed  *)
(* segments behind the writer's back; after a crash or a clean end the     *)
(* next process opens the same directory with discover_existing.           *)
(***************************************************************************)
EXTENDS SegmentWriter

CONSTANTS
    MaxBatches,     \* bound: batches written in a behaviour
    BatchSizes,     \* the sizes a batch may have
    MaxRestarts     \* bound: processes after the first

ASSUME DiskAssumption ==
    /\ IsDisk
    /\ MaxBatches \in Nat
    /\ BatchSizes \subseteq Nat \ {0}
    /\ MaxRestarts \in Nat

VARIABLES
    w,              \* the writer; w.files is the directory
    running,        \* whether the process is up
    lastCall,       \* the call that led to this state
    batches,        \* history: batches handed to the writer
    restarts,       \* history: processes started after the first
    overflowed      \* history: segments this process sealed by overflow

vars == <<w, running, lastCall, batches, restarts, overflowed>>

Indices(files) == {f.index : f \in files}

-----------------------------------------------------------------------------
(* DiskFs::discover_existing.                                              *)

(* Retained artifacts in index order (a BTreeMap).                         *)
InIndexOrder(files) ==
    LET Rank(f) == Cardinality({g \in files : g.index <= f.index})
    IN  [k \in 1..Cardinality(files) |->
            LET f == CHOOSE g \in files : Rank(g) = k
            IN  [index |-> f.index, size |-> f.size]]

(* Variant of NextActiveIndex: the number of files, not the highest index. *)
NextByCount(files) == Cardinality(files)

(* One past the highest retained index, 0 in an empty directory.           *)
NextActiveIndex(files) ==
    IF files = {} THEN 0
    ELSE (CHOOSE i \in Indices(files) : \A j \in Indices(files) : j <= i) + 1

(* Variant of CreateWriter: what the directory holds is not budgeted.      *)
CreateWriterForgetful(files) ==
    NewWriter(<<>>, files, NextActiveIndex(files))

(* SegmentWriter::create; .active orphans were deleted with the old writer. *)
CreateWriter(files) ==
    NewWriter(InIndexOrder(files), files, NextActiveIndex(files))

-----------------------------------------------------------------------------
Init ==
    /\ w = CreateWriter({})
    /\ running = TRUE
    /\ lastCall = "create"
    /\ batches = 0
    /\ restarts = 0
    /\ overflowed = {}

(* A batch of `size` bytes is one event here.                              *)
Write(size, io) ==
    LET batch == [events |-> {batches + 1}, count |-> size, torn |-> FALSE]
    IN  /\ running
        /\ batches < MaxBatches
        /\ w' = WriteEncodedBatch(w, batch, io)
        /\ batches' = batches + 1
        /\ lastCall' = "write"
        /\ overflowed' = IF w.state = "Active" /\ Overflows(w, batch)
                         THEN overflowed \cup {w.next - 1} ELSE overflowed
        /\ UNCHANGED <<running, restarts>>

WriteError(size) ==
    LET batch == [events |-> {batches + 1}, count |-> size, torn |-> FALSE]
    IN  /\ running
        /\ "write" \in IoFaults
        /\ w.state = "Active"
        /\ batches < MaxBatches
        /\ w' = WriteLost(w, batch)
        /\ batches' = batches + 1
        /\ lastCall' = "write"
        /\ UNCHANGED <<running, restarts, overflowed>>

(* The call that follows a drain.  should_drain was polled a cycle ago, so *)
(* a batch written since may have rotated the segment.                     *)
DrainedCall(io) ==
    /\ running
    /\ w' = Drained(w, io)
    /\ lastCall' = "drained"
    /\ UNCHANGED <<running, batches, restarts, overflowed>>

MetadataChange ==
    /\ running
    /\ w' = UpdateSegmentMetadata(w)
    /\ lastCall' = "metadata"
    /\ UNCHANGED <<running, batches, restarts, overflowed>>

Timers ==
    /\ running
    /\ \/ w' = [w EXCEPT !.drainDue = TRUE]
       \/ w' = [w EXCEPT !.rotateDue = TRUE]
    /\ lastCall' = "timer"
    /\ UNCHANGED <<running, batches, restarts, overflowed>>

FinalizeCall(io) ==
    /\ running
    /\ w' = Finalize(w, io)
    /\ running' = FALSE
    /\ lastCall' = "finalize"
    /\ UNCHANGED <<batches, restarts, overflowed>>

(* A sealed segment is uploaded, dropped by the worker or deleted by an    *)
(* operator; the writer's own list of closed files does not change.        *)
Deleted(f) ==
    /\ f \in w.files
    /\ w' = [w EXCEPT !.files = @ \ {f}]
    /\ lastCall' = "deleted"
    /\ UNCHANGED <<running, batches, restarts, overflowed>>

(* The process dies: of the writer only the directory is left.             *)
Crash ==
    /\ running
    /\ running' = FALSE
    /\ lastCall' = "crash"
    /\ UNCHANGED <<w, batches, restarts, overflowed>>

Restart ==
    /\ ~running
    /\ restarts < MaxRestarts
    /\ w' = CreateWriter(w.files)
    /\ running' = TRUE
    /\ restarts' = restarts + 1
    /\ overflowed' = {}
    /\ lastCall' = "create"
    /\ UNCHANGED batches

Next ==
    \/ \E size \in BatchSizes, io \in IoOutcomes : Write(size, io)
    \/ \E size \in BatchSizes : WriteError(size)
    \/ \E io \in IoOutcomes : DrainedCall(io)
    \/ MetadataChange
    \/ Timers
    \/ \E io \in IoOutcomes : FinalizeCall(io)
    \/ \E f \in w.files : Deleted(f)
    \/ Crash
    \/ Restart

Spec == Init /\ [][Next]_vars

-----------------------------------------------------------------------------
(* Types, and one file per index.                                          *)
TypeOK ==
    /\ w.state \in {"Active", "Finished"}
    /\ w.events \subseteq 1..MaxBatches
    /\ w.lost \subseteq 1..MaxBatches
    /\ w.bytes \in Nat
    /\ w.next \in Nat \ {0}
    /\ w.closed \in Seq([index : Nat, size : Nat])
    /\ \A f, g \in w.files : f.index = g.index => f = g
    /\ running \in BOOLEAN
    /\ batches \in 0..MaxBatches

(* A sealed segment is never written over, by this process or by one that  *)
(* starts in a directory with gaps (fs::rename replaces silently).         *)
SealedImmutable ==
    [][\A f \in w.files, g \in w'.files : f.index = g.index => f = g]_vars

(* Retention gives up segments oldest first, also the ones a restart       *)
(* found: a file the writer removes is older than every file that stays.   *)
OldestGoFirst ==
    [][lastCall' # "deleted" =>
        \A f \in w.files, g \in w.files \cap w'.files :
            f.index \notin Indices(w'.files) => f.index < g.index]_vars

(* The bytes of the sealed segments in the directory.                      *)
BytesOnDisk(files) == UNION {{f} \X (1 .. f.size) : f \in files}

(* While the writer is open the sealed segments on disk and the header of  *)
(* the active one fit the budget, whatever was found on start and however  *)
(* often a batch overflowed.                                               *)
DiskBudget ==
    running /\ w.state = "Active" =>
        Cardinality(BytesOnDisk(w.files)) + Header <= MaxTotalSize

(* The writer and its directory are well formed, and the directory keeps   *)
(* the budget, over overflows, evictions, failed rotations and restarts.   *)
WriterInv == TypeOK /\ DiskBudget

(* A sealed segment stays as it was sealed until the writer gives it up,   *)
(* which it does oldest first, or somebody else deletes it: no rotation,   *)
(* failed rotation, eviction or restart replaces one or makes a gap.       *)
SealedSegmentsKept == SealedImmutable /\ OldestGoFirst

(* A segment that overflowed and the one after it are not complete: the    *)
(* first misses events, the second holds them.                             *)
OverflowTaintsTwo ==
    \A f \in w.files : f.complete =>
        {f.index, f.index - 1} \cap overflowed = {}

(* rotate and test_drained_recovers_when_parent_dir_deleted: after         *)
(* drained() the flush loop does not find a drain due at once.  A writer   *)
(* that finished after a failed rotation returns before it moves timers.   *)
DrainedQuiets == lastCall = "drained" => ~ShouldDrain(w)
=============================================================================
