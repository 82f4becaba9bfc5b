---------------------------- MODULE SegmentWriter ----------------------------
(***************************************************************************)
(* The segment writer of dial9-core (buffer.rs) and the backend operations *)
(* it calls (fs/disk.rs, fs/mod.rs), as operators on a record: the writer  *)
(* runs on one thread (the flush thread), so each of its methods is a      *)
(* function from the writer's state, and the outcome of its I/O calls, to  *)
(* the writer's next state.  DiskWriter checks the writer on its own,      *)
(* with crashes and restarts; Recorder composes it with the event bus.     *)
(*                                                                         *)
(* Bytes are counted in units of one event: a batch of n events adds n     *)
(* bytes, and a fresh segment starts at Header (file header, clock sync).  *)
(* Time is abstracted to two flags: drainDue (now >= next_drain_time) and  *)
(* rotateDue (now >= next_rotation_time).                                  *)
(***************************************************************************)
EXTENDS Naturals, Sequences, FiniteSets

CONSTANTS
    MaxFileSize,    \* a segment above this many bytes is rotated on the spot
    MaxTotalSize,   \* retention budget over closed segments and the active one
    Header,         \* bytes of a segment that holds no event
    IsDisk,         \* BufferMode::IS_DISK
    IoFaults        \* which I/O calls may fail in this model

ASSUME SizesAreNaturals ==
    /\ MaxFileSize \in Nat
    /\ MaxTotalSize \in Nat
    /\ Header \in Nat

ASSUME ModeIsBoolean == IsDisk \in BOOLEAN

ASSUME FaultsAreKnown ==
    IoFaults \subseteq {"write", "seal_notfound", "seal_err", "create_err"}

(***************************************************************************)
(* Outcomes of the two backend calls of a rotation: Fs::seal, which may    *)
(* find the active file gone or fail otherwise, and the creation of the    *)
(* next segment (Fs::create_segment and prepare_segment).                  *)
(***************************************************************************)
SealOutcomes ==
    {"ok"} \cup {o \in {"notfound", "err"} :
                   \/ o = "notfound" /\ "seal_notfound" \in IoFaults
                   \/ o = "err" /\ "seal_err" \in IoFaults}

CreateOutcomes == {"ok"} \cup {o \in {"err"} : "create_err" \in IoFaults}

IoOutcomes == [seal : SealOutcomes, create : CreateOutcomes]

SealKinds == {"Drained", "Overflow"}

-----------------------------------------------------------------------------
(* The state of a writer.                                                  *)

(***************************************************************************)
(* A writer over a backend that already holds `files` and whose retained   *)
(* artifacts are `closed`, about to write segment `first`                  *)
(* (SegmentWriter::create, create_in_memory, before the first eviction).   *)
(*   events, bytes  what the active segment holds                          *)
(*   prior          prior_seal_kind                                        *)
(*   next           next_index: one past the active segment's index        *)
(*   closed         closed_files, oldest first (disk mode only)            *)
(*   files          sealed segments the backend holds                      *)
(*   lost           history: events that left the trace, by eviction, by   *)
(*                  an abandoned segment, a failed write or a write to a   *)
(*                  finished writer (dropped_events counts these)          *)
(***************************************************************************)
OpenWriter(closed, files, first) ==
    [state |-> "Active", events |-> {}, bytes |-> Header,
     hasReal |-> FALSE, metaChanged |-> FALSE, prior |-> "Drained",
     next |-> first + 1, drainDue |-> FALSE, rotateDue |-> FALSE,
     closed |-> closed, files |-> files, lost |-> {}, dropped |-> 0,
     done |-> FALSE]

(* The shape of a writer whose events are drawn from `events`.             *)
SegmentFiles(events) ==
    [index : Nat, events : SUBSET events, size : Nat, complete : BOOLEAN]

WriterTypes(events) ==
    [state : {"Active", "Finished"}, events : SUBSET events, bytes : Nat,
     hasReal : BOOLEAN, metaChanged : BOOLEAN, prior : SealKinds,
     next : Nat \ {0}, drainDue : BOOLEAN, rotateDue : BOOLEAN,
     closed : Seq([index : Nat, size : Nat]),
     files : SUBSET SegmentFiles(events), lost : SUBSET events,
     dropped : Nat, done : BOOLEAN]

FilesEvents(files) == UNION {f.events : f \in files}

(* Every event the writer has accepted and that is still in its segments.  *)
WriterEvents(w) == w.events \cup FilesEvents(w.files)

-----------------------------------------------------------------------------
(* Retention.                                                              *)

ActiveBytes(w) == IF w.state = "Active" THEN w.bytes ELSE 0

(* The bytes of closed files, each named by its file and its place in it.  *)
BytesIn(closed) == UNION {{i} \X (1 .. closed[i].size) : i \in 1..Len(closed)}

ClosedBytes(closed) == Cardinality(BytesIn(closed))

TotalSize(w) == IF IsDisk THEN ClosedBytes(w.closed) + ActiveBytes(w) ELSE 0

(***************************************************************************)
(* evict_oldest pops closed files, oldest first, until the total fits or   *)
(* none is left: the k-th is popped if popping fewer would not do.         *)
(***************************************************************************)
FitsAfter(w, k) ==
    ClosedBytes(SubSeq(w.closed, k + 1, Len(w.closed))) + ActiveBytes(w)
        <= MaxTotalSize

EvictCount(w) ==
    Cardinality({k \in 1..Len(w.closed) :
                    \A j \in 0..(k - 1) : ~FitsAfter(w, j)})

RemoveSealed(w, indices) ==
    LET removed == {f \in w.files : f.index \in indices}
    IN  [w EXCEPT !.files = @ \ removed, !.lost = @ \cup FilesEvents(removed)]

EvictOldest(w) ==
    LET k       == EvictCount(w)
        evicted == {w.closed[i].index : i \in 1..k}
        kept    == [RemoveSealed(w, evicted) EXCEPT
                      !.closed = SubSeq(w.closed, k + 1, Len(w.closed))]
    IN  IF ~IsDisk THEN w
        ELSE IF TotalSize(kept) > MaxTotalSize
             THEN [kept EXCEPT !.state = "Finished"]
             ELSE kept

NewWriter(closed, files, first) == EvictOldest(OpenWriter(closed, files, first))

-----------------------------------------------------------------------------
(* Sealing and rotation.                                                   *)

(* Variant of Complete: the seal of the segment before does not count.     *)
CompleteAlone(w, kind) == kind = "Drained"

(* segment.complete, as write_seal_metadata stamps it.                     *)
Complete(w, kind) == kind = "Drained" /\ w.prior = "Drained"

(* The active segment becomes sealed segment `next - 1` (a rename on disk, *)
(* which replaces a file of the same name).                                *)
Sealed(w, complete) ==
    LET index == w.next - 1
        file  == [index |-> index, events |-> w.events, size |-> w.bytes,
                  complete |-> complete]
    IN  [w EXCEPT !.files = {f \in @ : f.index # index} \cup {file},
                  !.closed = IF IsDisk
                             THEN Append(@, [index |-> index, size |-> w.bytes])
                             ELSE @,
                  !.events = {}]

(* The active file vanished before it could be sealed.                     *)
Abandoned(w) == [w EXCEPT !.lost = @ \cup w.events, !.events = {}]

(* A fresh active segment after a rotation.                                *)
FreshSegment(w) ==
    [w EXCEPT !.state = "Active", !.bytes = Header, !.hasReal = FALSE,
              !.metaChanged = FALSE]

(* Variant of Rotate: the index of the next segment is not advanced.       *)
RotateReusingIndex(w, kind, io) ==
    LET stamped == [w EXCEPT !.prior = kind, !.drainDue = FALSE,
                             !.rotateDue = FALSE, !.state = "Finished"]
    IN  IF w.state = "Finished" THEN w
        ELSE EvictOldest(FreshSegment(Sealed(stamped, Complete(w, kind))))

(***************************************************************************)
(* SegmentWriter::rotate.  The seal metadata, prior_seal_kind and both     *)
(* timers move first; the state is Finished until the next segment is      *)
(* open, so a seal error (other than NotFound) or a failed creation leaves *)
(* it Finished.                                                            *)
(***************************************************************************)
Rotate(w, kind, io) ==
    LET stamped == [w EXCEPT !.prior = kind, !.drainDue = FALSE,
                             !.rotateDue = FALSE, !.state = "Finished"]
        closed  == IF io.seal = "notfound" THEN Abandoned(stamped)
                   ELSE Sealed(stamped, Complete(w, kind))
        advanced == [closed EXCEPT !.next = @ + 1]
    IN  CASE w.state = "Finished" -> w
          [] w.state # "Finished" /\ io.seal = "err" -> stamped
          [] w.state # "Finished" /\ io.seal # "err" /\ io.create = "err" ->
                advanced
          [] OTHER -> EvictOldest(FreshSegment(advanced))

RotateFails(w, io) ==
    w.state = "Active" /\ (io.seal = "err" \/ io.create = "err")

-----------------------------------------------------------------------------
(* The methods the flush loop calls.                                       *)

Overflows(w, batch) == w.bytes + batch.count > MaxFileSize

(* write_encoded_batch: a finished writer counts and drops the batch; an   *)
(* open one appends it, unless it holds no event, and rotates if that took *)
(* it over max_file_size.                                                  *)
WriteEncodedBatch(w, batch, io) ==
    LET written == [w EXCEPT !.events = @ \cup batch.events,
                             !.bytes = @ + batch.count, !.hasReal = TRUE]
    IN  IF w.state = "Finished"
        THEN [w EXCEPT !.dropped = @ + batch.count,
                       !.lost = @ \cup batch.events]
        ELSE IF batch.count = 0 THEN w
        ELSE IF Overflows(w, batch) THEN Rotate(written, "Overflow", io)
                                    ELSE written

(* The Err results of write_encoded_batch that follow a rotation.          *)
WriteRotateFails(w, batch, io) ==
    /\ w.state = "Active"
    /\ Overflows(w, batch)
    /\ RotateFails(w, io)

(* write_encoded_batch when the metadata or the batch cannot be written:   *)
(* the popped batch is gone and has_real_events stays as it was.           *)
WriteLost(w, batch) == [w EXCEPT !.lost = @ \cup batch.events]

ShouldDrain(w) == w.hasReal /\ w.drainDue

Drained(w, io) ==
    IF ~w.hasReal THEN w
    ELSE IF w.rotateDue THEN Rotate(w, "Drained", io)
    ELSE [w EXCEPT !.drainDue = FALSE]

UpdateSegmentMetadata(w) == [w EXCEPT !.metaChanged = TRUE]

(* A final segment is worth sealing if it holds events, or metadata that   *)
(* changed after an earlier segment was sealed.                            *)
WorthSealing(w) == w.hasReal \/ (w.metaChanged /\ w.next > 1)

Finalize(w, io) ==
    LET closing == [w EXCEPT !.state = "Finished", !.done = TRUE]
    IN  CASE w.state = "Finished" -> [w EXCEPT !.done = TRUE]
          [] w.state # "Finished" /\ ~WorthSealing(w) -> EvictOldest(closing)
          [] w.state # "Finished" /\ WorthSealing(w) /\ io.seal = "err" ->
                closing
          [] w.state # "Finished" /\ WorthSealing(w) /\ io.seal = "notfound" ->
                EvictOldest(Abandoned(closing))
          [] OTHER -> EvictOldest(Sealed(closing, Complete(w, "Drained")))
=============================================================================
