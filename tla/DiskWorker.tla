------------------------------ MODULE DiskWorker ------------------------------
(***************************************************************************)
(* The continuous worker over a trace directory, while the writer seals    *)
(* and evicts in the same directory and across crashes of the process.     *)
(* The worker scans, claims what it had not claimed, loads each segment,   *)
(* compresses it and either writes it back beside the original             *)
(* (WriteBackProcessor) or uploads it to S3 and deletes it                 *)
(* (S3PipelineUploader), fs/disk.rs, worker/mod.rs, worker/processors.rs,  *)
(* dial9-destinations-s3.                                                  *)
(*                                                                         *)
(* A segment has an index, which names its files, and a number in the      *)
(* order of sealing, which stands for its contents: a directory the worker *)
(* has emptied makes the next process start again with the first index.    *)
(* All segments have one size and the budget is a number of segments; the  *)
(* byte budget is DiskWriter's.  Metrics are left out.                     *)
(***************************************************************************)
EXTENDS WorkerLifecycle, CircuitBreaker

CONSTANTS
    MaxSegments,    \* bound: segments sealed in a behaviour
    Retain,         \* closed segments the writer's budget has room for
    Destinations,   \* of "writeback" and "upload"
    Faults,         \* which calls may fail
    MaxRestarts     \* bound: processes after the first

ASSUME DiskWorkerAssumption ==
    /\ MaxSegments \in Nat
    /\ Retain \in Nat
    /\ Destinations \subseteq {"writeback", "upload"}
    /\ Faults \subseteq {"scan", "load", "gzip", "write", "unlink", "retryable",
                         "answer", "fatal"}
    /\ MaxRestarts \in Nat

VARIABLES
    destination,    \* the last stage of the configured pipeline
    bin,            \* the sealed files: index -> segment, 0 for none
    gz,             \* the written-back files: index -> segment, 0 for none
    whole,          \* the indices whose .gz is written to the end
    closed,         \* SegmentWriter.closed_files, oldest first
    next,           \* the index of the active segment
    sealed,         \* the number of segments sealed
    writerDone,     \* DiskFs.writer_done
    evicting,       \* index whose family the writer removes, 0 for none
    listed,         \* the suffixes its read_dir still has to return
    claimed,        \* DiskFs.claimed
    pc,             \* where the run loop is
    emptying,       \* whether it is in the drain-to-empty loop
    found,          \* the indices a scan returned
    fresh,          \* the ones it will claim
    pending,        \* segments of the pass that are not processed yet
    cur,            \* index of the segment in process, 0 for none
    payload,        \* the segment loaded, 0 for none
    breaker,        \* the S3 stage's circuit breaker
    detached,       \* a blocking write that outlives the worker
    restarts,       \* history: processes started after the first
    evicted,        \* history: segments the writer has given up
    stored,         \* history: segments the bucket holds
    lastPut,        \* history: how the last PUT and the removal after it ended
    unremoved,      \* history: segments whose sealed file could not be removed
    outcome         \* history: what the worker made of each segment

directory == <<bin, gz, whole>>
writer == <<closed, next, sealed, writerDone, evicting, listed>>
pass == <<found, fresh, pending, cur, payload>>
record == <<destination, restarts, evicted, stored, lastPut, unremoved>>
history == <<record, outcome>>

vars == <<lifecycle, directory, writer, claimed, pc, emptying, pass, breaker,
          detached, history>>

Index == 1..MaxSegments
Files == [Index -> 0..MaxSegments]
NoFiles == [i \in Index |-> 0]
OnDisk(files) == {i \in Index : files[i] # 0}

TypeOK ==
    /\ LifecycleTypeOK
    /\ destination \in Destinations
    /\ bin \in Files /\ gz \in Files
    /\ whole \subseteq OnDisk(gz)
    /\ closed \in Seq(Index)
    /\ next \in 1..(MaxSegments + 1) /\ sealed \in 0..MaxSegments
    /\ writerDone \in BOOLEAN /\ emptying \in BOOLEAN
    /\ evicting \in 0..MaxSegments /\ listed \subseteq {"bin", "gz"}
    /\ claimed \cup found \cup fresh \cup pending \subseteq Index
    /\ cur \in 0..MaxSegments /\ payload \in 0..MaxSegments
    /\ pc \in {"live", "scan", "snapshot", "claim", "next", "load", "gzip",
               "create", "write", "original", "cleanup", "put", "delete",
               "terminal", "after", "sleep", "drained", "interrupted",
               "dropped"}
    /\ breaker \in Breakers
    /\ detached \in 0..MaxSegments
    /\ restarts \in 0..MaxRestarts
    /\ evicted \cup stored \cup unremoved \subseteq 1..MaxSegments
    /\ lastPut \in {"none", "ok", "failed", "undeleted"}
    /\ outcome \in [1..MaxSegments -> {"none", "unread", "delivered", "failed",
                                      "cleaned"}]

(* What a process starts with, in memory.                                  *)
Fresh ==
    /\ claimed' = {} /\ pc' = "live" /\ emptying' = FALSE
    /\ found' = {} /\ fresh' = {} /\ pending' = {} /\ cur' = 0 /\ payload' = 0
    /\ breaker' = ClosedBreaker
    /\ detached' = 0
    /\ writerDone' = FALSE /\ evicting' = 0 /\ listed' = {}

Init ==
    /\ LifecycleInit
    /\ destination \in Destinations
    /\ bin = NoFiles /\ gz = NoFiles /\ whole = {}
    /\ closed = <<>> /\ next = 1 /\ sealed = 0
    /\ writerDone = FALSE /\ evicting = 0 /\ listed = {}
    /\ claimed = {} /\ pc = "live" /\ emptying = FALSE
    /\ found = {} /\ fresh = {} /\ pending = {} /\ cur = 0 /\ payload = 0
    /\ breaker = ClosedBreaker
    /\ detached = 0
    /\ restarts = 0 /\ evicted = {} /\ stored = {} /\ lastPut = "none"
    /\ unremoved = {}
    /\ outcome = [n \in 1..MaxSegments |-> "none"]

Up == driver # "gone" \/ ~writerDone

-----------------------------------------------------------------------------
(* The writer, on the flush thread.                                        *)

worker == <<lifecycle, pc, emptying, pass, breaker, detached>>

OverBudget == Len(closed) > Retain

(* A rotation, or the last seal of finalize, in the order of rotate: the   *)
(* sealed file joins closed_files, then evict_oldest runs.                 *)
Seal ==
    /\ Up /\ ~writerDone
    /\ evicting = 0 /\ ~OverBudget
    /\ sealed < MaxSegments
    /\ bin' = [bin EXCEPT ![next] = sealed + 1]
    /\ closed' = Append(closed, next)
    /\ next' = next + 1
    /\ sealed' = sealed + 1
    /\ UNCHANGED <<worker, gz, whole, writerDone, evicting, listed, claimed, history>>

Present(i) == (IF bin[i] # 0 THEN {"bin"} ELSE {})
                  \cup (IF gz[i] # 0 THEN {"gz"} ELSE {})

(* remove_segment_family opens the directory.                              *)
EvictOpen ==
    /\ Up /\ evicting = 0 /\ OverBudget
    /\ evicting' = Head(closed)
    /\ closed' = Tail(closed)
    /\ listed' = Present(Head(closed))
    /\ evicted' = evicted \cup ({bin[Head(closed)], gz[Head(closed)]} \ {0})
    /\ UNCHANGED <<worker, directory, next, sealed, writerDone, claimed,
                   destination, restarts, stored, lastPut, unremoved, outcome>>

(* read_dir may or may not return an entry made after it was opened.       *)
EvictNotices ==
    /\ Up /\ evicting # 0
    /\ "gz" \in Present(evicting) \ listed
    /\ listed' = listed \cup {"gz"}
    /\ UNCHANGED <<worker, directory, closed, next, sealed, writerDone, evicting,
                   claimed, history>>

(* Variant of Unlinked: every file with the suffix is family.              *)
UnlinkedByStem(a, i) ==
    /\ bin' = IF a = "bin" THEN NoFiles ELSE bin
    /\ gz' = IF a = "gz" THEN NoFiles ELSE gz
    /\ whole' = IF a = "gz" THEN {} ELSE whole

(* Removing a file that is gone is no error.                               *)
Unlinked(a, i) ==
    /\ bin' = IF a = "bin" THEN [bin EXCEPT ![i] = 0] ELSE bin
    /\ gz' = IF a = "gz" THEN [gz EXCEPT ![i] = 0] ELSE gz
    /\ whole' = IF a = "gz" THEN whole \ {i} ELSE whole

Unremoved(i) == unremoved' = unremoved \cup ({bin[i]} \ {0})

EvictUnlink(ok) ==
    /\ Up /\ evicting # 0
    /\ ok \/ "unlink" \in Faults
    /\ \E a \in listed :
         /\ listed' = listed \ {a}
         /\ IF ok THEN Unlinked(a, evicting) /\ UNCHANGED unremoved
                  ELSE /\ UNCHANGED directory
                       /\ IF a = "bin" THEN Unremoved(evicting)
                                       ELSE UNCHANGED unremoved
    /\ UNCHANGED <<worker, closed, next, sealed, writerDone, evicting, claimed,
                   destination, restarts, evicted, stored, lastPut, outcome>>

(* The end of remove_sealed: the claim goes, whoever holds it.             *)
EvictForget ==
    /\ Up /\ evicting # 0 /\ listed = {}
    /\ claimed' = claimed \ {evicting}
    /\ evicting' = 0
    /\ UNCHANGED <<worker, directory, closed, next, sealed, writerDone, listed, history>>

(* The end of finalize, after the last seal and its eviction.              *)
MarkWriterDone ==
    /\ Up /\ ~writerDone
    /\ evicting = 0 /\ ~OverBudget
    /\ writerDone' = TRUE
    /\ UNCHANGED <<worker, directory, closed, next, sealed, evicting, listed,
                   claimed, history>>

-----------------------------------------------------------------------------
(* The run loop.                                                           *)

At(p) == RunLoopRuns /\ pc = p

(* wait_until_live of the S3 stage; the other stages are always live.      *)
Live == destination = "upload" => ShouldAttempt(breaker)

PipelineLive ==
    /\ At("live") /\ Live
    /\ pc' = "scan"
    /\ UNCHANGED <<lifecycle, directory, writer, claimed, emptying, pass, breaker,
                   detached, history>>

PipelineStopped ==
    /\ At("live") /\ ~Live /\ stop
    /\ RunLoopReturns
    /\ pc' = "interrupted"
    /\ UNCHANGED <<directory, writer, claimed, emptying, pass, breaker, detached, history>>

(* take_files, first part: find_sealed_segments.                           *)
Scan ==
    /\ At("scan")
    /\ found' = OnDisk(bin)
    /\ pc' = "snapshot"
    /\ UNCHANGED <<lifecycle, directory, writer, claimed, emptying, fresh, pending,
                   cur, payload, breaker, detached, history>>

(* A scan that fails takes nothing and prunes nothing.                     *)
ScanFails ==
    /\ At("scan") /\ "scan" \in Faults
    /\ IF emptying THEN RunLoopReturns /\ pc' = "interrupted"
                   ELSE UNCHANGED lifecycle /\ pc' = "after"
    /\ UNCHANGED <<directory, writer, claimed, emptying, pass, breaker, detached, history>>

SnapshotClaims ==
    /\ At("snapshot")
    /\ fresh' = found \ claimed
    /\ pc' = "claim"
    /\ UNCHANGED <<lifecycle, directory, writer, claimed, emptying, found, pending,
                   cur, payload, breaker, detached, history>>

(* Claims whose file is gone are pruned, the new ones added.               *)
Claims == (claimed \cap found) \cup fresh

Claim ==
    /\ At("claim")
    /\ claimed' = Claims
    /\ pending' = fresh
    /\ found' = {} /\ fresh' = {}
    /\ IF emptying /\ fresh = {} THEN RunLoopReturns /\ pc' = "drained"
                                 ELSE UNCHANGED lifecycle /\ pc' = "next"
    /\ UNCHANGED <<directory, writer, emptying, cur, payload, breaker, detached, history>>

(* The head of process_segments' loop.                                     *)
NextSegment ==
    /\ At("next") /\ (pending = {} \/ Live)
    /\ IF pending = {}
       THEN pc' = "after" /\ UNCHANGED <<pending, cur>>
       ELSE /\ \E i \in pending :
                 /\ \A j \in pending : i <= j
                 /\ cur' = i
                 /\ pending' = pending \ {i}
            /\ pc' = "load"
    /\ UNCHANGED <<lifecycle, directory, writer, claimed, emptying, found, fresh,
                   payload, breaker, detached, history>>

(* release_unprocessed for this segment and all that follow it.            *)
ReleaseUnprocessed ==
    /\ At("next") /\ pending # {} /\ ~Live /\ stop
    /\ claimed' = claimed \ pending
    /\ pending' = {}
    /\ pc' = "after"
    /\ UNCHANGED <<lifecycle, directory, writer, emptying, found, fresh, cur,
                   payload, breaker, detached, history>>

(* The segment in process is done with, and what it was.                   *)
Done(what) ==
    /\ cur' = 0 /\ payload' = 0
    /\ pc' = "next"
    /\ outcome' = IF what = "none" \/ payload = 0 THEN outcome
                  ELSE [outcome EXCEPT ![payload] = what]

Load ==
    /\ At("load") /\ bin[cur] # 0
    /\ payload' = bin[cur]
    /\ pc' = "gzip"
    /\ UNCHANGED <<lifecycle, directory, writer, claimed, emptying, found, fresh,
                   pending, cur, breaker, detached, history>>

(* Vanished, or unreadable: the segment is skipped and its claim is kept.  *)
LoadFails ==
    /\ At("load") /\ (bin[cur] = 0 \/ "load" \in Faults)
    /\ outcome' = IF bin[cur] = 0 \/ outcome[bin[cur]] = "delivered"
                  THEN outcome ELSE [outcome EXCEPT ![bin[cur]] = "unread"]
    /\ cur' = 0
    /\ pc' = "next"
    /\ UNCHANGED <<lifecycle, directory, writer, claimed, emptying, found, fresh,
                   pending, payload, breaker, detached, record>>

Gzip ==
    /\ At("gzip")
    /\ pc' = IF destination = "upload" THEN "put" ELSE "create"
    /\ UNCHANGED <<lifecycle, directory, writer, claimed, emptying, pass, breaker,
                   detached, history>>

(* An error that is not retryable, or a panic, before the destination      *)
(* stage or in its write.                                                  *)
StageFails ==
    /\ \/ At("gzip") /\ "gzip" \in Faults
       \/ (At("create") \/ At("write")) /\ "write" \in Faults
    /\ pc' = "terminal"
    /\ UNCHANGED <<lifecycle, directory, writer, claimed, emptying, pass, breaker,
                   detached, history>>

(* Variant of CreateDest: nobody waits for the write.                      *)
CreateDestUnawaited ==
    /\ At("create")
    /\ gz' = [gz EXCEPT ![cur] = payload]
    /\ whole' = whole \ {cur}
    /\ pc' = "original"
    /\ UNCHANGED <<lifecycle, bin, writer, claimed, emptying, pass, breaker, detached,
                   history>>

(* WriteBackProcessor, on a blocking thread: create the file, write it.    *)
CreateDest ==
    /\ At("create")
    /\ gz' = [gz EXCEPT ![cur] = payload]
    /\ whole' = whole \ {cur}
    /\ pc' = "write"
    /\ UNCHANGED <<lifecycle, bin, writer, claimed, emptying, pass, breaker, detached,
                   history>>

(* The directory entry may be evicted under the open file.                 *)
WriteDest ==
    /\ At("write")
    /\ whole' = IF gz[cur] = payload THEN whole \cup {cur} ELSE whole
    /\ pc' = "original"
    /\ UNCHANGED <<lifecycle, bin, gz, writer, claimed, emptying, pass, breaker,
                   detached, history>>

(* The original goes, if the writer has not evicted it meanwhile.          *)
RemoveOriginal ==
    /\ At("original")
    /\ IF bin[cur] # 0
       THEN bin' = [bin EXCEPT ![cur] = 0] /\ Done("delivered")
       ELSE pc' = "cleanup" /\ UNCHANGED <<bin, cur, payload, outcome>>
    /\ UNCHANGED <<lifecycle, gz, whole, writer, claimed, emptying, found, fresh,
                   pending, breaker, detached, record>>

(* A warning, and the stage has succeeded.                                 *)
RemoveOriginalFails ==
    /\ At("original") /\ bin[cur] # 0 /\ "unlink" \in Faults
    /\ Done("delivered")
    /\ Unremoved(cur)
    /\ UNCHANGED <<lifecycle, directory, writer, claimed, emptying, found, fresh,
                   pending, breaker, detached, destination, restarts, evicted,
                   stored, lastPut>>

(* The writer evicted the original: the copy goes too.                     *)
CleanUpDest ==
    /\ At("cleanup")
    /\ Unlinked("gz", cur)
    /\ Done("cleaned")
    /\ UNCHANGED <<lifecycle, writer, claimed, emptying, found, fresh, pending,
                   breaker, detached, record>>

(* upload_and_delete: the PUT.                                             *)
PutOk ==
    /\ At("put")
    /\ stored' = stored \cup {payload}
    /\ lastPut' = "ok"
    /\ pc' = "delete"
    /\ UNCHANGED <<lifecycle, directory, writer, claimed, emptying, pass, breaker,
                   detached, destination, restarts, evicted, unremoved, outcome>>

(* Variant of ReleaseClaim: the segment stays claimed.                     *)
ReleaseClaimNever == UNCHANGED claimed

ReleaseClaim == claimed' = claimed \ {cur}

(* A timeout, a dispatch failure, a 5xx or 429: retryable.  The object may *)
(* be in the bucket although no answer says so.                            *)
PutRetryable ==
    /\ At("put")
    /\ \/ "retryable" \in Faults /\ UNCHANGED stored
       \/ "answer" \in Faults /\ stored' = stored \cup {payload}
    /\ lastPut' = "failed"
    /\ breaker' = OnFailure(breaker)
    /\ ReleaseClaim
    /\ Done("none")
    /\ UNCHANGED <<lifecycle, directory, writer, emptying, found, fresh, pending,
                   detached, destination, restarts, evicted, unremoved>>

(* Any other answer, such as 403: for good.                                *)
PutFatal ==
    /\ At("put") /\ "fatal" \in Faults
    /\ lastPut' = "failed"
    /\ breaker' = OnFailure(breaker)
    /\ pc' = "terminal"
    /\ UNCHANGED <<lifecycle, directory, writer, claimed, emptying, pass, detached,
                   destination, restarts, evicted, stored, unremoved, outcome>>

(* Variant of DeleteLocal: a file that is gone counts as a failed upload.  *)
DeleteLocalStrict ==
    /\ At("delete")
    /\ bin' = [bin EXCEPT ![cur] = 0]
    /\ breaker' = IF bin[cur] = 0 THEN OnFailure(breaker) ELSE OnSuccess(breaker)
    /\ Done("delivered")
    /\ UNCHANGED <<lifecycle, gz, whole, writer, claimed, emptying, found, fresh,
                   pending, detached, record>>

(* Then the local file, which may be gone.                                 *)
DeleteLocal ==
    /\ At("delete")
    /\ bin' = [bin EXCEPT ![cur] = 0]
    /\ breaker' = OnSuccess(breaker)
    /\ Done("delivered")
    /\ UNCHANGED <<lifecycle, gz, whole, writer, claimed, emptying, found, fresh,
                   pending, detached, record>>

DeleteLocalFails ==
    /\ At("delete") /\ bin[cur] # 0 /\ "unlink" \in Faults
    /\ breaker' = OnFailure(breaker)
    /\ lastPut' = "undeleted"
    /\ pc' = "terminal"
    /\ UNCHANGED <<lifecycle, directory, writer, claimed, emptying, pass, detached,
                   destination, restarts, evicted, stored, unremoved, outcome>>

(* Variant of RemoveTerminal: the sealed file itself is left.              *)
RemoveTerminalKeeps(ok) ==
    /\ At("terminal") /\ ok
    /\ gz' = [gz EXCEPT ![cur] = 0]
    /\ whole' = whole \ {cur}
    /\ ReleaseClaim
    /\ Done("failed")
    /\ UNCHANGED <<lifecycle, bin, writer, emptying, found, fresh, pending, breaker,
                   detached, record>>

(* remove_sealed(Terminal): the whole family and the claim.                *)
RemoveTerminal(ok) ==
    /\ At("terminal")
    /\ ok \/ "unlink" \in Faults
    /\ IF ok THEN /\ bin' = [bin EXCEPT ![cur] = 0]
                  /\ gz' = [gz EXCEPT ![cur] = 0]
                  /\ whole' = whole \ {cur}
                  /\ UNCHANGED unremoved
             ELSE UNCHANGED directory /\ Unremoved(cur)
    /\ ReleaseClaim
    /\ Done("failed")
    /\ UNCHANGED <<lifecycle, writer, emptying, found, fresh, pending, breaker,
                   detached, destination, restarts, evicted, stored, lastPut>>

EndCycle ==
    /\ At("after")
    /\ emptying' = (emptying \/ stop \/ writerDone)
    /\ pc' = IF emptying' THEN "live" ELSE "sleep"
    /\ UNCHANGED <<lifecycle, directory, writer, claimed, pass, breaker, detached,
                   history>>

(* poll_interval elapses, or stop is cancelled.                            *)
Poll ==
    /\ At("sleep")
    /\ pc' = "live"
    /\ UNCHANGED <<lifecycle, directory, writer, claimed, emptying, pass, breaker,
                   detached, history>>

BreakerDelay ==
    /\ Up /\ breaker.open /\ ~breaker.due
    /\ breaker' = DelayElapses(breaker)
    /\ UNCHANGED <<lifecycle, directory, writer, claimed, pc, emptying, pass, detached,
                   history>>

-----------------------------------------------------------------------------
(* Where the run loop's future awaits.                                     *)
Suspended ==
    \/ phase \in Initializing
    \/ pc \in {"gzip", "create", "write", "put", "delete", "sleep"}
    \/ (pc = "live" \/ (pc = "next" /\ pending # {})) /\ ~Live

(* A blocking write is not cancelled with the future that awaits it.       *)
DropWorker ==
    /\ DropRunFuture
    /\ detached' = IF pc \in {"create", "write"} THEN cur ELSE 0
    /\ payload' = IF pc \in {"create", "write"} THEN payload ELSE 0
    /\ found' = {} /\ fresh' = {} /\ pending' = {} /\ cur' = 0
    /\ pc' = IF pc \in {"drained", "interrupted"} THEN pc ELSE "dropped"
    /\ UNCHANGED <<directory, writer, claimed, emptying, breaker, history>>

DetachedWrite ==
    /\ Up /\ detached # 0
    /\ gz' = [gz EXCEPT ![detached] = payload]
    /\ whole' = whole \cup {detached}
    /\ detached' = 0 /\ payload' = 0
    /\ UNCHANGED <<lifecycle, bin, writer, claimed, pc, emptying, found, fresh,
                   pending, cur, breaker, history>>

Driver ==
    /\ LifecycleStep(writerDone, Suspended)
    /\ UNCHANGED <<directory, writer, claimed, pc, emptying, pass, breaker, detached,
                   history>>

InIndexOrder(indices) ==
    [k \in 1..Cardinality(indices) |->
        CHOOSE i \in indices : Cardinality({j \in indices : j <= i}) = k]

(* The process ends, by a crash or for good, and the next one opens the    *)
(* directory (discover_existing).                                          *)
Restart ==
    LET left == OnDisk(bin) \cup OnDisk(gz)
    IN  /\ restarts < MaxRestarts
        /\ restarts' = restarts + 1
        /\ closed' = InIndexOrder(left)
        /\ \E last \in {0} \cup left :
             /\ \A i \in left : i <= last
             /\ next' = last + 1
        /\ Fresh
        /\ driver' = "spawned" /\ phase' = NotStarted /\ cause' = NoCause
        /\ shutdown' = "none" /\ stop' = FALSE /\ disabled' = FALSE
        /\ lastPut' = "none"
        /\ outcome' = [n \in 1..MaxSegments |->
                          IF outcome[n] = "unread" THEN "none" ELSE outcome[n]]
        /\ UNCHANGED <<destination, directory, sealed, evicted, stored, unremoved>>

Terminated == ~Up /\ UNCHANGED vars

Writer ==
    \/ Seal \/ EvictOpen \/ EvictNotices
    \/ \E ok \in BOOLEAN : EvictUnlink(ok)
    \/ EvictForget \/ MarkWriterDone

(* What process() waits for.                                               *)
Stage ==
    \/ Gzip \/ StageFails \/ CreateDest \/ WriteDest
    \/ PutOk \/ PutRetryable \/ PutFatal \/ DeleteLocal \/ DeleteLocalFails

RunLoop ==
    \/ PipelineLive \/ PipelineStopped
    \/ Scan \/ ScanFails \/ SnapshotClaims \/ Claim
    \/ NextSegment \/ ReleaseUnprocessed \/ Load \/ LoadFails
    \/ RemoveOriginal \/ RemoveOriginalFails \/ CleanUpDest
    \/ \E ok \in BOOLEAN : RemoveTerminal(ok)
    \/ EndCycle \/ Poll

Next == Writer \/ Stage \/ RunLoop \/ BreakerDelay \/ DropWorker \/ DetachedWrite
            \/ Driver \/ Restart \/ Terminated

Spec == Init /\ [][Next]_vars

(***************************************************************************)
(* The worker and the flush thread are scheduled, a breaker's delay        *)
(* elapses, the timeout of a drain fires although the loop wakes up in     *)
(* between.  Nothing is assumed of a stage.                                *)
(***************************************************************************)
Fairness ==
    /\ WF_vars(RunLoop)
    /\ WF_vars(EvictOpen \/ (\E ok \in BOOLEAN : EvictUnlink(ok)) \/ EvictForget)
    /\ WF_vars(BreakerDelay)
    /\ WF_vars(DropWorker)
    /\ WF_vars(Driver /\ (StartThread \/ InitializeOk \/ ReceiveShutdown
                            \/ PublishStopped))
    /\ SF_vars(Driver /\ DrainTimesOut(Suspended))

FairSpec == Spec /\ Fairness

-----------------------------------------------------------------------------
Sealed == 1..sealed

InFiles(n) == \E i \in Index : bin[i] = n \/ (gz[i] = n /\ i \in whole)

(* The writer still counts the segment, or is removing it.                 *)
Budgeted(i) == i = evicting \/ \E k \in 1..Len(closed) : closed[k] = i

(* A segment's data is in the directory until it is in the bucket, or the  *)
(* writer has evicted it, or a stage has failed for good on it: a crash    *)
(* between any two steps loses nothing that was to be delivered.           *)
DataSurvives ==
    \A n \in Sealed :
        \/ InFiles(n)
        \/ n \in stored
        \/ outcome[n] = "failed"
        \/ n \in evicted

(* A process delivers a segment once: what it has delivered or given up is *)
(* not dispensed to it again (the claims of DiskFs), unless the sealed     *)
(* file could not be removed and the claim on it was dropped all the same. *)
DispensedOnce ==
    [][restarts' = restarts /\ payload = 0 /\ payload' # 0 =>
        outcome[payload'] = "none" \/ payload' \in unremoved]_vars

(* Between uploads the circuit breaker is open if and only if the last     *)
(* upload failed: in its PUT, or in the removal of a local file that is    *)
(* still there.  A segment that the writer evicted under the upload is no  *)
(* failure, and one success closes the circuit again.                      *)
BreakerTracksUploads ==
    pc # "delete" /\ RunLoopRuns =>
        (breaker.open <=> lastPut \in {"failed", "undeleted"})

(* Claims, files and the pass of the worker are well formed, and the       *)
(* circuit breaker follows the uploads.                                    *)
WorkerInv == TypeOK /\ BreakerTracksUploads

(* A file on disk belongs to a segment the writer still counts, unless the *)
(* worker is at work on it (processors.rs: "so it doesn't leak on disk").  *)
NothingLeaks ==
    \A i \in Index : gz[i] # 0 \/ bin[i] # 0 =>
        Budgeted(i) \/ cur = i \/ detached = i

(* s3-worker-design.md: an upload that fails keeps the file.               *)
FailedUploadKeepsFile ==
    [][At("terminal") /\ lastPut = "failed" => bin' = bin]_vars

-----------------------------------------------------------------------------
(* The directory, the writer and the worker implement the abstract         *)
(* storage, over crashes too: a segment is held while its data is in the   *)
(* directory or in the worker's hands, and what is delivered or lost stays *)
(* so.  A sealed file that could not be removed keeps its segment held     *)
(* while any file of it is left, for it may be processed again and fail.   *)
Status(n) ==
    IF outcome[n] = "delivered" /\ n \notin unremoved THEN "delivered"
    ELSE IF n > sealed THEN "unsealed"
    ELSE IF (\E i \in Index : bin[i] = n \/ gz[i] = n) \/ payload = n THEN "held"
    ELSE IF outcome[n] = "delivered" THEN "delivered"
    ELSE "lost"

Abstract == INSTANCE Delivery
    WITH Last <- MaxSegments, status <- [n \in 1..MaxSegments |-> Status(n)]

ImplementsDelivery == Abstract!Spec

(* When S3 and the file system have recovered, a sealed segment that could *)
(* be read is delivered, given up or evicted unless the worker ends: no    *)
(* claim is left on a segment that failed retryably.                       *)
UploadsResume ==
    /\ <>[][~(PutRetryable \/ ScanFails \/ RemoveTerminal(FALSE))]_vars
    /\ []<>~(RunLoopRuns /\ pc \in {"gzip", "create", "write", "put", "delete"})
    =>
        \A n \in 1..MaxSegments :
            (\E i \in Index : bin[i] = n)
                ~> \/ \A i \in Index : bin[i] # n
                   \/ outcome[n] \in {"delivered", "unread"}
                   \/ ~Polled
=============================================================================
