------------------------------ MODULE FoldCache ------------------------------
(***************************************************************************)
(* The viewer's demand-driven refinement (dial9-viewer/src/ingest/         *)
(* aggregate.rs, ingest/refine.rs, server/fold_stream.rs and server/       *)
(* tokio_stats.rs).  A request lists the files of its scope and the ones   *)
(* already folded, merges the cached ones in batches, and folds the        *)
(* missing ones of its capped prefix in one task per file.  Folding a file *)
(* fetches and decodes it and writes four part-files to shared storage,    *)
(* the samples part last: its existence is the record that the file is     *)
(* folded.  All requests share three semaphores and a registry of locks,   *)
(* one per file; a client that disconnects cancels its tasks wherever they *)
(* are.                                                                    *)
(*                                                                         *)
(* A file is its position in the order key.  A lock is named after the     *)
(* request whose task created it, and its strong count is the number of    *)
(* tasks that keep a reference.                                            *)
(***************************************************************************)
EXTENDS Naturals, FiniteSets

CONSTANTS
    Requests,       \* clients, each with one request
    SeedOnly,       \* the requests that fold nothing (exemplar refetches)
    PollsReaders,   \* the requests of the tokio-stats endpoint
    NumFiles,       \* the matched scope
    OtherParts,     \* part-files besides the samples: dict, polls and spans
    Cap,            \* the prefix of it that each request may fold
    BatchSize,      \* cached parts merged between two events
    InflightPermits, FetchPermits, CpuPermits,
    Faults,         \* what may fail: "list", "get", "decode", "put"
    Leavers         \* the requests whose client may disconnect

ASSUME FoldAssumption ==
    /\ IsFiniteSet(Requests) /\ "none" \notin Requests
    /\ SeedOnly \subseteq Requests
    /\ PollsReaders \subseteq Requests \ SeedOnly
    /\ NumFiles \in Nat \ {0}
    /\ OtherParts # {} /\ "samples" \notin OtherParts
    /\ Cap \in [Requests -> 0 .. NumFiles]
    /\ {BatchSize, InflightPermits, FetchPermits, CpuPermits} \subseteq Nat \ {0}
    /\ Faults \subseteq {"list", "get", "decode", "put"}
    /\ Leavers \subseteq Requests

VARIABLES
    parts,      \* the part-files of each source file in the output bucket
    registry,   \* FoldLimits.files: the lock each file's entry points at
    pc,         \* the place of each fold task, for each request and file
    lock,       \* the reference a task keeps (FoldFileLock.lock)
    puts,       \* the part-file writes a task waits for
    result,     \* what fold_one returns
    detached,   \* decodes on blocking threads whose task was cancelled
    late,       \* part-file writes whose task was cancelled
    phase,      \* the place of each request
    listed,     \* the folded set each request listed (Resolved.folded)
    seeds,      \* Driver.seed_keys that are left
    folded,     \* Driver.folded
    merged,     \* how often each file is in the accumulator
    errors,     \* FoldErrors.count
    fetches,    \* history: source files fetched
    excuses     \* history: folds of each file that failed or were cancelled

taskVars    == <<registry, pc, lock, puts, result, detached>>
requestVars == <<phase, listed, seeds, folded, merged, errors>>
historyVars == <<fetches, excuses>>
vars == <<parts, late, taskVars, requestVars, historyVars>>

Files   == 1 .. NumFiles
NoLock  == "none"
Marker  == "samples"
AllParts == OtherParts \cup {Marker}

\* The places of a task at which it holds its file's mutex, and a permit of
\* `inflight', and those from its fetch on.
Holding  == {"check", "inflight", "fetch", "fetching", "cpu", "decoding", "putting", "marking"}
Admitted == {"fetch", "fetching", "cpu", "decoding", "putting", "marking"}
Fetching == {"fetching", "cpu", "decoding", "putting", "marking"}
Places   == Holding \cup {"none", "spawned", "lock", "drop", "arc", "ended", "taken"}

Phases == {"new", "seeding", "folding", "done", "gone", "empty"}

\* Every variable has its type, and a request's work stays in its scope.
TypeOK ==
    /\ parts \in [Files -> SUBSET AllParts]
    /\ registry \in [Files -> Requests \cup {NoLock}]
    /\ pc \in [Requests -> [Files -> Places]]
    /\ lock \in [Requests -> [Files -> Requests \cup {NoLock}]]
    /\ puts \in [Requests -> [Files -> SUBSET AllParts]]
    /\ result \in [Requests -> [Files -> {"none", "ok", "failed", "cancelled"}]]
    /\ detached \subseteq Requests \X Files
    /\ late \subseteq Files \X AllParts
    /\ phase \in [Requests -> Phases]
    /\ listed \in [Requests -> SUBSET Files]
    /\ seeds \in [Requests -> SUBSET Files]
    /\ folded \in [Requests -> SUBSET Files]
    /\ merged \in [Requests -> [Files -> Nat]]
    /\ errors \in [Requests -> 0 .. NumFiles]
    /\ fetches \in [Files -> Nat]
    /\ excuses \in [Files -> Nat]

PerTask(x) == [r \in Requests |-> [f \in Files |-> x]]

Init ==
    /\ parts = [f \in Files |-> {}]
    /\ registry = [f \in Files |-> NoLock]
    /\ pc = PerTask("none")
    /\ lock = PerTask(NoLock)
    /\ puts = PerTask({})
    /\ result = PerTask("none")
    /\ detached = {}
    /\ late = {}
    /\ phase = [r \in Requests |-> "new"]
    /\ listed = [r \in Requests |-> {}]
    /\ seeds = [r \in Requests |-> {}]
    /\ folded = [r \in Requests |-> {}]
    /\ merged = PerTask(0)
    /\ errors = [r \in Requests |-> 0]
    /\ fetches = [f \in Files |-> 0]
    /\ excuses = [f \in Files |-> 0]

-----------------------------------------------------------------------------
(* Resolving a scope and starting its tasks                                *)

Folded == {f \in Files : Marker \in parts[f]}
Capped(r) == 1 .. Cap[r]

\* The work list: what the listing does not show as folded, within the cap.
UnfoldedCapped(r, snapshot) == Capped(r) \ snapshot

\* Cached parts to merge: anywhere in the scope, but for tokio-stats.
FoldedMatching(r, snapshot) ==
    IF r \in PollsReaders THEN snapshot \cap Capped(r) ELSE snapshot

\* resolve() and the start of the stream: one task per file of the work list.
Resolve(r, snapshot) ==
    /\ phase[r] = "new"
    /\ listed' = [listed EXCEPT ![r] = snapshot]
    /\ seeds' = [seeds EXCEPT ![r] = FoldedMatching(r, snapshot)]
    /\ pc' = [pc EXCEPT ![r] = [f \in Files |->
                  IF r \notin SeedOnly /\ f \in UnfoldedCapped(r, snapshot)
                  THEN "spawned" ELSE "none"]]
    /\ phase' = [phase EXCEPT ![r] = "seeding"]
    /\ UNCHANGED <<parts, late, registry, lock, puts, result, detached,
                   folded, merged, errors, historyVars>>

ResolveListed(r) == Resolve(r, Folded)

\* list_folded_leaves treats a failed LIST as "nothing folded".
ResolveUnlisted(r) == "list" \in Faults /\ Resolve(r, {})

\* No source file is listed: the request is answered with 404.
ResolveEmpty(r) ==
    /\ "list" \in Faults
    /\ phase[r] = "new"
    /\ phase' = [phase EXCEPT ![r] = "empty"]
    /\ UNCHANGED <<parts, late, taskVars, listed, seeds, folded, merged, errors, historyVars>>

-----------------------------------------------------------------------------
(* fold_one                                                                *)

Goto(r, f, from, to) ==
    /\ phase[r] # "gone"
    /\ pc[r][f] = from
    /\ pc' = [pc EXCEPT ![r][f] = to]

Count(places) == Cardinality({t \in Requests \X Files : pc[t[1]][t[2]] \in places})

Alive(f, l) == \E q \in Requests : lock[q][f] = l

StrongCount(f, l) == Cardinality({q \in Requests : lock[q][f] = l})

\* FoldLimits::file_lock, under the registry's own mutex.
FileLock(r, f) ==
    /\ Goto(r, f, "spawned", "lock")
    /\ LET known == registry[f] # NoLock /\ Alive(f, registry[f])
           mine  == IF known THEN registry[f] ELSE r
       IN  /\ lock' = [lock EXCEPT ![r][f] = mine]
           /\ registry' = [registry EXCEPT ![f] = mine]
    /\ UNCHANGED <<parts, late, puts, result, detached, requestVars, historyVars>>

Locked(f, l) == \E q \in Requests : lock[q][f] = l /\ pc[q][f] \in Holding

Move(r, f, from, to) ==
    /\ Goto(r, f, from, to)
    /\ UNCHANGED <<parts, late, registry, lock, puts, result, detached,
                   requestVars, historyVars>>

TakeMutex(r, f) == ~Locked(f, lock[r][f]) /\ Move(r, f, "lock", "check")

\* fold_one returns: its permits and the file's mutex go, the reference stays.
Return(r, f, from, outcome) ==
    /\ Goto(r, f, from, "drop")
    /\ result' = [result EXCEPT ![r][f] = outcome]
    /\ puts' = [puts EXCEPT ![r][f] = {}]
    /\ excuses' = [excuses EXCEPT ![f] = IF outcome # "ok" /\ from \in Fetching THEN @ + 1 ELSE @]
    /\ UNCHANGED <<late, registry, lock, detached, requestVars, fetches>>

\* The recheck under the mutex: the listing may be older than the marker.
MarkerFound(r, f) ==
    /\ Marker \in parts[f]
    /\ Return(r, f, "check", "ok")
    /\ UNCHANGED parts

MarkerMissing(r, f) == Marker \notin parts[f] /\ Move(r, f, "check", "inflight")

CheckFails(r, f) ==
    /\ "get" \in Faults
    /\ Return(r, f, "check", "failed")
    /\ UNCHANGED parts

AcquireInflight(r, f) ==
    /\ Count(Admitted) < InflightPermits
    /\ Move(r, f, "inflight", "fetch")

AcquireFetch(r, f) ==
    /\ Count({"fetching"}) < FetchPermits
    /\ Goto(r, f, "fetch", "fetching")
    /\ fetches' = [fetches EXCEPT ![f] = @ + 1]
    /\ UNCHANGED <<parts, late, registry, lock, puts, result, detached, requestVars, excuses>>

Fetched(r, f) == Move(r, f, "fetching", "cpu")

FetchFails(r, f) ==
    /\ "get" \in Faults
    /\ Return(r, f, "fetching", "failed")
    /\ UNCHANGED parts

AcquireCpu(r, f) ==
    /\ Count({"decoding"}) < CpuPermits
    /\ Move(r, f, "cpu", "decoding")

\* Variant: the samples part is written together with the others.
DecodedAllAtOnce(r, f) ==
    /\ Goto(r, f, "decoding", "putting")
    /\ puts' = [puts EXCEPT ![r][f] = AllParts]
    /\ UNCHANGED <<parts, late, registry, lock, result, detached, requestVars, historyVars>>

\* write_parts starts with three concurrent PUTs.
Decoded(r, f) ==
    /\ Goto(r, f, "decoding", "putting")
    /\ puts' = [puts EXCEPT ![r][f] = OtherParts]
    /\ UNCHANGED <<parts, late, registry, lock, result, detached, requestVars, historyVars>>

DecodeFails(r, f) ==
    /\ "decode" \in Faults
    /\ Return(r, f, "decoding", "failed")
    /\ UNCHANGED parts

\* One of the three PUTs is answered; the marker follows the last of them.
PutPart(r, f, p) ==
    /\ p \in puts[r][f] \ {Marker}
    /\ LET left == puts[r][f] \ {p} IN
       /\ Goto(r, f, "putting", IF left = {} THEN "marking" ELSE "putting")
       /\ puts' = [puts EXCEPT ![r][f] = IF left = {} THEN {Marker} ELSE left]
    /\ parts' = [parts EXCEPT ![f] = @ \cup {p}]
    /\ UNCHANGED <<late, registry, lock, result, detached, requestVars, historyVars>>

\* An error of one PUT is acted on once all three have been answered, each of
\* which may have landed.
PutFails(r, f, landed) ==
    /\ "put" \in Faults
    /\ landed \subseteq puts[r][f]
    /\ Return(r, f, "putting", "failed")
    /\ parts' = [parts EXCEPT ![f] = @ \cup landed]

PutMarker(r, f) ==
    /\ Return(r, f, "marking", "ok")
    /\ parts' = [parts EXCEPT ![f] = @ \cup puts[r][f]]

MarkerFails(r, f, landed) ==
    /\ "put" \in Faults
    /\ landed \subseteq puts[r][f]
    /\ Return(r, f, "marking", "failed")
    /\ parts' = [parts EXCEPT ![f] = @ \cup landed]

\* Variant: the entry goes with the first one out.
DropFileLockFirst(r, f) ==
    /\ pc[r][f] = "drop"
    /\ pc' = [pc EXCEPT ![r][f] = "arc"]
    /\ registry' = [registry EXCEPT ![f] = NoLock]
    /\ UNCHANGED <<parts, late, lock, puts, result, detached, requestVars, historyVars>>

\* FoldFileLock::drop, under the registry's mutex: the last one out takes the
\* entry with it.  The reference itself goes after drop() has returned.
DropFileLock(r, f) ==
    /\ pc[r][f] = "drop"
    /\ pc' = [pc EXCEPT ![r][f] = "arc"]
    /\ registry' = [registry EXCEPT ![f] =
           IF StrongCount(f, lock[r][f]) = 1 THEN NoLock ELSE @]
    /\ UNCHANGED <<parts, late, lock, puts, result, detached, requestVars, historyVars>>

ReleaseReference(r, f) ==
    /\ pc[r][f] = "arc"
    /\ pc' = [pc EXCEPT ![r][f] = "ended"]
    /\ lock' = [lock EXCEPT ![r][f] = NoLock]
    /\ UNCHANGED <<parts, late, registry, puts, result, detached, requestVars, historyVars>>

-----------------------------------------------------------------------------
(* The stream of one request                                               *)

\* The files a batch takes, in the order of the scope.
Batch(r) == {f \in seeds[r] : Cardinality({g \in seeds[r] : g < f}) < BatchSize}

\* Driver::apply: a file counts only when its parts were read and merged.
Apply(r, good, bad) ==
    /\ folded' = [folded EXCEPT ![r] = @ \cup good]
    /\ merged' = [merged EXCEPT ![r] = [f \in Files |-> @[f] + IF f \in good THEN 1 ELSE 0]]
    /\ errors' = [errors EXCEPT ![r] = @ + Cardinality(bad)]

\* One step of the phase Seeding; any part of the batch may fail to be read.
SeedBatch(r, bad) ==
    /\ phase[r] = "seeding" /\ r \notin PollsReaders
    /\ bad \subseteq Batch(r)
    /\ bad # {} => "get" \in Faults
    /\ Apply(r, Batch(r) \ bad, bad)
    /\ seeds' = [seeds EXCEPT ![r] = @ \ Batch(r)]
    /\ phase' = [phase EXCEPT ![r] = IF seeds'[r] = {} THEN "folding" ELSE "seeding"]
    /\ UNCHANGED <<parts, late, taskVars, listed, historyVars>>

\* The tokio-stats stream reads every cached part at once, skips what it cannot
\* read, and counts the whole listing as folded.
ReadPolls(r, bad) ==
    /\ phase[r] = "seeding" /\ r \in PollsReaders
    /\ bad \subseteq seeds[r]
    /\ bad # {} => "get" \in Faults
    /\ folded' = [folded EXCEPT ![r] = listed[r]]
    /\ merged' = [merged EXCEPT ![r] = [f \in Files |->
                      @[f] + IF f \in seeds[r] \ bad THEN 1 ELSE 0]]
    /\ seeds' = [seeds EXCEPT ![r] = {}]
    /\ phase' = [phase EXCEPT ![r] = "folding"]
    /\ UNCHANGED <<parts, late, taskVars, listed, errors, historyVars>>

\* join_next: the outcome of one ended task.
Take(r, f, outcome) ==
    /\ phase[r] = "folding"
    /\ pc[r][f] = "ended"
    /\ result[r][f] = outcome
    /\ pc' = [pc EXCEPT ![r][f] = "taken"]
    /\ UNCHANGED <<parts, late, registry, lock, puts, result, detached,
                   phase, listed, seeds, historyVars>>

TakeFolded(r, f) ==
    /\ Take(r, f, "ok")
    /\ Apply(r, {f}, {})

\* The part just written cannot be read or merged.
TakeUnreadable(r, f) ==
    /\ "get" \in Faults
    /\ Take(r, f, "ok")
    /\ IF r \in PollsReaders
       THEN folded' = [folded EXCEPT ![r] = @ \cup {f}] /\ UNCHANGED <<merged, errors>>
       ELSE Apply(r, {}, {f})

\* Variant: a failed fold is only logged.
TakeFailedSilently(r, f) ==
    /\ Take(r, f, "failed")
    /\ UNCHANGED <<folded, merged, errors>>

TakeFailed(r, f) ==
    /\ Take(r, f, "failed")
    /\ Apply(r, {}, {f})

\* The work list is drained.
Finish(r) ==
    /\ phase[r] = "folding"
    /\ \A f \in Files : pc[r][f] \in {"none", "taken"}
    /\ phase' = [phase EXCEPT ![r] = "done"]
    /\ UNCHANGED <<parts, late, taskVars, listed, seeds, folded, merged, errors, historyVars>>

-----------------------------------------------------------------------------
(* Disconnects                                                             *)

\* The client goes: the JoinSet is dropped and its tasks are to be aborted.
Disconnect(r) ==
    /\ r \in Leavers
    /\ phase[r] \in {"seeding", "folding"}
    /\ phase' = [phase EXCEPT ![r] = "gone"]
    /\ UNCHANGED <<parts, late, taskVars, listed, seeds, folded, merged, errors, historyVars>>

\* Variant: the guards of an aborted task are never dropped.
AbortForgetsGuards(r, f) ==
    /\ phase[r] = "gone"
    /\ pc[r][f] \in Holding \cup {"spawned", "lock"}
    /\ result' = [result EXCEPT ![r][f] = "cancelled"]
    /\ UNCHANGED <<parts, late, registry, pc, lock, puts, detached, requestVars, historyVars>>

\* An aborted task is dropped at the await it is suspended at.  What it holds
\* goes as on a return; a decode goes on on its blocking thread, and the writes
\* that are out may still land.
Abort(r, f) ==
    /\ phase[r] = "gone"
    /\ pc[r][f] \in Holding \cup {"spawned", "lock"}
    /\ pc' = [pc EXCEPT ![r][f] = IF @ = "spawned" THEN "ended" ELSE "drop"]
    /\ result' = [result EXCEPT ![r][f] = "cancelled"]
    /\ detached' = IF pc[r][f] = "decoding" THEN detached \cup {<<r, f>>} ELSE detached
    /\ late' = late \cup ({f} \X puts[r][f])
    /\ puts' = [puts EXCEPT ![r][f] = {}]
    /\ excuses' = [excuses EXCEPT ![f] = IF pc[r][f] \in Fetching THEN @ + 1 ELSE @]
    /\ UNCHANGED <<parts, registry, lock, requestVars, fetches>>

DetachedEnds(t) ==
    /\ t \in detached
    /\ detached' = detached \ {t}
    /\ UNCHANGED <<parts, late, registry, pc, lock, puts, result, requestVars, historyVars>>

LateLands(f, p) ==
    /\ <<f, p>> \in late
    /\ late' = late \ {<<f, p>>}
    /\ parts' = [parts EXCEPT ![f] = @ \cup {p}]
    /\ UNCHANGED <<taskVars, requestVars, historyVars>>

LateIsLost(f, p) ==
    /\ <<f, p>> \in late
    /\ late' = late \ {<<f, p>>}
    /\ UNCHANGED <<parts, taskVars, requestVars, historyVars>>

-----------------------------------------------------------------------------
Task(r, f) ==
    \/ FileLock(r, f) \/ TakeMutex(r, f)
    \/ MarkerFound(r, f) \/ MarkerMissing(r, f) \/ CheckFails(r, f)
    \/ AcquireInflight(r, f) \/ AcquireFetch(r, f) \/ Fetched(r, f) \/ FetchFails(r, f)
    \/ AcquireCpu(r, f) \/ Decoded(r, f) \/ DecodeFails(r, f)
    \/ \E p \in OtherParts : PutPart(r, f, p)
    \/ \E landed \in SUBSET OtherParts : PutFails(r, f, landed)
    \/ PutMarker(r, f)
    \/ \E landed \in SUBSET {Marker} : MarkerFails(r, f, landed)
    \/ DropFileLock(r, f) \/ ReleaseReference(r, f)
    \/ Abort(r, f)

Request(r) ==
    \/ ResolveListed(r) \/ ResolveUnlisted(r) \/ ResolveEmpty(r)
    \/ \E bad \in SUBSET seeds[r] : SeedBatch(r, bad) \/ ReadPolls(r, bad)
    \/ \E f \in Files : TakeFolded(r, f) \/ TakeUnreadable(r, f) \/ TakeFailed(r, f)
    \/ Finish(r)

\* Every request is over; only then may nothing more happen.
Terminated ==
    /\ \A r \in Requests : phase[r] \in {"done", "gone", "empty"}
    /\ \A r \in Requests, f \in Files : pc[r][f] \in {"none", "ended", "taken"}
    /\ UNCHANGED vars

Next ==
    \/ \E r \in Requests : Request(r) \/ Disconnect(r)
    \/ \E r \in Requests, f \in Files : Task(r, f)
    \/ \E t \in detached : DetachedEnds(t)
    \/ \E f \in Files, p \in AllParts : LateLands(f, p) \/ LateIsLost(f, p)
    \/ Terminated

Spec == Init /\ [][Next]_vars

\* Something goes on while anything can: the runtime polls the streams and the
\* tasks, storage answers, and the clients read their streams or leave.  Every
\* task ends after finitely many steps, so no more is needed.
FairSpec == Spec /\ WF_vars(Next)

-----------------------------------------------------------------------------
(* Properties                                                              *)

\* A file that is recorded as folded has all its part-files, whatever failed,
\* was cancelled or landed late: it is never folded again, so a gap would stay
\* (write_parts).
MarkerMeansComplete == \A f \in Files : Marker \in parts[f] => parts[f] = AllParts

\* Overlapping requests fetch a source file once: every further fetch is owed
\* to a fold of it that failed or was cancelled (fold_one's lock and recheck,
\* the registry of FoldLimits).
FetchedOnce == \A f \in Files : fetches[f] <= excuses[f] + 1

\* What a stream reports as folded is exactly what it has merged, and it merges
\* no file twice, whether it comes from the cache, from its own fold or from a
\* fold of another request after a stale or failed listing (Driver::apply).
CoverageIsExact ==
    \A r \in Requests \ PollsReaders, f \in Files :
        merged[r][f] = IF f \in folded[r] THEN 1 ELSE 0

\* A stream that ends has merged every file of its work list and of the cache,
\* but for as many as it reports errors: no gap goes unreported.
NoSilentGap ==
    \A r \in Requests \ PollsReaders :
        phase[r] = "done" =>
            Cardinality((listed[r] \cup (IF r \in SeedOnly THEN {} ELSE Capped(r))) \ folded[r])
                = errors[r]

\* A stream tells the truth about its coverage: it merges what it reports, once,
\* and counts what it misses, whichever calls failed and whoever folded a file.
CoverageInv == TypeOK /\ CoverageIsExact /\ NoSilentGap

\* Every request ends or is left by its client, even if others disconnect while
\* they hold a file's mutex or a permit it waits for.
RequestsEnd == <>(\A r \in Requests : phase[r] \in {"done", "gone", "empty"})

\* aggregate.rs calls MAX_DECODE_CONCURRENCY a hard ceiling on concurrent
\* segment decodes: no more than that many run at a time.
DecodeCeiling == Count({"decoding"}) + Cardinality(detached) <= CpuPermits

\* aggregate.rs says that only active requests retain a lock, and its tests
\* expect an empty registry once every fold has returned.
RegistryForgets ==
    (\A r \in Requests, f \in Files : pc[r][f] \in {"none", "ended", "taken"})
        => \A f \in Files : registry[f] = NoLock

=============================================================================
