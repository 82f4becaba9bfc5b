--------------------------- MODULE FoldCacheProofs ---------------------------
(***************************************************************************)
(* Proofs about FoldCache, for any number of requests, files and permits:  *)
(* a file that is recorded as folded is complete, a file is fetched once   *)
(* but for the folds that failed, and a stream tells the truth about its   *)
(* coverage.                                                               *)
(***************************************************************************)
EXTENDS FoldCache, FiniteSetTheorems, TLAPS

(* TypeOK without the bound on the error counts, which takes Coverage.     *)
Types ==
    /\ parts \in [Files -> SUBSET AllParts]
    /\ registry \in [Files -> Requests \cup {NoLock}]
    /\ pc \in [Requests -> [Files -> Places]]
    /\ lock \in [Requests -> [Files -> Requests \cup {NoLock}]]
    /\ puts \in [Requests -> [Files -> SUBSET AllParts]]
    /\ result \in [Requests -> [Files -> {"none", "ok", "failed", "cancelled"}]]
    /\ detached \subseteq Requests \X Files
    /\ late \subseteq Files \X AllParts
    /\ phase \in [Requests -> Phases]
    /\ listed \in [Requests -> SUBSET Files]
    /\ seeds \in [Requests -> SUBSET Files]
    /\ folded \in [Requests -> SUBSET Files]
    /\ merged \in [Requests -> [Files -> Nat]]
    /\ errors \in [Requests -> Nat]
    /\ fetches \in [Files -> Nat]
    /\ excuses \in [Files -> Nat]

(* The writes that are out, and the marker only when the others are done.  *)
Ordered(r, f) ==
    /\ pc[r][f] = "putting" =>
          puts[r][f] \subseteq OtherParts /\ OtherParts \ puts[r][f] \subseteq parts[f]
    /\ pc[r][f] = "marking" => puts[r][f] = {Marker} /\ OtherParts \subseteq parts[f]
    /\ pc[r][f] \notin {"putting", "marking"} => puts[r][f] = {}

PutsOrdered == \A r \in Requests, f \in Files : Ordered(r, f)

(* A marker that may still land, or has landed, follows the other parts.   *)
MarkerLast ==
    \A f \in Files :
        Marker \in parts[f] \/ <<f, Marker>> \in late => OtherParts \subseteq parts[f]

(* A task that may hold or wait for its file's mutex refers to the lock of *)
(* the file's registry entry; one that has not started or has ended refers *)
(* to none.                                                                *)
InUse == Holding \cup {"lock", "drop"}

LocksAgree ==
    \A r \in Requests, f \in Files :
        /\ pc[r][f] \in InUse => lock[r][f] = registry[f] /\ lock[r][f] # NoLock
        /\ pc[r][f] = "arc" => lock[r][f] # NoLock

(* At most one task per file is between its mutex and its return.          *)
Exclusive ==
    \A q, r \in Requests, f \in Files :
        pc[q][f] \in Holding /\ pc[r][f] \in Holding => q = r

(* A fetch is owed to a failure, to a fold that goes on, or to the marker. *)
FetchesPaid ==
    \A f \in Files :
        /\ fetches[f] <= excuses[f] + 1
        /\ \A r \in Requests : pc[r][f] \in {"inflight", "fetch"} => fetches[f] <= excuses[f]
        /\ (Marker \notin parts[f] /\ \A r \in Requests : pc[r][f] \notin Fetching)
              => fetches[f] <= excuses[f]

(* Before its listing a request has no task and nothing to merge.          *)
Fresh(r) ==
    phase[r] \in {"new", "empty"} =>
        /\ listed[r] = {} /\ seeds[r] = {} /\ folded[r] = {} /\ errors[r] = 0
        /\ \A f \in Files : pc[r][f] = "none" /\ merged[r][f] = 0

Unstarted == \A r \in Requests : Fresh(r)

Taken(r) == {f \in Files : pc[r][f] = "taken"}

(* What a stream has been through, and what it missed of that.             *)
Seen(r)   == (listed[r] \ seeds[r]) \cup Taken(r)
Missed(r) == Seen(r) \ folded[r]

(* A started request has one task for each file of its work list.          *)
WorkList(r) ==
    phase[r] \notin {"new", "empty"} =>
        \A f \in Files :
            pc[r][f] # "none" <=> r \notin SeedOnly /\ f \in Capped(r) \ listed[r]

WorkListed == \A r \in Requests : WorkList(r)

(* The books of each stream.                                               *)
Books(r) ==
    /\ seeds[r] \subseteq listed[r]
    /\ phase[r] \in {"folding", "done"} => seeds[r] = {}
    /\ phase[r] = "done" => \A f \in Files : pc[r][f] \in {"none", "taken"}
    /\ r \in PollsReaders => errors[r] <= Cardinality(Taken(r))
    /\ r \notin PollsReaders =>
          /\ folded[r] \subseteq Seen(r)
          /\ errors[r] = Cardinality(Missed(r))
          /\ \A f \in Files : merged[r][f] = IF f \in folded[r] THEN 1 ELSE 0

BooksKept == \A r \in Requests : Books(r)

IInv == /\ Types /\ PutsOrdered /\ MarkerLast /\ LocksAgree /\ Exclusive /\ FetchesPaid
        /\ Unstarted /\ WorkListed /\ BooksKept

-----------------------------------------------------------------------------
(* Types                                                                   *)

LEMMA InitIInv == Init => IInv
<1> SUFFICES ASSUME Init PROVE IInv
  OBVIOUS
<1> USE FoldAssumption DEF Init, PerTask
<1>1. Types
  BY DEF Types, Files, Places, Phases, Holding, AllParts, NoLock
<1>2. PutsOrdered
  BY DEF PutsOrdered, Ordered
<1>3. MarkerLast
  BY DEF MarkerLast
<1>4. LocksAgree /\ Exclusive
  BY DEF LocksAgree, Exclusive, InUse, Holding
<1>5. FetchesPaid
  BY DEF FetchesPaid
<1>6. Unstarted /\ WorkListed
  BY DEF Unstarted, WorkListed, Fresh, WorkList
<1>7. BooksKept
  <2>1. ASSUME NEW r \in Requests
        PROVE  Taken(r) = {} /\ Seen(r) = {} /\ Missed(r) = {}
    BY DEF Taken, Seen, Missed
  <2>2. Cardinality({}) = 0
    BY FS_EmptySet
  <2> SUFFICES ASSUME NEW r \in Requests
               PROVE  Books(r)
    BY DEF BooksKept
  <2>3. /\ seeds[r] = {} /\ listed[r] = {} /\ folded[r] = {} /\ errors[r] = 0
        /\ phase[r] = "new" /\ \A f \in Files : merged[r][f] = 0
    OBVIOUS
  <2>4. Cardinality(Taken(r)) = 0 /\ Cardinality(Missed(r)) = 0
    BY <2>1, <2>2
  <2> QED BY <2>3, <2>4 DEF Books
<1> QED BY <1>1, <1>2, <1>3, <1>4, <1>5, <1>6, <1>7 DEF IInv

(* What one task's step does to the types.                                 *)
LEMMA TaskTypes ==
    ASSUME Types, NEW r \in Requests, NEW f \in Files, Task(r, f)
    PROVE  Types'
<1> USE FoldAssumption
<1>1. CASE FileLock(r, f)
  BY <1>1 DEF Types, FileLock, Goto, Places, Holding, requestVars, historyVars
<1>2. CASE \/ TakeMutex(r, f) \/ MarkerMissing(r, f) \/ AcquireInflight(r, f)
           \/ Fetched(r, f) \/ AcquireCpu(r, f)
  <2>1. \E from, to \in Places : Move(r, f, from, to)
    BY <1>2 DEF TakeMutex, MarkerMissing, AcquireInflight, Fetched, AcquireCpu, Places, Holding
  <2> QED BY <2>1 DEF Types, Move, Goto, requestVars, historyVars
<1>3. ASSUME NEW from, NEW outcome \in {"ok", "failed"}, Return(r, f, from, outcome),
             parts' \in [Files -> SUBSET AllParts]
      PROVE  Types'
  <2>1. "drop" \in Places
    BY DEF Places
  <2> QED BY <1>3, <2>1 DEF Types, Return, Goto, requestVars
<1>4. CASE \/ MarkerFound(r, f) \/ CheckFails(r, f) \/ FetchFails(r, f) \/ DecodeFails(r, f)
  <2>1. parts' \in [Files -> SUBSET AllParts]
    BY <1>4 DEF Types, MarkerFound, CheckFails, FetchFails, DecodeFails
  <2> QED BY <1>4, <1>3, <2>1 DEF MarkerFound, CheckFails, FetchFails, DecodeFails
<1>5. CASE AcquireFetch(r, f)
  BY <1>5 DEF Types, AcquireFetch, Goto, Places, Holding, requestVars
<1>6. CASE Decoded(r, f)
  BY <1>6 DEF Types, Decoded, Goto, Places, Holding, AllParts, requestVars, historyVars
<1>7. ASSUME NEW p \in OtherParts, PutPart(r, f, p)
      PROVE  Types'
  <2>1. parts' \in [Files -> SUBSET AllParts]
    BY <1>7 DEF Types, PutPart, AllParts
  <2>2. puts' \in [Requests -> [Files -> SUBSET AllParts]]
    BY <1>7 DEF Types, PutPart, AllParts
  <2>3. pc' \in [Requests -> [Files -> Places]]
    BY <1>7 DEF Types, PutPart, Goto, Places, Holding
  <2> QED BY <1>7, <2>1, <2>2, <2>3 DEF Types, PutPart, requestVars, historyVars
<1>8. CASE \/ \E landed \in SUBSET OtherParts : PutFails(r, f, landed)
           \/ PutMarker(r, f)
           \/ \E landed \in SUBSET {Marker} : MarkerFails(r, f, landed)
  <2>1. parts' \in [Files -> SUBSET AllParts]
    <3>1. \E more \in SUBSET AllParts : parts' = [parts EXCEPT ![f] = @ \cup more]
      <4>1. ASSUME NEW landed \in SUBSET OtherParts, PutFails(r, f, landed)
            PROVE  \E more \in SUBSET AllParts : parts' = [parts EXCEPT ![f] = @ \cup more]
        BY <4>1 DEF PutFails, AllParts
      <4>2. CASE PutMarker(r, f)
        <5>1. puts[r][f] \in SUBSET AllParts
          BY DEF Types
        <5> QED BY <4>2, <5>1 DEF PutMarker
      <4>3. ASSUME NEW landed \in SUBSET {Marker}, MarkerFails(r, f, landed)
            PROVE  \E more \in SUBSET AllParts : parts' = [parts EXCEPT ![f] = @ \cup more]
        BY <4>3 DEF MarkerFails, AllParts
      <4> QED BY <1>8, <4>1, <4>2, <4>3
    <3> QED BY <3>1 DEF Types
  <2> QED BY <1>8, <1>3, <2>1 DEF PutFails, PutMarker, MarkerFails
<1>9. CASE DropFileLock(r, f)
  BY <1>9 DEF Types, DropFileLock, Places, requestVars, historyVars
<1>10. CASE ReleaseReference(r, f)
  BY <1>10 DEF Types, ReleaseReference, Places, requestVars, historyVars
<1>11. CASE Abort(r, f)
  <2>1. late' \subseteq Files \X AllParts
    BY <1>11 DEF Types, Abort
  <2>2. pc' \in [Requests -> [Files -> Places]]
    BY <1>11 DEF Types, Abort, Places
  <2>3. detached' \subseteq Requests \X Files
    BY <1>11 DEF Types, Abort
  <2> QED BY <1>11, <2>1, <2>2, <2>3 DEF Types, Abort, requestVars
<1> QED BY <1>1, <1>2, <1>4, <1>5, <1>6, <1>7, <1>8, <1>9, <1>10, <1>11 DEF Task

LEMMA FilesFinite ==
    ASSUME NEW S \in SUBSET Files
    PROVE  IsFiniteSet(S) /\ Cardinality(S) \in Nat /\ Cardinality(S) <= NumFiles
<1>1. IsFiniteSet(Files) /\ Cardinality(Files) = NumFiles
  <2>1. NumFiles \in Int /\ 1 \in Int /\ ~(1 > NumFiles) /\ NumFiles - 1 + 1 = NumFiles
    BY FoldAssumption
  <2> QED BY <2>1, FS_Interval DEF Files
<1> QED BY <1>1, FS_Subset, FS_CardinalityType

(* What a request's step does to the types.                                *)
LEMMA RequestTypes ==
    ASSUME Types, NEW r \in Requests, Request(r) \/ Disconnect(r)
    PROVE  Types'
<1> USE FoldAssumption
<1>1. ASSUME NEW snapshot \in SUBSET Files, Resolve(r, snapshot)
      PROVE  Types'
  <2>1. FoldedMatching(r, snapshot) \in SUBSET Files
    BY DEF FoldedMatching
  <2>2. pc' \in [Requests -> [Files -> Places]]
    BY <1>1 DEF Types, Resolve, Places
  <2> QED BY <1>1, <2>1, <2>2 DEF Types, Resolve, Phases, historyVars
<1>2. CASE ResolveListed(r) \/ ResolveUnlisted(r)
  BY <1>1, <1>2 DEF ResolveListed, ResolveUnlisted, Folded
<1>3. CASE ResolveEmpty(r)
  BY <1>3 DEF Types, ResolveEmpty, Phases, taskVars, historyVars
<1>4. ASSUME NEW good \in SUBSET Files, NEW bad \in SUBSET Files, Apply(r, good, bad)
      PROVE  /\ folded' \in [Requests -> SUBSET Files]
             /\ merged' \in [Requests -> [Files -> Nat]]
             /\ errors' \in [Requests -> Nat]
  <2>1. Cardinality(bad) \in Nat
    BY FilesFinite
  <2>2. [f \in Files |-> merged[r][f] + IF f \in good THEN 1 ELSE 0] \in [Files -> Nat]
    BY DEF Types
  <2>3. merged' \in [Requests -> [Files -> Nat]]
    BY <1>4, <2>2 DEF Types, Apply
  <2> QED BY <1>4, <2>1, <2>3 DEF Types, Apply
<1>5. ASSUME NEW bad \in SUBSET seeds[r], SeedBatch(r, bad)
      PROVE  Types'
  <2>1. Batch(r) \in SUBSET Files /\ bad \in SUBSET Files /\ Batch(r) \ bad \in SUBSET Files
    BY <1>5 DEF Types, Batch
  <2>2. Apply(r, Batch(r) \ bad, bad)
    BY <1>5 DEF SeedBatch
  <2>3. seeds' \in [Requests -> SUBSET Files] /\ phase' \in [Requests -> Phases]
    BY <1>5 DEF Types, SeedBatch, Phases
  <2> QED BY <1>4, <1>5, <2>1, <2>2, <2>3 DEF Types, SeedBatch, taskVars, historyVars
<1>6. ASSUME NEW bad \in SUBSET seeds[r], ReadPolls(r, bad)
      PROVE  Types'
  <2>1. merged' \in [Requests -> [Files -> Nat]]
    BY <1>6 DEF Types, ReadPolls
  <2>2. folded' \in [Requests -> SUBSET Files] /\ seeds' \in [Requests -> SUBSET Files]
    BY <1>6 DEF Types, ReadPolls
  <2> QED BY <1>6, <2>1, <2>2 DEF Types, ReadPolls, Phases, taskVars, historyVars
<1>7. ASSUME NEW f \in Files, TakeFolded(r, f) \/ TakeUnreadable(r, f) \/ TakeFailed(r, f)
      PROVE  Types'
  <2>1. \E outcome : Take(r, f, outcome)
    BY <1>7 DEF TakeFolded, TakeUnreadable, TakeFailed
  <2>2. /\ folded' \in [Requests -> SUBSET Files]
        /\ merged' \in [Requests -> [Files -> Nat]]
        /\ errors' \in [Requests -> Nat]
    <3>1. CASE Apply(r, {f}, {}) \/ Apply(r, {}, {f})
      <4>1. {f} \in SUBSET Files /\ {} \in SUBSET Files
        OBVIOUS
      <4> QED BY <1>4, <3>1, <4>1
    <3>2. CASE folded' = [folded EXCEPT ![r] = @ \cup {f}] /\ UNCHANGED <<merged, errors>>
      BY <3>2 DEF Types
    <3> QED BY <1>7, <3>1, <3>2 DEF TakeFolded, TakeUnreadable, TakeFailed
  <2>3. pc' \in [Requests -> [Files -> Places]]
    BY <2>1 DEF Types, Take, Places
  <2> QED BY <2>1, <2>2, <2>3 DEF Types, Take, historyVars
<1>8. CASE Finish(r)
  BY <1>8 DEF Types, Finish, Phases, taskVars, historyVars
<1>9. CASE Disconnect(r)
  BY <1>9 DEF Types, Disconnect, Phases, taskVars, historyVars
<1> QED BY <1>2, <1>3, <1>5, <1>6, <1>7, <1>8, <1>9 DEF Request

LEMMA TypesStep ==
    ASSUME Types, [Next]_vars
    PROVE  Types'
<1>1. ASSUME NEW t \in detached, DetachedEnds(t)
      PROVE  Types'
  BY <1>1 DEF Types, DetachedEnds, requestVars, historyVars
<1>2. ASSUME NEW f \in Files, NEW p \in AllParts, LateLands(f, p) \/ LateIsLost(f, p)
      PROVE  Types'
  <2>1. parts' \in [Files -> SUBSET AllParts] /\ late' \subseteq Files \X AllParts
    <3>1. CASE LateLands(f, p)
      BY <3>1 DEF Types, LateLands
    <3>2. CASE LateIsLost(f, p)
      BY <3>2 DEF Types, LateIsLost
    <3> QED BY <1>2, <3>1, <3>2
  <2> QED BY <1>2, <2>1 DEF Types, LateLands, LateIsLost, taskVars, requestVars, historyVars
<1>3. CASE UNCHANGED vars
  BY <1>3 DEF Types, vars, taskVars, requestVars, historyVars
<1> QED BY TaskTypes, RequestTypes, <1>1, <1>2, <1>3 DEF Next, Terminated

-----------------------------------------------------------------------------
(* Part-files                                                              *)

(* A step of one task leaves the other tasks, the other files and the      *)
(* requests alone, and no part-file goes.                                  *)
Frame(r, f) ==
    /\ \A q \in Requests, g \in Files : q # r \/ g # f =>
          pc'[q][g] = pc[q][g] /\ puts'[q][g] = puts[q][g] /\ lock'[q][g] = lock[q][g]
    /\ \A g \in Files : parts[g] \subseteq parts'[g]
    /\ \A g \in Files \ {f} : /\ parts'[g] = parts[g] /\ registry'[g] = registry[g]
                              /\ fetches'[g] = fetches[g] /\ excuses'[g] = excuses[g]
    /\ {pc[r][f], pc'[r][f]} \cap {"none", "taken"} = {}
    /\ UNCHANGED requestVars

LEMMA TaskFrame ==
    ASSUME Types, NEW r \in Requests, NEW f \in Files, Task(r, f)
    PROVE  Frame(r, f)
<1> USE DEF Types, Frame
<1>1. CASE FileLock(r, f)
  BY <1>1 DEF FileLock, Goto, historyVars
<1>2. CASE \/ TakeMutex(r, f) \/ MarkerMissing(r, f) \/ AcquireInflight(r, f)
           \/ Fetched(r, f) \/ AcquireCpu(r, f)
  <2>1. \E from, to \in Places \ {"none", "taken"} : Move(r, f, from, to)
    BY <1>2 DEF TakeMutex, MarkerMissing, AcquireInflight, Fetched, AcquireCpu, Places, Holding
  <2> QED BY <2>1 DEF Move, Goto, historyVars
<1>3. ASSUME NEW from \in Places \ {"none", "taken"}, NEW outcome,
             Return(r, f, from, outcome),
             \/ UNCHANGED parts
             \/ \E more : parts' = [parts EXCEPT ![f] = @ \cup more]
      PROVE  Frame(r, f)
  <2>1. \A g \in Files : parts[g] \subseteq parts'[g] /\ (g # f => parts'[g] = parts[g])
    BY <1>3
  <2>2. \A q \in Requests, g \in Files : q # r \/ g # f =>
          pc'[q][g] = pc[q][g] /\ puts'[q][g] = puts[q][g] /\ lock'[q][g] = lock[q][g]
    BY <1>3 DEF Return, Goto
  <2>3. \A g \in Files \ {f} : /\ registry'[g] = registry[g]
                             /\ fetches'[g] = fetches[g] /\ excuses'[g] = excuses[g]
    BY <1>3 DEF Return
  <2>4. pc[r][f] = from /\ pc'[r][f] = "drop" /\ UNCHANGED requestVars
    BY <1>3 DEF Return, Goto
  <2> QED BY <2>1, <2>2, <2>3, <2>4
<1>4. CASE \/ MarkerFound(r, f) \/ CheckFails(r, f) \/ FetchFails(r, f) \/ DecodeFails(r, f)
  <2>1. {"check", "fetching", "decoding"} \subseteq Places \ {"none", "taken"}
    BY DEF Places, Holding
  <2> QED BY <1>4, <1>3, <2>1 DEF MarkerFound, CheckFails, FetchFails, DecodeFails
<1>5. CASE AcquireFetch(r, f)
  BY <1>5 DEF AcquireFetch, Goto
<1>6. CASE Decoded(r, f)
  BY <1>6 DEF Decoded, Goto, historyVars
<1>7. ASSUME NEW p \in OtherParts, PutPart(r, f, p)
      PROVE  Frame(r, f)
  BY <1>7 DEF PutPart, Goto, historyVars
<1>8. CASE \/ \E landed \in SUBSET OtherParts : PutFails(r, f, landed)
           \/ PutMarker(r, f)
           \/ \E landed \in SUBSET {Marker} : MarkerFails(r, f, landed)
  <2>1. {"putting", "marking"} \subseteq Places \ {"none", "taken"}
    BY DEF Places, Holding
  <2> QED BY <1>8, <1>3, <2>1 DEF PutFails, PutMarker, MarkerFails
<1>9. CASE DropFileLock(r, f) \/ ReleaseReference(r, f)
  BY <1>9 DEF DropFileLock, ReleaseReference, historyVars
<1>10. CASE Abort(r, f)
  BY <1>10 DEF Abort, Holding
<1> QED BY <1>1, <1>2, <1>4, <1>5, <1>6, <1>7, <1>8, <1>9, <1>10 DEF Task

(* A step of a request changes nothing that its tasks share, and moves at  *)
(* most its own tasks, between places at which they hold nothing.          *)
Idle == {"none", "spawned", "ended", "taken"}

Apart(r) ==
    /\ UNCHANGED <<parts, late, registry, lock, puts, fetches, excuses>>
    /\ \A q \in Requests, g \in Files :
          pc'[q][g] = pc[q][g] \/ (q = r /\ {pc[q][g], pc'[q][g]} \subseteq Idle)

(* The other requests keep their tasks and their books.                    *)
Others(r) ==
    \A q \in Requests \ {r} :
        /\ phase'[q] = phase[q] /\ listed'[q] = listed[q] /\ seeds'[q] = seeds[q]
        /\ folded'[q] = folded[q] /\ errors'[q] = errors[q]
        /\ \A g \in Files : pc'[q][g] = pc[q][g] /\ merged'[q][g] = merged[q][g]

LEMMA RequestFrame ==
    ASSUME Types, Unstarted, NEW r \in Requests, Request(r) \/ Disconnect(r)
    PROVE  Apart(r)
<1> USE DEF Types, Idle, Apart
<1>1. ASSUME NEW snapshot, Resolve(r, snapshot)
      PROVE  Apart(r)
  BY <1>1 DEF Resolve, Unstarted, Fresh, historyVars
<1>2. CASE ResolveListed(r) \/ ResolveUnlisted(r)
  BY <1>1, <1>2 DEF ResolveListed, ResolveUnlisted
<1>3. CASE \/ ResolveEmpty(r) \/ Finish(r) \/ Disconnect(r)
           \/ \E bad \in SUBSET seeds[r] : SeedBatch(r, bad) \/ ReadPolls(r, bad)
  BY <1>3 DEF ResolveEmpty, Finish, Disconnect, SeedBatch, ReadPolls, taskVars, historyVars
<1>4. ASSUME NEW f \in Files, TakeFolded(r, f) \/ TakeUnreadable(r, f) \/ TakeFailed(r, f)
      PROVE  Apart(r)
  <2>1. \E outcome : Take(r, f, outcome)
    BY <1>4 DEF TakeFolded, TakeUnreadable, TakeFailed
  <2> QED BY <2>1 DEF Take, historyVars
<1> QED BY <1>2, <1>3, <1>4 DEF Request

(* The writes of a task are in order before and after each of its steps.   *)
LEMMA PutsStep ==
    ASSUME Types, Unstarted, PutsOrdered, [Next]_vars
    PROVE  PutsOrdered'
<1> USE FoldAssumption
<1>1. ASSUME NEW r \in Requests, Request(r) \/ Disconnect(r)
      PROVE  PutsOrdered'
  <2>1. Apart(r)
    BY <1>1, RequestFrame
  <2> QED BY <2>1 DEF Apart, Idle, PutsOrdered, Ordered
<1>2. ASSUME NEW r \in Requests, NEW f \in Files, Task(r, f)
      PROVE  PutsOrdered'
  <2>1. Frame(r, f)
    BY <1>2, TaskFrame
  <2>2. ASSUME NEW q \in Requests, NEW g \in Files, q # r \/ g # f
        PROVE  Ordered(q, g)'
    BY <2>1, <2>2 DEF Frame, PutsOrdered, Ordered
  <2>3. Ordered(r, f) /\ pc[r][f] \in Places /\ parts[f] \subseteq parts'[f]
    BY <2>1 DEF PutsOrdered, Types, Frame
  <2>4. Ordered(r, f)'
    <3> USE DEF Types, Ordered
    <3>1. CASE FileLock(r, f)
      BY <3>1, <2>3 DEF FileLock, Goto
    <3>2. CASE \/ TakeMutex(r, f) \/ MarkerMissing(r, f) \/ AcquireInflight(r, f)
               \/ Fetched(r, f) \/ AcquireCpu(r, f)
      BY <3>2, <2>3 DEF TakeMutex, MarkerMissing, AcquireInflight, Fetched, AcquireCpu, Move, Goto
    <3>3. ASSUME NEW from, NEW outcome, Return(r, f, from, outcome)
          PROVE  Ordered(r, f)'
      BY <3>3 DEF Return, Goto
    <3>4. CASE \/ MarkerFound(r, f) \/ CheckFails(r, f) \/ FetchFails(r, f) \/ DecodeFails(r, f)
               \/ \E landed \in SUBSET OtherParts : PutFails(r, f, landed)
               \/ PutMarker(r, f)
               \/ \E landed \in SUBSET {Marker} : MarkerFails(r, f, landed)
      BY <3>3, <3>4 DEF MarkerFound, CheckFails, FetchFails, DecodeFails, PutFails, PutMarker, MarkerFails
    <3>5. CASE AcquireFetch(r, f)
      BY <3>5, <2>3 DEF AcquireFetch, Goto
    <3>6. CASE Decoded(r, f)
      BY <3>6, <2>3 DEF Decoded, Goto
    <3>7. ASSUME NEW p \in OtherParts, PutPart(r, f, p)
          PROVE  Ordered(r, f)'
      <4>1. pc[r][f] = "putting" /\ parts'[f] = parts[f] \cup {p}
        BY <3>7 DEF PutPart, Goto
      <4>2. CASE puts[r][f] \ {p} = {}
        BY <3>7, <2>3, <4>1, <4>2 DEF PutPart, Goto
      <4>3. CASE puts[r][f] \ {p} # {}
        BY <3>7, <2>3, <4>1, <4>3 DEF PutPart, Goto
      <4> QED BY <4>2, <4>3
    <3>8. CASE DropFileLock(r, f) \/ ReleaseReference(r, f)
      BY <3>8, <2>3 DEF DropFileLock, ReleaseReference
    <3>9. CASE Abort(r, f)
      BY <3>9, <2>3 DEF Abort
    <3> QED BY <1>2, <3>1, <3>2, <3>4, <3>5, <3>6, <3>7, <3>8, <3>9 DEF Task
  <2> QED BY <2>2, <2>4 DEF PutsOrdered
<1>3. ASSUME NEW t \in detached, DetachedEnds(t)
      PROVE  PutsOrdered'
  BY <1>3 DEF DetachedEnds, PutsOrdered, Ordered
<1>4. ASSUME NEW f \in Files, NEW p \in AllParts, LateLands(f, p) \/ LateIsLost(f, p)
      PROVE  PutsOrdered'
  <2>1. \A g \in Files : parts[g] \subseteq parts'[g]
    <3>1. CASE LateLands(f, p)
      BY <3>1 DEF LateLands, Types
    <3>2. CASE LateIsLost(f, p)
      BY <3>2 DEF LateIsLost
    <3> QED BY <1>4, <3>1, <3>2
  <2> QED BY <1>4, <2>1 DEF LateLands, LateIsLost, taskVars, PutsOrdered, Ordered
<1>5. CASE UNCHANGED vars
  BY <1>5 DEF vars, taskVars, PutsOrdered, Ordered
<1> QED BY <1>1, <1>2, <1>3, <1>4, <1>5 DEF Next, Terminated

(* Where a new part-file comes from: nothing but the writes that are out.  *)
LEMMA MarkerStep ==
    ASSUME Types, Unstarted, PutsOrdered, MarkerLast, [Next]_vars
    PROVE  MarkerLast'
<1> USE FoldAssumption
<1>1. ASSUME NEW r \in Requests, Request(r) \/ Disconnect(r)
      PROVE  MarkerLast'
  <2>1. Apart(r)
    BY <1>1, RequestFrame
  <2> QED BY <2>1 DEF Apart, MarkerLast
<1>2. ASSUME NEW r \in Requests, NEW f \in Files, Task(r, f)
      PROVE  MarkerLast'
  <2>1. \A g \in Files : parts[g] \subseteq parts'[g] /\ (g # f => parts'[g] = parts[g])
    BY <1>2, TaskFrame DEF Frame
  <2>2. Ordered(r, f)
    BY DEF PutsOrdered
  <2>3. \/ UNCHANGED parts
        \/ \E p \in OtherParts : parts'[f] = parts[f] \cup {p}
        \/ \E more \in SUBSET puts[r][f] :
              pc[r][f] \in {"putting", "marking"} /\ parts'[f] = parts[f] \cup more
    <3> USE DEF Types
    <3>1. ASSUME NEW p \in OtherParts, PutPart(r, f, p)
          PROVE  parts'[f] = parts[f] \cup {p}
      BY <3>1 DEF PutPart
    <3>2. ASSUME NEW landed \in SUBSET OtherParts, PutFails(r, f, landed)
          PROVE  /\ landed \in SUBSET puts[r][f] /\ pc[r][f] = "putting"
                 /\ parts'[f] = parts[f] \cup landed
      BY <3>2 DEF PutFails, Return, Goto
    <3>3. ASSUME NEW landed \in SUBSET {Marker}, MarkerFails(r, f, landed)
          PROVE  /\ landed \in SUBSET puts[r][f] /\ pc[r][f] = "marking"
                 /\ parts'[f] = parts[f] \cup landed
      BY <3>3 DEF MarkerFails, Return, Goto
    <3>4. ASSUME PutMarker(r, f)
          PROVE  pc[r][f] = "marking" /\ parts'[f] = parts[f] \cup puts[r][f]
      BY <3>4 DEF PutMarker, Return, Goto
    <3>5. ASSUME \/ FileLock(r, f) \/ TakeMutex(r, f)
                 \/ MarkerFound(r, f) \/ MarkerMissing(r, f) \/ CheckFails(r, f)
                 \/ AcquireInflight(r, f) \/ AcquireFetch(r, f) \/ Fetched(r, f)
                 \/ FetchFails(r, f) \/ AcquireCpu(r, f) \/ Decoded(r, f) \/ DecodeFails(r, f)
                 \/ DropFileLock(r, f) \/ ReleaseReference(r, f) \/ Abort(r, f)
          PROVE  UNCHANGED parts
      BY <3>5 DEF FileLock, TakeMutex, MarkerFound, MarkerMissing, CheckFails, AcquireInflight,
                  AcquireFetch, Fetched, FetchFails, AcquireCpu, Decoded, DecodeFails,
                  DropFileLock, ReleaseReference, Abort, Move
    <3> QED BY <1>2, <3>1, <3>2, <3>3, <3>4, <3>5 DEF Task
  <2>4. Marker \in parts'[f] => Marker \in parts[f] \/ OtherParts \subseteq parts[f]
    BY <2>2, <2>3 DEF Ordered, Marker
  <2>5. late' = late \/ late' = late \cup ({f} \X puts[r][f])
    BY <1>2 DEF Task, FileLock, TakeMutex, MarkerFound, MarkerMissing, CheckFails, AcquireInflight,
                AcquireFetch, Fetched, FetchFails, AcquireCpu, Decoded, DecodeFails, PutPart,
                PutFails, PutMarker, MarkerFails, Return, DropFileLock, ReleaseReference, Abort, Move
  <2>6. \A g \in Files : <<g, Marker>> \in late' =>
                           <<g, Marker>> \in late \/ (g = f /\ OtherParts \subseteq parts[f])
    BY <2>2, <2>5 DEF Ordered, Marker
  <2> QED BY <2>1, <2>4, <2>6 DEF MarkerLast
<1>3. ASSUME NEW t \in detached, DetachedEnds(t)
      PROVE  MarkerLast'
  BY <1>3 DEF DetachedEnds, MarkerLast
<1>4. ASSUME NEW f \in Files, NEW p \in AllParts, LateLands(f, p)
      PROVE  MarkerLast'
  <2>1. \A g \in Files : parts'[g] = IF g = f THEN parts[g] \cup {p} ELSE parts[g]
    BY <1>4 DEF LateLands, Types
  <2>2. <<f, p>> \in late /\ late' \subseteq late
    BY <1>4 DEF LateLands
  <2> QED BY <2>1, <2>2 DEF MarkerLast
<1>5. ASSUME NEW f \in Files, NEW p \in AllParts, LateIsLost(f, p)
      PROVE  MarkerLast'
  <2>1. late' \subseteq late /\ parts' = parts
    BY <1>5 DEF LateIsLost
  <2> QED BY <2>1 DEF MarkerLast
<1>6. CASE UNCHANGED vars
  BY <1>6 DEF vars, MarkerLast
<1> QED BY <1>1, <1>2, <1>3, <1>4, <1>5, <1>6 DEF Next, Terminated

-----------------------------------------------------------------------------
(* The locks                                                               *)

(* The steps at which no task comes to use a lock or to hold its mutex.    *)
Keeps(r, f) ==
    /\ UNCHANGED <<registry, lock>>
    /\ pc'[r][f] \in InUse => pc[r][f] \in InUse
    /\ pc'[r][f] \in Holding => pc[r][f] \in Holding
    /\ pc'[r][f] # "arc"

LEMMA TaskLocks ==
    ASSUME Types, NEW r \in Requests, NEW f \in Files, Task(r, f)
    PROVE  \/ FileLock(r, f) \/ TakeMutex(r, f) \/ DropFileLock(r, f) \/ ReleaseReference(r, f)
           \/ Keeps(r, f)
<1> USE DEF Types, Keeps, InUse, Holding
<1>1. ASSUME NEW from \in Holding, NEW to \in Holding, Move(r, f, from, to)
      PROVE  Keeps(r, f)
  BY <1>1 DEF Move, Goto
<1>2. CASE \/ MarkerMissing(r, f) \/ AcquireInflight(r, f) \/ Fetched(r, f) \/ AcquireCpu(r, f)
  BY <1>1, <1>2 DEF MarkerMissing, AcquireInflight, Fetched, AcquireCpu
<1>3. ASSUME NEW from \in Holding, NEW outcome, Return(r, f, from, outcome)
      PROVE  Keeps(r, f)
  BY <1>3 DEF Return, Goto
<1>4. CASE \/ MarkerFound(r, f) \/ CheckFails(r, f) \/ FetchFails(r, f) \/ DecodeFails(r, f)
           \/ \E landed \in SUBSET OtherParts : PutFails(r, f, landed)
           \/ PutMarker(r, f)
           \/ \E landed \in SUBSET {Marker} : MarkerFails(r, f, landed)
  BY <1>3, <1>4 DEF MarkerFound, CheckFails, FetchFails, DecodeFails, PutFails, PutMarker, MarkerFails
<1>5. CASE AcquireFetch(r, f) \/ Decoded(r, f) \/ \E p \in OtherParts : PutPart(r, f, p)
  BY <1>5 DEF AcquireFetch, Decoded, PutPart, Goto
<1>6. CASE Abort(r, f)
  BY <1>6 DEF Abort
<1> QED BY <1>2, <1>4, <1>5, <1>6 DEF Task

(* The last one out is alone: nobody else uses the lock it takes with it.  *)
LEMMA LastReference ==
    ASSUME NEW r \in Requests, NEW q \in Requests, NEW f \in Files,
           lock[q][f] = lock[r][f], StrongCount(f, lock[r][f]) = 1
    PROVE  q = r
<1> DEFINE S == {x \in Requests : lock[x][f] = lock[r][f]}
<1>1. IsFiniteSet(S) /\ Cardinality(S) = 1
  BY FoldAssumption, FS_Subset DEF StrongCount
<1>2. \E x : S = {x}
  BY <1>1, FS_Singleton
<1>3. q \in S /\ r \in S
  OBVIOUS
<1> QED BY <1>2, <1>3

(* Tasks that use a file's lock use the one its entry points at, and its   *)
(* mutex keeps them apart.                                                 *)
LEMMA LocksStep ==
    ASSUME Types, Unstarted, LocksAgree, Exclusive, [Next]_vars
    PROVE  LocksAgree' /\ Exclusive'
<1> USE FoldAssumption
<1>1. ASSUME NEW r \in Requests, Request(r) \/ Disconnect(r)
      PROVE  LocksAgree' /\ Exclusive'
  <2>1. Apart(r)
    BY <1>1, RequestFrame
  <2> QED BY <2>1 DEF Apart, Idle, LocksAgree, Exclusive, InUse, Holding
<1>2. ASSUME NEW r \in Requests, NEW f \in Files, Task(r, f)
      PROVE  LocksAgree' /\ Exclusive'
  <2>1. /\ \A q \in Requests, g \in Files : q # r \/ g # f =>
              pc'[q][g] = pc[q][g] /\ lock'[q][g] = lock[q][g]
        /\ \A g \in Files \ {f} : registry'[g] = registry[g]
    BY <1>2, TaskFrame DEF Frame
  <2>2. CASE FileLock(r, f)
    <3>1. pc'[r][f] = "lock" /\ lock'[r][f] = registry'[f]
      BY <2>2 DEF FileLock, Goto, Types
    <3>2. \/ registry'[f] = registry[f] /\ registry[f] # NoLock
          \/ registry'[f] = r /\ ~ \E q \in Requests : pc[q][f] \in InUse
      BY <2>2 DEF FileLock, Alive, LocksAgree, Types
    <3>3. registry'[f] # NoLock
      BY <3>2 DEF NoLock
    <3>4. LocksAgree'
      <4>1. ASSUME NEW q \in Requests, NEW g \in Files, q # r \/ g # f
            PROVE  /\ pc'[q][g] \in InUse => lock'[q][g] = registry'[g] /\ lock'[q][g] # NoLock
                   /\ pc'[q][g] = "arc" => lock'[q][g] # NoLock
        BY <2>1, <3>2, <4>1 DEF LocksAgree
      <4> QED BY <3>1, <3>3, <4>1 DEF LocksAgree
    <3>5. Exclusive'
      BY <2>1, <3>1 DEF Exclusive, Holding
    <3> QED BY <3>4, <3>5
  <2>3. CASE TakeMutex(r, f)
    <3>1. /\ pc[r][f] = "lock" /\ pc'[r][f] = "check" /\ UNCHANGED <<registry, lock>>
          /\ \A q \in Requests : ~(lock[q][f] = lock[r][f] /\ pc[q][f] \in Holding)
      BY <2>3 DEF TakeMutex, Move, Goto, Locked, Types
    <3>2. \A q \in Requests : pc[q][f] \notin Holding
      BY <3>1 DEF LocksAgree, InUse
    <3>3. LocksAgree'
      BY <2>1, <3>1 DEF LocksAgree, InUse, Holding
    <3>4. Exclusive'
      BY <2>1, <3>2 DEF Exclusive
    <3> QED BY <3>3, <3>4
  <2>4. CASE DropFileLock(r, f)
    <3>1. /\ pc[r][f] = "drop" /\ pc'[r][f] = "arc" /\ lock' = lock
          /\ \/ registry'[f] = registry[f]
             \/ StrongCount(f, lock[r][f]) = 1
      BY <2>4 DEF DropFileLock, Types
    <3>2. ASSUME NEW q \in Requests, q # r, pc[q][f] \in InUse
          PROVE  registry'[f] = registry[f]
      <4>1. lock[q][f] = lock[r][f]
        BY <3>1, <3>2 DEF LocksAgree, InUse
      <4> QED BY <3>1, <3>2, <4>1, LastReference
    <3>3. LocksAgree'
      <4>1. ASSUME NEW q \in Requests, NEW g \in Files
            PROVE  /\ pc'[q][g] \in InUse => lock'[q][g] = registry'[g] /\ lock'[q][g] # NoLock
                   /\ pc'[q][g] = "arc" => lock'[q][g] # NoLock
        <5>1. CASE q = r /\ g = f
          BY <3>1, <5>1 DEF LocksAgree, InUse, Holding
        <5>2. CASE q # r \/ g # f
          BY <2>1, <3>1, <3>2, <5>2 DEF LocksAgree
        <5> QED BY <5>1, <5>2
      <4> QED BY <4>1 DEF LocksAgree
    <3>4. Exclusive'
      BY <2>1, <3>1 DEF Exclusive, Holding
    <3> QED BY <3>3, <3>4
  <2>5. CASE ReleaseReference(r, f)
    <3>1. pc'[r][f] = "ended" /\ registry' = registry
      BY <2>5 DEF ReleaseReference, Types
    <3> QED BY <2>1, <3>1 DEF LocksAgree, Exclusive, InUse, Holding
  <2>6. CASE Keeps(r, f)
    BY <2>1, <2>6 DEF Keeps, LocksAgree, Exclusive
  <2> QED BY <1>2, <2>2, <2>3, <2>4, <2>5, <2>6, TaskLocks
<1>3. CASE \/ \E t \in detached : DetachedEnds(t)
           \/ \E f \in Files, p \in AllParts : LateLands(f, p) \/ LateIsLost(f, p)
           \/ UNCHANGED vars
  BY <1>3 DEF DetachedEnds, LateLands, LateIsLost, vars, taskVars, LocksAgree, Exclusive
<1> QED BY <1>1, <1>2, <1>3 DEF Next, Terminated

-----------------------------------------------------------------------------
(* Fetches                                                                 *)

(* The steps that fetch nothing and admit no fold: a fold that ends leaves *)
(* an excuse or the marker.                                                *)
Settles(r, f) ==
    /\ fetches' = fetches
    /\ excuses'[f] \in {excuses[f], excuses[f] + 1}
    /\ pc'[r][f] \in {"inflight", "fetch"} => pc[r][f] \in {"inflight", "fetch"}
    /\ pc[r][f] \in Fetching /\ pc'[r][f] \notin Fetching =>
          excuses'[f] = excuses[f] + 1 \/ Marker \in parts'[f]

LEMMA TaskFetches ==
    ASSUME Types, PutsOrdered, NEW r \in Requests, NEW f \in Files, Task(r, f)
    PROVE  AcquireFetch(r, f) \/ MarkerMissing(r, f) \/ Settles(r, f)
<1> USE DEF Types, Settles, Fetching
<1>1. CASE \/ FileLock(r, f) \/ TakeMutex(r, f) \/ AcquireInflight(r, f)
           \/ Fetched(r, f) \/ AcquireCpu(r, f)
  BY <1>1 DEF FileLock, TakeMutex, AcquireInflight, Fetched, AcquireCpu, Move, Goto, historyVars
<1>2. ASSUME NEW from, NEW outcome, Return(r, f, from, outcome),
             outcome # "ok" \/ from \notin Fetching \/ Marker \in parts'[f]
      PROVE  Settles(r, f)
  BY <1>2 DEF Return, Goto
<1>3. CASE \/ MarkerFound(r, f) \/ CheckFails(r, f) \/ FetchFails(r, f) \/ DecodeFails(r, f)
           \/ \E landed \in SUBSET OtherParts : PutFails(r, f, landed)
           \/ \E landed \in SUBSET {Marker} : MarkerFails(r, f, landed)
  BY <1>2, <1>3 DEF MarkerFound, CheckFails, FetchFails, DecodeFails, PutFails, MarkerFails
<1>4. CASE PutMarker(r, f)
  <2>1. pc[r][f] = "marking" /\ parts'[f] = parts[f] \cup puts[r][f]
    BY <1>4 DEF PutMarker, Return, Goto
  <2>2. puts[r][f] = {Marker}
    BY <2>1 DEF PutsOrdered, Ordered
  <2> QED BY <1>2, <1>4, <2>1, <2>2 DEF PutMarker
<1>5. CASE Decoded(r, f) \/ \E p \in OtherParts : PutPart(r, f, p)
  BY <1>5 DEF Decoded, PutPart, Goto, historyVars
<1>6. CASE DropFileLock(r, f) \/ ReleaseReference(r, f)
  BY <1>6 DEF DropFileLock, ReleaseReference, historyVars
<1>7. CASE Abort(r, f)
  BY <1>7 DEF Abort
<1> QED BY <1>1, <1>3, <1>4, <1>5, <1>6, <1>7 DEF Task

LEMMA FetchesStep ==
    ASSUME Types, Unstarted, PutsOrdered, Exclusive, FetchesPaid, [Next]_vars
    PROVE  FetchesPaid'
<1> USE FoldAssumption
<1>1. ASSUME NEW r \in Requests, Request(r) \/ Disconnect(r)
      PROVE  FetchesPaid'
  <2>1. Apart(r)
    BY <1>1, RequestFrame
  <2> QED BY <2>1 DEF Apart, Idle, FetchesPaid, Fetching
<1>2. ASSUME NEW r \in Requests, NEW f \in Files, Task(r, f)
      PROVE  FetchesPaid'
  <2>1. /\ \A q \in Requests, g \in Files : q # r \/ g # f => pc'[q][g] = pc[q][g]
        /\ \A g \in Files \ {f} : /\ parts'[g] = parts[g]
                                  /\ fetches'[g] = fetches[g] /\ excuses'[g] = excuses[g]
        /\ parts[f] \subseteq parts'[f]
    BY <1>2, TaskFrame DEF Frame
  <2>2. fetches[f] \in Nat /\ excuses[f] \in Nat
    BY DEF Types
  <2>3. ASSUME NEW g \in Files, g # f
        PROVE  FetchesPaid!(g)'
    BY <2>1, <2>3 DEF FetchesPaid
  <2>4. CASE AcquireFetch(r, f)
    <3>1. /\ pc[r][f] = "fetch" /\ pc'[r][f] = "fetching"
          /\ fetches'[f] = fetches[f] + 1 /\ excuses'[f] = excuses[f]
      BY <2>4 DEF AcquireFetch, Goto, Types
    <3>2. fetches'[f] <= excuses'[f] + 1
      BY <2>2, <3>1 DEF FetchesPaid
    <3>3. \A q \in Requests : pc'[q][f] \notin {"inflight", "fetch"}
      BY <2>1, <3>1 DEF Exclusive, Holding
    <3> QED BY <2>3, <3>1, <3>2, <3>3 DEF FetchesPaid, Fetching
  <2>5. CASE MarkerMissing(r, f)
    <3>1. /\ pc[r][f] = "check" /\ pc'[r][f] = "inflight" /\ Marker \notin parts[f]
          /\ fetches' = fetches /\ excuses' = excuses
      BY <2>5 DEF MarkerMissing, Move, Goto, historyVars, Types
    <3>2. \A q \in Requests : pc[q][f] \notin Fetching
      BY <3>1 DEF Exclusive, Holding, Fetching
    <3>3. fetches'[f] <= excuses'[f]
      BY <3>1, <3>2 DEF FetchesPaid
    <3> QED BY <2>2, <2>3, <3>1, <3>3 DEF FetchesPaid
  <2>6. CASE Settles(r, f)
    <3>1. fetches'[f] = fetches[f] /\ excuses'[f] \in {excuses[f], excuses[f] + 1}
      BY <2>6 DEF Settles
    <3>2. fetches'[f] <= excuses'[f] + 1
      BY <2>2, <3>1 DEF FetchesPaid
    <3>3. ASSUME NEW q \in Requests, pc'[q][f] \in {"inflight", "fetch"}
          PROVE  fetches'[f] <= excuses'[f]
      <4>1. pc[q][f] \in {"inflight", "fetch"}
        BY <2>1, <2>6, <3>3 DEF Settles
      <4> QED BY <2>2, <3>1, <4>1 DEF FetchesPaid
    <3>4. ASSUME Marker \notin parts'[f], \A q \in Requests : pc'[q][f] \notin Fetching
          PROVE  fetches'[f] <= excuses'[f]
      <4>1. CASE pc[r][f] \in Fetching
        BY <2>2, <2>6, <3>1, <3>4, <4>1 DEF Settles, FetchesPaid
      <4>2. CASE pc[r][f] \notin Fetching
        <5>1. Marker \notin parts[f] /\ \A q \in Requests : pc[q][f] \notin Fetching
          BY <2>1, <3>4, <4>2
        <5> QED BY <2>2, <3>1, <5>1 DEF FetchesPaid
      <4> QED BY <4>1, <4>2
    <3> QED BY <2>3, <3>2, <3>3, <3>4 DEF FetchesPaid
  <2> QED BY <1>2, <2>4, <2>5, <2>6, TaskFetches
<1>3. CASE \E t \in detached : DetachedEnds(t)
  BY <1>3 DEF DetachedEnds, historyVars, FetchesPaid
<1>4. ASSUME NEW f \in Files, NEW p \in AllParts, LateLands(f, p) \/ LateIsLost(f, p)
      PROVE  FetchesPaid'
  <2>1. \A g \in Files : parts[g] \subseteq parts'[g]
    <3>1. CASE LateLands(f, p)
      BY <3>1 DEF LateLands, Types
    <3>2. CASE LateIsLost(f, p)
      BY <3>2 DEF LateIsLost
    <3> QED BY <1>4, <3>1, <3>2
  <2> QED BY <1>4, <2>1 DEF LateLands, LateIsLost, taskVars, historyVars, FetchesPaid
<1>5. CASE UNCHANGED vars
  BY <1>5 DEF vars, taskVars, historyVars, FetchesPaid
<1> QED BY <1>1, <1>2, <1>3, <1>4, <1>5 DEF Next, Terminated

-----------------------------------------------------------------------------
(* The books of the requests                                               *)

LEMMA RequestOthers ==
    ASSUME Types, NEW r \in Requests, Request(r) \/ Disconnect(r)
    PROVE  Others(r)
<1> USE DEF Types, Others
<1>1. CASE ResolveListed(r) \/ ResolveUnlisted(r)
  BY <1>1 DEF ResolveListed, ResolveUnlisted, Resolve
<1>2. CASE ResolveEmpty(r) \/ Finish(r) \/ Disconnect(r)
  BY <1>2 DEF ResolveEmpty, Finish, Disconnect, taskVars
<1>3. ASSUME NEW bad, SeedBatch(r, bad)
      PROVE  Others(r)
  BY <1>3 DEF SeedBatch, Apply, taskVars
<1>4. ASSUME NEW bad, ReadPolls(r, bad)
      PROVE  Others(r)
  BY <1>4 DEF ReadPolls, taskVars
<1>5. ASSUME NEW f \in Files, TakeFolded(r, f) \/ TakeUnreadable(r, f) \/ TakeFailed(r, f)
      PROVE  Others(r)
  BY <1>5 DEF TakeFolded, TakeUnreadable, TakeFailed, Take, Apply
<1> QED BY <1>1, <1>2, <1>3, <1>4, <1>5 DEF Request

LEMMA WorkStep ==
    ASSUME Types, Unstarted, WorkListed, [Next]_vars
    PROVE  Unstarted' /\ WorkListed'
<1> USE FoldAssumption DEF Capped
<1>1. ASSUME NEW r \in Requests, Request(r) \/ Disconnect(r)
      PROVE  Unstarted' /\ WorkListed'
  <2>1. Others(r)
    BY <1>1, RequestOthers
  <2>2. ASSUME NEW q \in Requests \ {r}
        PROVE  Fresh(q)' /\ WorkList(q)'
    BY <2>1 DEF Others, Unstarted, Fresh, WorkListed, WorkList
  <2>3. Fresh(r)' /\ WorkList(r)'
    <3>0. Fresh(r) /\ WorkList(r)
      BY DEF Unstarted, WorkListed
    <3> USE DEF Types, Fresh, WorkList
    <3>1. ASSUME NEW snapshot \in SUBSET Files, Resolve(r, snapshot)
          PROVE  Fresh(r)' /\ WorkList(r)'
      BY <3>1, <3>0 DEF Resolve, UnfoldedCapped
    <3>2. CASE ResolveListed(r) \/ ResolveUnlisted(r)
      BY <3>1, <3>2 DEF ResolveListed, ResolveUnlisted, Folded
    <3>3. CASE ResolveEmpty(r)
      BY <3>3, <3>0 DEF ResolveEmpty, taskVars
    <3>4. CASE Finish(r) \/ Disconnect(r)
      BY <3>4, <3>0 DEF Finish, Disconnect, taskVars
    <3>5. ASSUME NEW bad, SeedBatch(r, bad) \/ ReadPolls(r, bad)
          PROVE  Fresh(r)' /\ WorkList(r)'
      BY <3>5, <3>0 DEF SeedBatch, ReadPolls, taskVars
    <3>6. ASSUME NEW f \in Files, NEW outcome, Take(r, f, outcome)
          PROVE  Fresh(r)' /\ WorkList(r)'
      BY <3>6, <3>0 DEF Take
    <3> QED BY <1>1, <3>2, <3>3, <3>4, <3>5, <3>6 DEF Request, TakeFolded, TakeUnreadable, TakeFailed
  <2> QED BY <2>2, <2>3 DEF Unstarted, WorkListed
<1>2. ASSUME NEW r \in Requests, NEW f \in Files, Task(r, f)
      PROVE  Unstarted' /\ WorkListed'
  <2>1. Frame(r, f)
    BY <1>2, TaskFrame
  <2>2. /\ UNCHANGED requestVars
        /\ \A q \in Requests, g \in Files : pc'[q][g] = pc[q][g] \/ (q = r /\ g = f)
        /\ pc[r][f] # "none" /\ pc'[r][f] # "none"
    BY <2>1 DEF Frame
  <2>3. Unstarted'
    BY <2>2 DEF requestVars, Unstarted, Fresh
  <2>4. WorkListed'
    BY <2>2 DEF requestVars, WorkListed, WorkList
  <2> QED BY <2>3, <2>4
<1>3. CASE \/ \E t \in detached : DetachedEnds(t)
           \/ \E f \in Files, p \in AllParts : LateLands(f, p) \/ LateIsLost(f, p)
           \/ UNCHANGED vars
  <2>1. UNCHANGED <<pc, requestVars>>
    BY <1>3 DEF DetachedEnds, LateLands, LateIsLost, vars, taskVars
  <2> QED BY <2>1 DEF requestVars, Unstarted, Fresh, WorkListed, WorkList
<1> QED BY <1>1, <1>2, <1>3 DEF Next, Terminated

(* A batch that was not seen before, merged but for the bad part of it,    *)
(* keeps the books of a stream.                                            *)
LEMMA ApplyBooks ==
    ASSUME Types, NEW r \in Requests, r \notin PollsReaders, Books(r),
           NEW good \in SUBSET Files, NEW bad \in SUBSET Files, good \cap bad = {},
           (good \cup bad) \cap Seen(r) = {}, Apply(r, good, bad),
           Seen(r)' = Seen(r) \cup good \cup bad
    PROVE  /\ folded'[r] \subseteq Seen(r)'
           /\ errors'[r] = Cardinality(Missed(r)')
           /\ \A f \in Files : merged'[r][f] = IF f \in folded'[r] THEN 1 ELSE 0
<1>1. folded'[r] = folded[r] \cup good /\ errors'[r] = errors[r] + Cardinality(bad)
  BY DEF Apply, Types
<1>2. folded[r] \subseteq Seen(r) /\ errors[r] = Cardinality(Missed(r))
  BY DEF Books
<1>3. Missed(r)' = Missed(r) \cup bad /\ Missed(r) \cap bad = {}
  BY <1>1, <1>2 DEF Missed
<1>4. Missed(r) \in SUBSET Files
  BY DEF Missed, Seen, Taken, Types
<1>5. Cardinality(Missed(r) \cup bad) = Cardinality(Missed(r)) + Cardinality(bad)
  <2>1. IsFiniteSet(Missed(r)) /\ IsFiniteSet(bad)
    BY <1>4, FilesFinite
  <2>2. Cardinality(Missed(r) \cap bad) = 0
    BY <1>3, FS_EmptySet
  <2>3. Cardinality(Missed(r)) \in Nat /\ Cardinality(bad) \in Nat
    BY <2>1, FS_CardinalityType
  <2>4. Cardinality(Missed(r) \cup bad) =
          Cardinality(Missed(r)) + Cardinality(bad) - Cardinality(Missed(r) \cap bad)
    BY <2>1, FS_Union
  <2> QED BY <2>2, <2>3, <2>4
<1>6. ASSUME NEW f \in Files
      PROVE  merged'[r][f] = IF f \in folded'[r] THEN 1 ELSE 0
  <2>1. merged'[r][f] = merged[r][f] + IF f \in good THEN 1 ELSE 0
    BY DEF Apply, Types
  <2>2. merged[r][f] = IF f \in folded[r] THEN 1 ELSE 0
    BY DEF Books
  <2> QED BY <1>1, <1>2, <2>1, <2>2
<1> QED BY <1>1, <1>2, <1>3, <1>5, <1>6

(* Nothing in the work list or still to be merged has been seen.           *)
LEMMA Unseen ==
    ASSUME Types, Unstarted, WorkListed, BooksKept, NEW r \in Requests
    PROVE  /\ seeds[r] \cap Seen(r) = {} /\ seeds[r] \subseteq listed[r]
           /\ \A f \in Files : pc[r][f] \notin {"none", "taken"} => f \notin Seen(r)
<1>1. \A f \in Files : pc[r][f] # "none" => f \notin listed[r]
  BY DEF Unstarted, Fresh, WorkListed, WorkList
<1>2. seeds[r] \subseteq listed[r] /\ seeds[r] \subseteq Files
  BY DEF BooksKept, Books, Types
<1> QED BY <1>1, <1>2 DEF Seen, Taken

LEMMA BooksStep ==
    ASSUME Types, Unstarted, WorkListed, BooksKept, [Next]_vars
    PROVE  BooksKept'
<1> USE FoldAssumption
<1>1. ASSUME NEW r \in Requests, Request(r) \/ Disconnect(r)
      PROVE  BooksKept'
  <2>1. ASSUME NEW q \in Requests \ {r}
        PROVE  Books(q)'
    <3>1. Others(r) /\ Books(q)
      BY <1>1, RequestOthers DEF BooksKept
    <3>2. Taken(q)' = Taken(q)
      BY <3>1 DEF Others, Taken
    <3>3. Seen(q)' = Seen(q) /\ Missed(q)' = Missed(q)
      BY <3>1, <3>2 DEF Others, Seen, Missed
    <3> QED BY <3>1, <3>2, <3>3 DEF Others, Books
  <2>2. Books(r) /\ Fresh(r) /\ WorkList(r)
    BY DEF BooksKept, Unstarted, WorkListed
  <2>3. ASSUME NEW snapshot \in SUBSET Files, Resolve(r, snapshot)
        PROVE  Books(r)'
    <3>1. /\ phase[r] = "new" /\ phase'[r] = "seeding" /\ listed'[r] = snapshot
          /\ seeds'[r] = FoldedMatching(r, snapshot)
          /\ folded'[r] = folded[r] /\ errors'[r] = errors[r] /\ merged'[r] = merged[r]
          /\ \A f \in Files : pc'[r][f] \in {"none", "spawned"}
      BY <2>3 DEF Resolve, Types
    <3>2. folded[r] = {} /\ errors[r] = 0 /\ \A f \in Files : merged[r][f] = 0
      BY <2>2, <3>1 DEF Fresh
    <3>3. Taken(r)' = {} /\ Cardinality(Taken(r)') = 0
      BY <3>1, FS_EmptySet DEF Taken
    <3>4. seeds'[r] \subseteq snapshot /\ (r \notin PollsReaders => seeds'[r] = snapshot)
      BY <3>1 DEF FoldedMatching
    <3>5. r \notin PollsReaders => Missed(r)' = {} /\ Cardinality(Missed(r)') = 0
      BY <3>1, <3>3, <3>4, FS_EmptySet DEF Missed, Seen
    <3> QED BY <3>1, <3>2, <3>3, <3>4, <3>5 DEF Books
  <2>4. ASSUME ResolveListed(r) \/ ResolveUnlisted(r)
        PROVE  Books(r)'
    <3>1. Folded \in SUBSET Files /\ {} \in SUBSET Files
      BY DEF Folded
    <3> QED BY <2>3, <2>4, <3>1 DEF ResolveListed, ResolveUnlisted
  <2>5. ASSUME ResolveEmpty(r) \/ Finish(r) \/ Disconnect(r)
        PROVE  Books(r)'
    <3>1. /\ UNCHANGED <<pc, listed, seeds, folded, merged, errors>>
          /\ phase'[r] \in {"empty", "gone"} \/
                (/\ phase[r] = "folding" /\ phase'[r] = "done"
                 /\ \A f \in Files : pc[r][f] \in {"none", "taken"})
      BY <2>5 DEF ResolveEmpty, Finish, Disconnect, taskVars, Types
    <3>2. Taken(r)' = Taken(r) /\ Seen(r)' = Seen(r) /\ Missed(r)' = Missed(r)
      BY <3>1 DEF Taken, Seen, Missed
    <3>3. CASE phase'[r] \in {"empty", "gone"}
      BY <2>2, <3>1, <3>2, <3>3 DEF Books
    <3>4. CASE /\ phase[r] = "folding" /\ phase'[r] = "done"
               /\ \A f \in Files : pc[r][f] \in {"none", "taken"}
      BY <2>2, <3>1, <3>2, <3>4 DEF Books
    <3> QED BY <3>1, <3>3, <3>4
  <2>6. ASSUME NEW bad \in SUBSET seeds[r], SeedBatch(r, bad)
        PROVE  Books(r)'
    <3>1. /\ r \notin PollsReaders /\ bad \subseteq Batch(r) /\ Batch(r) \subseteq seeds[r]
          /\ Apply(r, Batch(r) \ bad, bad)
          /\ seeds'[r] = seeds[r] \ Batch(r) /\ pc' = pc /\ listed' = listed
          /\ phase'[r] = IF seeds'[r] = {} THEN "folding" ELSE "seeding"
      BY <2>6 DEF SeedBatch, taskVars, Batch, Types
    <3>2. seeds[r] \cap Seen(r) = {} /\ seeds[r] \subseteq listed[r] /\ seeds[r] \subseteq Files
      BY Unseen DEF Types
    <3>3. Taken(r)' = Taken(r)
      BY <3>1 DEF Taken
    <3>4. Seen(r)' = Seen(r) \cup (Batch(r) \ bad) \cup bad
      BY <3>1, <3>2, <3>3 DEF Seen
    <3>5. /\ folded'[r] \subseteq Seen(r)'
          /\ errors'[r] = Cardinality(Missed(r)')
          /\ \A f \in Files : merged'[r][f] = IF f \in folded'[r] THEN 1 ELSE 0
      <4> DEFINE good == Batch(r) \ bad
      <4>1. /\ good \in SUBSET Files /\ bad \in SUBSET Files /\ good \cap bad = {}
            /\ (good \cup bad) \cap Seen(r) = {}
        BY <3>1, <3>2
      <4>2. Apply(r, good, bad) /\ Seen(r)' = Seen(r) \cup good \cup bad
        BY <3>1, <3>4
      <4> HIDE DEF good
      <4> QED BY <2>2, <3>1, <4>1, <4>2, ApplyBooks
    <3> QED BY <3>1, <3>2, <3>5 DEF Books
  <2>7. ASSUME NEW bad \in SUBSET seeds[r], ReadPolls(r, bad)
        PROVE  Books(r)'
    <3>1. /\ r \in PollsReaders /\ seeds'[r] = {} /\ phase'[r] = "folding"
          /\ UNCHANGED <<pc, listed, errors>>
      BY <2>7 DEF ReadPolls, taskVars, Types
    <3>2. Taken(r)' = Taken(r)
      BY <3>1 DEF Taken
    <3> QED BY <2>2, <3>1, <3>2 DEF Books
  <2>8. ASSUME NEW f \in Files, NEW outcome, Take(r, f, outcome),
               \/ Apply(r, {f}, {}) \/ Apply(r, {}, {f})
               \/ r \in PollsReaders /\ UNCHANGED errors
        PROVE  Books(r)'
    <3>1. /\ pc[r][f] = "ended" /\ phase' = phase /\ phase[r] = "folding"
          /\ UNCHANGED <<listed, seeds>>
          /\ \A g \in Files : pc'[r][g] = IF g = f THEN "taken" ELSE pc[r][g]
      BY <2>8 DEF Take, Types
    <3>2. f \notin Seen(r) /\ f \notin Taken(r)
      BY <3>1, Unseen DEF Taken
    <3>3. Taken(r)' = Taken(r) \cup {f}
      BY <3>1 DEF Taken
    <3>4. Seen(r)' = Seen(r) \cup {f}
      BY <3>1, <3>3 DEF Seen
    <3>5. CASE r \notin PollsReaders
      <4>1. /\ folded'[r] \subseteq Seen(r)'
            /\ errors'[r] = Cardinality(Missed(r)')
            /\ \A g \in Files : merged'[r][g] = IF g \in folded'[r] THEN 1 ELSE 0
        <5>1. /\ {f} \in SUBSET Files /\ {} \in SUBSET Files /\ {f} \cap {} = {} /\ {} \cap {f} = {}
              /\ ({f} \cup {}) \cap Seen(r) = {} /\ ({} \cup {f}) \cap Seen(r) = {}
              /\ Seen(r)' = Seen(r) \cup {f} \cup {} /\ Seen(r)' = Seen(r) \cup {} \cup {f}
          BY <3>2, <3>4
        <5>2. CASE Apply(r, {f}, {})
          BY <2>2, <3>5, <5>1, <5>2, ApplyBooks
        <5>3. CASE Apply(r, {}, {f})
          BY <2>2, <3>5, <5>1, <5>3, ApplyBooks
        <5> QED BY <2>8, <3>5, <5>2, <5>3
      <4> QED BY <2>2, <3>1, <3>5, <4>1 DEF Books
    <3>6. CASE r \in PollsReaders
      <4>1. Taken(r) \in SUBSET Files
        BY DEF Taken
      <4>2. Cardinality(Taken(r)') = Cardinality(Taken(r)) + 1 /\ Cardinality(Taken(r)) \in Nat
        BY <3>2, <3>3, <4>1, FilesFinite, FS_AddElement
      <4>3. errors'[r] <= errors[r] + 1 /\ errors[r] \in Nat /\ errors'[r] \in Nat
        <5>1. Cardinality({f}) = 1 /\ Cardinality({}) = 0
          BY FS_Singleton, FS_EmptySet
        <5> QED BY <2>8, <5>1 DEF Apply, Types
      <4>4. errors[r] <= Cardinality(Taken(r))
        BY <2>2, <3>6 DEF Books
      <4>5. errors'[r] <= Cardinality(Taken(r)')
        BY <4>2, <4>3, <4>4
      <4> QED BY <2>2, <3>1, <3>6, <4>5 DEF Books
    <3> QED BY <3>5, <3>6
  <2>9. ASSUME NEW f \in Files, TakeFolded(r, f) \/ TakeUnreadable(r, f) \/ TakeFailed(r, f)
        PROVE  Books(r)'
    BY <2>8, <2>9 DEF TakeFolded, TakeUnreadable, TakeFailed
  <2>10. Books(r)'
    <3>1. CASE \E bad \in SUBSET seeds[r] : SeedBatch(r, bad) \/ ReadPolls(r, bad)
      BY <2>6, <2>7, <3>1
    <3>2. CASE \E f \in Files : TakeFolded(r, f) \/ TakeUnreadable(r, f) \/ TakeFailed(r, f)
      BY <2>9, <3>2
    <3> QED BY <1>1, <2>4, <2>5, <3>1, <3>2 DEF Request
  <2> QED BY <2>1, <2>10 DEF BooksKept
<1>2. ASSUME NEW r \in Requests, NEW f \in Files, Task(r, f)
      PROVE  BooksKept'
  <2>1. Frame(r, f)
    BY <1>2, TaskFrame
  <2>2. /\ UNCHANGED requestVars
        /\ \A q \in Requests, g \in Files : pc'[q][g] = pc[q][g] \/ (q = r /\ g = f)
        /\ pc[r][f] \notin {"none", "taken"} /\ pc'[r][f] \notin {"none", "taken"}
    BY <2>1 DEF Frame
  <2>3. SUFFICES ASSUME NEW q \in Requests
                 PROVE  Books(q)'
    BY DEF BooksKept
  <2>4. Taken(q)' = Taken(q)
    BY <2>2 DEF Taken
  <2>5. Seen(q)' = Seen(q) /\ Missed(q)' = Missed(q)
    BY <2>2, <2>4 DEF Seen, Missed, requestVars
  <2> QED BY <2>2, <2>4, <2>5 DEF BooksKept, Books, requestVars
<1>3. CASE \/ \E t \in detached : DetachedEnds(t)
           \/ \E f \in Files, p \in AllParts : LateLands(f, p) \/ LateIsLost(f, p)
           \/ UNCHANGED vars
  <2>1. UNCHANGED <<pc, requestVars>>
    BY <1>3 DEF DetachedEnds, LateLands, LateIsLost, vars, taskVars
  <2>2. SUFFICES ASSUME NEW q \in Requests
                 PROVE  Books(q)'
    BY DEF BooksKept
  <2>3. Taken(q)' = Taken(q) /\ Seen(q)' = Seen(q) /\ Missed(q)' = Missed(q)
    BY <2>1 DEF requestVars, Taken, Seen, Missed
  <2> QED BY <2>1, <2>3 DEF requestVars, BooksKept, Books
<1> QED BY <1>1, <1>2, <1>3 DEF Next, Terminated

-----------------------------------------------------------------------------
(* The theorems                                                            *)

LEMMA IInvStep == IInv /\ [Next]_vars => IInv'
BY TypesStep, PutsStep, MarkerStep, LocksStep, FetchesStep, WorkStep, BooksStep DEF IInv

LEMMA Invariant == Spec => []IInv
BY InitIInv, IInvStep, PTL DEF Spec

(* A file that is recorded as folded has all its part-files, however many  *)
(* requests write it, fail, or are cancelled in the middle of write_parts. *)
THEOREM MarkerTheorem == Spec => []MarkerMeansComplete
<1>1. IInv => MarkerMeansComplete
  <2>1. ASSUME IInv, NEW f \in Files, Marker \in parts[f]
        PROVE  parts[f] = AllParts
    BY <2>1 DEF IInv, Types, MarkerLast, AllParts
  <2> QED BY <2>1 DEF MarkerMeansComplete
<1> QED BY <1>1, Invariant, PTL

(* A source file is fetched once, but for the folds of it that failed or   *)
(* were cancelled: the registry hands out one lock at a time although the  *)
(* last task out removes the entry before it drops its own reference.      *)
THEOREM FetchTheorem == Spec => []FetchedOnce
<1>1. IInv => FetchedOnce
  BY DEF IInv, FetchesPaid, FetchedOnce
<1> QED BY <1>1, Invariant, PTL

(* A stream reports exactly what it has merged, merges no file twice, and  *)
(* at its end has counted every file that it misses.                       *)
THEOREM CoverageTheorem == Spec => []CoverageInv
<1> USE FoldAssumption
<1>1. ASSUME IInv PROVE TypeOK
  <2>1. ASSUME NEW r \in Requests
        PROVE  errors[r] \in 0 .. NumFiles
    <3>1. Taken(r) \in SUBSET Files /\ Missed(r) \in SUBSET Files
      BY <1>1 DEF IInv, Types, Missed, Seen, Taken
    <3>2. /\ Cardinality(Taken(r)) \in 0 .. NumFiles
          /\ Cardinality(Missed(r)) \in 0 .. NumFiles
      BY <3>1, FilesFinite
    <3>3. Books(r) /\ errors[r] \in Nat
      BY <1>1 DEF IInv, BooksKept, Types
    <3> QED BY <3>2, <3>3 DEF Books
  <2> QED BY <1>1, <2>1 DEF IInv, Types, TypeOK
<1>2. IInv => CoverageIsExact
  BY DEF IInv, BooksKept, Books, CoverageIsExact
<1>3. ASSUME IInv PROVE NoSilentGap
  <2>1. SUFFICES ASSUME NEW r \in Requests \ PollsReaders, phase[r] = "done"
                 PROVE  Cardinality((listed[r] \cup (IF r \in SeedOnly THEN {} ELSE Capped(r)))
                                      \ folded[r]) = errors[r]
    BY DEF NoSilentGap
  <2>2. Books(r) /\ WorkList(r)
    BY <1>3 DEF IInv, BooksKept, WorkListed
  <2>3. Capped(r) \subseteq Files
    BY DEF Capped, Files
  <2>4. Taken(r) = IF r \in SeedOnly THEN {} ELSE Capped(r) \ listed[r]
    BY <2>1, <2>2, <2>3 DEF Books, WorkList, Taken
  <2>5. Seen(r) = listed[r] \cup (IF r \in SeedOnly THEN {} ELSE Capped(r))
    BY <2>1, <2>2, <2>4 DEF Books, Seen
  <2> QED BY <2>2, <2>5 DEF Books, Missed
<1> QED BY <1>1, <1>2, <1>3, Invariant, PTL DEF CoverageInv
=============================================================================
