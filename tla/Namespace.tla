------------------------------ MODULE Namespace ------------------------------
(***************************************************************************)
(* The per-process namespaces of one trace directory (boot_id.rs).  Every  *)
(* process makes {trace_dir}/{boot_id}/, locks its .lock with flock, then  *)
(* reclaims the namespaces of dead peers, each system call a step of its   *)
(* own.  A boot id is used by one process only, so a process stands for    *)
(* its id and for its directory.  flock belongs to the open file: a lock   *)
(* on a .lock that was unlinked is still held, and nobody can see it.      *)
(***************************************************************************)
EXTENDS Naturals, FiniteSets

CONSTANTS
    Procs,          \* processes that start, one after or beside the other
    Collects,       \* those of them that ask for gc
    MaxSegments,    \* segments a process writes
    Strangers       \* whether files of others appear in namespaces

NoOne == "no one"

ASSUME NamespaceAssumption ==
    /\ NoOne \notin Procs
    /\ Collects \subseteq Procs
    /\ MaxSegments \in Nat
    /\ Strangers \in BOOLEAN

VARIABLES
    exists,         \* directories there are
    files,          \* what each one holds
    holder,         \* who has flocked the .lock each process created
    pc,             \* where a process is in its setup, its gc or its life
    todo,           \* entries of the trace directory gc has not come to
    at,             \* the namespace gc looks at
    victims,        \* files of it that are left to remove
    written,        \* history: segments each process wrote
    early,          \* history: namespaces found free before they were locked
    due             \* history: what each collector has to reclaim by itself

vars == <<exists, files, holder, pc, todo, at, victims, written, early, due>>

(* File names: .lock, segments, and one that dial9 never gives.            *)
LockFile == 0
Stranger == MaxSegments + 1
Names == {LockFile, Stranger} \cup (1..MaxSegments)

Unborn == {"idle"}
Setup == {"opening", "locking"}
Gc == {"scanning", "peers", "probing", "unlocking", "listing", "removing"}
Owning == Gc \cup {"ready", "running"}
Over == {"failed", "dead"}

TypeOK ==
    /\ exists \subseteq Procs
    /\ files \in [Procs -> SUBSET Names]
    /\ \A p \in Procs \ exists : files[p] = {}
    /\ holder \in [Procs -> Procs \cup {NoOne}]
    /\ pc \in [Procs -> Unborn \cup Setup \cup Owning \cup Over]
    /\ todo \in [Procs -> SUBSET Procs]
    /\ \A p \in Procs : p \notin todo[p]
    /\ at \in [Procs -> Procs]
    /\ victims \in [Procs -> SUBSET Names]
    /\ written \in [Procs -> SUBSET (1..MaxSegments)]
    /\ early \subseteq Procs
    /\ due \in [Procs -> SUBSET Procs]

Init ==
    /\ exists = {}
    /\ files = [p \in Procs |-> {}]
    /\ holder = [p \in Procs |-> NoOne]
    /\ pc = [p \in Procs |-> "idle"]
    /\ todo = [p \in Procs |-> {}]
    /\ at = [p \in Procs |-> p]
    /\ victims = [p \in Procs |-> {}]
    /\ written = [p \in Procs |-> {}]
    /\ early = {}
    /\ due = [p \in Procs |-> {}]

Goto(p, here, there) == pc[p] = here /\ pc' = [pc EXCEPT ![p] = there]

-----------------------------------------------------------------------------
(* acquire_namespace_lock: create_dir_all, open with create, flock.        *)
MakeDir(p) ==
    /\ Goto(p, "idle", "opening")
    /\ exists' = exists \cup {p}
    /\ UNCHANGED <<files, holder, todo, at, victims, written, early, due>>

OpenLock(p) ==
    /\ p \in exists
    /\ Goto(p, "opening", "locking")
    /\ files' = [files EXCEPT ![p] = @ \cup {LockFile}]
    /\ UNCHANGED <<exists, holder, todo, at, victims, written, early, due>>

(* The directory is gone already.                                          *)
OpenFails(p) ==
    /\ p \notin exists
    /\ Goto(p, "opening", "failed")
    /\ UNCHANGED <<exists, files, holder, todo, at, victims, written, early, due>>

Flock(p) ==
    /\ holder[p] = NoOne
    /\ Goto(p, "locking", "scanning")
    /\ holder' = [holder EXCEPT ![p] = p]
    /\ UNCHANGED <<exists, files, todo, at, victims, written, early, due>>

(* WouldBlock: a peer's probe has it.                                      *)
FlockBlocked(p) ==
    /\ holder[p] # NoOne
    /\ Goto(p, "locking", "failed")
    /\ UNCHANGED <<exists, files, holder, todo, at, victims, written, early, due>>

-----------------------------------------------------------------------------
Reclaimable(q) == pc[q] \in Over /\ Stranger \notin files[q]

(* gc_dead_namespaces: read_dir and the filter on names.  A collector that *)
(* is alone when it begins, and stays so, answers for what is dead by now. *)
Scan(p) ==
    /\ p \in Collects
    /\ Goto(p, "scanning", "peers")
    /\ todo' = [todo EXCEPT ![p] = exists \ {p}]
    /\ due' = [q \in Procs |->
                 IF q = p /\ \A r \in Procs \ {p} : pc[r] \notin Gc
                 THEN {r \in Procs : Reclaimable(r)} ELSE {}]
    /\ UNCHANGED <<exists, files, holder, at, victims, written, early>>

NoScan(p) ==
    /\ p \notin Collects
    /\ Goto(p, "scanning", "ready")
    /\ UNCHANGED <<exists, files, holder, todo, at, victims, written, early, due>>

ScanEnds(p) ==
    /\ todo[p] = {}
    /\ Goto(p, "peers", "ready")
    /\ UNCHANGED <<exists, files, holder, todo, at, victims, written, early, due>>

(* A namespace found free while its owner is still on its way to lock it.  *)
Noted(q) == IF pc[q] \in Setup THEN early \cup {q} ELSE early

(* Variant of the probe's answer without a .lock: conservative.            *)
NoLockIsFreeNever == FALSE

(* is_held: a .lock that cannot be opened is held by nobody.               *)
NoLockIsFree == TRUE

(* The next entry: its metadata, and the open of is_held.                  *)
Visit(p) ==
    \E q \in todo[p] :
        /\ pc[p] = "peers"
        /\ todo' = [todo EXCEPT ![p] = @ \ {q}]
        /\ at' = [at EXCEPT ![p] = q]
        /\ pc' = [pc EXCEPT ![p] =
                    CASE q \notin exists -> "peers"
                      [] LockFile \in files[q] -> "probing"
                      [] OTHER -> IF NoLockIsFree THEN "listing" ELSE "peers"]
        /\ early' = IF pc'[p] = "listing" THEN Noted(q) ELSE early
        /\ UNCHANGED <<exists, files, holder, victims, written, due>>

(* Variant of Free: a lock that does not exclude the owner's.              *)
FreeAlways(q) == TRUE

Free(q) == holder[q] = NoOne

ProbeFree(p) ==
    /\ Free(at[p])
    /\ Goto(p, "probing", "unlocking")
    /\ holder' = [holder EXCEPT ![at[p]] = p]
    /\ early' = Noted(at[p])
    /\ UNCHANGED <<exists, files, todo, at, victims, written, due>>

ProbeHeld(p) ==
    /\ ~Free(at[p])
    /\ Goto(p, "probing", "peers")
    /\ UNCHANGED <<exists, files, holder, todo, at, victims, written, early, due>>

ProbeUnlock(p) ==
    /\ Goto(p, "unlocking", "listing")
    /\ holder' = [holder EXCEPT ![at[p]] = NoOne]
    /\ UNCHANGED <<exists, files, todo, at, victims, written, early, due>>

(* try_remove_namespace: nothing is removed if a file is not recognized.   *)
List(p) ==
    /\ Goto(p, "listing", IF at[p] \in exists /\ Stranger \notin files[at[p]]
                          THEN "removing" ELSE "peers")
    /\ victims' = [victims EXCEPT ![p] =
                     IF pc'[p] = "removing" THEN files[at[p]] ELSE {}]
    /\ UNCHANGED <<exists, files, holder, todo, at, written, early, due>>

RemoveFile(p) ==
    /\ pc[p] = "removing"
    /\ \E f \in victims[p] :
         \/ /\ f \in files[at[p]]
            /\ files' = [files EXCEPT ![at[p]] = @ \ {f}]
            /\ victims' = [victims EXCEPT ![p] = @ \ {f}]
            /\ pc' = pc
         \/ /\ f \notin files[at[p]]
            /\ victims' = [victims EXCEPT ![p] = {}]
            /\ pc' = [pc EXCEPT ![p] = "peers"]
            /\ files' = files
    /\ UNCHANGED <<exists, holder, todo, at, written, early, due>>

RemoveDir(p) ==
    /\ victims[p] = {}
    /\ Goto(p, "removing", "peers")
    /\ exists' = IF files[at[p]] = {} THEN exists \ {at[p]} ELSE exists
    /\ UNCHANGED <<files, holder, todo, at, victims, written, early, due>>

-----------------------------------------------------------------------------
(* SegmentWriter::create makes the directory again if it is gone.          *)
CreateWriter(p) ==
    /\ Goto(p, "ready", "running")
    /\ exists' = exists \cup {p}
    /\ UNCHANGED <<files, holder, todo, at, victims, written, early, due>>

(* DiskFs::create_segment, which does so too.                              *)
CreateSegment(p) ==
    /\ pc[p] = "running"
    /\ Cardinality(written[p]) < MaxSegments
    /\ LET n == Cardinality(written[p]) + 1
       IN  /\ files' = [files EXCEPT ![p] = @ \cup {n}]
           /\ written' = [written EXCEPT ![p] = @ \cup {n}]
    /\ exists' = exists \cup {p}
    /\ UNCHANGED <<holder, pc, todo, at, victims, early, due>>

(* A process ends, at any point: its locks go, its files stay.             *)
Die(p) ==
    /\ pc[p] \in Setup \cup Owning
    /\ pc' = [pc EXCEPT ![p] = "dead"]
    /\ holder' = [q \in Procs |-> IF holder[q] = p THEN NoOne ELSE holder[q]]
    /\ UNCHANGED <<exists, files, todo, at, victims, written, early, due>>

(* Somebody else's file.                                                   *)
DropStranger(p) ==
    /\ Strangers
    /\ p \in exists
    /\ Stranger \notin files[p]
    /\ files' = [files EXCEPT ![p] = @ \cup {Stranger}]
    /\ due' = [q \in Procs |-> due[q] \ {p}]
    /\ UNCHANGED <<exists, holder, pc, todo, at, victims, written, early>>

Next ==
    \E p \in Procs :
        \/ MakeDir(p) \/ OpenLock(p) \/ OpenFails(p)
        \/ Flock(p) \/ FlockBlocked(p)
        \/ Scan(p) \/ NoScan(p) \/ ScanEnds(p) \/ Visit(p)
        \/ ProbeFree(p) \/ ProbeHeld(p) \/ ProbeUnlock(p)
        \/ List(p) \/ RemoveFile(p) \/ RemoveDir(p)
        \/ CreateWriter(p) \/ CreateSegment(p) \/ Die(p) \/ DropStranger(p)

Spec == Init /\ [][Next]_vars

-----------------------------------------------------------------------------
Whole(p) == p \in exists /\ {LockFile} \cup written[p] \subseteq files[p]

(* The lock protects a namespace from the moment it is taken, through any  *)
(* number of collectors, unless one of them had found it free before       *)
(* (flock::is_held against acquire_namespace_lock).                        *)
LockProtects == \A p \in Procs : pc[p] \in Owning /\ p \notin early => Whole(p)

(* A peer that is alive and holds its lock keeps the segments it wrote:    *)
(* what gc_preserves_live_peer_holding_lock expects of gc_dead_namespaces. *)
LivePeersKept ==
    \A p \in Procs : pc[p] = "running" => written[p] \subseteq files[p]

(* No file that dial9 does not recognize is ever removed, whenever it      *)
(* appears (try_remove_namespace fails closed and is not recursive).       *)
StrangersStay ==
    [][\A p \in Procs : Stranger \in files[p] => Stranger \in files'[p]]_vars

(* A collector that nobody interferes with has reclaimed every namespace   *)
(* that was dead when it began, those included that an earlier collector   *)
(* died in the middle of (gc_dead_namespaces).                             *)
DeadReclaimed ==
    \A p \in Procs : pc[p] \in {"ready", "running"} => due[p] \cap exists = {}

(* A collection takes what it should and nothing else: the dead are gone   *)
(* when it ends, and a file of another program is never removed, whoever   *)
(* collects at the same time or died collecting.                           *)
CollectionIsExact == [](TypeOK /\ DeadReclaimed) /\ StrangersStay
=============================================================================
