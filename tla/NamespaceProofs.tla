--------------------------- MODULE NamespaceProofs ---------------------------
(***************************************************************************)
(* The lock of a namespace protects it, and a collection takes the dead    *)
(* and nothing else, for every number of processes.                        *)
(***************************************************************************)
EXTENDS Namespace, FiniteSetTheorems, TLAPS

(* Steps of a collector that has looked into a namespace, and those from   *)
(* which it will go on to remove it.                                       *)
Looking == {"probing", "unlocking", "listing", "removing"}
Deciding == {"unlocking", "listing", "removing"}

(* An owner has its own lock, and a collector between LOCK_EX and LOCK_UN  *)
(* has the lock of its peer.                                               *)
LocksHeld ==
    /\ \A p \in Procs : pc[p] \in Owning => holder[p] = p
    /\ \A c \in Procs : pc[c] = "unlocking" => holder[at[c]] = c

(* Nobody collects its own namespace.                                      *)
PeersOnly == \A c \in Procs : pc[c] \in Looking => at[c] # c

(* Nobody knows of a process that has not started.                         *)
UnbornUnseen ==
    \A p \in Procs : pc[p] = "idle" =>
        /\ p \notin exists
        /\ written[p] = {}
        /\ \A c \in Procs : p \notin todo[c] /\ (at[c] = p => pc[c] \notin Looking)

(* A namespace no collector found free too early is whole, and no          *)
(* collector is on its way to remove it.                                   *)
Guarded ==
    \A p \in Procs : pc[p] \in Setup \cup Owning /\ p \notin early =>
        /\ p \in exists
        /\ written[p] \subseteq files[p]
        /\ pc[p] # "opening" => LockFile \in files[p]
        /\ \A c \in Procs : at[c] = p => pc[c] \notin Deciding

LockInv == TypeOK /\ LocksHeld /\ PeersOnly /\ UnbornUnseen /\ Guarded

-----------------------------------------------------------------------------
LEMMA LockInvInit == Init => LockInv
  BY NamespaceAssumption DEF Init, LockInv, TypeOK, LocksHeld, PeersOnly,
     UnbornUnseen, Guarded, Names, Unborn, Setup, Gc, Owning, Over, Looking

LEMMA MakeDirKeeps ==
  ASSUME LockInv, NEW p \in Procs, MakeDir(p) PROVE LockInv'
<1>1. TypeOK'
  BY DEF LockInv, MakeDir, Goto, TypeOK, Names, LockFile, Stranger,
     Unborn, Setup, Gc, Owning, Over
<1>2. LocksHeld'
  BY DEF LockInv, MakeDir, Goto, LocksHeld, TypeOK,
     Unborn, Setup, Gc, Owning, Over
<1>3. PeersOnly'
  BY DEF LockInv, MakeDir, Goto, PeersOnly, TypeOK, Looking,
     Unborn, Setup, Gc, Owning, Over
<1>4. UnbornUnseen'
  BY DEF LockInv, MakeDir, Goto, UnbornUnseen, TypeOK, Looking,
     Unborn, Setup, Gc, Owning, Over
<1>5. Guarded'
  BY DEF LockInv, MakeDir, Goto, UnbornUnseen, Looking, Guarded, Deciding, TypeOK,
     Unborn, Setup, Gc, Owning, Over
<1> QED  BY <1>1, <1>2, <1>3, <1>4, <1>5 DEF LockInv

LEMMA OpenLockKeeps ==
  ASSUME LockInv, NEW p \in Procs, OpenLock(p) PROVE LockInv'
<1>1. TypeOK'
  BY DEF LockInv, OpenLock, Goto, TypeOK, Names, LockFile, Stranger,
     Unborn, Setup, Gc, Owning, Over
<1>2. LocksHeld'
  BY DEF LockInv, OpenLock, Goto, LocksHeld, TypeOK,
     Unborn, Setup, Gc, Owning, Over
<1>3. PeersOnly'
  BY DEF LockInv, OpenLock, Goto, PeersOnly, TypeOK, Looking,
     Unborn, Setup, Gc, Owning, Over
<1>4. UnbornUnseen'
  BY DEF LockInv, OpenLock, Goto, UnbornUnseen, TypeOK, Looking,
     Unborn, Setup, Gc, Owning, Over
<1>5. Guarded'
  BY DEF LockInv, OpenLock, Goto, Guarded, Deciding, TypeOK,
     Unborn, Setup, Gc, Owning, Over
<1> QED  BY <1>1, <1>2, <1>3, <1>4, <1>5 DEF LockInv

LEMMA OpenFailsKeeps ==
  ASSUME LockInv, NEW p \in Procs, OpenFails(p) PROVE LockInv'
<1>1. TypeOK'
  BY DEF LockInv, OpenFails, Goto, TypeOK, Names, LockFile, Stranger,
     Unborn, Setup, Gc, Owning, Over
<1>2. LocksHeld'
  BY DEF LockInv, OpenFails, Goto, LocksHeld, TypeOK,
     Unborn, Setup, Gc, Owning, Over
<1>3. PeersOnly'
  BY DEF LockInv, OpenFails, Goto, PeersOnly, TypeOK, Looking,
     Unborn, Setup, Gc, Owning, Over
<1>4. UnbornUnseen'
  BY DEF LockInv, OpenFails, Goto, UnbornUnseen, TypeOK, Looking,
     Unborn, Setup, Gc, Owning, Over
<1>5. Guarded'
  BY DEF LockInv, OpenFails, Goto, Guarded, Deciding, TypeOK,
     Unborn, Setup, Gc, Owning, Over
<1> QED  BY <1>1, <1>2, <1>3, <1>4, <1>5 DEF LockInv

LEMMA FlockKeeps ==
  ASSUME LockInv, NEW p \in Procs, Flock(p) PROVE LockInv'
<1>1. TypeOK'
  BY DEF LockInv, Flock, Goto, TypeOK, Names, LockFile, Stranger,
     Unborn, Setup, Gc, Owning, Over
<1>2. LocksHeld'
  BY NamespaceAssumption DEF LockInv, Flock, Goto, LocksHeld, TypeOK,
     Unborn, Setup, Gc, Owning, Over
<1>3. PeersOnly'
  BY DEF LockInv, Flock, Goto, PeersOnly, TypeOK, Looking,
     Unborn, Setup, Gc, Owning, Over
<1>4. UnbornUnseen'
  BY DEF LockInv, Flock, Goto, UnbornUnseen, TypeOK, Looking,
     Unborn, Setup, Gc, Owning, Over
<1>5. Guarded'
  BY DEF LockInv, Flock, Goto, Guarded, Deciding, TypeOK,
     Unborn, Setup, Gc, Owning, Over
<1> QED  BY <1>1, <1>2, <1>3, <1>4, <1>5 DEF LockInv

LEMMA FlockBlockedKeeps ==
  ASSUME LockInv, NEW p \in Procs, FlockBlocked(p) PROVE LockInv'
<1>1. TypeOK'
  BY DEF LockInv, FlockBlocked, Goto, TypeOK, Names, LockFile, Stranger,
     Unborn, Setup, Gc, Owning, Over
<1>2. LocksHeld'
  BY DEF LockInv, FlockBlocked, Goto, LocksHeld, TypeOK,
     Unborn, Setup, Gc, Owning, Over
<1>3. PeersOnly'
  BY DEF LockInv, FlockBlocked, Goto, PeersOnly, TypeOK, Looking,
     Unborn, Setup, Gc, Owning, Over
<1>4. UnbornUnseen'
  BY DEF LockInv, FlockBlocked, Goto, UnbornUnseen, TypeOK, Looking,
     Unborn, Setup, Gc, Owning, Over
<1>5. Guarded'
  BY DEF LockInv, FlockBlocked, Goto, Guarded, Deciding, TypeOK,
     Unborn, Setup, Gc, Owning, Over
<1> QED  BY <1>1, <1>2, <1>3, <1>4, <1>5 DEF LockInv

LEMMA ScanKeeps ==
  ASSUME LockInv, NEW p \in Procs, Scan(p) PROVE LockInv'
<1>1. TypeOK'
  BY DEF LockInv, Scan, Goto, TypeOK, Names, LockFile, Stranger,
     Unborn, Setup, Gc, Owning, Over
<1>2. LocksHeld'
  BY DEF LockInv, Scan, Goto, LocksHeld, TypeOK,
     Unborn, Setup, Gc, Owning, Over
<1>3. PeersOnly'
  BY DEF LockInv, Scan, Goto, PeersOnly, TypeOK, Looking,
     Unborn, Setup, Gc, Owning, Over
<1>4. UnbornUnseen'
  BY DEF LockInv, Scan, Goto, UnbornUnseen, TypeOK, Looking,
     Unborn, Setup, Gc, Owning, Over
<1>5. Guarded'
  BY DEF LockInv, Scan, Goto, Guarded, Deciding, TypeOK,
     Unborn, Setup, Gc, Owning, Over
<1> QED  BY <1>1, <1>2, <1>3, <1>4, <1>5 DEF LockInv

LEMMA NoScanKeeps ==
  ASSUME LockInv, NEW p \in Procs, NoScan(p) PROVE LockInv'
<1>1. TypeOK'
  BY DEF LockInv, NoScan, Goto, TypeOK, Names, LockFile, Stranger,
     Unborn, Setup, Gc, Owning, Over
<1>2. LocksHeld'
  BY DEF LockInv, NoScan, Goto, LocksHeld, TypeOK,
     Unborn, Setup, Gc, Owning, Over
<1>3. PeersOnly'
  BY DEF LockInv, NoScan, Goto, PeersOnly, TypeOK, Looking,
     Unborn, Setup, Gc, Owning, Over
<1>4. UnbornUnseen'
  BY DEF LockInv, NoScan, Goto, UnbornUnseen, TypeOK, Looking,
     Unborn, Setup, Gc, Owning, Over
<1>5. Guarded'
  BY DEF LockInv, NoScan, Goto, Guarded, Deciding, TypeOK,
     Unborn, Setup, Gc, Owning, Over
<1> QED  BY <1>1, <1>2, <1>3, <1>4, <1>5 DEF LockInv

LEMMA ScanEndsKeeps ==
  ASSUME LockInv, NEW p \in Procs, ScanEnds(p) PROVE LockInv'
<1>1. TypeOK'
  BY DEF LockInv, ScanEnds, Goto, TypeOK, Names, LockFile, Stranger,
     Unborn, Setup, Gc, Owning, Over
<1>2. LocksHeld'
  BY DEF LockInv, ScanEnds, Goto, LocksHeld, TypeOK,
     Unborn, Setup, Gc, Owning, Over
<1>3. PeersOnly'
  BY DEF LockInv, ScanEnds, Goto, PeersOnly, TypeOK, Looking,
     Unborn, Setup, Gc, Owning, Over
<1>4. UnbornUnseen'
  BY DEF LockInv, ScanEnds, Goto, UnbornUnseen, TypeOK, Looking,
     Unborn, Setup, Gc, Owning, Over
<1>5. Guarded'
  BY DEF LockInv, ScanEnds, Goto, Guarded, Deciding, TypeOK,
     Unborn, Setup, Gc, Owning, Over
<1> QED  BY <1>1, <1>2, <1>3, <1>4, <1>5 DEF LockInv

LEMMA VisitKeeps ==
  ASSUME LockInv, NEW p \in Procs, Visit(p) PROVE LockInv'
<1>0. PICK q \in todo[p] :
        /\ pc[p] = "peers"
        /\ todo' = [todo EXCEPT ![p] = @ \ {q}]
        /\ at' = [at EXCEPT ![p] = q]
        /\ pc' = [pc EXCEPT ![p] = pc'[p]]
        /\ pc'[p] \in {"peers", "probing", "listing"}
        /\ pc'[p] = "listing" => q \in exists /\ LockFile \notin files[q]
        /\ early' = IF pc'[p] = "listing" /\ pc[q] \in Setup
                    THEN early \cup {q} ELSE early
        /\ UNCHANGED <<exists, files, holder, victims, written, due>>
  <2>1. PICK q \in todo[p] :
          /\ pc[p] = "peers"
          /\ todo' = [todo EXCEPT ![p] = @ \ {q}]
          /\ at' = [at EXCEPT ![p] = q]
          /\ pc' = [pc EXCEPT ![p] =
                      CASE q \notin exists -> "peers"
                        [] LockFile \in files[q] -> "probing"
                        [] OTHER -> "listing"]
          /\ early' = IF pc'[p] = "listing" THEN Noted(q) ELSE early
          /\ UNCHANGED <<exists, files, holder, victims, written, due>>
    BY DEF Visit, NoLockIsFree
  <2>2. pc'[p] = CASE q \notin exists -> "peers"
                   [] LockFile \in files[q] -> "probing"
                   [] OTHER -> "listing"
    BY <2>1 DEF LockInv, TypeOK
  <2>3. /\ pc'[p] \in {"peers", "probing", "listing"}
        /\ pc'[p] = "listing" => q \in exists /\ LockFile \notin files[q]
    BY <2>2
  <2>4. pc' = [pc EXCEPT ![p] = pc'[p]]
    BY <2>1, <2>2
  <2> QED  BY <2>1, <2>3, <2>4 DEF Noted
<1>1. TypeOK'
  BY <1>0 DEF LockInv, TypeOK, Names, LockFile, Stranger,
     Unborn, Setup, Gc, Owning, Over
<1>2. LocksHeld'
  BY <1>0 DEF LockInv, LocksHeld, TypeOK,
     Unborn, Setup, Gc, Owning, Over
<1>3. PeersOnly'
  BY <1>0 DEF LockInv, PeersOnly, TypeOK, Looking,
     Unborn, Setup, Gc, Owning, Over
<1>4. UnbornUnseen'
  BY <1>0 DEF LockInv, UnbornUnseen, TypeOK, Looking,
     Unborn, Setup, Gc, Owning, Over
<1>5. Guarded'
  BY <1>0 DEF LockInv, UnbornUnseen, Looking, Guarded, Deciding, TypeOK,
     Unborn, Setup, Gc, Owning, Over
<1> QED  BY <1>1, <1>2, <1>3, <1>4, <1>5 DEF LockInv

LEMMA ProbeFreeKeeps ==
  ASSUME LockInv, NEW p \in Procs, ProbeFree(p) PROVE LockInv'
<1>1. TypeOK'
  BY DEF LockInv, ProbeFree, Goto, Noted, TypeOK, Names, LockFile, Stranger,
     Unborn, Setup, Gc, Owning, Over
<1>2. LocksHeld'
  BY NamespaceAssumption DEF LockInv, ProbeFree, Goto, Free, PeersOnly, Looking, LocksHeld, TypeOK,
     Unborn, Setup, Gc, Owning, Over
<1>3. PeersOnly'
  BY DEF LockInv, ProbeFree, Goto, PeersOnly, TypeOK, Looking,
     Unborn, Setup, Gc, Owning, Over
<1>4. UnbornUnseen'
  BY DEF LockInv, ProbeFree, Goto, UnbornUnseen, TypeOK, Looking,
     Unborn, Setup, Gc, Owning, Over
<1>5. Guarded'
  BY NamespaceAssumption DEF LockInv, ProbeFree, Goto, Free, LocksHeld, Noted, UnbornUnseen, Looking, Guarded, Deciding, TypeOK,
     Unborn, Setup, Gc, Owning, Over
<1> QED  BY <1>1, <1>2, <1>3, <1>4, <1>5 DEF LockInv

LEMMA ProbeHeldKeeps ==
  ASSUME LockInv, NEW p \in Procs, ProbeHeld(p) PROVE LockInv'
<1>1. TypeOK'
  BY DEF LockInv, ProbeHeld, Goto, TypeOK, Names, LockFile, Stranger,
     Unborn, Setup, Gc, Owning, Over
<1>2. LocksHeld'
  BY DEF LockInv, ProbeHeld, Goto, LocksHeld, TypeOK,
     Unborn, Setup, Gc, Owning, Over
<1>3. PeersOnly'
  BY DEF LockInv, ProbeHeld, Goto, PeersOnly, TypeOK, Looking,
     Unborn, Setup, Gc, Owning, Over
<1>4. UnbornUnseen'
  BY DEF LockInv, ProbeHeld, Goto, UnbornUnseen, TypeOK, Looking,
     Unborn, Setup, Gc, Owning, Over
<1>5. Guarded'
  BY DEF LockInv, ProbeHeld, Goto, Guarded, Deciding, TypeOK,
     Unborn, Setup, Gc, Owning, Over
<1> QED  BY <1>1, <1>2, <1>3, <1>4, <1>5 DEF LockInv

LEMMA ProbeUnlockKeeps ==
  ASSUME LockInv, NEW p \in Procs, ProbeUnlock(p) PROVE LockInv'
<1>1. TypeOK'
  BY DEF LockInv, ProbeUnlock, Goto, TypeOK, Names, LockFile, Stranger,
     Unborn, Setup, Gc, Owning, Over
<1>2. LocksHeld'
  BY DEF LockInv, ProbeUnlock, Goto, PeersOnly, Looking, LocksHeld, TypeOK,
     Unborn, Setup, Gc, Owning, Over
<1>3. PeersOnly'
  BY DEF LockInv, ProbeUnlock, Goto, PeersOnly, TypeOK, Looking,
     Unborn, Setup, Gc, Owning, Over
<1>4. UnbornUnseen'
  BY DEF LockInv, ProbeUnlock, Goto, UnbornUnseen, TypeOK, Looking,
     Unborn, Setup, Gc, Owning, Over
<1>5. Guarded'
  BY DEF LockInv, ProbeUnlock, Goto, Guarded, Deciding, TypeOK,
     Unborn, Setup, Gc, Owning, Over
<1> QED  BY <1>1, <1>2, <1>3, <1>4, <1>5 DEF LockInv

LEMMA ListKeeps ==
  ASSUME LockInv, NEW p \in Procs, List(p) PROVE LockInv'
<1>1. TypeOK'
  BY DEF LockInv, List, Goto, TypeOK, Names, LockFile, Stranger,
     Unborn, Setup, Gc, Owning, Over
<1>2. LocksHeld'
  BY DEF LockInv, List, Goto, LocksHeld, TypeOK,
     Unborn, Setup, Gc, Owning, Over
<1>3. PeersOnly'
  BY DEF LockInv, List, Goto, PeersOnly, TypeOK, Looking,
     Unborn, Setup, Gc, Owning, Over
<1>4. UnbornUnseen'
  BY DEF LockInv, List, Goto, UnbornUnseen, TypeOK, Looking,
     Unborn, Setup, Gc, Owning, Over
<1>5. Guarded'
  BY DEF LockInv, List, Goto, Guarded, Deciding, TypeOK,
     Unborn, Setup, Gc, Owning, Over
<1> QED  BY <1>1, <1>2, <1>3, <1>4, <1>5 DEF LockInv

LEMMA RemoveFileKeeps ==
  ASSUME LockInv, NEW p \in Procs, RemoveFile(p) PROVE LockInv'
<1>1. TypeOK'
  BY DEF LockInv, RemoveFile, TypeOK, Names, LockFile, Stranger,
     Unborn, Setup, Gc, Owning, Over
<1>2. LocksHeld'
  BY DEF LockInv, RemoveFile, LocksHeld, TypeOK,
     Unborn, Setup, Gc, Owning, Over
<1>3. PeersOnly'
  BY DEF LockInv, RemoveFile, PeersOnly, TypeOK, Looking,
     Unborn, Setup, Gc, Owning, Over
<1>4. UnbornUnseen'
  BY DEF LockInv, RemoveFile, UnbornUnseen, TypeOK, Looking,
     Unborn, Setup, Gc, Owning, Over
<1>5. Guarded'
  BY DEF LockInv, RemoveFile, Guarded, Deciding, TypeOK,
     Unborn, Setup, Gc, Owning, Over
<1> QED  BY <1>1, <1>2, <1>3, <1>4, <1>5 DEF LockInv

LEMMA RemoveDirKeeps ==
  ASSUME LockInv, NEW p \in Procs, RemoveDir(p) PROVE LockInv'
<1>1. TypeOK'
  BY DEF LockInv, RemoveDir, Goto, TypeOK, Names, LockFile, Stranger,
     Unborn, Setup, Gc, Owning, Over
<1>2. LocksHeld'
  BY DEF LockInv, RemoveDir, Goto, LocksHeld, TypeOK,
     Unborn, Setup, Gc, Owning, Over
<1>3. PeersOnly'
  BY DEF LockInv, RemoveDir, Goto, PeersOnly, TypeOK, Looking,
     Unborn, Setup, Gc, Owning, Over
<1>4. UnbornUnseen'
  BY DEF LockInv, RemoveDir, Goto, UnbornUnseen, TypeOK, Looking,
     Unborn, Setup, Gc, Owning, Over
<1>5. Guarded'
  BY DEF LockInv, RemoveDir, Goto, Guarded, Deciding, TypeOK,
     Unborn, Setup, Gc, Owning, Over
<1> QED  BY <1>1, <1>2, <1>3, <1>4, <1>5 DEF LockInv

LEMMA CreateWriterKeeps ==
  ASSUME LockInv, NEW p \in Procs, CreateWriter(p) PROVE LockInv'
<1>1. TypeOK'
  BY DEF LockInv, CreateWriter, Goto, TypeOK, Names, LockFile, Stranger,
     Unborn, Setup, Gc, Owning, Over
<1>2. LocksHeld'
  BY DEF LockInv, CreateWriter, Goto, LocksHeld, TypeOK,
     Unborn, Setup, Gc, Owning, Over
<1>3. PeersOnly'
  BY DEF LockInv, CreateWriter, Goto, PeersOnly, TypeOK, Looking,
     Unborn, Setup, Gc, Owning, Over
<1>4. UnbornUnseen'
  BY DEF LockInv, CreateWriter, Goto, UnbornUnseen, TypeOK, Looking,
     Unborn, Setup, Gc, Owning, Over
<1>5. Guarded'
  BY DEF LockInv, CreateWriter, Goto, Guarded, Deciding, TypeOK,
     Unborn, Setup, Gc, Owning, Over
<1> QED  BY <1>1, <1>2, <1>3, <1>4, <1>5 DEF LockInv

LEMMA CreateSegmentKeeps ==
  ASSUME LockInv, NEW p \in Procs, CreateSegment(p) PROVE LockInv'
<1>0. /\ Cardinality(written[p]) \in Nat
      /\ Cardinality(written[p]) + 1 \in 1..MaxSegments
  <2>1. written[p] \subseteq 1..MaxSegments
    BY DEF LockInv, TypeOK
  <2>0. IsFiniteSet(1..MaxSegments)
    BY NamespaceAssumption, FS_Interval
  <2>2. IsFiniteSet(written[p])
    BY <2>0, <2>1, FS_Subset
  <2>3. Cardinality(written[p]) \in Nat
    BY <2>2, FS_CardinalityType
  <2> QED  BY <2>3, NamespaceAssumption DEF CreateSegment
<1>1. TypeOK'
  BY <1>0 DEF LockInv, CreateSegment, TypeOK, Names, LockFile, Stranger,
     Unborn, Setup, Gc, Owning, Over
<1>2. LocksHeld'
  BY DEF LockInv, CreateSegment, LocksHeld, TypeOK,
     Unborn, Setup, Gc, Owning, Over
<1>3. PeersOnly'
  BY DEF LockInv, CreateSegment, PeersOnly, TypeOK, Looking,
     Unborn, Setup, Gc, Owning, Over
<1>4. UnbornUnseen'
  BY DEF LockInv, CreateSegment, UnbornUnseen, TypeOK, Looking,
     Unborn, Setup, Gc, Owning, Over
<1>5. Guarded'
  BY DEF LockInv, CreateSegment, Guarded, Deciding, TypeOK,
     Unborn, Setup, Gc, Owning, Over
<1> QED  BY <1>1, <1>2, <1>3, <1>4, <1>5 DEF LockInv

LEMMA DieKeeps ==
  ASSUME LockInv, NEW p \in Procs, Die(p) PROVE LockInv'
<1>1. TypeOK'
  BY DEF LockInv, Die, TypeOK, Names, LockFile, Stranger,
     Unborn, Setup, Gc, Owning, Over
<1>2. LocksHeld'
  BY DEF LockInv, Die, LocksHeld, TypeOK,
     Unborn, Setup, Gc, Owning, Over
<1>3. PeersOnly'
  BY DEF LockInv, Die, PeersOnly, TypeOK, Looking,
     Unborn, Setup, Gc, Owning, Over
<1>4. UnbornUnseen'
  BY DEF LockInv, Die, UnbornUnseen, TypeOK, Looking,
     Unborn, Setup, Gc, Owning, Over
<1>5. Guarded'
  BY DEF LockInv, Die, Guarded, Deciding, TypeOK,
     Unborn, Setup, Gc, Owning, Over
<1> QED  BY <1>1, <1>2, <1>3, <1>4, <1>5 DEF LockInv

LEMMA DropStrangerKeeps ==
  ASSUME LockInv, NEW p \in Procs, DropStranger(p) PROVE LockInv'
<1>1. TypeOK'
  BY DEF LockInv, DropStranger, TypeOK, Names, LockFile, Stranger,
     Unborn, Setup, Gc, Owning, Over
<1>2. LocksHeld'
  BY DEF LockInv, DropStranger, LocksHeld, TypeOK,
     Unborn, Setup, Gc, Owning, Over
<1>3. PeersOnly'
  BY DEF LockInv, DropStranger, PeersOnly, TypeOK, Looking,
     Unborn, Setup, Gc, Owning, Over
<1>4. UnbornUnseen'
  BY DEF LockInv, DropStranger, UnbornUnseen, TypeOK, Looking,
     Unborn, Setup, Gc, Owning, Over
<1>5. Guarded'
  BY DEF LockInv, DropStranger, Guarded, Deciding, TypeOK,
     Unborn, Setup, Gc, Owning, Over
<1> QED  BY <1>1, <1>2, <1>3, <1>4, <1>5 DEF LockInv

LEMMA LockStep == LockInv /\ [Next]_vars => LockInv'
<1> SUFFICES ASSUME LockInv, [Next]_vars PROVE LockInv'
  OBVIOUS
<1>1. CASE UNCHANGED vars
  BY <1>1 DEF LockInv, TypeOK, LocksHeld, PeersOnly, UnbornUnseen, Guarded, vars
<1>2. ASSUME NEW p \in Procs,
             \/ MakeDir(p) \/ OpenLock(p) \/ OpenFails(p)
             \/ Flock(p) \/ FlockBlocked(p)
             \/ Scan(p) \/ NoScan(p) \/ ScanEnds(p) \/ Visit(p)
             \/ ProbeFree(p) \/ ProbeHeld(p) \/ ProbeUnlock(p)
             \/ List(p) \/ RemoveFile(p) \/ RemoveDir(p)
             \/ CreateWriter(p) \/ CreateSegment(p) \/ Die(p) \/ DropStranger(p)
      PROVE LockInv'
  BY <1>2, MakeDirKeeps, OpenLockKeeps, OpenFailsKeeps, FlockKeeps,
     FlockBlockedKeeps, ScanKeeps, NoScanKeeps, ScanEndsKeeps,
     VisitKeeps, ProbeFreeKeeps, ProbeHeldKeeps, ProbeUnlockKeeps,
     ListKeeps, RemoveFileKeeps, RemoveDirKeeps, CreateWriterKeeps,
     CreateSegmentKeeps, DieKeeps, DropStrangerKeeps
<1> QED  BY <1>1, <1>2 DEF Next

(* For any number of processes, of which any number collect at any time    *)
(* and die at any step: a namespace that was not found free before it was  *)
(* locked keeps its lock file and all it holds (flock::is_held against     *)
(* acquire_namespace_lock).                                                *)
THEOREM LocksProtect == Spec => []LockProtects
<1>1. LockInv => LockProtects
  BY DEF LockInv, Guarded, LockProtects, Whole, Setup, Owning, Gc
<1> QED  BY LockInvInit, LockStep, <1>1, PTL DEF Spec

-----------------------------------------------------------------------------
(* What a collector has to reclaim, and what it may                        *)

(* Nobody but an owner or a probe under way has a lock: a dead process     *)
(* has none, and none is left on its namespace.                            *)
HoldersLive ==
    \A q \in Procs : holder[q] # NoOne =>
        \/ pc[q] \in Owning
        \/ pc[holder[q]] = "unlocking" /\ at[holder[q]] = q

(* Steps of a collector that has listed the trace directory.               *)
Collecting == Gc \ {"scanning"}

(* A collector answers only for what it found dead, and only as long as    *)
(* no other collects: an id is never used again, so what is dead stays.    *)
Alone ==
    \A p \in Procs :
        /\ pc[p] \in Unborn \cup Setup \cup {"scanning"} => due[p] = {}
        /\ due[p] # {} => \A c \in Procs \ {p} : pc[c] \notin Collecting
        /\ \A r \in due[p] : pc[r] \in Over /\ Stranger \notin files[r]

(* What it has not come to is on its list; of the one it is at, it will    *)
(* remove every file there is.                                             *)
Owed ==
    \A p \in Procs : \A r \in due[p] \cap exists :
        pc[p] \in Collecting \cup {"ready", "running"} =>
            \/ pc[p] \in Collecting /\ r \in todo[p]
            \/ at[p] = r /\ pc[p] \in Looking
                         /\ (pc[p] = "removing" => victims[p] = files[r])

(* What a collector is about to remove it has recognized.                  *)
Recognized == \A p \in Procs : pc[p] = "removing" => Stranger \notin victims[p]

CollectInv == LockInv /\ HoldersLive /\ Alone /\ Owed /\ Recognized

LEMMA CollectInvInit == Init => CollectInv
  BY LockInvInit, NamespaceAssumption DEF Init, CollectInv, HoldersLive, Alone, Owed,
     Recognized, Collecting, Looking, Unborn, Setup, Gc, Owning, Over

LEMMA MakeDirCollects ==
  ASSUME CollectInv, NEW p \in Procs, MakeDir(p)
  PROVE  (HoldersLive /\ Alone /\ Owed /\ Recognized)'
<1>1. HoldersLive'
  BY NamespaceAssumption DEF CollectInv, LockInv, TypeOK, MakeDir, Goto,
     HoldersLive, LocksHeld, PeersOnly, Looking, Unborn, Setup, Gc, Owning, Over
<1>2. Alone'
  BY NamespaceAssumption DEF CollectInv, LockInv, TypeOK, MakeDir, Goto,
     Alone, Recognized, Collecting, Names, LockFile, Stranger,
     Unborn, Setup, Gc, Owning, Over
<1>3. Owed'
  BY NamespaceAssumption DEF CollectInv, LockInv, TypeOK, MakeDir, Goto,
     Alone, Owed, HoldersLive, LocksHeld, PeersOnly, Collecting, Looking,
     Unborn, Setup, Gc, Owning, Over
<1>4. Recognized'
  BY DEF CollectInv, LockInv, TypeOK, MakeDir, Goto, Recognized,
     Unborn, Setup, Gc, Owning, Over
<1> QED  BY <1>1, <1>2, <1>3, <1>4

LEMMA OpenLockCollects ==
  ASSUME CollectInv, NEW p \in Procs, OpenLock(p)
  PROVE  (HoldersLive /\ Alone /\ Owed /\ Recognized)'
<1>1. HoldersLive'
  BY NamespaceAssumption DEF CollectInv, LockInv, TypeOK, OpenLock, Goto,
     HoldersLive, LocksHeld, PeersOnly, Looking, Unborn, Setup, Gc, Owning, Over
<1>2. Alone'
  BY NamespaceAssumption DEF CollectInv, LockInv, TypeOK, OpenLock, Goto,
     Alone, Recognized, Collecting, Names, LockFile, Stranger,
     Unborn, Setup, Gc, Owning, Over
<1>3. Owed'
  BY NamespaceAssumption DEF CollectInv, LockInv, TypeOK, OpenLock, Goto,
     Alone, Owed, HoldersLive, LocksHeld, PeersOnly, Collecting, Looking,
     Unborn, Setup, Gc, Owning, Over
<1>4. Recognized'
  BY DEF CollectInv, LockInv, TypeOK, OpenLock, Goto, Recognized,
     Unborn, Setup, Gc, Owning, Over
<1> QED  BY <1>1, <1>2, <1>3, <1>4

LEMMA OpenFailsCollects ==
  ASSUME CollectInv, NEW p \in Procs, OpenFails(p)
  PROVE  (HoldersLive /\ Alone /\ Owed /\ Recognized)'
<1>1. HoldersLive'
  BY NamespaceAssumption DEF CollectInv, LockInv, TypeOK, OpenFails, Goto,
     HoldersLive, LocksHeld, PeersOnly, Looking, Unborn, Setup, Gc, Owning, Over
<1>2. Alone'
  BY NamespaceAssumption DEF CollectInv, LockInv, TypeOK, OpenFails, Goto,
     Alone, Recognized, Collecting, Names, LockFile, Stranger,
     Unborn, Setup, Gc, Owning, Over
<1>3. Owed'
  BY NamespaceAssumption DEF CollectInv, LockInv, TypeOK, OpenFails, Goto,
     Alone, Owed, HoldersLive, LocksHeld, PeersOnly, Collecting, Looking,
     Unborn, Setup, Gc, Owning, Over
<1>4. Recognized'
  BY DEF CollectInv, LockInv, TypeOK, OpenFails, Goto, Recognized,
     Unborn, Setup, Gc, Owning, Over
<1> QED  BY <1>1, <1>2, <1>3, <1>4

LEMMA FlockCollects ==
  ASSUME CollectInv, NEW p \in Procs, Flock(p)
  PROVE  (HoldersLive /\ Alone /\ Owed /\ Recognized)'
<1>1. HoldersLive'
  BY NamespaceAssumption DEF CollectInv, LockInv, TypeOK, Flock, Goto,
     HoldersLive, LocksHeld, PeersOnly, Looking, Unborn, Setup, Gc, Owning, Over
<1>2. Alone'
  BY NamespaceAssumption DEF CollectInv, LockInv, TypeOK, Flock, Goto,
     Alone, Recognized, Collecting, Names, LockFile, Stranger,
     Unborn, Setup, Gc, Owning, Over
<1>3. Owed'
  BY NamespaceAssumption DEF CollectInv, LockInv, TypeOK, Flock, Goto,
     Alone, Owed, HoldersLive, LocksHeld, PeersOnly, Collecting, Looking,
     Unborn, Setup, Gc, Owning, Over
<1>4. Recognized'
  BY DEF CollectInv, LockInv, TypeOK, Flock, Goto, Recognized,
     Unborn, Setup, Gc, Owning, Over
<1> QED  BY <1>1, <1>2, <1>3, <1>4

LEMMA FlockBlockedCollects ==
  ASSUME CollectInv, NEW p \in Procs, FlockBlocked(p)
  PROVE  (HoldersLive /\ Alone /\ Owed /\ Recognized)'
<1>1. HoldersLive'
  BY NamespaceAssumption DEF CollectInv, LockInv, TypeOK, FlockBlocked, Goto,
     HoldersLive, LocksHeld, PeersOnly, Looking, Unborn, Setup, Gc, Owning, Over
<1>2. Alone'
  BY NamespaceAssumption DEF CollectInv, LockInv, TypeOK, FlockBlocked, Goto,
     Alone, Recognized, Collecting, Names, LockFile, Stranger,
     Unborn, Setup, Gc, Owning, Over
<1>3. Owed'
  BY NamespaceAssumption DEF CollectInv, LockInv, TypeOK, FlockBlocked, Goto,
     Alone, Owed, HoldersLive, LocksHeld, PeersOnly, Collecting, Looking,
     Unborn, Setup, Gc, Owning, Over
<1>4. Recognized'
  BY DEF CollectInv, LockInv, TypeOK, FlockBlocked, Goto, Recognized,
     Unborn, Setup, Gc, Owning, Over
<1> QED  BY <1>1, <1>2, <1>3, <1>4

LEMMA ScanCollects ==
  ASSUME CollectInv, NEW p \in Procs, Scan(p)
  PROVE  (HoldersLive /\ Alone /\ Owed /\ Recognized)'
<1>1. HoldersLive'
  BY NamespaceAssumption DEF CollectInv, LockInv, TypeOK, Scan, Goto, Reclaimable,
     HoldersLive, LocksHeld, PeersOnly, Looking, Unborn, Setup, Gc, Owning, Over
<1>2. Alone'
  BY NamespaceAssumption DEF CollectInv, LockInv, TypeOK, Scan, Goto, Reclaimable,
     Alone, Recognized, Collecting, Names, LockFile, Stranger,
     Unborn, Setup, Gc, Owning, Over
<1>3. Owed'
  BY NamespaceAssumption DEF CollectInv, LockInv, TypeOK, Scan, Goto, Reclaimable,
     Alone, Owed, HoldersLive, LocksHeld, PeersOnly, Collecting, Looking,
     Unborn, Setup, Gc, Owning, Over
<1>4. Recognized'
  BY DEF CollectInv, LockInv, TypeOK, Scan, Goto, Reclaimable, Recognized,
     Unborn, Setup, Gc, Owning, Over
<1> QED  BY <1>1, <1>2, <1>3, <1>4

LEMMA NoScanCollects ==
  ASSUME CollectInv, NEW p \in Procs, NoScan(p)
  PROVE  (HoldersLive /\ Alone /\ Owed /\ Recognized)'
<1>1. HoldersLive'
  BY NamespaceAssumption DEF CollectInv, LockInv, TypeOK, NoScan, Goto,
     HoldersLive, LocksHeld, PeersOnly, Looking, Unborn, Setup, Gc, Owning, Over
<1>2. Alone'
  BY NamespaceAssumption DEF CollectInv, LockInv, TypeOK, NoScan, Goto,
     Alone, Recognized, Collecting, Names, LockFile, Stranger,
     Unborn, Setup, Gc, Owning, Over
<1>3. Owed'
  BY NamespaceAssumption DEF CollectInv, LockInv, TypeOK, NoScan, Goto,
     Alone, Owed, HoldersLive, LocksHeld, PeersOnly, Collecting, Looking,
     Unborn, Setup, Gc, Owning, Over
<1>4. Recognized'
  BY DEF CollectInv, LockInv, TypeOK, NoScan, Goto, Recognized,
     Unborn, Setup, Gc, Owning, Over
<1> QED  BY <1>1, <1>2, <1>3, <1>4

LEMMA ScanEndsCollects ==
  ASSUME CollectInv, NEW p \in Procs, ScanEnds(p)
  PROVE  (HoldersLive /\ Alone /\ Owed /\ Recognized)'
<1>1. HoldersLive'
  BY NamespaceAssumption DEF CollectInv, LockInv, TypeOK, ScanEnds, Goto,
     HoldersLive, LocksHeld, PeersOnly, Looking, Unborn, Setup, Gc, Owning, Over
<1>2. Alone'
  BY NamespaceAssumption DEF CollectInv, LockInv, TypeOK, ScanEnds, Goto,
     Alone, Recognized, Collecting, Names, LockFile, Stranger,
     Unborn, Setup, Gc, Owning, Over
<1>3. Owed'
  BY NamespaceAssumption DEF CollectInv, LockInv, TypeOK, ScanEnds, Goto,
     Alone, Owed, HoldersLive, LocksHeld, PeersOnly, Collecting, Looking,
     Unborn, Setup, Gc, Owning, Over
<1>4. Recognized'
  BY DEF CollectInv, LockInv, TypeOK, ScanEnds, Goto, Recognized,
     Unborn, Setup, Gc, Owning, Over
<1> QED  BY <1>1, <1>2, <1>3, <1>4

LEMMA VisitCollects ==
  ASSUME CollectInv, NEW p \in Procs, Visit(p)
  PROVE  (HoldersLive /\ Alone /\ Owed /\ Recognized)'
<1>1. HoldersLive'
  BY NamespaceAssumption DEF CollectInv, LockInv, TypeOK, Visit, NoLockIsFree,
     HoldersLive, LocksHeld, PeersOnly, Looking, Unborn, Setup, Gc, Owning, Over
<1>2. Alone'
  BY NamespaceAssumption DEF CollectInv, LockInv, TypeOK, Visit, NoLockIsFree,
     Alone, Recognized, Collecting, Names, LockFile, Stranger,
     Unborn, Setup, Gc, Owning, Over
<1>3. Owed'
  BY NamespaceAssumption DEF CollectInv, LockInv, TypeOK, Visit, NoLockIsFree,
     Alone, Owed, HoldersLive, LocksHeld, PeersOnly, Collecting, Looking,
     Unborn, Setup, Gc, Owning, Over
<1>4. Recognized'
  BY DEF CollectInv, LockInv, TypeOK, Visit, NoLockIsFree, Recognized,
     Unborn, Setup, Gc, Owning, Over
<1> QED  BY <1>1, <1>2, <1>3, <1>4

LEMMA ProbeFreeCollects ==
  ASSUME CollectInv, NEW p \in Procs, ProbeFree(p)
  PROVE  (HoldersLive /\ Alone /\ Owed /\ Recognized)'
<1>1. HoldersLive'
  BY NamespaceAssumption DEF CollectInv, LockInv, TypeOK, ProbeFree, Goto, Free,
     HoldersLive, LocksHeld, PeersOnly, Looking, Unborn, Setup, Gc, Owning, Over
<1>2. Alone'
  BY NamespaceAssumption DEF CollectInv, LockInv, TypeOK, ProbeFree, Goto, Free,
     Alone, Recognized, Collecting, Names, LockFile, Stranger,
     Unborn, Setup, Gc, Owning, Over
<1>3. Owed'
  BY NamespaceAssumption DEF CollectInv, LockInv, TypeOK, ProbeFree, Goto, Free,
     Alone, Owed, HoldersLive, LocksHeld, PeersOnly, Collecting, Looking,
     Unborn, Setup, Gc, Owning, Over
<1>4. Recognized'
  BY DEF CollectInv, LockInv, TypeOK, ProbeFree, Goto, Free, Recognized,
     Unborn, Setup, Gc, Owning, Over
<1> QED  BY <1>1, <1>2, <1>3, <1>4

LEMMA ProbeHeldCollects ==
  ASSUME CollectInv, NEW p \in Procs, ProbeHeld(p)
  PROVE  (HoldersLive /\ Alone /\ Owed /\ Recognized)'
<1>1. HoldersLive'
  BY NamespaceAssumption DEF CollectInv, LockInv, TypeOK, ProbeHeld, Goto, Free,
     HoldersLive, LocksHeld, PeersOnly, Looking, Unborn, Setup, Gc, Owning, Over
<1>2. Alone'
  BY NamespaceAssumption DEF CollectInv, LockInv, TypeOK, ProbeHeld, Goto, Free,
     Alone, Recognized, Collecting, Names, LockFile, Stranger,
     Unborn, Setup, Gc, Owning, Over
<1>3. Owed'
  BY NamespaceAssumption DEF CollectInv, LockInv, TypeOK, ProbeHeld, Goto, Free,
     Alone, Owed, HoldersLive, LocksHeld, PeersOnly, Collecting, Looking,
     Unborn, Setup, Gc, Owning, Over
<1>4. Recognized'
  BY DEF CollectInv, LockInv, TypeOK, ProbeHeld, Goto, Free, Recognized,
     Unborn, Setup, Gc, Owning, Over
<1> QED  BY <1>1, <1>2, <1>3, <1>4

LEMMA ProbeUnlockCollects ==
  ASSUME CollectInv, NEW p \in Procs, ProbeUnlock(p)
  PROVE  (HoldersLive /\ Alone /\ Owed /\ Recognized)'
<1>1. HoldersLive'
  BY NamespaceAssumption DEF CollectInv, LockInv, TypeOK, ProbeUnlock, Goto,
     HoldersLive, LocksHeld, PeersOnly, Looking, Unborn, Setup, Gc, Owning, Over
<1>2. Alone'
  BY NamespaceAssumption DEF CollectInv, LockInv, TypeOK, ProbeUnlock, Goto,
     Alone, Recognized, Collecting, Names, LockFile, Stranger,
     Unborn, Setup, Gc, Owning, Over
<1>3. Owed'
  BY NamespaceAssumption DEF CollectInv, LockInv, TypeOK, ProbeUnlock, Goto,
     Alone, Owed, HoldersLive, LocksHeld, PeersOnly, Collecting, Looking,
     Unborn, Setup, Gc, Owning, Over
<1>4. Recognized'
  BY DEF CollectInv, LockInv, TypeOK, ProbeUnlock, Goto, Recognized,
     Unborn, Setup, Gc, Owning, Over
<1> QED  BY <1>1, <1>2, <1>3, <1>4

LEMMA ListCollects ==
  ASSUME CollectInv, NEW p \in Procs, List(p)
  PROVE  (HoldersLive /\ Alone /\ Owed /\ Recognized)'
<1>1. HoldersLive'
  BY NamespaceAssumption DEF CollectInv, LockInv, TypeOK, List, Goto,
     HoldersLive, LocksHeld, PeersOnly, Looking, Unborn, Setup, Gc, Owning, Over
<1>2. Alone'
  BY NamespaceAssumption DEF CollectInv, LockInv, TypeOK, List, Goto,
     Alone, Recognized, Collecting, Names, LockFile, Stranger,
     Unborn, Setup, Gc, Owning, Over
<1>3. Owed'
  BY NamespaceAssumption DEF CollectInv, LockInv, TypeOK, List, Goto,
     Alone, Owed, HoldersLive, LocksHeld, PeersOnly, Collecting, Looking,
     Unborn, Setup, Gc, Owning, Over
<1>4. Recognized'
  BY DEF CollectInv, LockInv, TypeOK, List, Goto, Recognized,
     Unborn, Setup, Gc, Owning, Over
<1> QED  BY <1>1, <1>2, <1>3, <1>4

LEMMA RemoveFileCollects ==
  ASSUME CollectInv, NEW p \in Procs, RemoveFile(p)
  PROVE  (HoldersLive /\ Alone /\ Owed /\ Recognized)'
<1>1. HoldersLive'
  BY NamespaceAssumption DEF CollectInv, LockInv, TypeOK, RemoveFile,
     HoldersLive, LocksHeld, PeersOnly, Looking, Unborn, Setup, Gc, Owning, Over
<1>2. Alone'
  BY NamespaceAssumption DEF CollectInv, LockInv, TypeOK, RemoveFile,
     Alone, Recognized, Collecting, Names, LockFile, Stranger,
     Unborn, Setup, Gc, Owning, Over
<1>3. Owed'
  <2> SUFFICES ASSUME NEW q \in Procs, NEW r \in due[q] \cap exists,
                      pc'[q] \in Collecting \cup {"ready", "running"}
               PROVE  \/ pc'[q] \in Collecting /\ r \in todo[q]
                      \/ at[q] = r /\ pc'[q] \in Looking
                                   /\ (pc'[q] = "removing" => victims'[q] = files'[r])
    BY DEF RemoveFile, Owed
  <2>1. pc[q] \in Collecting \cup {"ready", "running"}
    BY DEF CollectInv, LockInv, TypeOK, RemoveFile, Collecting, Gc
  <2>2. q = p
    BY DEF CollectInv, LockInv, TypeOK, Alone, RemoveFile, Collecting, Gc
  <2>3. \/ r \in todo[p]
        \/ at[p] = r /\ victims[p] = files[r]
    BY <2>1, <2>2 DEF CollectInv, Owed, RemoveFile
  <2>4. CASE r \in todo[p]
    BY <2>2, <2>4 DEF CollectInv, LockInv, TypeOK, RemoveFile, Collecting, Gc
  <2>5. CASE at[p] = r /\ victims[p] = files[r]
    <3>0. PICK f \in victims[p] :
            \/ /\ f \in files[at[p]]
               /\ files' = [files EXCEPT ![at[p]] = @ \ {f}]
               /\ victims' = [victims EXCEPT ![p] = @ \ {f}]
               /\ pc' = pc
            \/ f \notin files[at[p]]
      BY DEF RemoveFile
    <3>1. /\ pc' = pc
          /\ files' = [files EXCEPT ![r] = files[r] \ {f}]
          /\ victims' = [victims EXCEPT ![p] = victims[p] \ {f}]
      BY <2>5, <3>0
    <3>2. victims'[p] = files'[r]
      BY <2>5, <3>1 DEF CollectInv, LockInv, TypeOK
    <3> QED  BY <2>2, <2>5, <3>1, <3>2 DEF RemoveFile, Looking
  <2> QED  BY <2>3, <2>4, <2>5
<1>4. Recognized'
  BY DEF CollectInv, LockInv, TypeOK, RemoveFile, Recognized,
     Unborn, Setup, Gc, Owning, Over
<1> QED  BY <1>1, <1>2, <1>3, <1>4

LEMMA RemoveDirCollects ==
  ASSUME CollectInv, NEW p \in Procs, RemoveDir(p)
  PROVE  (HoldersLive /\ Alone /\ Owed /\ Recognized)'
<1>1. HoldersLive'
  BY NamespaceAssumption DEF CollectInv, LockInv, TypeOK, RemoveDir, Goto,
     HoldersLive, LocksHeld, PeersOnly, Looking, Unborn, Setup, Gc, Owning, Over
<1>2. Alone'
  BY NamespaceAssumption DEF CollectInv, LockInv, TypeOK, RemoveDir, Goto,
     Alone, Recognized, Collecting, Names, LockFile, Stranger,
     Unborn, Setup, Gc, Owning, Over
<1>3. Owed'
  BY NamespaceAssumption DEF CollectInv, LockInv, TypeOK, RemoveDir, Goto,
     Alone, Owed, HoldersLive, LocksHeld, PeersOnly, Collecting, Looking,
     Unborn, Setup, Gc, Owning, Over
<1>4. Recognized'
  BY DEF CollectInv, LockInv, TypeOK, RemoveDir, Goto, Recognized,
     Unborn, Setup, Gc, Owning, Over
<1> QED  BY <1>1, <1>2, <1>3, <1>4

LEMMA CreateWriterCollects ==
  ASSUME CollectInv, NEW p \in Procs, CreateWriter(p)
  PROVE  (HoldersLive /\ Alone /\ Owed /\ Recognized)'
<1>1. HoldersLive'
  BY NamespaceAssumption DEF CollectInv, LockInv, TypeOK, CreateWriter, Goto,
     HoldersLive, LocksHeld, PeersOnly, Looking, Unborn, Setup, Gc, Owning, Over
<1>2. Alone'
  BY NamespaceAssumption DEF CollectInv, LockInv, TypeOK, CreateWriter, Goto,
     Alone, Recognized, Collecting, Names, LockFile, Stranger,
     Unborn, Setup, Gc, Owning, Over
<1>3. Owed'
  <2> SUFFICES ASSUME NEW q \in Procs, NEW r \in due[q] \cap exists',
                      pc'[q] \in Collecting \cup {"ready", "running"}
               PROVE  \/ pc'[q] \in Collecting /\ r \in todo[q]
                      \/ at[q] = r /\ pc'[q] \in Looking
                                   /\ (pc'[q] = "removing" => victims[q] = files[r])
    BY DEF CreateWriter, Owed
  <2>1. r # p /\ r \in exists
    BY DEF CollectInv, LockInv, TypeOK, Alone, CreateWriter, Goto, Over
  <2>2. pc[q] \in Collecting \cup {"ready", "running"}
    BY DEF CollectInv, LockInv, TypeOK, CreateWriter, Goto
  <2> QED  BY <2>1, <2>2 DEF CollectInv, LockInv, TypeOK, CreateWriter, Goto, Owed,
               Collecting, Looking, Gc
<1>4. Recognized'
  BY DEF CollectInv, LockInv, TypeOK, CreateWriter, Goto, Recognized,
     Unborn, Setup, Gc, Owning, Over
<1> QED  BY <1>1, <1>2, <1>3, <1>4

LEMMA CreateSegmentCollects ==
  ASSUME CollectInv, NEW p \in Procs, CreateSegment(p)
  PROVE  (HoldersLive /\ Alone /\ Owed /\ Recognized)'
<1>1. HoldersLive'
  BY NamespaceAssumption DEF CollectInv, LockInv, TypeOK, CreateSegment,
     HoldersLive, LocksHeld, PeersOnly, Looking, Unborn, Setup, Gc, Owning, Over
<1>2. Alone'
  BY NamespaceAssumption DEF CollectInv, LockInv, TypeOK, CreateSegment,
     Alone, Recognized, Collecting, Names, LockFile, Stranger,
     Unborn, Setup, Gc, Owning, Over
<1>3. Owed'
  BY NamespaceAssumption DEF CollectInv, LockInv, TypeOK, CreateSegment,
     Alone, Owed, HoldersLive, LocksHeld, PeersOnly, Collecting, Looking,
     Unborn, Setup, Gc, Owning, Over
<1>4. Recognized'
  BY DEF CollectInv, LockInv, TypeOK, CreateSegment, Recognized,
     Unborn, Setup, Gc, Owning, Over
<1> QED  BY <1>1, <1>2, <1>3, <1>4

LEMMA DieCollects ==
  ASSUME CollectInv, NEW p \in Procs, Die(p)
  PROVE  (HoldersLive /\ Alone /\ Owed /\ Recognized)'
<1>1. HoldersLive'
  BY NamespaceAssumption DEF CollectInv, LockInv, TypeOK, Die,
     HoldersLive, LocksHeld, PeersOnly, Looking, Unborn, Setup, Gc, Owning, Over
<1>2. Alone'
  BY NamespaceAssumption DEF CollectInv, LockInv, TypeOK, Die,
     Alone, Recognized, Collecting, Names, LockFile, Stranger,
     Unborn, Setup, Gc, Owning, Over
<1>3. Owed'
  BY NamespaceAssumption DEF CollectInv, LockInv, TypeOK, Die,
     Alone, Owed, HoldersLive, LocksHeld, PeersOnly, Collecting, Looking,
     Unborn, Setup, Gc, Owning, Over
<1>4. Recognized'
  BY DEF CollectInv, LockInv, TypeOK, Die, Recognized,
     Unborn, Setup, Gc, Owning, Over
<1> QED  BY <1>1, <1>2, <1>3, <1>4

LEMMA DropStrangerCollects ==
  ASSUME CollectInv, NEW p \in Procs, DropStranger(p)
  PROVE  (HoldersLive /\ Alone /\ Owed /\ Recognized)'
<1>1. HoldersLive'
  BY NamespaceAssumption DEF CollectInv, LockInv, TypeOK, DropStranger,
     HoldersLive, LocksHeld, PeersOnly, Looking, Unborn, Setup, Gc, Owning, Over
<1>2. Alone'
  BY NamespaceAssumption DEF CollectInv, LockInv, TypeOK, DropStranger,
     Alone, Recognized, Collecting, Names, LockFile, Stranger,
     Unborn, Setup, Gc, Owning, Over
<1>3. Owed'
  BY NamespaceAssumption DEF CollectInv, LockInv, TypeOK, DropStranger,
     Alone, Owed, HoldersLive, LocksHeld, PeersOnly, Collecting, Looking,
     Unborn, Setup, Gc, Owning, Over
<1>4. Recognized'
  BY DEF CollectInv, LockInv, TypeOK, DropStranger, Recognized,
     Unborn, Setup, Gc, Owning, Over
<1> QED  BY <1>1, <1>2, <1>3, <1>4

LEMMA CollectStep == CollectInv /\ [Next]_vars => CollectInv'
<1> SUFFICES ASSUME CollectInv, [Next]_vars PROVE CollectInv'
  OBVIOUS
<1>0. LockInv'
  BY LockStep DEF CollectInv
<1>1. CASE UNCHANGED vars
  BY <1>0, <1>1 DEF CollectInv, HoldersLive, Alone, Owed, Recognized, vars
<1>2. ASSUME NEW p \in Procs,
             \/ MakeDir(p) \/ OpenLock(p) \/ OpenFails(p)
             \/ Flock(p) \/ FlockBlocked(p)
             \/ Scan(p) \/ NoScan(p) \/ ScanEnds(p) \/ Visit(p)
             \/ ProbeFree(p) \/ ProbeHeld(p) \/ ProbeUnlock(p)
             \/ List(p) \/ RemoveFile(p) \/ RemoveDir(p)
             \/ CreateWriter(p) \/ CreateSegment(p) \/ Die(p) \/ DropStranger(p)
      PROVE  (HoldersLive /\ Alone /\ Owed /\ Recognized)'
  BY <1>2, MakeDirCollects, OpenLockCollects, OpenFailsCollects, FlockCollects,
       FlockBlockedCollects, ScanCollects, NoScanCollects, ScanEndsCollects,
       VisitCollects, ProbeFreeCollects, ProbeHeldCollects, ProbeUnlockCollects,
       ListCollects, RemoveFileCollects, RemoveDirCollects, CreateWriterCollects,
       CreateSegmentCollects, DieCollects, DropStrangerCollects
<1> QED  BY <1>0, <1>1, <1>2 DEF CollectInv, Next

(* Only a collector removes a file, and of those it recognized.            *)
LEMMA StrangerStays ==
  ASSUME CollectInv, [Next]_vars, NEW q \in Procs, Stranger \in files[q]
  PROVE  Stranger \in files'[q]
<1>1. CASE UNCHANGED files
  BY <1>1
<1>2. ASSUME NEW p \in Procs,
             OpenLock(p) \/ RemoveFile(p) \/ CreateSegment(p) \/ DropStranger(p)
      PROVE  Stranger \in files'[q]
  BY <1>2 DEF CollectInv, LockInv, TypeOK, Recognized,
     OpenLock, RemoveFile, CreateSegment, DropStranger
<1> QED  BY <1>1, <1>2 DEF Next, vars, MakeDir, OpenFails, Flock, FlockBlocked, Scan,
         NoScan, ScanEnds, Visit, ProbeFree, ProbeHeld, ProbeUnlock, List, RemoveDir,
         CreateWriter, Die

(* For any number of processes, collectors and deaths: a collector that    *)
(* nobody interferes with reclaims every namespace that was dead when it   *)
(* began, half-removed ones included, and nobody ever removes a file that  *)
(* dial9 does not recognize (gc_dead_namespaces, try_remove_namespace).    *)
THEOREM CollectionTheorem == Spec => CollectionIsExact
<1>1. CollectInv => TypeOK /\ DeadReclaimed
  <2> SUFFICES ASSUME CollectInv PROVE DeadReclaimed
    BY DEF CollectInv, LockInv
  <2> QED  BY DEF CollectInv, Owed, DeadReclaimed, Collecting, Looking, Gc
<1>2. CollectInv /\ [Next]_vars =>
        [\A p \in Procs : Stranger \in files[p] => Stranger \in files'[p]]_vars
  BY StrangerStays
<1> QED  BY CollectInvInit, CollectStep, <1>1, <1>2, PTL
            DEF Spec, CollectionIsExact, StrangersStay
=============================================================================
