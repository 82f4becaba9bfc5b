-------------------------------- MODULE Roster --------------------------------
(***************************************************************************)
(* The fleet sampling protocol's roster (dial9-sampling): processes of one *)
(* pool elect a leader and publish census results by conditional writes to *)
(* a single S3 object (protocol/engine.rs).  A write may commit although   *)
(* its answer is lost or comes after the client gave up, reads by the      *)
(* report jobs are applied late, clocks are skewed, processes crash.       *)
(*                                                                         *)
(* A node is one invocation: a restarted process is a new node.  Its clock *)
(* shows now + offset[n], the server's now + MaxSkew, so that all clocks   *)
(* are within MaxSkew of the server's.  The version token of an object is  *)
(* its revision, which every mutation draws afresh.                        *)
(***************************************************************************)
EXTENDS Naturals, Sequences, FiniteSets

CONSTANTS
    Nodes,          \* invocations
    Policies,       \* policies (schema and settings) of the pool's processes
    Deployments,    \* the policy of each node: the same, or a rolling deploy
    Lease,          \* three poll intervals
    MaxSkew,        \* max_clock_skew
    Offsets,        \* how far each clock may be ahead of the slowest possible one
    Operation,      \* how long the client waits for an answer
    Readers,        \* the nodes whose report jobs run
    MaxTime,        \* bound: the last instant
    MaxWrites,      \* bound: roster writes issued
    Faults          \* of {"crash", "lost", "read"}

ASSUME RosterAssumption ==
    /\ Deployments \subseteq [Nodes -> Policies]
    /\ {Lease, MaxSkew, Operation, MaxTime, MaxWrites} \subseteq Nat
    /\ Offsets \subseteq [Nodes -> 0..(2 * MaxSkew)]
    /\ Readers \subseteq Nodes
    /\ Faults \subseteq {"crash", "lost", "read"}

VARIABLES
    now,            \* real time
    offset,         \* of each node's clock
    policyOf,       \* each node's policy
    object,         \* roster.json
    drawn,          \* revisions drawn so far
    net,            \* PUT requests the server has not processed
    pc,             \* where each node is
    put,            \* its PUT in progress
    cache,          \* Cache: the roster it knows, of its policy or foreign
    leader,         \* Worker.leader: the roster it leads with
    creator,        \* whether the startup decided CreatedRoster, so it profiles
    job,            \* the report job's GET: an object read, not yet published
    committed,      \* history: the revisions stored, in order
    lists           \* history: how often each window was listed

fixed == <<offset, policyOf>>

vars == <<now, fixed, object, drawn, net, pc, put, cache, leader,
          creator, job, committed, lists>>

(* Milliseconds pass faster than epochs: a created roster starts at its    *)
(* creator's clock in this unit.                                           *)
EpochUnit == MaxWrites + 1

Clocks == 0..(MaxTime + 2 * MaxSkew)
Revisions == 0..MaxWrites
Epochs == 0..(EpochUnit * (MaxTime + 2 * MaxSkew) + MaxWrites)

Rosters ==
    [rev : Revisions, policy : Policies, holder : Nodes, epoch : Epochs,
     last : Clocks, population : Clocks, released : BOOLEAN, modified : Clocks]

(* No object, nothing observed.                                            *)
Missing == [rev |-> 0]

ClockOf(n) == now + offset[n]
ServerClock == now + MaxSkew

Windows == 1..(MaxTime + 2 * MaxSkew)

NoPut == [why |-> "none"]

TypeOK ==
    /\ now \in 0..MaxTime
    /\ offset \in Offsets /\ policyOf \in Deployments
    /\ object \in Rosters \cup {Missing}
    /\ drawn \in Revisions
    /\ \A r \in net : r.body \in Rosters /\ r.cond \in Revisions
    /\ pc \in [Nodes -> {"down", "idle", "put", "readback", "elect", "pass",
                       "list", "exited"}]
    /\ \A n \in Nodes : put[n] # NoPut =>
         /\ put[n].why \in {"create", "elect", "renew", "reserve", "list", "publish",
                            "release"}
         /\ put[n].body \in Rosters
    /\ cache \in [Nodes -> Rosters \cup {Missing}]
    /\ leader \in [Nodes -> Rosters \cup {Missing}]
    /\ creator \in [Nodes -> BOOLEAN]
    /\ \A n \in Nodes : job[n] = <<>> \/ job[n][1] \in Rosters \cup {Missing}

Init ==
    /\ now = 0
    /\ offset \in Offsets /\ policyOf \in Deployments
    /\ object = Missing
    /\ drawn = 0
    /\ net = {}
    /\ pc = [n \in Nodes |-> "down"]
    /\ put = [n \in Nodes |-> NoPut]
    /\ cache = [n \in Nodes |-> Missing]
    /\ leader = [n \in Nodes |-> Missing]
    /\ creator = [n \in Nodes |-> FALSE]
    /\ job = [n \in Nodes |-> <<>>]
    /\ committed = <<>>
    /\ lists = [w \in Windows |-> 0]

-----------------------------------------------------------------------------
(* Leases, on a node's own clock.                                          *)

(* Variant of LeaseExpired: no margin for the skew.                        *)
LeaseExpiredEager(modified, n) == ClockOf(n) > modified + Lease

(* lease_expired: past lease_deadline, which the skew delays.              *)
LeaseExpired(modified, n) == ClockOf(n) > modified + Lease + MaxSkew

Foreign(r, n) == r.rev # 0 /\ r.policy # policyOf[n]

(* claimable; of another policy only the lease is understood.              *)
Claimable(r, n) ==
    (~Foreign(r, n) /\ r.released) \/ LeaseExpired(r.modified, n)

MayElect(r, n) == r.rev # 0 => Claimable(r, n)

Leads(r, n) == r.rev # 0 /\ r.holder = n /\ ~Foreign(r, n) /\ ~Claimable(r, n)

-----------------------------------------------------------------------------
(* The cache.                                                              *)

(* Variant of Supersedes: the last answer wins.                            *)
SupersedesAlways(new, old, n) == new.rev # 0

(* publish_cache: whether an object read replaces the cached one.          *)
Supersedes(new, old, n) ==
    /\ new.rev # 0
    /\ \/ old.rev = 0
       \/ /\ Foreign(new, n)
          /\ IF Foreign(old, n) THEN new.modified > old.modified
                                ELSE new.modified >= old.modified
       \/ ~Foreign(new, n) /\ Foreign(old, n) /\ new.modified > old.modified
       \/ /\ ~Foreign(new, n) /\ ~Foreign(old, n)
          /\ new.epoch > old.epoch \/ (new.epoch = old.epoch /\ new.rev = old.rev)

Published(new, n) == IF Supersedes(new, cache[n], n) THEN new ELSE cache[n]

(* consume_cache, with the leader l the node has: a leader whose roster is *)
(* not the cached one steps down, a holder that did not know it steps up.  *)
Consumed(known, l, n) ==
    IF Foreign(known, n) THEN Missing
    ELSE IF l.rev # 0 /\ known.rev = l.rev /\ known.holder = n THEN l
    ELSE IF Leads(known, n) THEN known ELSE Missing

(* learn: publish, then consume.                                           *)
Learn(new, l, n) ==
    LET known == Published(new, n)
    IN  /\ cache' = [cache EXCEPT ![n] = known]
        /\ leader' = [leader EXCEPT ![n] = Consumed(known, l, n)]

Abandon(n) ==
    /\ leader' = [leader EXCEPT ![n] = Missing]
    /\ UNCHANGED cache

-----------------------------------------------------------------------------
(* The object store (external) and the client's side of a write.           *)

(* mutate, then put: the body gets a fresh revision and the next epoch.    *)
Issue(n, why, body, cond) ==
    LET fresh == [body EXCEPT !.rev = drawn + 1, !.epoch = @ + 1, !.holder = n]
    IN  /\ drawn < MaxWrites
        /\ drawn' = drawn + 1
        /\ net' = net \cup {[body |-> fresh, cond |-> cond]}
        /\ put' = [put EXCEPT ![n] = [why |-> why, body |-> fresh, since |-> now,
                                        answer |-> "none"]]
        /\ pc' = [pc EXCEPT ![n] = "put"]

(* The server takes a request, in any order and however late.              *)
ServerPut(r) ==
    LET stored == object.rev = r.cond
        n == r.body.holder
        waiting == pc[n] = "put" /\ put[n].body.rev = r.body.rev
    IN  /\ net' = net \ {r}
        /\ object' = IF stored THEN [r.body EXCEPT !.modified = ServerClock] ELSE object
        /\ committed' = IF stored THEN Append(committed, r.body.rev)
                                   ELSE committed
        /\ put' = IF waiting
                  THEN [put EXCEPT ![n].answer = IF stored THEN "stored" ELSE "refused"]
                  ELSE put
        /\ UNCHANGED <<now, fixed, drawn, pc, cache, leader, creator, job,
                       lists>>

(* No answer within the operation's timeout, or it was lost.               *)
PutTimesOut(n) ==
    /\ pc[n] = "put"
    /\ "lost" \in Faults \/ now > put[n].since + Operation
    /\ pc' = [pc EXCEPT ![n] = "readback"]
    /\ UNCHANGED <<now, fixed, object, drawn, net, put, cache, leader,
                   creator, job, committed, lists>>

-----------------------------------------------------------------------------
(* What the writer does with the outcome of replace().                     *)

(* Worker::new: what the startup observed.                                 *)
StartWorker(n, observed) ==
    /\ pc' = [pc EXCEPT ![n] = "idle"]
    /\ cache' = [cache EXCEPT ![n] = observed]
    /\ leader' = [leader EXCEPT ![n] = IF Leads(observed, n) THEN observed ELSE Missing]

(* The write is in: its roster becomes the one the node leads with.        *)
PutSucceeds(n, stored) ==
    /\ put' = [put EXCEPT ![n] = IF put[n].why = "reserve"
                                 THEN [why |-> "list", body |-> stored] ELSE NoPut]
    /\ IF put[n].why = "create"
       THEN /\ StartWorker(n, stored)
            /\ creator' = [creator EXCEPT ![n] = TRUE]
       ELSE /\ pc' = [pc EXCEPT ![n] = CASE put[n].why = "release" -> "exited"
                                         [] put[n].why = "reserve" -> "list"
                                         [] put[n].why = "elect" -> "pass"
                                         [] OTHER -> "idle"]
            /\ IF put[n].why = "release" THEN UNCHANGED <<cache, leader>>
                                         ELSE Learn(stored, stored, n)
            /\ UNCHANGED creator
    /\ lists' = IF put[n].why = "reserve"
                THEN [lists EXCEPT ![stored.last] = @ + 1] ELSE lists

(* Another write was first: None, and whatever is known of who it was.     *)
PutLoses(n, seen) ==
    /\ put' = [put EXCEPT ![n] = NoPut]
    /\ IF put[n].why = "create"
       THEN StartWorker(n, IF Foreign(seen, n) THEN seen ELSE Missing)
       ELSE /\ pc' = [pc EXCEPT ![n] = IF put[n].why = "release" THEN "exited" ELSE "idle"]
            /\ cache' = [cache EXCEPT ![n] =
                             IF Foreign(seen, n) /\ put[n].why # "release"
                             THEN Published(seen, n) ELSE @]
            /\ leader' = [leader EXCEPT ![n] = Missing]
    /\ UNCHANGED <<creator, lists>>

(* Err: the write may be in or not.                                        *)
PutFails(n) ==
    /\ put' = [put EXCEPT ![n] = NoPut]
    /\ IF put[n].why = "create"
       THEN StartWorker(n, Missing)
       ELSE /\ pc' = [pc EXCEPT ![n] = IF put[n].why = "release" THEN "exited" ELSE "idle"]
            /\ Abandon(n)
    /\ UNCHANGED <<creator, lists>>

PutAnswered(n) ==
    /\ pc[n] = "put"
    /\ now <= put[n].since + Operation
    /\ \/ /\ put[n].answer = "stored"
          /\ PutSucceeds(n, [put[n].body EXCEPT !.modified = ClockOf(n)])
       \/ /\ put[n].answer = "refused"
          /\ PutLoses(n, Missing)
    /\ UNCHANGED <<now, fixed, object, drawn, net, job, committed>>

(* The readback finds the exact revision that was written.                 *)
IsMine(n) == object.rev = put[n].body.rev /\ object.rev # 0 /\ object.holder = n

(* Variant of Readback: the write is taken to be in.                       *)
ReadbackTrusting(n) ==
    /\ pc[n] = "readback"
    /\ PutSucceeds(n, put[n].body)
    /\ UNCHANGED <<now, fixed, object, drawn, net, job, committed>>

(* replace, after an uncertain write.                                      *)
Readback(n) ==
    /\ pc[n] = "readback"
    /\ \/ IsMine(n) /\ PutSucceeds(n, object)
       \/ ~IsMine(n) /\ object.rev # 0 /\ PutLoses(n, object)
       \/ object.rev = 0 /\ PutFails(n)
    /\ UNCHANGED <<now, fixed, object, drawn, net, job, committed>>

(* The GET fails, or the pass's own timeout drops it.                      *)
ReadbackFails(n) ==
    /\ pc[n] = "readback"
    /\ "read" \in Faults
    /\ PutFails(n)
    /\ UNCHANGED <<now, fixed, object, drawn, net, job, committed>>

-----------------------------------------------------------------------------
(* Startup and the maintenance loop.                                       *)

(* Roster::created                                                         *)
Created(n) ==
    [rev |-> 0, policy |-> policyOf[n], holder |-> n, epoch |-> ClockOf(n) * EpochUnit,
     last |-> 0, population |-> 0, released |-> FALSE, modified |-> 0]

(* prepare_using: one GET, and the first to find nothing creates.          *)
Start(n) ==
    /\ pc[n] = "down"
    /\ IF object.rev = 0
       THEN /\ Issue(n, "create", Created(n), 0)
            /\ UNCHANGED <<cache, leader>>
       ELSE /\ StartWorker(n, object)
            /\ UNCHANGED <<drawn, net, put>>
    /\ UNCHANGED <<now, fixed, object, creator, job, committed, lists>>

(* The GET fails or takes longer than the startup timeout.                 *)
StartFails(n) ==
    /\ pc[n] = "down"
    /\ "read" \in Faults
    /\ pc' = [pc EXCEPT ![n] = "idle"]
    /\ UNCHANGED <<now, fixed, object, drawn, net, put, cache, leader,
                   creator, job, committed, lists>>

(* run_checked: the head of the loop consumes the cache, which decides     *)
(* election_needed too; an election backs off before it reads.             *)
LoopHead(n) ==
    LET l == Consumed(cache[n], leader[n], n)
    IN  /\ pc[n] = "idle"
        /\ MayElect(cache[n], n) \/ l.rev # 0
        /\ leader' = [leader EXCEPT ![n] = l]
        /\ pc' = [pc EXCEPT ![n] = IF MayElect(cache[n], n) THEN "elect" ELSE "pass"]
        /\ UNCHANGED <<now, fixed, object, drawn, net, put, cache, creator, job,
                       committed, lists>>

(* The next pass is not due.                                               *)
NotDue(n) ==
    /\ pc[n] = "pass"
    /\ pc' = [pc EXCEPT ![n] = "idle"]
    /\ UNCHANGED <<now, fixed, object, drawn, net, put, cache, leader, creator, job,
                   committed, lists>>

(* Variant of Claimed: a takeover starts afresh.                           *)
ClaimedAfresh(n) == Created(n)

(* A roster of the node's own policy goes on where it was.                 *)
Claimed(n) ==
    IF object.rev = 0 \/ Foreign(object, n) THEN Created(n)
    ELSE [object EXCEPT !.released = FALSE]

(* election: one authoritative read, then one conditional write.           *)
Elect(n) ==
    /\ pc[n] = "elect"
    /\ \/ /\ ~MayElect(object, n)
          /\ Learn(object, leader[n], n)
          /\ pc' = [pc EXCEPT ![n] = "pass"]
          /\ UNCHANGED <<drawn, net, put>>
       \/ /\ MayElect(object, n)
          /\ Issue(n, "elect", Claimed(n), object.rev)
          /\ UNCHANGED <<cache, leader>>
    /\ UNCHANGED <<now, fixed, object, creator, job, committed, lists>>

(* Variant of CompletedWindow: this leader's own last window only.         *)
WindowIgnoresOthers(n, last) == ClockOf(n)

(* Timing::completed on the node's clock; 0 if the roster has it already.  *)
CompletedWindow(n, last) == IF ClockOf(n) > last THEN ClockOf(n) ELSE 0

(* leader_pass_inner: the roster is read again, and the pass goes on only  *)
(* if it is the one the node leads with; a window is reserved first.       *)
Pass(n) ==
    /\ pc[n] = "pass"
    /\ leader[n].rev # 0
    /\ \/ /\ object.rev = leader[n].rev
          /\ LET w == CompletedWindow(n, object.last)
             IN  Issue(n, IF w = 0 THEN "renew" ELSE "reserve",
                       [object EXCEPT !.last = IF w = 0 THEN @ ELSE w], object.rev)
          /\ leader' = [leader EXCEPT ![n] = Missing]
          /\ UNCHANGED cache
       \/ /\ object.rev # leader[n].rev
          /\ Learn(object, Missing, n)
          /\ pc' = [pc EXCEPT ![n] = "idle"]
          /\ UNCHANGED <<drawn, net, put>>
    /\ UNCHANGED <<now, fixed, object, creator, job, committed, lists>>

(* A read of either fails.                                                 *)
ReadFails(n) ==
    /\ pc[n] = "elect" \/ (pc[n] = "pass" /\ leader[n].rev # 0)
    /\ "read" \in Faults
    /\ Abandon(n)
    /\ pc' = [pc EXCEPT ![n] = "idle"]
    /\ UNCHANGED <<now, fixed, object, drawn, net, put, creator, job, committed, lists>>

(* The version the reservation wrote.                                      *)
ReservedVersion(n) == put[n].body.rev

(* LIST, then update: publish what the census gave, if it gave anything.   *)
Publish(n) ==
    /\ pc[n] = "list"
    /\ \E known \in {put[n].body.population, put[n].body.last} :
         Issue(n, "publish", [put[n].body EXCEPT !.population = known], ReservedVersion(n))
    /\ UNCHANGED <<now, fixed, object, cache, leader, creator, job, committed,
                   lists>>

(* The pass takes longer than a poll interval.                             *)
PassTimesOut(n) ==
    /\ pc[n] = "list"
    /\ Abandon(n)
    /\ put' = [put EXCEPT ![n] = NoPut]
    /\ pc' = [pc EXCEPT ![n] = "idle"]
    /\ UNCHANGED <<now, fixed, object, drawn, net, creator, job, committed, lists>>

Running(n) == pc[n] \notin {"down", "exited"} /\ put[n].why \notin {"create", "release"}

(* The loop and the report jobs are gone, and with them what they knew.    *)
Forget(n) ==
    /\ cache' = [cache EXCEPT ![n] = Missing]
    /\ leader' = [leader EXCEPT ![n] = Missing]
    /\ job' = [job EXCEPT ![n] = <<>>]
    /\ creator' = [creator EXCEPT ![n] = FALSE]

Exit(n) ==
    /\ pc' = [pc EXCEPT ![n] = "exited"]
    /\ put' = [put EXCEPT ![n] = NoPut]
    /\ UNCHANGED <<drawn, net>>

(* Shutdown drops the loop where it awaits; a leader releases its lease.   *)
Release(n) ==
    /\ Running(n)
    /\ IF leader[n].rev = 0
       THEN Exit(n)
       ELSE Issue(n, "release", [leader[n] EXCEPT !.released = TRUE], leader[n].rev)
    /\ Forget(n)
    /\ UNCHANGED <<now, fixed, object, committed, lists>>

Crash(n) ==
    /\ "crash" \in Faults
    /\ pc[n] \notin {"down", "exited"}
    /\ Exit(n)
    /\ Forget(n)
    /\ UNCHANGED <<now, fixed, object, committed, lists>>

(* A report job or a poll of the observation driver reads the roster ...   *)
JobReads(n) ==
    /\ Running(n)
    /\ n \in Readers
    /\ job[n] = <<>>
    /\ job' = [job EXCEPT ![n] = <<object>>]
    /\ UNCHANGED <<now, fixed, object, drawn, net, pc, put, cache, leader,
                   creator, committed, lists>>

(* ... and publishes what it read, whatever happened in between.           *)
JobPublishes(n) ==
    /\ Running(n)
    /\ job[n] # <<>>
    /\ cache' = [cache EXCEPT ![n] = Published(job[n][1], n)]
    /\ job' = [job EXCEPT ![n] = <<>>]
    /\ UNCHANGED <<now, fixed, object, drawn, net, pc, put, leader, creator,
                   committed, lists>>

Tick ==
    /\ now < MaxTime
    /\ now' = now + 1
    /\ UNCHANGED <<fixed, object, drawn, net, pc, put, cache, leader, creator,
                   job, committed, lists>>

Next ==
    \/ Tick
    \/ \E r \in net : ServerPut(r)
    \/ \E n \in Nodes :
         \/ Start(n) \/ StartFails(n)
         \/ PutTimesOut(n) \/ PutAnswered(n) \/ Readback(n) \/ ReadbackFails(n)
         \/ LoopHead(n) \/ NotDue(n) \/ Elect(n) \/ Pass(n) \/ ReadFails(n)
         \/ Publish(n) \/ PassTimesOut(n)
         \/ Release(n) \/ Crash(n)
         \/ JobReads(n) \/ JobPublishes(n)

Spec == Init /\ [][Next]_vars

-----------------------------------------------------------------------------
(* A roster changes hands only if its holder released it, or a whole lease *)
(* after it was last written: no clock within the skew, no late commit and *)
(* no other policy takes it from a leader that renews in time.             *)
LeaseHonoured ==
    [][object'.rev # object.rev /\ object.rev # 0 /\ object'.rev # 0
           /\ object'.holder # object.holder
         => object.released \/ ServerClock > object.modified + Lease]_vars

(* Under one policy nothing that was published is lost: epochs grow, a     *)
(* reserved window stays reserved and a population estimate is replaced    *)
(* only by one of a later window.                                          *)
NothingPublishedIsLost ==
    [][object'.rev # object.rev /\ object.rev # 0 /\ object'.rev # 0
           /\ object'.policy = object.policy
         => /\ object'.epoch > object.epoch
            /\ object'.last >= object.last
            /\ object'.population >= object.population]_vars

(* The census of a window is taken at most once, whoever leads: it is      *)
(* reserved before the LIST, and takeover never repeats that work.         *)
WindowListedOnce == \A w \in Windows : lists[w] <= 1

(* A node that leads does so with a roster it wrote and that was stored:   *)
(* an uncertain write makes a leader only if the readback finds it.        *)
LeaderWroteIt ==
    \A n \in Nodes : leader[n].rev # 0 =>
        leader[n].holder = n /\ \E k \in 1..Len(committed) : committed[k] = leader[n].rev

(* The place of a stored revision in the order of the store.               *)
StoredAs(r) == CHOOSE k \in 1..Len(committed) : committed[k] = r.rev

(* Reads are applied out of order, yet what a node knows of the roster     *)
(* never goes back to an older one, of its policy or another.              *)
CacheNeverGoesBack ==
    [][\A n \in Nodes : cache[n].rev # 0 /\ Running(n)' =>
         StoredAs(cache[n])' >= StoredAs(cache[n])]_vars

(* What is in the store is newer than what a node has cached, and is       *)
(* accepted when the node reads it; of another policy's roster only the    *)
(* lease matters, which a second write may leave as it is.                 *)
FreshIsAccepted ==
    \A n \in Nodes :
        object.rev # 0 /\ cache[n].rev # 0 /\ object.rev # cache[n].rev =>
            \/ Supersedes(object, cache[n], n)
            \/ /\ Foreign(object, n) /\ Foreign(cache[n], n)
               /\ object.modified = cache[n].modified

(* The nodes' state is well formed, and who leads has written what it      *)
(* leads with.                                                             *)
RosterInv == TypeOK /\ LeaderWroteIt

(* What a node knows of the roster follows the store: it moves forward     *)
(* only, and what the store has is never refused as older.                 *)
CacheFollows == CacheNeverGoesBack /\ []FreshIsAccepted

(* prepare_using says that the creator of a pool's roster profiles, so     *)
(* that the pool never bootstraps with zero profilers.                     *)
CreatorProfiles ==
    Len(committed) = 1 /\ object.rev # 0 /\ pc[object.holder] = "idle" =>
        creator[object.holder]
=============================================================================
