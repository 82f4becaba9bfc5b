----------------------------- MODULE RosterProofs -----------------------------
(***************************************************************************)
(* Proofs about Roster: who leads wrote what it leads with, a roster does  *)
(* not change hands before its lease is over, nothing that was published   *)
(* is lost, the census of a window is taken at most once, and the caches   *)
(* follow the store; for any number of nodes, policies and writes, any     *)
(* clocks within the skew, lost and late answers, late reads and crashes.  *)
(*                                                                         *)
(* The heart of the inductive invariant is what a conditional write that   *)
(* is still under way inherits (Inherits): it can be stored only while the *)
(* object has the revision it was made from, so what was true of the       *)
(* object then is true now.  That needs revisions to be fresh (NetGood),   *)
(* and what a node remembers of a revision to be what the store has under  *)
(* that revision (Known, PutGood).                                         *)
(***************************************************************************)
EXTENDS Roster, FiniteSetTheorems, SequenceTheorems, TLAPS

(* The revisions stored so far.                                            *)
Stored == {committed[k] : k \in 1..Len(committed)}

EpochBound == EpochUnit * (MaxTime + 2 * MaxSkew)

(* A roster that a write may carry at time t: the census never runs ahead  *)
(* of the reservation, nor the reservation ahead of the clocks.            *)
Sane(r, t) ==
    /\ r \in Rosters
    /\ r.rev # 0
    /\ r.population <= r.last
    /\ r.last <= t + 2 * MaxSkew
    /\ r.epoch <= EpochBound + r.rev

(* The same roster, up to when somebody saw it modified.                   *)
Same(r, s) ==
    /\ r.policy = s.policy /\ r.holder = s.holder /\ r.epoch = s.epoch
    /\ r.last = s.last /\ r.population = s.population /\ r.released = s.released

(* What a node may know when the store has stored S and holds o: a roster  *)
(* that was stored, and the one that is there if it has its revision.      *)
Known(r, t, o, S) ==
    \/ r = Missing
    \/ /\ Sane(r, t)
       /\ r.rev \in S
       /\ r.rev = o.rev => Same(r, o)

StoreGood(o, S, d, t) ==
    /\ d \in 0..MaxWrites
    /\ S \subseteq 1..d
    /\ Known(o, t, o, S)
    /\ o = Missing => S = {}
    /\ o # Missing => o.last <= o.modified + MaxSkew

(* What a write that may replace o inherits from it.                       *)
Inherits(x, o, t) ==
    /\ x.holder = o.holder \/ o.released \/ t + MaxSkew > o.modified + Lease
    /\ x.policy = o.policy =>
         /\ x.epoch > o.epoch
         /\ x.last >= o.last
         /\ x.population >= o.population

RequestGood(r, o, S, d, t) ==
    /\ r \in [body : Rosters, cond : Revisions]
    /\ Sane(r.body, t)
    /\ r.body.rev <= d /\ r.body.rev \notin S
    /\ r.cond = 0 \/ r.cond \in S
    /\ r.cond = o.rev /\ o.rev # 0 => Inherits(r.body, o, t)

NetGood(N, o, S, d, t) ==
    /\ \A r \in N : RequestGood(r, o, S, d, t)
    /\ \A r, s \in N : r.body.rev = s.body.rev => r = s

Whys == {"create", "elect", "renew", "reserve", "publish", "release"}

Writes == [why : Whys, body : Rosters, since : 0..MaxTime,
           answer : {"none", "stored", "refused"}]

Reserved == [why : {"list"}, body : Rosters]

(* A write of node n in progress is its own, the request under way if it   *)
(* has its revision, and what is stored if it has that one's.              *)
PutGood(n, x, N, o, S, d, t) ==
    /\ Sane(x.body, t)
    /\ x.body.holder = n
    /\ x.body.rev <= d
    /\ x.body.rev = o.rev => Same(x.body, o)
    /\ \A r \in N : r.body.rev = x.body.rev => r.body = x.body
    /\ x.why = "list" => x.body.rev \in S
    /\ x.why # "list" /\ x.answer = "stored" => x.body.rev \in S
    /\ x.why = "reserve" => x.body.last \in Windows

Steps == {"down", "idle", "put", "readback", "elect", "pass", "list", "exited"}

(* What a node is writing, by where it is.                                 *)
PutAt(s, x) ==
    /\ s \in {"put", "readback"} => x \in Writes
    /\ s = "list" => x \in Reserved
    /\ s \notin {"put", "readback", "list"} => x = NoPut

(* What a node may lead with.                                              *)
Leading(n, l, t, o, S) == Known(l, t, o, S) /\ (l.rev # 0 => l.holder = n)

ClocksOk ==
    /\ now \in 0..MaxTime
    /\ offset \in Offsets /\ policyOf \in Deployments
    /\ creator \in [Nodes -> BOOLEAN]
    /\ lists \in [Windows -> Nat]

StoreOk == committed \in Seq(Nat) /\ StoreGood(object, Stored, drawn, now)

NetOk == NetGood(net, object, Stored, drawn, now)

PutsOk ==
    /\ pc \in [Nodes -> Steps]
    /\ put \in [Nodes -> Writes \cup Reserved \cup {NoPut}]
    /\ \A n \in Nodes :
         /\ PutAt(pc[n], put[n])
         /\ put[n] # NoPut => PutGood(n, put[n], net, object, Stored, drawn, now)

JobGood(j, t, o, S) == j # <<>> => Known(j[1], t, o, S)

NodesOk ==
    /\ cache \in [Nodes -> Rosters \cup {Missing}]
    /\ leader \in [Nodes -> Rosters \cup {Missing}]
    /\ job \in [Nodes -> Seq(Rosters \cup {Missing})]
    /\ \A n \in Nodes :
         /\ Known(cache[n], now, object, Stored)
         /\ Leading(n, leader[n], now, object, Stored)
         /\ JobGood(job[n], now, object, Stored)

RInv == ClocksOk /\ StoreOk /\ NetOk /\ PutsOk /\ NodesOk

-----------------------------------------------------------------------------
(* Facts about times and rosters.                                          *)

LEMMA Constants ==
    /\ Lease \in Nat /\ MaxSkew \in Nat /\ Operation \in Nat /\ MaxTime \in Nat
    /\ MaxWrites \in Nat /\ EpochUnit \in Nat /\ EpochBound \in Nat
    /\ 2 * MaxSkew \in Nat
<1>1. /\ Lease \in Nat /\ MaxSkew \in Nat /\ Operation \in Nat /\ MaxTime \in Nat
      /\ MaxWrites \in Nat
  BY RosterAssumption
<1>2. EpochUnit \in Nat /\ MaxTime + 2 * MaxSkew \in Nat /\ 2 * MaxSkew \in Nat
  BY <1>1 DEF EpochUnit
<1>3. \A a, b \in Nat : a * b \in Nat
  OBVIOUS
<1> QED BY <1>1, <1>2, <1>3 DEF EpochBound

(* Every clock is between the real time and two skews ahead of it.         *)
LEMMA ClockFacts ==
    ASSUME ClocksOk, NEW n \in Nodes
    PROVE  /\ now \in Nat /\ now <= MaxTime
           /\ ClockOf(n) \in Clocks /\ ClockOf(n) \in Nat
           /\ now <= ClockOf(n) /\ ClockOf(n) <= now + 2 * MaxSkew
           /\ ClockOf(n) * EpochUnit <= EpochBound /\ ClockOf(n) * EpochUnit \in Nat
           /\ policyOf[n] \in Policies
<1>1. /\ now \in Nat /\ now <= MaxTime /\ offset[n] \in 0..(2 * MaxSkew)
      /\ policyOf[n] \in Policies
  BY RosterAssumption, Constants DEF ClocksOk
<1>2. /\ ClockOf(n) \in Nat /\ now <= ClockOf(n) /\ ClockOf(n) <= now + 2 * MaxSkew
      /\ ClockOf(n) <= MaxTime + 2 * MaxSkew
  BY <1>1, Constants DEF ClockOf
<1>3. \A a, b, c \in Nat : a <= b => a * c <= c * b /\ a * c \in Nat
  OBVIOUS
<1>4. ClockOf(n) * EpochUnit <= EpochBound /\ ClockOf(n) * EpochUnit \in Nat
  BY <1>2, <1>3, Constants DEF EpochBound
<1> QED BY <1>1, <1>2, <1>4, Constants DEF Clocks

LEMMA RosterFields ==
    ASSUME NEW r \in Rosters
    PROVE  /\ r.rev \in Nat /\ r.epoch \in Nat /\ r.last \in Nat /\ r.population \in Nat
           /\ r.modified \in Nat /\ r.policy \in Policies /\ r.holder \in Nodes
           /\ r.released \in BOOLEAN /\ r.last \in Clocks /\ r.population \in Clocks
BY Constants DEF Rosters, Revisions, Epochs, Clocks, EpochUnit

LEMMA MissingFacts == Missing.rev = 0
BY DEF Missing

(* What is known stays known as time passes ...                            *)
LEMMA KnownLater ==
    ASSUME NEW r, NEW t \in Nat, NEW u \in Nat, t <= u, NEW o, NEW S, Known(r, t, o, S)
    PROVE  Known(r, u, o, S)
<1>1. CASE r = Missing
  BY <1>1 DEF Known
<1>2. CASE r # Missing
  <2>1. Sane(r, t)
    BY <1>2 DEF Known
  <2>2. r \in Rosters /\ r.last \in Nat
    BY <2>1, RosterFields DEF Sane
  <2>3. r.last <= u + 2 * MaxSkew
    BY <2>1, <2>2, Constants DEF Sane
  <2> QED BY <1>2, <2>1, <2>3 DEF Known, Sane
<1> QED BY <1>1, <1>2

(* ... and when another roster is stored.                                  *)
LEMMA KnownStill ==
    ASSUME NEW r, NEW t, NEW o, NEW S, NEW p, p.rev \notin S, Known(r, t, o, S)
    PROVE  Known(r, t, p, S \cup {p.rev})
BY DEF Known

LEMMA SaneLater ==
    ASSUME NEW r, NEW t \in Nat, NEW u \in Nat, t <= u, Sane(r, t)
    PROVE  Sane(r, u)
<1>1. r \in Rosters /\ r.last \in Nat
  BY RosterFields DEF Sane
<1>2. r.last <= u + 2 * MaxSkew
  BY <1>1, Constants DEF Sane
<1> QED BY <1>2 DEF Sane

(* mutate: a fresh revision, the next epoch, this holder.                  *)
Fresh(b, n, d) == [b EXCEPT !.rev = d + 1, !.epoch = @ + 1, !.holder = n]

LEMMA FreshFacts ==
    ASSUME NEW b \in Rosters, NEW n \in Nodes, NEW d \in 0..MaxWrites, d < MaxWrites,
           NEW t, b.population <= b.last, b.last <= t + 2 * MaxSkew,
           b.epoch <= EpochBound + d
    PROVE  /\ Sane(Fresh(b, n, d), t)
           /\ Fresh(b, n, d).rev = d + 1 /\ Fresh(b, n, d).holder = n
           /\ Fresh(b, n, d).epoch = b.epoch + 1 /\ Fresh(b, n, d).policy = b.policy
           /\ Fresh(b, n, d).last = b.last /\ Fresh(b, n, d).population = b.population
<1> DEFINE f == Fresh(b, n, d)
<1>1. /\ f.rev = d + 1 /\ f.holder = n /\ f.epoch = b.epoch + 1 /\ f.policy = b.policy
      /\ f.last = b.last /\ f.population = b.population
  BY DEF Fresh, Rosters
<1>2. d + 1 \in Revisions /\ d \in Nat /\ d + 1 # 0
  BY Constants DEF Revisions
<1>3. b.epoch + 1 \in Epochs /\ b.epoch + 1 <= EpochBound + (d + 1)
  <2>1. b.epoch \in Nat
    BY RosterFields
  <2>2. Epochs = 0..(EpochBound + MaxWrites)
    BY DEF Epochs, EpochBound
  <2> QED BY <2>1, <2>2, <1>2, Constants
<1>4. f \in Rosters
  BY <1>2, <1>3 DEF Fresh, Rosters
<1> QED BY <1>1, <1>2, <1>3, <1>4 DEF Sane

-----------------------------------------------------------------------------
(* The parts of a step.                                                    *)

(* What one node comes to know.                                            *)
LEMMA KnowledgeStep ==
    ASSUME NodesOk, NEW n \in Nodes, UNCHANGED <<now, object, committed>>,
           NEW c, NEW l, NEW j \in Seq(Rosters \cup {Missing}),
           Known(c, now, object, Stored), Leading(n, l, now, object, Stored),
           JobGood(j, now, object, Stored),
           cache' = [cache EXCEPT ![n] = c], leader' = [leader EXCEPT ![n] = l],
           job' = [job EXCEPT ![n] = j]
    PROVE  NodesOk'
<1>1. Stored' = Stored /\ now' = now /\ object' = object
  BY DEF Stored
<1>2. c \in Rosters \cup {Missing} /\ l \in Rosters \cup {Missing}
  BY DEF Known, Leading, Sane
<1>3. /\ cache' \in [Nodes -> Rosters \cup {Missing}]
      /\ leader' \in [Nodes -> Rosters \cup {Missing}]
      /\ job' \in [Nodes -> Seq(Rosters \cup {Missing})]
  BY <1>2 DEF NodesOk
<1>4. ASSUME NEW m \in Nodes
      PROVE  /\ Known(cache'[m], now, object, Stored)
             /\ Leading(m, leader'[m], now, object, Stored)
             /\ JobGood(job'[m], now, object, Stored)
  <2>1. CASE m = n
    <3>1. cache'[m] = c /\ leader'[m] = l /\ job'[m] = j
      BY <2>1 DEF NodesOk
    <3> QED BY <2>1, <3>1
  <2>2. CASE m # n
    <3>1. cache'[m] = cache[m] /\ leader'[m] = leader[m] /\ job'[m] = job[m]
      BY <2>2 DEF NodesOk
    <3> QED BY <3>1 DEF NodesOk
  <2> QED BY <2>1, <2>2
<1> QED BY <1>1, <1>3, <1>4 DEF NodesOk

(* One node settles its write, or goes on without one.                     *)
LEMMA SettleStep ==
    ASSUME StoreOk, NetOk, PutsOk, NEW n \in Nodes,
           UNCHANGED <<now, object, committed, drawn, net>>,
           NEW x \in Writes \cup Reserved \cup {NoPut}, NEW s \in Steps, PutAt(s, x),
           x # NoPut => PutGood(n, x, net, object, Stored, drawn, now),
           put' = [put EXCEPT ![n] = x], pc' = [pc EXCEPT ![n] = s]
    PROVE  StoreOk' /\ NetOk' /\ PutsOk'
<1>1. Stored' = Stored /\ now' = now /\ object' = object /\ drawn' = drawn /\ net' = net
      /\ committed' = committed
  BY DEF Stored
<1>2. StoreOk' /\ NetOk'
  BY <1>1 DEF StoreOk, NetOk
<1>3. pc' \in [Nodes -> Steps] /\ put' \in [Nodes -> Writes \cup Reserved \cup {NoPut}]
  BY DEF PutsOk
<1>4. ASSUME NEW m \in Nodes
      PROVE  /\ PutAt(pc'[m], put'[m])
             /\ put'[m] # NoPut => PutGood(m, put'[m], net, object, Stored, drawn, now)
  <2>1. CASE m = n
    <3>1. pc'[m] = s /\ put'[m] = x
      BY <2>1 DEF PutsOk
    <3> QED BY <2>1, <3>1
  <2>2. CASE m # n
    <3>1. pc'[m] = pc[m] /\ put'[m] = put[m]
      BY <2>2 DEF PutsOk
    <3> QED BY <3>1 DEF PutsOk
  <2> QED BY <2>1, <2>2
<1> QED BY <1>1, <1>2, <1>3, <1>4 DEF PutsOk

(* One node issues a write with a body made from b.                        *)
LEMMA IssueStep ==
    ASSUME ClocksOk, StoreOk, NetOk, PutsOk, NEW n \in Nodes,
           UNCHANGED <<now, object, committed>>,
           NEW why \in Whys, NEW b \in Rosters, NEW cond,
           cond = 0 \/ cond \in Stored,
           b.population <= b.last, b.last <= now + 2 * MaxSkew,
           b.epoch <= EpochBound + drawn,
           why = "reserve" => b.last \in Windows,
           cond = object.rev /\ object.rev # 0 => Inherits(Fresh(b, n, drawn), object, now),
           Issue(n, why, b, cond)
    PROVE  StoreOk' /\ NetOk' /\ PutsOk'
<1> DEFINE f == Fresh(b, n, drawn)
           d == drawn + 1
           x == [why |-> why, body |-> f, since |-> now, answer |-> "none"]
           r == [body |-> f, cond |-> cond]
<1>1. Stored' = Stored /\ now' = now /\ object' = object /\ committed' = committed
  BY DEF Stored
<1>2. /\ drawn < MaxWrites /\ drawn' = d /\ net' = net \cup {r}
      /\ put' = [put EXCEPT ![n] = x] /\ pc' = [pc EXCEPT ![n] = "put"]
  BY DEF Issue, Fresh
<1>3. /\ drawn \in 0..MaxWrites /\ drawn \in Nat /\ d \in 0..MaxWrites /\ drawn < d
      /\ Stored \subseteq 1..drawn
  BY <1>2, Constants DEF StoreOk, StoreGood
<1>4. /\ Sane(f, now) /\ f.rev = d /\ f.holder = n /\ f.last = b.last
  BY <1>2, <1>3, FreshFacts
<1>5. d \notin Stored /\ f \in Rosters
  BY <1>3, <1>4 DEF Sane
<1> HIDE DEF f, d
<1>6. \A q \in net : q.body.rev \in Nat /\ q.body.rev <= drawn /\ q.body.rev # d
  BY <1>3, RosterFields DEF NetOk, NetGood, RequestGood, Sane
<1>7. StoreOk'
  <2>1. Stored \subseteq 1..d
    BY <1>3 DEF d
  <2> QED BY <1>1, <1>2, <1>3, <2>1 DEF StoreOk, StoreGood
<1>8. RequestGood(r, object, Stored, d, now)
  <2>1. cond \in Revisions
    <3>1. 0 \in Revisions /\ \A k \in 1..drawn : k \in Revisions
      BY <1>3, Constants DEF Revisions
    <3> QED BY <3>1, <1>3
  <2>2. r \in [body : Rosters, cond : Revisions] /\ r.body = f /\ r.cond = cond
    BY <2>1, <1>5
  <2>3. d <= d
    BY <1>3
  <2> QED BY <2>2, <2>3, <1>4, <1>5 DEF RequestGood, f
<1>9. \A q \in net : RequestGood(q, object, Stored, d, now)
  <2> SUFFICES ASSUME NEW q \in net PROVE RequestGood(q, object, Stored, d, now)
    OBVIOUS
  <2>1. RequestGood(q, object, Stored, drawn, now)
    BY DEF NetOk, NetGood
  <2>2. q.body.rev <= d
    BY <1>3, <1>6
  <2> QED BY <2>1, <2>2 DEF RequestGood
<1>10. NetGood(net \cup {r}, object, Stored, d, now)
  <2>1. r.body.rev = d
    BY <1>4
  <2>2. \A p, q \in net : p.body.rev = q.body.rev => p = q
    BY DEF NetOk, NetGood
  <2>3. \A p, q \in net \cup {r} : p.body.rev = q.body.rev => p = q
    BY <2>1, <2>2, <1>6
  <2> QED BY <2>3, <1>8, <1>9 DEF NetGood
<1>11. NetOk'
  BY <1>1, <1>2, <1>10 DEF NetOk
<1>12. x \in Writes /\ PutGood(n, x, net \cup {r}, object, Stored, d, now)
  <2>1. now \in 0..MaxTime
    BY DEF ClocksOk
  <2>2. /\ x \in Writes /\ x.body = f /\ x.why = why /\ x.answer = "none"
    BY <2>1, <1>5 DEF Writes
  <2>3. f.rev # object.rev
    <3>1. object.rev = 0 \/ object.rev \in Stored
      BY MissingFacts DEF StoreOk, StoreGood, Known
    <3>2. d # 0
      BY <1>3
    <3> QED BY <3>1, <3>2, <1>4, <1>5
  <2>4. \A q \in net \cup {r} : q.body.rev = f.rev => q.body = f
    BY <1>4, <1>6
  <2>5. f.rev <= d /\ why # "list"
    BY <1>3, <1>4 DEF Whys
  <2> QED BY <2>2, <2>3, <2>4, <2>5, <1>4 DEF PutGood
<1>13. ASSUME NEW m \in Nodes, m # n, put[m] # NoPut
       PROVE  PutGood(m, put[m], net \cup {r}, object, Stored, d, now)
  <2>1. PutGood(m, put[m], net, object, Stored, drawn, now)
    BY <1>13 DEF PutsOk
  <2>2. put[m].body.rev \in Nat /\ put[m].body.rev <= drawn
    BY <2>1, RosterFields DEF PutGood, Sane
  <2>3. put[m].body.rev <= d /\ put[m].body.rev # d
    BY <2>2, <1>3
  <2>4. \A q \in net \cup {r} : q.body.rev = put[m].body.rev => q.body = put[m].body
    BY <2>1, <2>3, <1>4 DEF PutGood
  <2> QED BY <2>1, <2>3, <2>4 DEF PutGood
<1>14. PutsOk'
  <2>1. /\ pc' \in [Nodes -> Steps]
        /\ put' \in [Nodes -> Writes \cup Reserved \cup {NoPut}]
    BY <1>2, <1>12 DEF PutsOk, Steps
  <2>2. ASSUME NEW m \in Nodes
        PROVE  /\ PutAt(pc'[m], put'[m])
               /\ put'[m] # NoPut =>
                    PutGood(m, put'[m], net \cup {r}, object, Stored, d, now)
    <3>1. CASE m = n
      <4>1. pc'[m] = "put" /\ put'[m] = x
        BY <1>2, <3>1 DEF PutsOk
      <4> QED BY <3>1, <4>1, <1>12 DEF PutAt
    <3>2. CASE m # n
      <4>1. pc'[m] = pc[m] /\ put'[m] = put[m]
        BY <1>2, <3>2 DEF PutsOk
      <4>2. PutAt(pc[m], put[m])
        BY DEF PutsOk
      <4> QED BY <3>2, <4>1, <4>2, <1>13
    <3> QED BY <3>1, <3>2
  <2> QED BY <2>1, <2>2, <1>1, <1>2 DEF PutsOk
<1> QED BY <1>7, <1>11, <1>14
-----------------------------------------------------------------------------
(* Time, and the store.                                                    *)

LEMMA TickStep ==
    ASSUME RInv, Tick
    PROVE  RInv'
<1> DEFINE t == now + 1
<1>1. /\ now' = t /\ now \in Nat /\ t \in Nat /\ now <= t /\ t \in 0..MaxTime
      /\ UNCHANGED <<fixed, object, drawn, net, pc, put, cache, leader, creator,
                     job, committed, lists>>
  BY Constants DEF Tick, RInv, ClocksOk
<1> HIDE DEF t
<1>2. Stored' = Stored /\ object' = object /\ drawn' = drawn /\ net' = net
  BY <1>1 DEF Stored
<1>3. ClocksOk'
  BY <1>1 DEF RInv, ClocksOk, fixed
<1>4. \A r : Known(r, now, object, Stored) => Known(r, t, object, Stored)
  BY <1>1, KnownLater
<1>5. \A r : Sane(r, now) => Sane(r, t)
  BY <1>1, SaneLater
<1>6. StoreOk'
  BY <1>1, <1>2, <1>4 DEF RInv, StoreOk, StoreGood
<1>7. NetOk'
  <2>1. ASSUME NEW r \in net PROVE RequestGood(r, object, Stored, drawn, t)
    <3>1. RequestGood(r, object, Stored, drawn, now)
      BY DEF RInv, NetOk, NetGood
    <3>2. ASSUME Inherits(r.body, object, now), object.rev # 0 PROVE Inherits(r.body, object, t)
      <4>1. object \in Rosters
        BY <3>2, MissingFacts DEF RInv, StoreOk, StoreGood, Known, Sane
      <4>2. object.modified + Lease \in Nat
        BY <4>1, RosterFields, Constants
      <4>3. now + MaxSkew > object.modified + Lease => t + MaxSkew > object.modified + Lease
        BY <4>2, <1>1, Constants
      <4> QED BY <3>2, <4>3 DEF Inherits
    <3> QED BY <3>1, <3>2, <1>5 DEF RequestGood
  <2> QED BY <2>1, <1>1, <1>2 DEF RInv, NetOk, NetGood
<1>8. PutsOk'
  <2>1. ASSUME NEW n \in Nodes, put[n] # NoPut
        PROVE  PutGood(n, put[n], net, object, Stored, drawn, t)
    BY <2>1, <1>5 DEF RInv, PutsOk, PutGood
  <2>2. put' = put /\ pc' = pc
    BY <1>1
  <2> QED BY <2>1, <2>2, <1>1, <1>2 DEF RInv, PutsOk
<1>9. NodesOk'
  <2>1. \A n \in Nodes : /\ Known(cache[n], t, object, Stored)
                         /\ Leading(n, leader[n], t, object, Stored)
                         /\ JobGood(job[n], t, object, Stored)
    BY <1>4 DEF RInv, NodesOk, Leading, JobGood
  <2>2. cache' = cache /\ leader' = leader /\ job' = job
    BY <1>1
  <2> QED BY <2>1, <2>2, <1>1, <1>2 DEF RInv, NodesOk
<1> QED BY <1>3, <1>6, <1>7, <1>8, <1>9 DEF RInv

(* The answer that reaches the writer changes nothing else of its write.   *)
Answered(x, a) == [x EXCEPT !.answer = a]

LEMMA AnsweredFacts ==
    ASSUME NEW x \in Writes, NEW a \in {"stored", "refused"}
    PROVE  /\ Answered(x, a) \in Writes /\ Answered(x, a).body = x.body
           /\ Answered(x, a).why = x.why /\ Answered(x, a).answer = a
BY DEF Answered, Writes

(* How a request's answer changes the writes in progress.                  *)
AnswerStep(r, a) ==
    \A m \in Nodes :
        \/ put'[m] = put[m]
        \/ /\ put[m] \in Writes /\ put[m].body.rev = r.body.rev
           /\ put'[m] = Answered(put[m], a)

LEMMA ServerAnswers ==
    ASSUME PutsOk, NetOk, NEW r \in net, ServerPut(r)
    PROVE  /\ put' \in [Nodes -> Writes \cup Reserved \cup {NoPut}]
           /\ AnswerStep(r, IF object.rev = r.cond THEN "stored" ELSE "refused")
<1> DEFINE n == r.body.holder
           a == IF object.rev = r.cond THEN "stored" ELSE "refused"
           waiting == pc[n] = "put" /\ put[n].body.rev = r.body.rev
<1>1. put' = IF waiting THEN [put EXCEPT ![n].answer = a] ELSE put
  BY DEF ServerPut
<1>2. n \in Nodes
  BY RosterFields DEF NetOk, NetGood, RequestGood, Sane
<1>3. a \in {"stored", "refused"}
  OBVIOUS
<1> HIDE DEF a, n
<1>4. CASE waiting
  <2>1. put[n] \in Writes /\ put[n].body.rev = r.body.rev
    BY <1>2, <1>4 DEF PutsOk, PutAt
  <2>2. put' = [put EXCEPT ![n] = Answered(put[n], a)]
    BY <1>1, <1>4 DEF Answered
  <2>3. Answered(put[n], a) \in Writes
    BY <2>1, <1>3, AnsweredFacts
  <2>4. put' \in [Nodes -> Writes \cup Reserved \cup {NoPut}]
    BY <2>2, <2>3 DEF PutsOk
  <2>5. AnswerStep(r, a)
    BY <2>1, <2>2, <1>2 DEF AnswerStep, PutsOk
  <2> QED BY <2>4, <2>5 DEF a
<1>5. CASE ~waiting
  BY <1>1, <1>5 DEF PutsOk, AnswerStep
<1> QED BY <1>4, <1>5

LEMMA ServerStep ==
    ASSUME RInv, NEW r \in net, ServerPut(r)
    PROVE  RInv'
<1> DEFINE p == [r.body EXCEPT !.modified = ServerClock]
           a == IF object.rev = r.cond THEN "stored" ELSE "refused"
<1>1. /\ net' = net \ {r}
      /\ UNCHANGED <<now, fixed, drawn, pc, cache, leader, creator, job, lists>>
  BY DEF ServerPut
<1>2. /\ put' \in [Nodes -> Writes \cup Reserved \cup {NoPut}]
      /\ AnswerStep(r, a)
  BY ServerAnswers DEF RInv
<1>3. RequestGood(r, object, Stored, drawn, now)
  BY DEF RInv, NetOk, NetGood
<1>4. ClocksOk'
  BY <1>1 DEF RInv, ClocksOk, fixed
<1>5. \A m \in Nodes : PutAt(pc'[m], put'[m])
  <2> SUFFICES ASSUME NEW m \in Nodes PROVE PutAt(pc[m], put'[m])
    BY <1>1
  <2>1. PutAt(pc[m], put[m])
    BY DEF RInv, PutsOk
  <2>2. CASE put'[m] = put[m]
    BY <2>1, <2>2
  <2>3. CASE put[m] \in Writes /\ put'[m] = Answered(put[m], a)
    <3>1. put'[m] \in Writes
      BY <2>3, AnsweredFacts
    <3>2. pc[m] \in {"put", "readback"}
      <4>1. put[m].why # "list" /\ put[m].why # "none"
        BY <2>3 DEF Writes, Whys
      <4>2. put[m] # NoPut /\ put[m] \notin Reserved
        BY <4>1 DEF NoPut, Reserved
      <4> QED BY <2>1, <4>2 DEF PutAt
    <3> QED BY <3>1, <3>2 DEF PutAt
  <2> QED BY <2>2, <2>3, <1>2 DEF AnswerStep
<1>6. CASE object.rev # r.cond
  <2>1. object' = object /\ committed' = committed /\ a = "refused"
    BY <1>6 DEF ServerPut
  <2>2. Stored' = Stored
    BY <2>1 DEF Stored
  <2>3. StoreOk'
    BY <1>1, <2>1, <2>2 DEF RInv, StoreOk
  <2>4. NetOk'
    BY <1>1, <2>1, <2>2 DEF RInv, NetOk, NetGood
  <2>5. ASSUME NEW m \in Nodes, put'[m] # NoPut
        PROVE  PutGood(m, put'[m], net', object, Stored, drawn, now)
    <3>1. CASE put'[m] = put[m]
      BY <3>1, <2>5, <1>1 DEF RInv, PutsOk, PutGood
    <3>2. CASE put[m] \in Writes /\ put'[m] = Answered(put[m], a)
      <4>1. put'[m].body = put[m].body /\ put'[m].why = put[m].why /\ put'[m].answer = "refused"
        BY <2>1, <3>2, AnsweredFacts
      <4>2. put[m] # NoPut
        BY <3>2 DEF Writes, Whys, NoPut
      <4> QED BY <4>1, <4>2, <1>1 DEF RInv, PutsOk, PutGood
    <3> QED BY <3>1, <3>2, <1>2 DEF AnswerStep
  <2>6. PutsOk'
    BY <1>1, <1>2, <1>5, <2>1, <2>2, <2>5 DEF RInv, PutsOk
  <2>7. NodesOk'
    BY <1>1, <2>1, <2>2 DEF RInv, NodesOk
  <2> QED BY <1>4, <2>3, <2>4, <2>6, <2>7 DEF RInv
<1>7. CASE object.rev = r.cond
  <2>1. object' = p /\ committed' = Append(committed, r.body.rev) /\ a = "stored"
    BY <1>7 DEF ServerPut
  <2>2. /\ Sane(r.body, now) /\ r.body \in Rosters /\ r.body.rev \in Nat
        /\ r.body.rev <= drawn /\ r.body.rev \notin Stored
    BY <1>3, RosterFields DEF RequestGood, Sane
  <2>3. now \in Nat /\ ServerClock \in Clocks /\ ServerClock = now + MaxSkew
    BY Constants DEF RInv, ClocksOk, ServerClock, Clocks
  <2>4. /\ p \in Rosters /\ p.rev = r.body.rev /\ p.modified = ServerClock /\ p.last = r.body.last
        /\ p.population = r.body.population /\ p.epoch = r.body.epoch /\ Same(r.body, p)
    BY <2>2, <2>3 DEF Rosters, Same
  <2> HIDE DEF p
  <2>5. Stored' = Stored \cup {p.rev} /\ committed' \in Seq(Nat)
    <3>1. committed \in Seq(Nat) /\ Len(committed) \in Nat
      BY LenProperties DEF RInv, StoreOk
    <3>2. /\ committed' \in Seq(Nat) /\ Len(committed') = Len(committed) + 1
          /\ \A k \in 1..Len(committed) : committed'[k] = committed[k]
          /\ committed'[Len(committed) + 1] = r.body.rev
      BY <2>1, <2>2, <3>1, AppendProperties
    <3>3. 1..(Len(committed) + 1) = (1..Len(committed)) \cup {Len(committed) + 1}
      BY <3>1
    <3> QED BY <3>2, <3>3, <2>4 DEF Stored
  <2> DEFINE S == Stored \cup {p.rev}
  <2>6. Sane(p, now) /\ p # Missing
    BY <2>2, <2>4, MissingFacts DEF Sane
  <2>7. StoreOk'
    <3>1. drawn \in 0..MaxWrites /\ Stored \subseteq 1..drawn /\ drawn \in Nat
      BY DEF RInv, StoreOk, StoreGood
    <3>2. S \subseteq 1..drawn
      BY <2>2, <2>4, <2>6, <3>1 DEF Sane
    <3>3. Known(p, now, p, S)
      BY <2>6 DEF Known, Same
    <3>4. p.last <= p.modified + MaxSkew
      BY <2>2, <2>3, <2>4, <2>6, RosterFields, Constants DEF Sane
    <3>5. StoreGood(p, S, drawn, now)
      BY <3>1, <3>2, <3>3, <3>4, <2>6 DEF StoreGood
    <3> QED BY <3>5, <1>1, <2>1, <2>5 DEF StoreOk
  <2>8. \A q \in net \ {r} : q.body.rev # p.rev
    BY <2>4 DEF RInv, NetOk, NetGood
  <2>9. \A c : c = 0 \/ c \in Stored => c # p.rev
    BY <2>2, <2>4, <2>6 DEF Sane
  <2>10. NetOk'
    <3>1. ASSUME NEW q \in net \ {r} PROVE RequestGood(q, p, S, drawn, now)
      <4>1. RequestGood(q, object, Stored, drawn, now)
        BY DEF RInv, NetOk, NetGood
      <4>2. q.cond # p.rev /\ q.body.rev \notin S /\ (q.cond = 0 \/ q.cond \in S)
        BY <4>1, <2>8, <2>9 DEF RequestGood
      <4> QED BY <4>1, <4>2 DEF RequestGood
    <3>2. NetGood(net \ {r}, p, S, drawn, now)
      BY <3>1 DEF RInv, NetOk, NetGood
    <3> QED BY <3>2, <1>1, <2>1, <2>5 DEF NetOk
  <2>11. ASSUME NEW m \in Nodes, put'[m] # NoPut
         PROVE  PutGood(m, put'[m], net \ {r}, p, S, drawn, now)
    <3>1. put[m] # NoPut
      <4>1. put[m] \in Writes => put[m] # NoPut
        BY DEF Writes, Whys, NoPut
      <4> QED BY <4>1, <2>11, <1>2 DEF AnswerStep
    <3>2. PutGood(m, put[m], net, object, Stored, drawn, now)
      BY <3>1 DEF RInv, PutsOk
    <3>3. put[m].body.rev = p.rev => Same(put[m].body, p)
      BY <3>2, <2>4 DEF PutGood
    <3>4. CASE put'[m] = put[m]
      BY <3>2, <3>3, <3>4 DEF PutGood
    <3>5. CASE put[m] \in Writes /\ put'[m] = Answered(put[m], a) /\ put[m].body.rev = r.body.rev
      <4>1. put'[m].body = put[m].body /\ put'[m].why = put[m].why
        BY <2>1, <3>5, AnsweredFacts
      <4>2. put[m].body.rev \in S
        BY <3>5, <2>4
      <4> QED BY <4>1, <4>2, <3>2, <3>3 DEF PutGood
    <3> QED BY <3>4, <3>5, <1>2 DEF AnswerStep
  <2>12. PutsOk'
    BY <1>1, <1>2, <1>5, <2>1, <2>5, <2>11 DEF RInv, PutsOk
  <2>13. \A x : Known(x, now, object, Stored) => Known(x, now, p, S)
    BY <2>2, <2>4, KnownStill
  <2>14. NodesOk'
    <3>1. \A m \in Nodes : /\ Known(cache[m], now, p, S)
                           /\ Leading(m, leader[m], now, p, S)
                           /\ JobGood(job[m], now, p, S)
      BY <2>13 DEF RInv, NodesOk, Leading, JobGood
    <3> QED BY <3>1, <1>1, <2>1, <2>5 DEF RInv, NodesOk
  <2> QED BY <1>4, <2>7, <2>10, <2>12, <2>14 DEF RInv
<1> QED BY <1>6, <1>7
-----------------------------------------------------------------------------
(* The steps of a node.                                                    *)

LEMMA InvParts ==
    ASSUME RInv
    PROVE  ClocksOk /\ StoreOk /\ NetOk /\ PutsOk /\ NodesOk
BY DEF RInv

LEMMA Unmoved ==
    ASSUME RInv, NEW n \in Nodes
    PROVE  /\ put = [put EXCEPT ![n] = put[n]] /\ pc = [pc EXCEPT ![n] = pc[n]]
           /\ cache = [cache EXCEPT ![n] = cache[n]]
           /\ leader = [leader EXCEPT ![n] = leader[n]]
           /\ job = [job EXCEPT ![n] = job[n]]
BY DEF RInv, PutsOk, NodesOk

LEMMA OfNode ==
    ASSUME RInv, NEW n \in Nodes
    PROVE  /\ Known(cache[n], now, object, Stored)
           /\ Leading(n, leader[n], now, object, Stored)
           /\ JobGood(job[n], now, object, Stored)
           /\ job[n] \in Seq(Rosters \cup {Missing})
           /\ Known(object, now, object, Stored)
           /\ pc[n] \in Steps /\ PutAt(pc[n], put[n])
           /\ put[n] \in Writes \cup Reserved \cup {NoPut}
           /\ put[n] # NoPut => PutGood(n, put[n], net, object, Stored, drawn, now)
BY DEF RInv, PutsOk, NodesOk, StoreOk, StoreGood

LEMMA MissingKnown ==
    ASSUME NEW n, NEW t, NEW o, NEW S
    PROVE  Known(Missing, t, o, S) /\ Leading(n, Missing, t, o, S)
BY MissingFacts DEF Known, Leading

LEMMA KnownRosters ==
    ASSUME NEW r, NEW t, NEW o, NEW S, Known(r, t, o, S)
    PROVE  /\ r \in Rosters \cup {Missing}
           /\ r.rev # 0 => Sane(r, t) /\ r.rev \in S /\ (r.rev = o.rev => Same(r, o))
           /\ r = Missing => r.rev = 0
           /\ r # Missing => r.rev # 0
BY MissingFacts DEF Known, Sane

(* A step of a node that issues no write.                                  *)
LEMMA NodeStep ==
    ASSUME RInv, NEW n \in Nodes,
           UNCHANGED <<now, fixed, object, committed, drawn, net>>,
           creator' \in [Nodes -> BOOLEAN], lists' \in [Windows -> Nat],
           NEW x \in Writes \cup Reserved \cup {NoPut}, NEW s \in Steps, PutAt(s, x),
           x # NoPut => PutGood(n, x, net, object, Stored, drawn, now),
           put' = [put EXCEPT ![n] = x], pc' = [pc EXCEPT ![n] = s],
           NEW c, NEW l, NEW j \in Seq(Rosters \cup {Missing}),
           Known(c, now, object, Stored), Leading(n, l, now, object, Stored),
           JobGood(j, now, object, Stored),
           cache' = [cache EXCEPT ![n] = c], leader' = [leader EXCEPT ![n] = l],
           job' = [job EXCEPT ![n] = j]
    PROVE  RInv'
<1>1. ClocksOk /\ StoreOk /\ NetOk /\ PutsOk /\ NodesOk
  BY InvParts
<1>2. UNCHANGED <<now, object, committed>> /\ UNCHANGED <<now, object, committed, drawn, net>>
  OBVIOUS
<1>3. ClocksOk'
  BY <1>1 DEF ClocksOk, fixed
<1>4. NodesOk'
  BY <1>1, <1>2, KnowledgeStep
<1>5. StoreOk' /\ NetOk' /\ PutsOk'
  BY <1>1, <1>2, SettleStep
<1> QED BY <1>3, <1>4, <1>5 DEF RInv

(* A step of a node that issues a write.                                   *)
LEMMA NodeIssues ==
    ASSUME RInv, NEW n \in Nodes, UNCHANGED <<now, fixed, object, committed>>,
           creator' \in [Nodes -> BOOLEAN], lists' = lists,
           NEW why \in Whys, NEW b \in Rosters, NEW cond,
           cond = 0 \/ cond \in Stored,
           b.population <= b.last, b.last <= now + 2 * MaxSkew,
           b.epoch <= EpochBound + drawn,
           why = "reserve" => b.last \in Windows,
           cond = object.rev /\ object.rev # 0 => Inherits(Fresh(b, n, drawn), object, now),
           Issue(n, why, b, cond),
           NEW c, NEW l, NEW j \in Seq(Rosters \cup {Missing}),
           Known(c, now, object, Stored), Leading(n, l, now, object, Stored),
           JobGood(j, now, object, Stored),
           cache' = [cache EXCEPT ![n] = c], leader' = [leader EXCEPT ![n] = l],
           job' = [job EXCEPT ![n] = j]
    PROVE  RInv'
<1>1. ClocksOk /\ StoreOk /\ NetOk /\ PutsOk /\ NodesOk
  BY InvParts
<1>2. UNCHANGED <<now, object, committed>>
  OBVIOUS
<1>3. ClocksOk'
  BY <1>1 DEF ClocksOk, fixed
<1>4. NodesOk'
  BY <1>1, <1>2, KnowledgeStep
<1>5. StoreOk' /\ NetOk' /\ PutsOk'
  BY <1>1, <1>2, IssueStep
<1> QED BY <1>3, <1>4, <1>5 DEF RInv

LEMMA PublishedKnown ==
    ASSUME RInv, NEW n \in Nodes, NEW new, Known(new, now, object, Stored)
    PROVE  Known(Published(new, n), now, object, Stored)
<1>1. Published(new, n) \in {new, cache[n]}
  BY DEF Published
<1> QED BY <1>1, OfNode

LEMMA ConsumedLeading ==
    ASSUME RInv, NEW n \in Nodes, NEW k, NEW l, Known(k, now, object, Stored),
           Leading(n, l, now, object, Stored)
    PROVE  Leading(n, Consumed(k, l, n), now, object, Stored)
<1>1. \/ Consumed(k, l, n) \in {Missing, l}
      \/ Consumed(k, l, n) = k /\ k.holder = n
  BY DEF Consumed, Leads
<1> QED BY <1>1, MissingKnown DEF Leading

(* A stored roster of the node's own, reserved for a census.               *)
LEMMA ReservedGood ==
    ASSUME RInv, NEW n \in Nodes, NEW r, Leading(n, r, now, object, Stored), r.rev # 0
    PROVE  /\ [why |-> "list", body |-> r] \in Reserved
           /\ [why |-> "list", body |-> r] # NoPut
           /\ PutGood(n, [why |-> "list", body |-> r], net, object, Stored, drawn, now)
<1> DEFINE x == [why |-> "list", body |-> r]
<1>1. /\ Sane(r, now) /\ r \in Rosters /\ r.rev \in Stored /\ r.holder = n
      /\ (r.rev = object.rev => Same(r, object))
  BY KnownRosters DEF Leading, Sane
<1>2. x \in Reserved /\ x.why = "list" /\ x.body = r
  BY <1>1 DEF Reserved
<1>3. x # NoPut
  <2>1. NoPut.why = "none"
    BY DEF NoPut
  <2> HIDE DEF x
  <2> QED BY <1>2, <2>1
<1>4. r.rev <= drawn
  <2>1. Stored \subseteq 1..drawn /\ drawn \in Nat
    BY DEF RInv, StoreOk, StoreGood
  <2>2. r.rev \in 1..drawn
    BY <1>1, <2>1
  <2> QED BY <2>1, <2>2
<1>5. \A q \in net : q.body.rev # r.rev
  BY <1>1 DEF RInv, NetOk, NetGood, RequestGood
<1> HIDE DEF x
<1>6. PutGood(n, x, net, object, Stored, drawn, now)
  BY <1>1, <1>2, <1>4, <1>5 DEF PutGood
<1> QED BY <1>2, <1>3, <1>6 DEF x

(* The write is in.                                                        *)
LEMMA SucceedsStep ==
    ASSUME RInv, NEW n \in Nodes, put[n] \in Writes,
           NEW r, Leading(n, r, now, object, Stored), r.rev # 0,
           put[n].why = "reserve" => r.last \in Windows,
           PutSucceeds(n, r), UNCHANGED <<now, fixed, object, drawn, net, job, committed>>
    PROVE  RInv'
<1> DEFINE x == [why |-> "list", body |-> r]
<1>1. /\ x \in Reserved /\ x # NoPut
      /\ PutGood(n, x, net, object, Stored, drawn, now)
  BY ReservedGood
<1>2. Known(r, now, object, Stored) /\ lists \in [Windows -> Nat] /\ creator \in [Nodes -> BOOLEAN]
  BY DEF Leading, RInv, ClocksOk
<1>3. lists' \in [Windows -> Nat]
  <2>1. CASE put[n].why = "reserve"
    <3>1. r.last \in Windows /\ lists' = [lists EXCEPT ![r.last] = @ + 1]
      BY <2>1 DEF PutSucceeds
    <3>2. lists[r.last] + 1 \in Nat
      BY <3>1, <1>2
    <3> QED BY <3>1, <3>2, <1>2
  <2>2. CASE put[n].why # "reserve"
    BY <2>2, <1>2 DEF PutSucceeds
  <2> QED BY <2>1, <2>2
<1>4. job' = [job EXCEPT ![n] = job[n]]
  BY Unmoved
<1>5. CASE put[n].why = "create"
  <2>1. /\ put' = [put EXCEPT ![n] = NoPut] /\ pc' = [pc EXCEPT ![n] = "idle"]
        /\ cache' = [cache EXCEPT ![n] = r]
        /\ leader' = [leader EXCEPT ![n] = IF Leads(r, n) THEN r ELSE Missing]
        /\ creator' = [creator EXCEPT ![n] = TRUE]
    BY <1>5 DEF PutSucceeds, StartWorker
  <2>2. Leading(n, IF Leads(r, n) THEN r ELSE Missing, now, object, Stored)
    BY MissingKnown
  <2>3. creator' \in [Nodes -> BOOLEAN]
    BY <2>1, <1>2
  <2>4. "idle" \in Steps /\ PutAt("idle", NoPut)
    BY DEF Steps, PutAt
  <2>5. NoPut \in Writes \cup Reserved \cup {NoPut}
    OBVIOUS
  <2> QED BY <1>2, <1>3, <1>4, <2>1, <2>2, <2>3, <2>4, <2>5, OfNode, NodeStep
<1>6. CASE put[n].why # "create"
  <2> DEFINE s == CASE put[n].why = "release" -> "exited"
                    [] put[n].why = "reserve" -> "list"
                    [] put[n].why = "elect" -> "pass"
                    [] OTHER -> "idle"
             y == IF put[n].why = "reserve" THEN x ELSE NoPut
             k == Published(r, n)
             l == Consumed(k, r, n)
  <2>1. /\ put' = [put EXCEPT ![n] = y] /\ pc' = [pc EXCEPT ![n] = s] /\ creator' = creator
        /\ IF put[n].why = "release" THEN UNCHANGED <<cache, leader>>
           ELSE cache' = [cache EXCEPT ![n] = k] /\ leader' = [leader EXCEPT ![n] = l]
    BY <1>6 DEF PutSucceeds, Learn
  <2>2. /\ put[n].why = "reserve" => s = "list" /\ y = x
        /\ put[n].why # "reserve" => s \in {"exited", "pass", "idle"} /\ y = NoPut
    <3>1. put[n].why \in Whys
      BY DEF Writes
    <3> QED BY <3>1 DEF Whys
  <2>3. Known(k, now, object, Stored) /\ Leading(n, l, now, object, Stored)
    <3>1. Known(k, now, object, Stored)
      BY <1>2, PublishedKnown
    <3> HIDE DEF k
    <3> QED BY <3>1, ConsumedLeading
  <2> HIDE DEF x, y, s, k, l
  <2>4. s \in Steps /\ PutAt(s, y) /\ y \in Writes \cup Reserved \cup {NoPut}
    BY <1>1, <2>2 DEF Steps, PutAt
  <2>5. y # NoPut => PutGood(n, y, net, object, Stored, drawn, now)
    BY <1>1, <2>2
  <2>6. \E c, m : /\ Known(c, now, object, Stored) /\ Leading(n, m, now, object, Stored)
                  /\ cache' = [cache EXCEPT ![n] = c] /\ leader' = [leader EXCEPT ![n] = m]
    <3>1. CASE put[n].why = "release"
      BY <2>1, <3>1, Unmoved, OfNode
    <3>2. CASE put[n].why # "release"
      BY <2>1, <2>3, <3>2
    <3> QED BY <3>1, <3>2
  <2>7. PICK c, m : /\ Known(c, now, object, Stored) /\ Leading(n, m, now, object, Stored)
                    /\ cache' = [cache EXCEPT ![n] = c] /\ leader' = [leader EXCEPT ![n] = m]
    BY <2>6
  <2> QED BY <1>2, <1>3, <1>4, <2>1, <2>4, <2>5, <2>7, OfNode, NodeStep
<1> QED BY <1>5, <1>6

(* A node is left without a write, at step s.                              *)
LEMMA LosesStep ==
    ASSUME RInv, NEW n \in Nodes,
           UNCHANGED <<now, fixed, object, committed, drawn, net, lists>>,
           creator' \in [Nodes -> BOOLEAN],
           NEW s \in {"idle", "exited", "elect", "pass"},
           put' = [put EXCEPT ![n] = NoPut], pc' = [pc EXCEPT ![n] = s],
           NEW c, NEW l, NEW j \in Seq(Rosters \cup {Missing}),
           Known(c, now, object, Stored), Leading(n, l, now, object, Stored),
           JobGood(j, now, object, Stored),
           cache' = [cache EXCEPT ![n] = c], leader' = [leader EXCEPT ![n] = l],
           job' = [job EXCEPT ![n] = j]
    PROVE  RInv'
<1>1. s \in Steps /\ PutAt(s, NoPut)
  BY DEF Steps, PutAt
<1>2. NoPut \in Writes \cup Reserved \cup {NoPut} /\ lists' \in [Windows -> Nat]
  BY DEF RInv, ClocksOk
<1>3. UNCHANGED <<now, fixed, object, committed, drawn, net>>
  OBVIOUS
<1> QED BY <1>1, <1>2, <1>3, NodeStep

LEMMA PutLosesStep ==
    ASSUME RInv, NEW n \in Nodes, NEW seen, Known(seen, now, object, Stored),
           PutLoses(n, seen), UNCHANGED <<now, fixed, object, drawn, net, job, committed>>
    PROVE  RInv'
<1>1. /\ put' = [put EXCEPT ![n] = NoPut] /\ creator' = creator /\ lists' = lists
      /\ job' = [job EXCEPT ![n] = job[n]] /\ creator \in [Nodes -> BOOLEAN]
  BY Unmoved DEF PutLoses, RInv, ClocksOk
<1>2. CASE put[n].why = "create"
  <2> DEFINE k == IF Foreign(seen, n) THEN seen ELSE Missing
             l == IF Leads(k, n) THEN k ELSE Missing
  <2>1. /\ pc' = [pc EXCEPT ![n] = "idle"] /\ cache' = [cache EXCEPT ![n] = k]
        /\ leader' = [leader EXCEPT ![n] = l]
    BY <1>2 DEF PutLoses, StartWorker
  <2>2. Known(k, now, object, Stored)
    BY MissingKnown
  <2>3. Leading(n, l, now, object, Stored)
    <3> HIDE DEF k
    <3>1. l = Missing \/ (l = k /\ k.holder = n)
      BY DEF Leads
    <3> HIDE DEF l
    <3> QED BY <3>1, <2>2, MissingKnown DEF Leading
  <2> HIDE DEF k, l
  <2> QED BY <1>1, <2>1, <2>2, <2>3, OfNode, LosesStep
<1>3. CASE put[n].why # "create"
  <2> DEFINE s == IF put[n].why = "release" THEN "exited" ELSE "idle"
             k == IF Foreign(seen, n) /\ put[n].why # "release"
                  THEN Published(seen, n) ELSE cache[n]
  <2>1. /\ pc' = [pc EXCEPT ![n] = s] /\ cache' = [cache EXCEPT ![n] = k]
        /\ leader' = [leader EXCEPT ![n] = Missing]
    BY <1>3 DEF PutLoses
  <2>2. Known(k, now, object, Stored)
    BY PublishedKnown, OfNode
  <2>3. s \in {"idle", "exited", "elect", "pass"}
    OBVIOUS
  <2> HIDE DEF s, k
  <2> QED BY <1>1, <2>1, <2>2, <2>3, OfNode, MissingKnown, LosesStep
<1> QED BY <1>2, <1>3

LEMMA PutFailsStep ==
    ASSUME RInv, NEW n \in Nodes, PutFails(n),
           UNCHANGED <<now, fixed, object, drawn, net, job, committed>>
    PROVE  RInv'
<1>1. /\ put' = [put EXCEPT ![n] = NoPut] /\ creator' = creator /\ lists' = lists
      /\ job' = [job EXCEPT ![n] = job[n]] /\ creator \in [Nodes -> BOOLEAN]
  BY Unmoved DEF PutFails, RInv, ClocksOk
<1>2. CASE put[n].why = "create"
  <2>1. /\ pc' = [pc EXCEPT ![n] = "idle"] /\ cache' = [cache EXCEPT ![n] = Missing]
        /\ leader' = [leader EXCEPT ![n] = Missing]
    BY <1>2, MissingFacts DEF PutFails, StartWorker
  <2> QED BY <1>1, <2>1, OfNode, MissingKnown, LosesStep
<1>3. CASE put[n].why # "create"
  <2> DEFINE s == IF put[n].why = "release" THEN "exited" ELSE "idle"
  <2>1. /\ pc' = [pc EXCEPT ![n] = s] /\ cache' = [cache EXCEPT ![n] = cache[n]]
        /\ leader' = [leader EXCEPT ![n] = Missing]
    BY <1>3, Unmoved DEF PutFails, Abandon
  <2>2. s \in {"idle", "exited", "elect", "pass"}
    OBVIOUS
  <2> HIDE DEF s
  <2> QED BY <1>1, <2>1, <2>2, OfNode, MissingKnown, LosesStep
<1> QED BY <1>2, <1>3

LEMMA AnsweredStep ==
    ASSUME RInv, NEW n \in Nodes, PutAnswered(n)
    PROVE  RInv'
<1> DEFINE b == put[n].body
           r == [b EXCEPT !.modified = ClockOf(n)]
<1>1. /\ UNCHANGED <<now, fixed, object, drawn, net, job, committed>>
      /\ put[n] \in Writes
  BY OfNode DEF PutAnswered, PutAt
<1>2. put[n] # NoPut /\ put[n].why # "list"
  BY <1>1 DEF Writes, Whys, NoPut
<1>3. PutGood(n, put[n], net, object, Stored, drawn, now)
  BY <1>2, OfNode
<1>4. CASE put[n].answer = "stored" /\ PutSucceeds(n, r)
  <2>1. Sane(b, now) /\ b \in Rosters /\ b.rev \in Stored /\ b.holder = n
        /\ (b.rev = object.rev => Same(b, object))
    BY <1>2, <1>3, <1>4 DEF PutGood, Sane
  <2>2. ClockOf(n) \in Clocks
    BY ClockFacts DEF RInv
  <2>3. /\ r \in Rosters /\ r.rev = b.rev /\ r.holder = b.holder /\ r.last = b.last
        /\ r.population = b.population /\ r.epoch = b.epoch /\ r.policy = b.policy
        /\ r.released = b.released
    BY <2>1, <2>2 DEF Rosters
  <2> HIDE DEF r
  <2>4. Leading(n, r, now, object, Stored) /\ r.rev # 0
    BY <2>1, <2>3 DEF Leading, Known, Sane, Same
  <2>5. put[n].why = "reserve" => r.last \in Windows
    BY <1>3, <2>3 DEF PutGood
  <2> QED BY <1>1, <1>4, <2>4, <2>5, SucceedsStep
<1>5. CASE PutLoses(n, Missing)
  BY <1>1, <1>5, MissingKnown, PutLosesStep
<1> QED BY <1>4, <1>5 DEF PutAnswered

LEMMA ReadbackStep ==
    ASSUME RInv, NEW n \in Nodes, Readback(n)
    PROVE  RInv'
<1>1. /\ UNCHANGED <<now, fixed, object, drawn, net, job, committed>>
      /\ put[n] \in Writes /\ Known(object, now, object, Stored)
  BY OfNode DEF Readback, PutAt
<1>2. put[n] # NoPut /\ put[n].why # "list"
  BY <1>1 DEF Writes, Whys, NoPut
<1>3. PutGood(n, put[n], net, object, Stored, drawn, now)
  BY <1>2, OfNode
<1>4. CASE IsMine(n) /\ PutSucceeds(n, object)
  <2>1. Leading(n, object, now, object, Stored) /\ object.rev # 0
    BY <1>1, <1>4 DEF Leading, IsMine
  <2>2. put[n].why = "reserve" => object.last \in Windows
    BY <1>3, <1>4 DEF PutGood, IsMine, Same
  <2> QED BY <1>1, <1>4, <2>1, <2>2, SucceedsStep
<1>5. CASE PutLoses(n, object)
  BY <1>1, <1>5, PutLosesStep
<1>6. CASE PutFails(n)
  BY <1>1, <1>6, PutFailsStep
<1> QED BY <1>4, <1>5, <1>6 DEF Readback

(* The steps that issue no write and settle none.                          *)
LEMMA QuietSteps ==
    ASSUME RInv, NEW n \in Nodes,
           \/ StartFails(n) \/ PutTimesOut(n) \/ LoopHead(n) \/ NotDue(n)
           \/ ReadFails(n) \/ PassTimesOut(n) \/ Crash(n) \/ JobReads(n) \/ JobPublishes(n)
    PROVE  RInv'
<1>1. creator \in [Nodes -> BOOLEAN] /\ lists \in [Windows -> Nat]
  BY DEF RInv, ClocksOk
<1>2. CASE StartFails(n) \/ NotDue(n)
  <2>1. put[n] = NoPut
    BY <1>2, OfNode DEF StartFails, NotDue, PutAt
  <2>2. /\ UNCHANGED <<now, fixed, object, committed, drawn, net, lists>>
        /\ creator' = creator /\ put' = [put EXCEPT ![n] = NoPut]
        /\ pc' = [pc EXCEPT ![n] = "idle"]
        /\ cache' = [cache EXCEPT ![n] = cache[n]]
        /\ leader' = [leader EXCEPT ![n] = leader[n]]
        /\ job' = [job EXCEPT ![n] = job[n]]
    BY <1>2, <2>1, Unmoved DEF StartFails, NotDue
  <2> QED BY <1>1, <2>2, OfNode, LosesStep
<1>3. CASE PutTimesOut(n)
  <2>1. pc[n] = "put" /\ put[n] \in Writes
    BY <1>3, OfNode DEF PutTimesOut, PutAt
  <2>2. /\ UNCHANGED <<now, fixed, object, committed, drawn, net>> /\ lists' = lists
        /\ creator' = creator /\ put' = [put EXCEPT ![n] = put[n]]
        /\ pc' = [pc EXCEPT ![n] = "readback"]
        /\ cache' = [cache EXCEPT ![n] = cache[n]]
        /\ leader' = [leader EXCEPT ![n] = leader[n]]
        /\ job' = [job EXCEPT ![n] = job[n]]
    BY <1>3, Unmoved DEF PutTimesOut
  <2>3. "readback" \in Steps /\ PutAt("readback", put[n])
    BY <2>1 DEF Steps, PutAt
  <2> QED BY <1>1, <2>2, <2>3, OfNode, NodeStep
<1>4. CASE LoopHead(n)
  <2> DEFINE l == Consumed(cache[n], leader[n], n)
             s == IF MayElect(cache[n], n) THEN "elect" ELSE "pass"
  <2>1. put[n] = NoPut
    BY <1>4, OfNode DEF LoopHead, PutAt
  <2>2. /\ UNCHANGED <<now, fixed, object, committed, drawn, net, lists>>
        /\ creator' = creator /\ put' = [put EXCEPT ![n] = NoPut]
        /\ pc' = [pc EXCEPT ![n] = s]
        /\ cache' = [cache EXCEPT ![n] = cache[n]]
        /\ leader' = [leader EXCEPT ![n] = l]
        /\ job' = [job EXCEPT ![n] = job[n]]
    BY <1>4, <2>1, Unmoved DEF LoopHead
  <2>3. Leading(n, l, now, object, Stored)
    BY OfNode, ConsumedLeading
  <2>4. s \in {"idle", "exited", "elect", "pass"}
    OBVIOUS
  <2> HIDE DEF l, s
  <2> QED BY <1>1, <2>2, <2>3, <2>4, OfNode, LosesStep
<1>5. CASE ReadFails(n) \/ PassTimesOut(n)
  <2>1. ReadFails(n) => put[n] = NoPut
    BY OfNode DEF ReadFails, PutAt
  <2>2. /\ UNCHANGED <<now, fixed, object, committed, drawn, net, lists>>
        /\ creator' = creator /\ put' = [put EXCEPT ![n] = NoPut]
        /\ pc' = [pc EXCEPT ![n] = "idle"]
        /\ cache' = [cache EXCEPT ![n] = cache[n]]
        /\ leader' = [leader EXCEPT ![n] = Missing]
        /\ job' = [job EXCEPT ![n] = job[n]]
    BY <1>5, <2>1, Unmoved DEF ReadFails, PassTimesOut, Abandon
  <2> QED BY <1>1, <2>2, OfNode, MissingKnown, LosesStep
<1>6. CASE Crash(n)
  <2>1. /\ UNCHANGED <<now, fixed, object, committed, drawn, net, lists>>
        /\ creator' = [creator EXCEPT ![n] = FALSE] /\ put' = [put EXCEPT ![n] = NoPut]
        /\ pc' = [pc EXCEPT ![n] = "exited"]
        /\ cache' = [cache EXCEPT ![n] = Missing]
        /\ leader' = [leader EXCEPT ![n] = Missing]
        /\ job' = [job EXCEPT ![n] = <<>>]
    BY <1>6 DEF Crash, Exit, Forget
  <2>2. creator' \in [Nodes -> BOOLEAN]
    BY <1>1, <2>1
  <2>3. <<>> \in Seq(Rosters \cup {Missing}) /\ JobGood(<<>>, now, object, Stored)
    BY DEF JobGood
  <2> QED BY <2>1, <2>2, <2>3, MissingKnown, LosesStep
<1>7. CASE JobReads(n)
  <2>1. /\ UNCHANGED <<now, fixed, object, committed, drawn, net>> /\ lists' = lists
        /\ creator' = creator /\ put' = [put EXCEPT ![n] = put[n]]
        /\ pc' = [pc EXCEPT ![n] = pc[n]]
        /\ cache' = [cache EXCEPT ![n] = cache[n]]
        /\ leader' = [leader EXCEPT ![n] = leader[n]]
        /\ job' = [job EXCEPT ![n] = <<object>>]
    BY <1>7, Unmoved DEF JobReads
  <2>2. Known(object, now, object, Stored)
    BY OfNode
  <2>3. <<object>> \in Seq(Rosters \cup {Missing})
    BY <2>2, KnownRosters
  <2>4. JobGood(<<object>>, now, object, Stored)
    BY <2>2 DEF JobGood
  <2> QED BY <1>1, <2>1, <2>3, <2>4, OfNode, NodeStep
<1>8. CASE JobPublishes(n)
  <2> DEFINE k == Published(job[n][1], n)
  <2>1. /\ UNCHANGED <<now, fixed, object, committed, drawn, net>> /\ lists' = lists
        /\ creator' = creator /\ put' = [put EXCEPT ![n] = put[n]]
        /\ pc' = [pc EXCEPT ![n] = pc[n]]
        /\ cache' = [cache EXCEPT ![n] = k]
        /\ leader' = [leader EXCEPT ![n] = leader[n]]
        /\ job' = [job EXCEPT ![n] = <<>>]
    BY <1>8, Unmoved DEF JobPublishes
  <2>2. Known(job[n][1], now, object, Stored)
    BY <1>8, OfNode DEF JobPublishes, JobGood
  <2>3. Known(k, now, object, Stored)
    BY <2>2, PublishedKnown
  <2>4. <<>> \in Seq(Rosters \cup {Missing}) /\ JobGood(<<>>, now, object, Stored)
    BY DEF JobGood
  <2> HIDE DEF k
  <2> QED BY <1>1, <2>1, <2>3, <2>4, OfNode, NodeStep
<1> QED BY <1>2, <1>3, <1>4, <1>5, <1>6, <1>7, <1>8
-----------------------------------------------------------------------------
(* The steps that issue a write.                                           *)

(* What a write may be made from.                                          *)
Base(b) ==
    /\ b \in Rosters /\ b.population <= b.last
    /\ b.last <= now + 2 * MaxSkew /\ b.epoch <= EpochBound + drawn

LEMMA CreatedBase ==
    ASSUME RInv, NEW n \in Nodes
    PROVE  Base(Created(n)) /\ Created(n).policy = policyOf[n]
<1> DEFINE b == Created(n)
           e == ClockOf(n) * EpochUnit
<1>1. /\ e \in Nat /\ e <= EpochBound /\ policyOf[n] \in Policies /\ now \in Nat
  BY ClockFacts DEF RInv
<1>2. /\ b.population = 0 /\ b.last = 0 /\ b.epoch = e /\ b.policy = policyOf[n]
  BY DEF Created
<1>3. b = [rev |-> 0, policy |-> policyOf[n], holder |-> n, epoch |-> e,
           last |-> 0, population |-> 0, released |-> FALSE, modified |-> 0]
  BY DEF Created
<1> HIDE DEF e, b
<1>4. e \in Epochs /\ 0 \in Revisions /\ 0 \in Clocks
  <2>1. Epochs = 0..(EpochBound + MaxWrites)
    BY DEF Epochs, EpochBound
  <2> QED BY <2>1, <1>1, Constants DEF Revisions, Clocks
<1>5. b \in Rosters
  BY <1>1, <1>3, <1>4 DEF Rosters
<1>6. drawn \in Nat
  BY DEF RInv, StoreOk, StoreGood
<1>7. 0 <= now + 2 * MaxSkew /\ e <= EpochBound + drawn
  BY <1>1, <1>6, Constants
<1> QED BY <1>2, <1>5, <1>7 DEF Base, b

LEMMA KnownBase ==
    ASSUME RInv, NEW r, Sane(r, now), r.rev <= drawn
    PROVE  Base(r)
<1>1. r \in Rosters /\ r.rev \in Nat /\ r.epoch \in Nat /\ drawn \in Nat
  BY RosterFields DEF Sane, RInv, StoreOk, StoreGood
<1>2. r.epoch <= EpochBound + drawn
  BY <1>1, Constants DEF Sane
<1> QED BY <1>2 DEF Base, Sane

LEMMA StoredDrawn ==
    ASSUME RInv, NEW k \in Stored
    PROVE  k <= drawn
<1>1. k \in 1..drawn /\ drawn \in Nat
  BY DEF RInv, StoreOk, StoreGood
<1> QED BY <1>1

(* A write made from what the node knows of the object.                    *)
LEMMA InheritsSame ==
    ASSUME RInv, NEW n \in Nodes, drawn < MaxWrites, NEW b, Base(b), NEW k \in Rosters,
           k.holder = n, Same(k, object), object \in Rosters, b.epoch = k.epoch,
           b.last >= k.last, b.population >= k.population
    PROVE  Inherits(Fresh(b, n, drawn), object, now)
<1>1. drawn \in 0..MaxWrites
  BY DEF RInv, StoreOk, StoreGood
<1>2. /\ Fresh(b, n, drawn).holder = n /\ Fresh(b, n, drawn).epoch = b.epoch + 1
      /\ Fresh(b, n, drawn).last = b.last /\ Fresh(b, n, drawn).population = b.population
  BY <1>1, FreshFacts DEF Base
<1>3. k.epoch \in Nat
  BY RosterFields
<1>4. b.epoch + 1 > object.epoch
  BY <1>3 DEF Same
<1> QED BY <1>2, <1>4 DEF Inherits, Same

LEMMA StartStep ==
    ASSUME RInv, NEW n \in Nodes, Start(n)
    PROVE  RInv'
<1>1. /\ UNCHANGED <<now, fixed, object, committed>> /\ creator' = creator /\ lists' = lists
      /\ job' = [job EXCEPT ![n] = job[n]] /\ creator \in [Nodes -> BOOLEAN]
  BY Unmoved DEF Start, RInv, ClocksOk
<1>2. CASE object.rev = 0
  <2>1. /\ Issue(n, "create", Created(n), 0) /\ cache' = [cache EXCEPT ![n] = cache[n]]
        /\ leader' = [leader EXCEPT ![n] = leader[n]]
    BY <1>2, Unmoved DEF Start
  <2>2. Base(Created(n))
    BY CreatedBase
  <2>3. "create" \in Whys
    BY DEF Whys
  <2> QED BY <1>1, <1>2, <2>1, <2>2, <2>3, OfNode, NodeIssues DEF Base
<1>3. CASE object.rev # 0
  <2> DEFINE l == IF Leads(object, n) THEN object ELSE Missing
  <2>1. put[n] = NoPut
    BY OfNode DEF Start, PutAt
  <2>2. /\ UNCHANGED <<now, fixed, object, committed, drawn, net, lists>>
        /\ put' = [put EXCEPT ![n] = NoPut] /\ pc' = [pc EXCEPT ![n] = "idle"]
        /\ cache' = [cache EXCEPT ![n] = object] /\ leader' = [leader EXCEPT ![n] = l]
    BY <1>3, <2>1, Unmoved DEF Start, StartWorker
  <2>3. Leading(n, l, now, object, Stored)
    BY OfNode, MissingKnown DEF Leading, Leads
  <2> HIDE DEF l
  <2> QED BY <1>1, <2>2, <2>3, OfNode, LosesStep
<1> QED BY <1>2, <1>3

(* An expired lease is expired on the server's clock.                      *)
LEMMA ExpiredForAll ==
    ASSUME RInv, NEW n \in Nodes, NEW m \in Nat, LeaseExpired(m, n)
    PROVE  now + MaxSkew > m + Lease
<1>1. /\ now \in Nat /\ ClockOf(n) \in Nat /\ ClockOf(n) <= now + 2 * MaxSkew
  BY ClockFacts DEF RInv
<1>2. ClockOf(n) > m + Lease + MaxSkew
  BY DEF LeaseExpired
<1> QED BY <1>1, <1>2, Constants

(* What the winner of an election writes.                                  *)
LEMMA ClaimedFacts ==
    ASSUME RInv, NEW n \in Nodes, MayElect(object, n)
    PROVE  /\ Base(Claimed(n))
           /\ object.rev # 0 =>
                /\ object \in Rosters
                /\ object.released \/ now + MaxSkew > object.modified + Lease
                /\ \/ Claimed(n).policy # object.policy
                   \/ Claimed(n).epoch = object.epoch /\ Claimed(n).last = object.last
                      /\ Claimed(n).population = object.population
<1>1. Base(Created(n)) /\ Created(n).policy = policyOf[n]
  BY CreatedBase
<1>2. CASE object.rev = 0
  BY <1>1, <1>2 DEF Claimed
<1>3. CASE object.rev # 0
  <2>1. Sane(object, now) /\ object \in Rosters /\ object.rev <= drawn
    <3>1. Sane(object, now) /\ object.rev \in Stored
      BY <1>3, OfNode, KnownRosters
    <3> QED BY <3>1, StoredDrawn DEF Sane
  <2>2. object.released \/ now + MaxSkew > object.modified + Lease
    <3>1. object.released \/ LeaseExpired(object.modified, n)
      BY <1>3 DEF MayElect, Claimable
    <3>2. object.modified \in Nat
      BY <2>1, RosterFields
    <3> QED BY <3>1, <3>2, ExpiredForAll
  <2>3. CASE Foreign(object, n)
    <3>1. Claimed(n) = Created(n)
      BY <2>3 DEF Claimed
    <3> QED BY <1>1, <2>1, <2>2, <2>3, <3>1 DEF Foreign
  <2>4. CASE ~Foreign(object, n)
    <3> DEFINE b == [object EXCEPT !.released = FALSE]
    <3>1. Claimed(n) = b
      BY <1>3, <2>4 DEF Claimed
    <3>2. /\ b \in Rosters /\ b.epoch = object.epoch /\ b.last = object.last
          /\ b.population = object.population
      BY <2>1 DEF Rosters
    <3>3. Base(object)
      BY <2>1, KnownBase
    <3> HIDE DEF b
    <3> QED BY <2>1, <2>2, <3>1, <3>2, <3>3 DEF Base
  <2> QED BY <2>3, <2>4
<1> QED BY <1>2, <1>3

LEMMA ElectStep ==
    ASSUME RInv, NEW n \in Nodes, Elect(n)
    PROVE  RInv'
<1>1. /\ UNCHANGED <<now, fixed, object, committed>> /\ creator' = creator /\ lists' = lists
      /\ job' = [job EXCEPT ![n] = job[n]] /\ creator \in [Nodes -> BOOLEAN]
  BY Unmoved DEF Elect, RInv, ClocksOk
<1>2. CASE MayElect(object, n)
  <2> DEFINE b == Claimed(n)
             f == Fresh(b, n, drawn)
  <2>1. /\ Issue(n, "elect", b, object.rev) /\ cache' = [cache EXCEPT ![n] = cache[n]]
        /\ leader' = [leader EXCEPT ![n] = leader[n]]
    BY <1>2, Unmoved DEF Elect
  <2>2. /\ Base(b)
        /\ object.rev # 0 =>
             /\ object \in Rosters
             /\ object.released \/ now + MaxSkew > object.modified + Lease
             /\ \/ b.policy # object.policy
                \/ b.epoch = object.epoch /\ b.last = object.last
                   /\ b.population = object.population
    BY <1>2, ClaimedFacts
  <2> HIDE DEF b
  <2>3. object.rev = 0 \/ object.rev \in Stored
    BY OfNode, KnownRosters
  <2>4. drawn \in 0..MaxWrites /\ drawn < MaxWrites
    BY <2>1 DEF Issue, RInv, StoreOk, StoreGood
  <2>5. /\ f.epoch = b.epoch + 1 /\ f.policy = b.policy /\ f.last = b.last
        /\ f.population = b.population
    BY <2>2, <2>4, FreshFacts DEF Base
  <2> HIDE DEF f
  <2>6. ASSUME object.rev # 0 PROVE Inherits(f, object, now)
    <3>1. /\ object.epoch \in Nat /\ object.last \in Nat /\ object.population \in Nat
      BY <2>2, <2>6, RosterFields
    <3>2. f.policy = object.policy =>
            f.epoch > object.epoch /\ f.last >= object.last /\ f.population >= object.population
      BY <2>2, <2>5, <2>6, <3>1
    <3> QED BY <2>2, <2>6, <3>2 DEF Inherits
  <2>7. "elect" \in Whys /\ "elect" # "reserve"
    BY DEF Whys
  <2> QED BY <1>1, <2>1, <2>2, <2>3, <2>6, <2>7, OfNode, NodeIssues DEF Base, f
<1>3. CASE ~MayElect(object, n)
  <2> DEFINE k == Published(object, n)
             l == Consumed(k, leader[n], n)
  <2>1. put[n] = NoPut
    BY OfNode DEF Elect, PutAt
  <2>2. /\ UNCHANGED <<now, fixed, object, committed, drawn, net, lists>>
        /\ put' = [put EXCEPT ![n] = NoPut] /\ pc' = [pc EXCEPT ![n] = "pass"]
        /\ cache' = [cache EXCEPT ![n] = k] /\ leader' = [leader EXCEPT ![n] = l]
    BY <1>3, <2>1, Unmoved DEF Elect, Learn
  <2>3. Known(k, now, object, Stored)
    BY OfNode, PublishedKnown
  <2> HIDE DEF k
  <2>4. Leading(n, l, now, object, Stored)
    BY <2>3, OfNode, ConsumedLeading
  <2> HIDE DEF l
  <2> QED BY <1>1, <2>2, <2>3, <2>4, OfNode, LosesStep
<1> QED BY <1>2, <1>3

(* What a pass writes: a reservation of a window the roster has not, or    *)
(* the same roster again.                                                  *)
PassBody(n) ==
    [object EXCEPT !.last = IF CompletedWindow(n, object.last) = 0 THEN @
                            ELSE CompletedWindow(n, object.last)]

LEMMA PassBodyFacts ==
    ASSUME RInv, NEW n \in Nodes, object \in Rosters, Sane(object, now), object.rev <= drawn
    PROVE  /\ Base(PassBody(n)) /\ PassBody(n).epoch = object.epoch
           /\ PassBody(n).last >= object.last
           /\ PassBody(n).population = object.population
           /\ PassBody(n).policy = object.policy
           /\ CompletedWindow(n, object.last) # 0 =>
                /\ PassBody(n).last = ClockOf(n) /\ ClockOf(n) > object.last
                /\ ClockOf(n) \in Windows
           /\ CompletedWindow(n, object.last) = 0 => PassBody(n).last = object.last
<1> DEFINE c == CompletedWindow(n, object.last)
           v == IF c = 0 THEN object.last ELSE c
           b == PassBody(n)
<1>1. /\ ClockOf(n) \in Nat /\ ClockOf(n) \in Clocks /\ ClockOf(n) <= now + 2 * MaxSkew
      /\ now \in Nat
  BY ClockFacts DEF RInv
<1>2. object.last \in Nat /\ object.population \in Nat /\ object.last \in Clocks
  BY RosterFields
<1>3. c = 0 \/ (c = ClockOf(n) /\ ClockOf(n) > object.last)
  BY DEF CompletedWindow
<1>4. b = [object EXCEPT !.last = v]
  BY DEF PassBody
<1>5. c # 0 => ClockOf(n) \in Windows
  BY <1>1, <1>2, <1>3, Constants DEF Windows, Clocks
<1> HIDE DEF c
<1>6. v \in Clocks /\ v >= object.last /\ v <= now + 2 * MaxSkew /\ object.population <= v
  BY <1>1, <1>2, <1>3, Constants DEF Sane
<1> HIDE DEF v
<1>7. /\ b \in Rosters /\ b.epoch = object.epoch /\ b.last = v
      /\ b.population = object.population /\ b.policy = object.policy
  BY <1>4, <1>6 DEF Rosters
<1>8. Base(object)
  BY KnownBase
<1>9. Base(b)
  BY <1>6, <1>7, <1>8 DEF Base
<1> QED BY <1>3, <1>5, <1>6, <1>7, <1>9 DEF v, b, c

LEMMA PassStep ==
    ASSUME RInv, NEW n \in Nodes, Pass(n)
    PROVE  RInv'
<1>1. /\ UNCHANGED <<now, fixed, object, committed>> /\ creator' = creator /\ lists' = lists
      /\ job' = [job EXCEPT ![n] = job[n]] /\ creator \in [Nodes -> BOOLEAN]
  BY Unmoved DEF Pass, RInv, ClocksOk
<1>2. CASE object.rev = leader[n].rev
  <2> DEFINE b == PassBody(n)
             why == IF CompletedWindow(n, object.last) = 0 THEN "renew" ELSE "reserve"
  <2>1. /\ Issue(n, why, b, object.rev) /\ cache' = [cache EXCEPT ![n] = cache[n]]
        /\ leader' = [leader EXCEPT ![n] = Missing] /\ leader[n].rev # 0
    BY <1>2, Unmoved DEF Pass, PassBody
  <2>2. /\ Leading(n, leader[n], now, object, Stored) /\ leader[n].holder = n
        /\ leader[n] \in Rosters /\ Same(leader[n], object)
    BY <1>2, <2>1, OfNode, KnownRosters DEF Leading, Sane
  <2>3. object.rev \in Stored /\ Sane(object, now) /\ object \in Rosters
    BY <1>2, <2>1, OfNode, KnownRosters DEF Sane
  <2>4. object.rev <= drawn
    BY <2>3, StoredDrawn
  <2>5. /\ Base(b) /\ b.epoch = object.epoch /\ b.last >= object.last
        /\ b.population = object.population
        /\ why = "reserve" => b.last \in Windows
    BY <2>3, <2>4, PassBodyFacts
  <2>6. why \in Whys
    BY DEF Whys
  <2>7. drawn < MaxWrites
    BY <2>1 DEF Issue
  <2> HIDE DEF b, why
  <2>8. Inherits(Fresh(b, n, drawn), object, now)
    <3>1. object.population \in Nat /\ object.last \in Nat
      BY <2>3, RosterFields
    <3>2. b.epoch = leader[n].epoch /\ b.last >= leader[n].last
          /\ b.population >= leader[n].population
      BY <2>2, <2>5, <3>1 DEF Same
    <3> QED BY <2>2, <2>3, <2>5, <2>7, <3>2, InheritsSame
  <2> QED BY <1>1, <2>1, <2>3, <2>5, <2>6, <2>8, OfNode, MissingKnown, NodeIssues DEF Base
<1>3. CASE object.rev # leader[n].rev
  <2> DEFINE k == Published(object, n)
             l == Consumed(k, Missing, n)
  <2>1. put[n] = NoPut
    BY OfNode DEF Pass, PutAt
  <2>2. /\ UNCHANGED <<now, fixed, object, committed, drawn, net, lists>>
        /\ put' = [put EXCEPT ![n] = NoPut] /\ pc' = [pc EXCEPT ![n] = "idle"]
        /\ cache' = [cache EXCEPT ![n] = k] /\ leader' = [leader EXCEPT ![n] = l]
    BY <1>3, <2>1, Unmoved DEF Pass, Learn
  <2>3. Known(k, now, object, Stored)
    BY OfNode, PublishedKnown
  <2> HIDE DEF k
  <2>4. Leading(n, l, now, object, Stored)
    BY <2>3, MissingKnown, ConsumedLeading
  <2> HIDE DEF l
  <2> QED BY <1>1, <2>2, <2>3, <2>4, OfNode, LosesStep
<1> QED BY <1>2, <1>3

LEMMA PublishStep ==
    ASSUME RInv, NEW n \in Nodes, Publish(n)
    PROVE  RInv'
<1> DEFINE k == put[n].body
<1>1. /\ UNCHANGED <<now, fixed, object, committed>> /\ creator' = creator /\ lists' = lists
      /\ job' = [job EXCEPT ![n] = job[n]] /\ creator \in [Nodes -> BOOLEAN]
      /\ cache' = [cache EXCEPT ![n] = cache[n]] /\ leader' = [leader EXCEPT ![n] = leader[n]]
  BY Unmoved DEF Publish, RInv, ClocksOk
<1>2. put[n] \in Reserved
  BY OfNode DEF Publish, PutAt
<1>3. put[n] # NoPut /\ put[n].why = "list"
  BY <1>2 DEF Reserved, NoPut
<1>4. /\ Sane(k, now) /\ k \in Rosters /\ k.holder = n /\ k.rev <= drawn /\ k.rev \in Stored
      /\ (k.rev = object.rev => Same(k, object))
  BY <1>3, OfNode DEF PutGood, Sane
<1>5. PICK e \in {k.population, k.last} :
        Issue(n, "publish", [k EXCEPT !.population = e], k.rev)
  BY DEF Publish, ReservedVersion
<1> HIDE DEF k
<1> DEFINE b == [k EXCEPT !.population = e]
<1>6. /\ k.last \in Clocks /\ k.population \in Clocks /\ k.last \in Nat /\ k.population \in Nat
  BY <1>4, RosterFields
<1>7. e \in Clocks /\ e <= k.last /\ e >= k.population
  BY <1>4, <1>6 DEF Sane
<1>8. b \in Rosters /\ b.epoch = k.epoch /\ b.last = k.last /\ b.population = e
  BY <1>4, <1>7 DEF Rosters
<1>9. Issue(n, "publish", b, k.rev) /\ drawn < MaxWrites
  BY <1>5 DEF Issue
<1> HIDE DEF b
<1>10. Base(k)
  BY <1>4, KnownBase
<1>11. Base(b)
  BY <1>7, <1>8, <1>10 DEF Base
<1>12. ASSUME k.rev = object.rev, object.rev # 0
       PROVE  Inherits(Fresh(b, n, drawn), object, now)
  <2>1. object \in Rosters
    BY <1>12, OfNode, KnownRosters DEF Sane
  <2>2. b.last >= k.last /\ b.population >= k.population
    BY <1>6, <1>7, <1>8
  <2> QED BY <1>4, <1>8, <1>9, <1>11, <1>12, <2>1, <2>2, InheritsSame
<1>13. "publish" \in Whys /\ "publish" # "reserve"
  BY DEF Whys
<1> QED BY <1>1, <1>4, <1>9, <1>11, <1>12, <1>13, OfNode, NodeIssues DEF Base

LEMMA ReleaseStep ==
    ASSUME RInv, NEW n \in Nodes, Release(n)
    PROVE  RInv'
<1>1. /\ UNCHANGED <<now, fixed, object, committed>> /\ lists' = lists
      /\ creator' = [creator EXCEPT ![n] = FALSE] /\ creator \in [Nodes -> BOOLEAN]
      /\ cache' = [cache EXCEPT ![n] = Missing] /\ leader' = [leader EXCEPT ![n] = Missing]
      /\ job' = [job EXCEPT ![n] = <<>>]
  BY DEF Release, Forget, RInv, ClocksOk
<1>2. creator' \in [Nodes -> BOOLEAN]
  BY <1>1
<1>3. <<>> \in Seq(Rosters \cup {Missing}) /\ JobGood(<<>>, now, object, Stored)
  BY DEF JobGood
<1>4. CASE leader[n].rev = 0
  <2>1. /\ UNCHANGED <<now, fixed, object, committed, drawn, net, lists>>
        /\ put' = [put EXCEPT ![n] = NoPut] /\ pc' = [pc EXCEPT ![n] = "exited"]
    BY <1>1, <1>4 DEF Release, Exit
  <2> QED BY <1>1, <1>2, <1>3, <2>1, MissingKnown, LosesStep
<1>5. CASE leader[n].rev # 0
  <2> DEFINE k == leader[n]
             b == [k EXCEPT !.released = TRUE]
  <2>1. Issue(n, "release", b, k.rev) /\ drawn < MaxWrites
    BY <1>5 DEF Release, Issue
  <2>2. /\ Sane(k, now) /\ k \in Rosters /\ k.holder = n /\ k.rev \in Stored
        /\ (k.rev = object.rev => Same(k, object))
    BY <1>5, OfNode, KnownRosters DEF Leading, Sane
  <2> HIDE DEF k
  <2>3. /\ b \in Rosters /\ b.epoch = k.epoch /\ b.last = k.last /\ b.population = k.population
    BY <2>2 DEF Rosters
  <2> HIDE DEF b
  <2>4. Base(b)
    <3>1. Base(k)
      BY <2>2, StoredDrawn, KnownBase
    <3> QED BY <3>1, <2>3 DEF Base
  <2>5. ASSUME k.rev = object.rev, object.rev # 0
        PROVE  Inherits(Fresh(b, n, drawn), object, now)
    <3>1. object \in Rosters
      BY <2>5, OfNode, KnownRosters DEF Sane
    <3>2. b.last >= k.last /\ b.population >= k.population
      BY <2>2, <2>3, RosterFields
    <3> QED BY <2>1, <2>2, <2>3, <2>4, <2>5, <3>1, <3>2, InheritsSame
  <2>6. "release" \in Whys /\ "release" # "reserve"
    BY DEF Whys
  <2> QED BY <1>1, <1>2, <1>3, <2>1, <2>2, <2>4, <2>5, <2>6, MissingKnown, NodeIssues DEF Base
<1> QED BY <1>4, <1>5

-----------------------------------------------------------------------------
(* The inductive invariant.                                                *)

LEMMA InitInv == Init => RInv
<1> SUFFICES ASSUME Init PROVE RInv
  OBVIOUS
<1>1. committed = <<>> /\ object = Missing /\ drawn = 0 /\ net = {} /\ now = 0
  BY DEF Init
<1>2. Stored = {} /\ committed \in Seq(Nat)
  BY <1>1 DEF Stored
<1>3. ClocksOk
  BY Constants DEF Init, ClocksOk
<1>4. StoreOk
  BY <1>1, <1>2, MissingKnown, Constants DEF StoreOk, StoreGood
<1>5. NetOk
  BY <1>1 DEF NetOk, NetGood
<1>6. PutsOk
  <2>1. \A n \in Nodes : pc[n] = "down" /\ put[n] = NoPut
    BY DEF Init
  <2>2. pc \in [Nodes -> Steps] /\ put \in [Nodes -> Writes \cup Reserved \cup {NoPut}]
    BY DEF Init, Steps
  <2> QED BY <2>1, <2>2 DEF PutsOk, PutAt
<1>7. NodesOk
  <2>1. <<>> \in Seq(Rosters \cup {Missing})
    OBVIOUS
  <2>2. /\ cache \in [Nodes -> Rosters \cup {Missing}]
        /\ leader \in [Nodes -> Rosters \cup {Missing}]
        /\ job \in [Nodes -> Seq(Rosters \cup {Missing})]
    BY <2>1 DEF Init
  <2>3. \A n \in Nodes : cache[n] = Missing /\ leader[n] = Missing /\ job[n] = <<>>
    BY DEF Init
  <2> QED BY <2>2, <2>3, MissingKnown DEF NodesOk, JobGood
<1> QED BY <1>3, <1>4, <1>5, <1>6, <1>7 DEF RInv

LEMMA StutterStep ==
    ASSUME RInv, UNCHANGED vars
    PROVE  RInv'
<1>1. Stored' = Stored
  BY DEF vars, Stored
<1>2. ClocksOk' /\ StoreOk' /\ NetOk'
  BY <1>1 DEF RInv, vars, fixed, ClocksOk, StoreOk, NetOk
<1>3. PutsOk' /\ NodesOk'
  BY <1>1 DEF RInv, vars, PutsOk, NodesOk
<1> QED BY <1>2, <1>3 DEF RInv

LEMMA RosterNext == RInv /\ [Next]_vars => RInv'
<1> SUFFICES ASSUME RInv, [Next]_vars PROVE RInv'
  OBVIOUS
<1>1. CASE Tick
  BY <1>1, TickStep
<1>2. CASE \E r \in net : ServerPut(r)
  BY <1>2, ServerStep
<1>3. ASSUME NEW n \in Nodes,
             \/ Start(n) \/ PutAnswered(n) \/ Readback(n) \/ ReadbackFails(n)
             \/ Elect(n) \/ Pass(n) \/ Publish(n) \/ Release(n)
      PROVE  RInv'
  <2>1. ReadbackFails(n) => RInv'
    BY PutFailsStep DEF ReadbackFails
  <2> QED BY <1>3, <2>1, StartStep, AnsweredStep, ReadbackStep, ElectStep, PassStep,
             PublishStep, ReleaseStep
<1>4. ASSUME NEW n \in Nodes,
             \/ StartFails(n) \/ PutTimesOut(n) \/ LoopHead(n) \/ NotDue(n)
             \/ ReadFails(n) \/ PassTimesOut(n) \/ Crash(n) \/ JobReads(n) \/ JobPublishes(n)
      PROVE  RInv'
  BY <1>4, QuietSteps
<1>5. CASE UNCHANGED vars
  BY <1>5, StutterStep
<1> QED BY <1>1, <1>2, <1>3, <1>4, <1>5 DEF Next

LEMMA InvAlways == Spec => []RInv
<1> QED BY InitInv, RosterNext, PTL DEF Spec

LEMMA RosterInvHolds == RInv => RosterInv
<1> SUFFICES ASSUME RInv PROVE RosterInv
  OBVIOUS
<1>1. /\ object \in Rosters \cup {Missing} /\ drawn \in Revisions
      /\ now \in 0..MaxTime /\ offset \in Offsets /\ policyOf \in Deployments
      /\ creator \in [Nodes -> BOOLEAN]
      /\ cache \in [Nodes -> Rosters \cup {Missing}]
      /\ leader \in [Nodes -> Rosters \cup {Missing}]
      /\ pc \in [Nodes -> Steps]
  BY KnownRosters DEF RInv, ClocksOk, StoreOk, StoreGood, NodesOk, PutsOk, Revisions
<1>2. \A r \in net : r.body \in Rosters /\ r.cond \in Revisions
  BY DEF RInv, NetOk, NetGood, RequestGood
<1>3. ASSUME NEW n \in Nodes, put[n] # NoPut
      PROVE  /\ put[n].why \in {"create", "elect", "renew", "reserve", "list", "publish",
                                "release"}
             /\ put[n].body \in Rosters
  <2>1. put[n] \in Writes \cup Reserved
    BY <1>3, OfNode
  <2> QED BY <2>1 DEF Writes, Reserved, Whys
<1>4. ASSUME NEW n \in Nodes, job[n] # <<>>
      PROVE  job[n][1] \in Rosters \cup {Missing}
  BY <1>4, OfNode, KnownRosters DEF JobGood
<1>5. TypeOK
  BY <1>1, <1>2, <1>3, <1>4 DEF TypeOK, Steps
<1>6. ASSUME NEW n \in Nodes, leader[n].rev # 0
      PROVE  /\ leader[n].holder = n
             /\ \E k \in 1..Len(committed) : committed[k] = leader[n].rev
  <2>1. leader[n].holder = n /\ leader[n].rev \in Stored
    BY <1>6, OfNode, KnownRosters DEF Leading
  <2> QED BY <2>1 DEF Stored
<1>7. LeaderWroteIt
  BY <1>6 DEF LeaderWroteIt
<1> QED BY <1>5, <1>7 DEF RosterInv

(* A node that leads does so with a roster that it wrote itself and that   *)
(* the store took, whatever answers were lost or late (replace and the     *)
(* readback, engine.rs).                                                   *)
THEOREM LeaderTheorem == Spec => []RosterInv
<1> QED BY InvAlways, RosterInvHolds, PTL

(* What replaces the object inherits from it.                              *)
LEMMA ReplacedBy ==
    ASSUME RInv, [Next]_vars, object'.rev # object.rev, object.rev # 0
    PROVE  Inherits(object', object, now)
<1>1. PICK r \in net : ServerPut(r)
  BY DEF Next, vars, Tick, Start, StartFails, PutTimesOut, PutAnswered, Readback,
         ReadbackFails, LoopHead, NotDue, Elect, Pass, ReadFails, Publish, PassTimesOut,
         Release, Crash, JobReads, JobPublishes
<1>2. /\ object.rev = r.cond /\ object' = [r.body EXCEPT !.modified = ServerClock]
  BY <1>1 DEF ServerPut
<1>3. RequestGood(r, object, Stored, drawn, now)
  BY DEF RInv, NetOk, NetGood
<1>4. r.body \in Rosters /\ Inherits(r.body, object, now)
  BY <1>2, <1>3 DEF RequestGood
<1>5. /\ object'.holder = r.body.holder /\ object'.policy = r.body.policy
      /\ object'.epoch = r.body.epoch /\ object'.last = r.body.last
      /\ object'.population = r.body.population
  BY <1>2, <1>4 DEF Rosters
<1> QED BY <1>4, <1>5 DEF Inherits

LEMMA HonouredStep ==
    RInv /\ [Next]_vars =>
        (object'.rev # object.rev /\ object.rev # 0 /\ object'.rev # 0
             /\ object'.holder # object.holder
           => object.released \/ ServerClock > object.modified + Lease)
BY ReplacedBy DEF Inherits, ServerClock

LEMMA KeptStep ==
    RInv /\ [Next]_vars =>
        (object'.rev # object.rev /\ object.rev # 0 /\ object'.rev # 0
             /\ object'.policy = object.policy
           => /\ object'.epoch > object.epoch
              /\ object'.last >= object.last
              /\ object'.population >= object.population)
BY ReplacedBy DEF Inherits

(* No clock within the skew, no late commit and no other policy takes the  *)
(* roster from a leader that renews in time (lease_expired, engine.rs).    *)
THEOREM LeaseTheorem == Spec => LeaseHonoured
<1> QED BY InvAlways, HonouredStep, PTL DEF Spec, LeaseHonoured

(* Under one policy the epoch grows and neither a reserved window nor a    *)
(* population estimate is ever overwritten by an older one (mutate,        *)
(* election and update, engine.rs).                                        *)
THEOREM KeptTheorem == Spec => NothingPublishedIsLost
<1> QED BY InvAlways, KeptStep, PTL DEF Spec, NothingPublishedIsLost

-----------------------------------------------------------------------------
(* The census of a window.  A window is spent once its census was taken or *)
(* its reservation is stored.                                              *)

Pending(n) == put[n].why = "reserve" /\ put[n].body.rev \in Stored

Spent(x) == lists[x] > 0 \/ \E n \in Nodes : Pending(n) /\ put[n].body.last = x

(* The stored roster names it, or it is in every clock's past.             *)
SpentIsPast ==
    \A x \in Windows : Spent(x) => object.rev # 0 /\ (x <= object.last \/ x < now)

(* A takeover that forgets the reservations leaves them in the past.       *)
Forgets(r) ==
    r.cond = object.rev /\ object.rev # 0 => r.body.last >= object.last \/ object.last < now

ForgetsThePast == \A r \in net : Forgets(r)

(* A reservation that may still be stored is of an unspent window.         *)
ReservesUnspent ==
    \A r \in net, n \in Nodes :
        r.cond = object.rev /\ put[n].why = "reserve" /\ put[n].body.rev = r.body.rev =>
            \A x \in Windows : Spent(x) => x < r.body.last

PendingOnce ==
    /\ \A n \in Nodes : Pending(n) => lists[put[n].body.last] = 0
    /\ \A m, n \in Nodes : Pending(m) /\ Pending(n)
                             /\ put[m].body.last = put[n].body.last => m = n

WInv ==
    SpentIsPast /\ ForgetsThePast /\ ReservesUnspent /\ PendingOnce /\ WindowListedOnce

(* No reservation is new, no census is taken, nothing is stored.           *)
LEMMA WindowsKept ==
    ASSUME RInv, WInv, UNCHANGED <<object, committed, lists>>,
           net' \subseteq net, now' \in Nat, now <= now',
           \A m \in Nodes : put'[m].why = "reserve" =>
               put[m].why = "reserve" /\ put'[m].body = put[m].body
    PROVE  WInv'
<1>1. Stored' = Stored
  BY DEF Stored
<1>2. \A m \in Nodes : Pending(m)' => Pending(m) /\ put'[m].body = put[m].body
  BY <1>1 DEF Pending
<1>3. \A x \in Windows : Spent(x)' => Spent(x)
  BY <1>2 DEF Spent
<1>4. /\ now \in Nat /\ \A x \in Windows : x \in Nat
      /\ object.rev # 0 => object.last \in Nat
  <2>1. object.rev # 0 => object \in Rosters
    BY KnownRosters DEF RInv, StoreOk, StoreGood, Sane
  <2> QED BY <2>1, RosterFields, Constants DEF RInv, ClocksOk, Windows
<1>5. SpentIsPast'
  <2> SUFFICES ASSUME NEW x \in Windows, Spent(x)'
               PROVE  object.rev # 0 /\ (x <= object.last \/ x < now')
    BY DEF SpentIsPast
  <2>1. object.rev # 0 /\ (x <= object.last \/ x < now)
    BY <1>3 DEF WInv, SpentIsPast
  <2> QED BY <2>1, <1>4
<1>6. ForgetsThePast'
  <2> SUFFICES ASSUME NEW r \in net, r.cond = object.rev, object.rev # 0
               PROVE  r.body.last >= object.last \/ object.last < now'
    BY DEF ForgetsThePast, Forgets
  <2>1. r.body.last >= object.last \/ object.last < now
    BY DEF WInv, ForgetsThePast, Forgets
  <2> QED BY <2>1, <1>4
<1>7. ReservesUnspent'
  <2> SUFFICES ASSUME NEW r \in net, NEW n \in Nodes, r.cond = object.rev,
                      put'[n].why = "reserve", put'[n].body.rev = r.body.rev,
                      NEW x \in Windows, Spent(x)'
               PROVE  x < r.body.last
    BY DEF ReservesUnspent
  <2> QED BY <1>3 DEF WInv, ReservesUnspent
<1>8. PendingOnce'
  BY <1>2 DEF WInv, PendingOnce
<1>9. WindowListedOnce'
  BY DEF WInv, WindowListedOnce
<1> QED BY <1>5, <1>6, <1>7, <1>8, <1>9 DEF WInv

(* A node issues a write: it forgets nothing that is not past, and what it *)
(* reserves is ahead of everything spent.                                  *)
LEMMA WindowsIssued ==
    ASSUME RInv, WInv, NEW n \in Nodes, UNCHANGED <<now, object, committed, lists>>,
           NEW why \in Whys, NEW b, Base(b), NEW cond, Issue(n, why, b, cond),
           cond = object.rev /\ object.rev # 0 => b.last >= object.last \/ object.last < now,
           why = "reserve" => b.last > object.last /\ b.last >= now /\ object.rev # 0
    PROVE  WInv'
<1> DEFINE f == Fresh(b, n, drawn)
           r == [body |-> f, cond |-> cond]
           x == [why |-> why, body |-> f, since |-> now, answer |-> "none"]
<1>1. Stored' = Stored /\ object' = object /\ now' = now /\ lists' = lists
  BY DEF Stored
<1>2. /\ drawn < MaxWrites /\ net' = net \cup {r} /\ put' = [put EXCEPT ![n] = x]
  BY DEF Issue, Fresh
<1>3. /\ drawn \in 0..MaxWrites /\ drawn \in Nat /\ Stored \subseteq 1..drawn
  BY Constants DEF RInv, StoreOk, StoreGood
<1>4. f.rev = drawn + 1 /\ f.last = b.last
  BY <1>2, <1>3, FreshFacts DEF Base
<1>5. /\ now \in Nat /\ (\A w \in Windows : w \in Nat) /\ b.last \in Nat
      /\ object.rev # 0 => object.last \in Nat
  <2>1. object.rev # 0 => object \in Rosters
    BY KnownRosters DEF RInv, StoreOk, StoreGood, Sane
  <2> QED BY <2>1, RosterFields, Constants DEF RInv, ClocksOk, Windows, Base
<1> HIDE DEF f
<1>6. /\ put'[n].why = why /\ put'[n].body = f
      /\ \A m \in Nodes : m # n => put'[m] = put[m]
  BY <1>2 DEF RInv, PutsOk
<1>7. f.rev \notin Stored
  BY <1>3, <1>4
<1>8. \A m \in Nodes : Pending(m)' => m # n /\ Pending(m) /\ put'[m] = put[m]
  BY <1>1, <1>6, <1>7 DEF Pending
<1>9. \A w \in Windows : Spent(w)' => Spent(w)
  BY <1>1, <1>8 DEF Spent
<1>10. SpentIsPast'
  BY <1>1, <1>9 DEF WInv, SpentIsPast
<1>11. ForgetsThePast'
  <2>1. r.body = f /\ r.cond = cond
    OBVIOUS
  <2>2. Forgets(r)
    BY <2>1, <1>4 DEF Forgets
  <2>3. \A q \in net \cup {r} : Forgets(q)
    BY <2>2 DEF WInv, ForgetsThePast
  <2> QED BY <2>3, <1>1, <1>2 DEF ForgetsThePast, Forgets
<1>12. ReservesUnspent'
  <2> SUFFICES ASSUME NEW q \in net \cup {r}, NEW m \in Nodes, q.cond = object.rev,
                      put'[m].why = "reserve", put'[m].body.rev = q.body.rev,
                      NEW w \in Windows, Spent(w)'
               PROVE  w < q.body.last
    BY <1>1, <1>2 DEF ReservesUnspent
  <2>1. Spent(w)
    BY <1>9
  <2>2. CASE m = n
    <3>1. why = "reserve" /\ q.body.rev = drawn + 1
      BY <2>2, <1>4, <1>6
    <3>2. \A p \in net : p.body.rev \in Nat /\ p.body.rev <= drawn
      BY RosterFields DEF RInv, NetOk, NetGood, RequestGood, Sane
    <3>3. q.body = f
      BY <3>1, <3>2, <1>3
    <3>4. object.rev # 0 /\ (w <= object.last \/ w < now)
      BY <2>1 DEF WInv, SpentIsPast
    <3>5. w \in Nat /\ object.last \in Nat /\ b.last > object.last /\ b.last >= now
      BY <3>1, <3>4, <1>5
    <3>6. w < b.last
      BY <3>4, <3>5, <1>5
    <3> QED BY <3>3, <3>6, <1>4
  <2>3. CASE m # n
    <3>1. put'[m] = put[m]
      BY <2>3, <1>6
    <3>2. put[m] # NoPut
      BY <3>1 DEF NoPut
    <3>3. put[m].body.rev \in Nat /\ put[m].body.rev <= drawn
      BY <3>2, OfNode, RosterFields DEF PutGood, Sane
    <3>4. q \in net
      BY <3>1, <3>3, <1>3, <1>4
    <3> QED BY <2>1, <3>1, <3>4 DEF WInv, ReservesUnspent
  <2> QED BY <2>2, <2>3
<1>13. PendingOnce'
  BY <1>1, <1>8 DEF WInv, PendingOnce
<1>14. WindowListedOnce'
  BY <1>1 DEF WInv, WindowListedOnce
<1> QED BY <1>10, <1>11, <1>12, <1>13, <1>14 DEF WInv

(* The census of a stored reservation is taken.                            *)
LEMMA WindowCounted ==
    ASSUME RInv, WInv, NEW n \in Nodes, Pending(n),
           UNCHANGED <<now, object, committed, net>>,
           NEW w \in Windows, w = put[n].body.last, lists' = [lists EXCEPT ![w] = @ + 1],
           put'[n].why # "reserve", \A m \in Nodes : m # n => put'[m] = put[m]
    PROVE  WInv'
<1>1. Stored' = Stored /\ object' = object /\ now' = now /\ net' = net
  BY DEF Stored
<1>2. lists \in [Windows -> Nat] /\ lists[w] = 0
  BY DEF RInv, ClocksOk, WInv, PendingOnce
<1>3. lists'[w] = 1 /\ \A v \in Windows : v # w => lists'[v] = lists[v]
  BY <1>2
<1>4. \A m \in Nodes : Pending(m)' => m # n /\ Pending(m) /\ put'[m] = put[m]
  BY <1>1 DEF Pending
<1>5. Spent(w)
  BY DEF Spent
<1>6. \A v \in Windows : Spent(v)' => Spent(v)
  BY <1>3, <1>4, <1>5 DEF Spent
<1>7. SpentIsPast'
  BY <1>1, <1>6 DEF WInv, SpentIsPast
<1>8. ForgetsThePast'
  BY <1>1 DEF WInv, ForgetsThePast, Forgets
<1>9. ReservesUnspent'
  <2> SUFFICES ASSUME NEW q \in net, NEW m \in Nodes, q.cond = object.rev,
                      put'[m].why = "reserve", put'[m].body.rev = q.body.rev,
                      NEW v \in Windows, Spent(v)'
               PROVE  v < q.body.last
    BY <1>1 DEF ReservesUnspent
  <2>1. put'[m] = put[m]
    OBVIOUS
  <2> QED BY <2>1, <1>6 DEF WInv, ReservesUnspent
<1>10. PendingOnce'
  <2>1. ASSUME NEW m \in Nodes, Pending(m)' PROVE lists'[put'[m].body.last] = 0
    <3>1. m # n /\ Pending(m) /\ put'[m] = put[m]
      BY <2>1, <1>4
    <3>2. put[m].body.last # w /\ lists[put[m].body.last] = 0
      BY <3>1 DEF WInv, PendingOnce
    <3>3. put[m].body.last \in Windows
      <4>1. put[m] # NoPut /\ put[m].why = "reserve"
        BY <3>1 DEF Pending, NoPut
      <4> QED BY <4>1, OfNode DEF PutGood
    <3> QED BY <3>1, <3>2, <3>3, <1>3
  <2>2. \A k, m \in Nodes : Pending(k)' /\ Pending(m)'
                              /\ put'[k].body.last = put'[m].body.last => k = m
    BY <1>4 DEF WInv, PendingOnce
  <2> QED BY <2>1, <2>2 DEF PendingOnce
<1>11. WindowListedOnce'
  BY <1>3 DEF WInv, WindowListedOnce
<1> QED BY <1>7, <1>8, <1>9, <1>10, <1>11 DEF WInv

(* The store takes a request, or refuses it.                               *)
LEMMA WindowsServed ==
    ASSUME RInv, WInv, NEW r \in net, ServerPut(r)
    PROVE  WInv'
<1>1. /\ net' = net \ {r} /\ now' = now /\ lists' = lists
  BY DEF ServerPut
<1>2. \A m \in Nodes : /\ put'[m].why = put[m].why
                       /\ put[m].why = "reserve" => put'[m].body = put[m].body
  <2> SUFFICES ASSUME NEW m \in Nodes
               PROVE  /\ put'[m].why = put[m].why
                      /\ put[m].why = "reserve" => put'[m].body = put[m].body
    OBVIOUS
  <2> DEFINE a == IF object.rev = r.cond THEN "stored" ELSE "refused"
  <2>1. AnswerStep(r, a)
    BY ServerAnswers DEF RInv
  <2>2. a \in {"stored", "refused"}
    OBVIOUS
  <2> HIDE DEF a
  <2> QED BY <2>1, <2>2, AnsweredFacts DEF AnswerStep
<1>3. RequestGood(r, object, Stored, drawn, now)
  BY DEF RInv, NetOk, NetGood
<1>4. now \in Nat
  BY DEF RInv, ClocksOk
<1>5. CASE object.rev # r.cond
  <2>1. UNCHANGED <<object, committed, lists>>
    BY <1>1, <1>5 DEF ServerPut
  <2>2. now' \in Nat /\ now <= now'
    BY <1>1, <1>4
  <2> QED BY <1>1, <1>2, <2>1, <2>2, WindowsKept
<1>6. CASE object.rev = r.cond
  <2>1. /\ object' = [r.body EXCEPT !.modified = ServerClock]
        /\ committed' = Append(committed, r.body.rev)
    BY <1>6 DEF ServerPut
  <2>2. /\ r.body \in Rosters /\ r.body.rev # 0 /\ r.body.rev \notin Stored
        /\ r.body.rev \in Nat /\ r.body.last \in Nat
    BY <1>3, RosterFields DEF RequestGood, Sane
  <2>3. object'.rev = r.body.rev /\ object'.last = r.body.last
    BY <2>1, <2>2 DEF Rosters
  <2>4. Stored' = Stored \cup {r.body.rev}
    <3>1. committed \in Seq(Nat) /\ Len(committed) \in Nat
      BY LenProperties DEF RInv, StoreOk
    <3>2. /\ Len(committed') = Len(committed) + 1
          /\ \A k \in 1..Len(committed) : committed'[k] = committed[k]
          /\ committed'[Len(committed) + 1] = r.body.rev
      BY <2>1, <2>2, <3>1, AppendProperties
    <3>3. 1..(Len(committed) + 1) = (1..Len(committed)) \cup {Len(committed) + 1}
      BY <3>1
    <3> QED BY <3>2, <3>3 DEF Stored
  <2>5. ASSUME NEW m \in Nodes, Pending(m)', ~Pending(m)
        PROVE  /\ put[m].why = "reserve" /\ put[m].body = r.body /\ put'[m].body = r.body
               /\ r.body.holder = m /\ r.body.last \in Windows
    <3>1. put[m].why = "reserve" /\ put'[m].body = put[m].body
      BY <2>5, <1>2 DEF Pending
    <3>2. put[m].body.rev = r.body.rev
      BY <2>4, <2>5, <3>1 DEF Pending
    <3>3. PutGood(m, put[m], net, object, Stored, drawn, now)
      BY <3>1, OfNode DEF NoPut
    <3> QED BY <3>1, <3>2, <3>3 DEF PutGood
  <2>6. ASSUME NEW m \in Nodes, Pending(m)
        PROVE  put'[m].body = put[m].body /\ put[m].body.last \in Windows
    <3>1. PutGood(m, put[m], net, object, Stored, drawn, now) /\ put[m].why = "reserve"
      BY <2>6, OfNode DEF Pending, NoPut
    <3> QED BY <3>1, <1>2 DEF PutGood
  <2>7. ASSUME NEW m \in Nodes, Pending(m)', ~Pending(m), NEW x \in Windows, Spent(x)
        PROVE  x # r.body.last
    <3>1. put[m].why = "reserve" /\ put[m].body.rev = r.body.rev
      BY <2>5, <2>7
    <3>2. x < r.body.last
      BY <3>1, <2>7, <1>6 DEF WInv, ReservesUnspent
    <3> QED BY <3>2, <2>2
  <2>8. ASSUME NEW x \in Windows, Spent(x)'
        PROVE  Spent(x) \/ x = r.body.last
    BY <2>5, <2>6, <2>8, <1>1 DEF Spent
  <2>9. SpentIsPast'
    <3> SUFFICES ASSUME NEW x \in Windows, Spent(x)'
                 PROVE  x <= r.body.last \/ x < now
      BY <1>1, <2>2, <2>3 DEF SpentIsPast
    <3>1. CASE x = r.body.last
      BY <3>1, <2>2
    <3>2. CASE Spent(x)
      <4>1. object.rev # 0 /\ (x <= object.last \/ x < now)
        BY <3>2 DEF WInv, SpentIsPast
      <4>2. r.body.last >= object.last \/ object.last < now
        BY <4>1, <1>6 DEF WInv, ForgetsThePast, Forgets
      <4>3. x \in Nat /\ object.last \in Nat
        <5>1. object \in Rosters
          BY <4>1, KnownRosters DEF RInv, StoreOk, StoreGood, Sane
        <5> QED BY <5>1, RosterFields, Constants DEF Windows
      <4> QED BY <4>1, <4>2, <4>3, <2>2, <1>4
    <3> QED BY <3>1, <3>2, <2>8
  <2>10. \A q \in net' : q.cond # object'.rev
    <3> SUFFICES ASSUME NEW q \in net PROVE q.cond # r.body.rev
      BY <1>1, <2>3
    <3>1. q.cond = 0 \/ q.cond \in Stored
      BY DEF RInv, NetOk, NetGood, RequestGood
    <3> QED BY <3>1, <2>2
  <2>11. ForgetsThePast' /\ ReservesUnspent'
    BY <2>10 DEF ForgetsThePast, Forgets, ReservesUnspent
  <2>12. PendingOnce'
    <3>1. ASSUME NEW m \in Nodes, Pending(m)' PROVE lists[put'[m].body.last] = 0
      <4>1. CASE Pending(m)
        BY <4>1, <2>6 DEF WInv, PendingOnce
      <4>2. CASE ~Pending(m)
        <5>1. put'[m].body = r.body /\ r.body.last \in Windows
          BY <3>1, <4>2, <2>5
        <5>2. ~Spent(r.body.last)
          BY <3>1, <4>2, <5>1, <2>7
        <5>3. lists[r.body.last] \in Nat
          BY <5>1 DEF RInv, ClocksOk
        <5> QED BY <5>1, <5>2, <5>3 DEF Spent
      <4> QED BY <4>1, <4>2
    <3>2. ASSUME NEW k \in Nodes, NEW m \in Nodes, Pending(k)', ~Pending(k), Pending(m)
          PROVE  put'[k].body.last # put'[m].body.last
      <4>1. Spent(put[m].body.last) /\ put[m].body.last \in Windows
        BY <3>2, <2>6 DEF Spent
      <4> QED BY <3>2, <4>1, <2>5, <2>6, <2>7
    <3>3. ASSUME NEW k \in Nodes, NEW m \in Nodes, Pending(k)', Pending(m)',
                 put'[k].body.last = put'[m].body.last
          PROVE  k = m
      <4>1. CASE Pending(k) /\ Pending(m)
        BY <3>3, <4>1, <2>6 DEF WInv, PendingOnce
      <4>2. CASE ~Pending(k) /\ ~Pending(m)
        BY <3>3, <4>2, <2>5
      <4> QED BY <3>2, <3>3, <4>1, <4>2
    <3> QED BY <1>1, <3>1, <3>3 DEF PendingOnce
  <2>13. WindowListedOnce'
    BY <1>1 DEF WInv, WindowListedOnce
  <2> QED BY <2>9, <2>11, <2>12, <2>13 DEF WInv
<1> QED BY <1>5, <1>6

(* A node drops its write, or has none to settle.                          *)
LEMMA WindowsDropped ==
    ASSUME RInv, WInv, NEW n \in Nodes, UNCHANGED <<now, object, committed, net, lists>>,
           put' = put \/ put' = [put EXCEPT ![n] = NoPut]
    PROVE  WInv'
<1>1. \A m \in Nodes : put'[m].why = "reserve" =>
          put[m].why = "reserve" /\ put'[m].body = put[m].body
  BY DEF NoPut, RInv, PutsOk
<1>2. now' \in Nat /\ now <= now' /\ net' \subseteq net /\ UNCHANGED <<object, committed, lists>>
  BY DEF RInv, ClocksOk
<1> QED BY <1>1, <1>2, WindowsKept

(* The write is in: a reservation's census is taken.                       *)
LEMMA WindowsSucceeded ==
    ASSUME RInv, WInv, NEW n \in Nodes, put[n] \in Writes, put[n].body.rev \in Stored,
           NEW r, r.last = put[n].body.last, PutSucceeds(n, r),
           UNCHANGED <<now, object, committed, net>>
    PROVE  WInv'
<1>1. CASE put[n].why = "reserve"
  <2>1. Pending(n) /\ put[n] # NoPut
    BY <1>1 DEF Pending, NoPut
  <2>2. r.last \in Windows
    BY <1>1, <2>1, OfNode DEF PutGood
  <2>3. /\ lists' = [lists EXCEPT ![r.last] = @ + 1]
        /\ put' = [put EXCEPT ![n] = [why |-> "list", body |-> r]]
    BY <1>1 DEF PutSucceeds
  <2>4. put'[n].why # "reserve" /\ \A m \in Nodes : m # n => put'[m] = put[m]
    BY <2>3 DEF RInv, PutsOk
  <2> QED BY <2>1, <2>2, <2>3, <2>4, WindowCounted
<1>2. CASE put[n].why # "reserve"
  <2>1. lists' = lists /\ put' = [put EXCEPT ![n] = NoPut]
    BY <1>2 DEF PutSucceeds
  <2> QED BY <2>1, WindowsDropped
<1> QED BY <1>1, <1>2

LEMMA WindowsAnswered ==
    ASSUME RInv, WInv, NEW n \in Nodes, PutAnswered(n) \/ Readback(n) \/ ReadbackFails(n)
    PROVE  WInv'
<1>1. UNCHANGED <<now, object, committed, net>> /\ put[n] \in Writes
  BY OfNode DEF PutAnswered, Readback, ReadbackFails, PutAt
<1>2. put[n] # NoPut /\ put[n].why # "list"
  BY <1>1 DEF Writes, Whys, NoPut
<1>3. PutGood(n, put[n], net, object, Stored, drawn, now)
  BY <1>2, OfNode
<1>4. CASE put[n].answer = "stored"
           /\ PutSucceeds(n, [put[n].body EXCEPT !.modified = ClockOf(n)])
  <2>1. put[n].body.rev \in Stored /\ put[n].body \in Rosters
    BY <1>2, <1>3, <1>4 DEF PutGood, Sane
  <2>2. [put[n].body EXCEPT !.modified = ClockOf(n)].last = put[n].body.last
    BY <2>1 DEF Rosters
  <2> QED BY <1>1, <1>4, <2>1, <2>2, WindowsSucceeded
<1>5. CASE IsMine(n) /\ PutSucceeds(n, object)
  <2>1. object.rev \in Stored
    BY <1>5, OfNode, KnownRosters DEF IsMine
  <2>2. put[n].body.rev = object.rev /\ object.last = put[n].body.last
    BY <1>3, <1>5 DEF IsMine, PutGood, Same
  <2> QED BY <1>1, <1>5, <2>1, <2>2, WindowsSucceeded
<1>6. CASE PutLoses(n, Missing) \/ PutLoses(n, object) \/ PutFails(n)
  <2>1. lists' = lists /\ put' = [put EXCEPT ![n] = NoPut]
    BY <1>6 DEF PutLoses, PutFails
  <2> QED BY <1>1, <2>1, WindowsDropped
<1> QED BY <1>4, <1>5, <1>6 DEF PutAnswered, Readback, ReadbackFails

LEMMA WindowsQuiet ==
    ASSUME RInv, WInv, NEW n \in Nodes,
           \/ StartFails(n) \/ PutTimesOut(n) \/ LoopHead(n) \/ NotDue(n)
           \/ ReadFails(n) \/ PassTimesOut(n) \/ Crash(n) \/ JobReads(n) \/ JobPublishes(n)
    PROVE  WInv'
<1>1. /\ UNCHANGED <<now, object, committed, net, lists>>
      /\ put' = put \/ put' = [put EXCEPT ![n] = NoPut]
  BY DEF StartFails, PutTimesOut, LoopHead, NotDue, ReadFails, PassTimesOut, Crash, Exit,
         JobReads, JobPublishes
<1> QED BY <1>1, WindowsDropped

(* An election forgets the reservations of another policy's roster, which  *)
(* are past once its lease is over.                                        *)
LEMMA ClaimForgets ==
    ASSUME RInv, NEW n \in Nodes, MayElect(object, n), object.rev # 0, 2 * MaxSkew <= Lease
    PROVE  Claimed(n).last >= object.last \/ object.last < now
<1>1. /\ object \in Rosters /\ object.last <= object.modified + MaxSkew
      /\ object.last \in Nat /\ object.modified \in Nat /\ now \in Nat
  <2>1. Sane(object, now) /\ object # Missing
    BY OfNode, KnownRosters
  <2> QED BY <2>1, RosterFields DEF Sane, RInv, StoreOk, StoreGood, ClocksOk
<1>2. CASE Foreign(object, n)
  <2>1. LeaseExpired(object.modified, n)
    BY <1>2 DEF MayElect, Claimable
  <2>2. now + MaxSkew > object.modified + Lease
    BY <1>1, <2>1, ExpiredForAll
  <2> QED BY <1>1, <2>2, Constants
<1>3. CASE ~Foreign(object, n)
  <2>1. Claimed(n) = [object EXCEPT !.released = FALSE]
    BY <1>3 DEF Claimed
  <2>2. Claimed(n).last = object.last
    BY <1>1, <2>1 DEF Rosters
  <2> QED BY <1>1, <2>2
<1> QED BY <1>2, <1>3

LEMMA WindowsWritten ==
    ASSUME RInv, WInv, 2 * MaxSkew <= Lease, NEW n \in Nodes,
           Start(n) \/ Elect(n) \/ Pass(n) \/ Publish(n) \/ Release(n)
    PROVE  WInv'
<1>1. UNCHANGED <<now, object, committed, lists>>
  BY DEF Start, Elect, Pass, Publish, Release
<1>2. ASSUME NEW why \in Whys, NEW b, NEW cond, Base(b), Issue(n, why, b, cond),
             cond = object.rev /\ object.rev # 0 =>
                 b.last >= object.last \/ object.last < now,
             why = "reserve" => b.last > object.last /\ b.last >= now /\ object.rev # 0
      PROVE  WInv'
  BY <1>1, <1>2, WindowsIssued
<1>3. {"create", "elect", "renew", "reserve", "publish", "release"} \subseteq Whys
  BY DEF Whys
<1>4. CASE net' = net /\ (put' = put \/ put' = [put EXCEPT ![n] = NoPut])
  BY <1>1, <1>4, WindowsDropped
<1>5. CASE Issue(n, "create", Created(n), 0)
  <2>1. Base(Created(n))
    BY CreatedBase
  <2> QED BY <1>5, <2>1, <1>2, <1>3
<1>6. CASE MayElect(object, n) /\ Issue(n, "elect", Claimed(n), object.rev)
  <2>1. Base(Claimed(n))
    BY <1>6, ClaimedFacts
  <2>2. object.rev # 0 => Claimed(n).last >= object.last \/ object.last < now
    BY <1>6, ClaimForgets
  <2> QED BY <1>6, <2>1, <2>2, <1>2, <1>3
<1>7. CASE Pass(n) /\ object.rev = leader[n].rev
  <2> DEFINE b == PassBody(n)
             why == IF CompletedWindow(n, object.last) = 0 THEN "renew" ELSE "reserve"
  <2>1. Issue(n, why, b, object.rev) /\ object.rev # 0
    BY <1>7 DEF Pass, PassBody
  <2>2. Sane(object, now) /\ object \in Rosters /\ object.rev <= drawn
    <3>1. Sane(object, now) /\ object.rev \in Stored
      BY <2>1, OfNode, KnownRosters
    <3> QED BY <3>1, StoredDrawn DEF Sane
  <2>3. /\ Base(b) /\ b.last >= object.last
        /\ why = "reserve" => b.last = ClockOf(n) /\ ClockOf(n) > object.last
    BY <2>2, PassBodyFacts
  <2>4. now <= ClockOf(n) /\ now \in Nat /\ ClockOf(n) \in Nat
    BY ClockFacts DEF RInv
  <2>5. why \in Whys
    BY <1>3
  <2> HIDE DEF b, why
  <2>6. why = "reserve" => b.last > object.last /\ b.last >= now
    BY <2>3, <2>4
  <2> QED BY <2>1, <2>3, <2>5, <2>6, <1>2
<1>8. CASE Publish(n)
  <2> DEFINE k == put[n].body
  <2>1. PICK e \in {k.population, k.last} :
          Issue(n, "publish", [k EXCEPT !.population = e], k.rev)
    BY <1>8 DEF Publish, ReservedVersion
  <2>2. put[n] \in Reserved
    BY <1>8, OfNode DEF Publish, PutAt
  <2>3. put[n] # NoPut
    BY <2>2 DEF Reserved, NoPut
  <2>4. /\ Sane(k, now) /\ k \in Rosters /\ k.rev <= drawn
        /\ (k.rev = object.rev => Same(k, object))
    BY <2>3, OfNode DEF PutGood, Sane
  <2> HIDE DEF k
  <2> DEFINE b == [k EXCEPT !.population = e]
  <2>5. /\ k.last \in Clocks /\ k.population \in Clocks /\ k.last \in Nat /\ k.population \in Nat
    BY <2>4, RosterFields
  <2>6. e \in Clocks /\ e <= k.last
    BY <2>4, <2>5 DEF Sane
  <2>7. b \in Rosters /\ b.epoch = k.epoch /\ b.last = k.last /\ b.population = e
    BY <2>4, <2>6 DEF Rosters
  <2>8. Issue(n, "publish", b, k.rev)
    BY <2>1
  <2> HIDE DEF b
  <2>9. Base(k)
    BY <2>4, KnownBase
  <2>10. Base(b)
    BY <2>6, <2>7, <2>9 DEF Base
  <2>11. k.rev = object.rev => b.last >= object.last
    BY <2>4, <2>5, <2>7 DEF Same
  <2> QED BY <2>8, <2>10, <2>11, <1>2, <1>3
<1>9. CASE Release(n) /\ leader[n].rev # 0
  <2> DEFINE k == leader[n]
             b == [k EXCEPT !.released = TRUE]
  <2>1. Issue(n, "release", b, k.rev)
    BY <1>9 DEF Release
  <2>2. /\ Sane(k, now) /\ k \in Rosters /\ k.rev \in Stored
        /\ (k.rev = object.rev => Same(k, object))
    BY <1>9, OfNode, KnownRosters DEF Leading, Sane
  <2> HIDE DEF k
  <2>3. /\ b \in Rosters /\ b.epoch = k.epoch /\ b.last = k.last /\ b.population = k.population
        /\ k.last \in Nat
    BY <2>2, RosterFields DEF Rosters
  <2> HIDE DEF b
  <2>4. Base(k)
    BY <2>2, StoredDrawn, KnownBase
  <2>5. Base(b)
    BY <2>3, <2>4 DEF Base
  <2>6. k.rev = object.rev => b.last >= object.last
    BY <2>2, <2>3 DEF Same
  <2> QED BY <2>1, <2>5, <2>6, <1>2, <1>3
<1>10. CASE Start(n)
  BY <1>10, <1>4, <1>5 DEF Start
<1>11. CASE Elect(n)
  BY <1>11, <1>4, <1>6 DEF Elect
<1>12. CASE Pass(n) /\ object.rev # leader[n].rev
  BY <1>12, <1>4 DEF Pass
<1>13. CASE Release(n) /\ leader[n].rev = 0
  BY <1>13, <1>4 DEF Release, Exit
<1> QED BY <1>7, <1>8, <1>9, <1>10, <1>11, <1>12, <1>13

LEMMA WindowsNext == 2 * MaxSkew <= Lease /\ RInv /\ WInv /\ [Next]_vars => WInv'
<1> SUFFICES ASSUME 2 * MaxSkew <= Lease, RInv, WInv, [Next]_vars PROVE WInv'
  OBVIOUS
<1>1. CASE Tick
  <2>1. /\ UNCHANGED <<object, committed, lists>> /\ net' \subseteq net /\ put' = put
        /\ now' \in Nat /\ now <= now'
    BY <1>1 DEF Tick, RInv, ClocksOk
  <2> QED BY <2>1, WindowsKept
<1>2. CASE \E r \in net : ServerPut(r)
  BY <1>2, WindowsServed
<1>3. CASE \E n \in Nodes : PutAnswered(n) \/ Readback(n) \/ ReadbackFails(n)
  BY <1>3, WindowsAnswered
<1>4. CASE \E n \in Nodes : Start(n) \/ Elect(n) \/ Pass(n) \/ Publish(n) \/ Release(n)
  BY <1>4, WindowsWritten
<1>5. CASE \E n \in Nodes :
             \/ StartFails(n) \/ PutTimesOut(n) \/ LoopHead(n) \/ NotDue(n)
             \/ ReadFails(n) \/ PassTimesOut(n) \/ Crash(n) \/ JobReads(n) \/ JobPublishes(n)
  BY <1>5, WindowsQuiet
<1>6. CASE UNCHANGED vars
  <2>1. /\ UNCHANGED <<object, committed, lists>> /\ net' \subseteq net /\ put' = put
        /\ now' \in Nat /\ now <= now'
    BY <1>6 DEF vars, RInv, ClocksOk
  <2> QED BY <2>1, WindowsKept
<1> QED BY <1>1, <1>2, <1>3, <1>4, <1>5, <1>6 DEF Next

LEMMA WindowsInit == Init => WInv
<1> SUFFICES ASSUME Init PROVE WInv
  OBVIOUS
<1>1. \A x \in Windows : lists[x] = 0
  BY DEF Init
<1>2. net = {} /\ \A n \in Nodes : put[n].why = "none"
  BY DEF Init, NoPut
<1>3. \A n \in Nodes : ~Pending(n)
  BY <1>2 DEF Pending
<1>4. \A x \in Windows : ~Spent(x)
  BY <1>1, <1>3 DEF Spent
<1> QED BY <1>1, <1>2, <1>3, <1>4
        DEF WInv, SpentIsPast, ForgetsThePast, ReservesUnspent, PendingOnce,
            WindowListedOnce

(* The census of a window is taken at most once, whoever leads and however *)
(* often the roster changes hands, across policies too (leader_pass_inner, *)
(* engine.rs): the reservation is stored before the LIST.  A takeover by   *)
(* another policy starts without reservations, so the lease must outlast   *)
(* the distance of two clocks; it is 180 s against 10 s (lib.rs).          *)
THEOREM WindowTheorem ==
    ASSUME 2 * MaxSkew <= Lease
    PROVE  Spec => []WindowListedOnce
<1>1. RInv /\ WInv /\ [Next]_vars => WInv'
  BY WindowsNext
<1>2. WInv => WindowListedOnce
  BY DEF WInv
<1> QED BY <1>1, <1>2, InvAlways, WindowsInit, PTL DEF Spec

-----------------------------------------------------------------------------
(***************************************************************************)
(* The caches follow the store.                                            *)
(*                                                                         *)
(* A node that wrote a roster stamps it with its own clock, so when a node *)
(* thinks a roster was modified is a time within a span, and those of two  *)
(* rosters are compared across nodes.  What a node may know of the roster  *)
(* is the object, its cache, what its job has read and the write it will   *)
(* be told is stored.                                                      *)
(***************************************************************************)

(* The roster x, modified between lo and hi.                               *)
Span(x, lo, hi) ==
    [rev |-> x.rev, policy |-> x.policy, epoch |-> x.epoch, lo |-> lo, hi |-> hi]

Exactly(x) == Span(x, x.modified, x.modified)

(* The write that is stored, stamped when the answer arrives.              *)
Told(n) == pc[n] = "put" /\ put[n].answer = "stored"

Stamp(n) == Span(put[n].body, now, put[n].since + Operation + 2 * MaxSkew)

(* s, if c.                                                                *)
When(c, s) == IF c THEN {s} ELSE {}

Spans(n) ==
    When(object.rev # 0, Exactly(object))
      \cup When(cache[n].rev # 0, Exactly(cache[n]))
      \cup When(job[n] # <<>> /\ job[n][1].rev # 0, Exactly(job[n][1]))
      \cup When(Told(n), Stamp(n))

(* How node n tells that u is newer than s (publish_cache).                *)
Newer(u, s, n) ==
    /\ ~Foreign(s, n) /\ ~Foreign(u, n) => s.epoch < u.epoch
    /\ Foreign(s, n) /\ Foreign(u, n) => s.hi <= u.lo
    /\ Foreign(s, n) # Foreign(u, n) => s.hi < u.lo

(* The first epoch of a roster created at clock t.                         *)
EpochAt(t) == EpochUnit * t

(* What node n may know is in the order of the store, ...                  *)
InOrder(n) ==
    \A s, u \in Spans(n) : StoredAs(s) < StoredAs(u) => Newer(u, s, n)

(* ... and not ahead of the object by more than the answer may be late;    *)
(* another policy's is behind by the margin of the skew.                   *)
NotAhead(n) ==
    \A s \in Spans(n) :
        /\ s.hi <= object.modified + Operation + MaxSkew
        /\ Foreign(s, n) => s.hi <= object.modified
        /\ Foreign(s, n) /\ ~Foreign(object, n) => s.hi + MaxSkew < object.modified
        /\ s.epoch < EpochAt(object.modified + MaxSkew + 1)

(* What a request that may be stored brings: a takeover by another policy  *)
(* comes after the lease, with an epoch past all of the old roster.        *)
Takes(x, o, t) ==
    /\ x.epoch <= EpochAt(t + 2 * MaxSkew) + x.rev
    /\ o.rev # 0 /\ x.policy # o.policy =>
         /\ t + MaxSkew > o.modified + Lease
         /\ x.epoch > EpochAt(o.modified + MaxSkew + 1)

(* The store numbers its rosters, and its clock runs on.                   *)
InTurn ==
    /\ \A i, k \in 1..Len(committed) : committed[i] = committed[k] => i = k
    /\ object.rev # 0 =>
         /\ committed[Len(committed)] = object.rev
         /\ object.modified <= now + MaxSkew
         /\ object.epoch <= EpochAt(object.modified + MaxSkew) + object.rev

(* A node writes and leads for its own policy, and knows nothing before    *)
(* its start is over.                                                      *)
OwnPolicy(n) ==
    /\ put[n] # NoPut => put[n].body.policy = policyOf[n]
    /\ put[n] \in Writes => put[n].since <= now
    /\ leader[n].rev # 0 => leader[n].policy = policyOf[n]
    /\ pc[n] = "down" \/ put[n].why = "create" => cache[n] = Missing /\ job[n] = <<>>

CInv ==
    /\ InTurn
    /\ \A r \in net : r.cond = object.rev => Takes(r.body, object, now)
    /\ \A n \in Nodes : OwnPolicy(n) /\ InOrder(n) /\ NotAhead(n)

LEMMA EpochAtFacts ==
    /\ \A t \in Nat : EpochAt(t) \in Nat /\ EpochAt(t + 1) = EpochAt(t) + EpochUnit
    /\ \A t, u \in Nat : t <= u => EpochAt(t) <= EpochAt(u)
<1>1. \A a, b, c \in Nat : a <= b => c * a <= c * b /\ c * a \in Nat
  OBVIOUS
<1>2. \A a, c \in Nat : c * (a + 1) = c * a + c
  OBVIOUS
<1>3. EpochUnit \in Nat
  BY Constants
<1> QED BY <1>1, <1>2, <1>3 DEF EpochAt

(* u says all that s does, and less precisely.                             *)
Covers(u, s) ==
    /\ s.rev = u.rev /\ s.policy = u.policy /\ s.epoch = u.epoch
    /\ s.lo \in Nat /\ s.hi \in Nat /\ u.lo <= s.lo /\ s.hi <= u.hi

(* c is nothing, or something that n may know.                             *)
InSight(n, c) == c.rev # 0 => \E u \in Spans(n) : Covers(u, Exactly(c))

LEMMA ExactlyFacts ==
    ASSUME NEW x
    PROVE  /\ Exactly(x).rev = x.rev /\ Exactly(x).policy = x.policy
           /\ Exactly(x).epoch = x.epoch /\ Exactly(x).lo = x.modified
           /\ Exactly(x).hi = x.modified
BY DEF Exactly, Span

LEMMA StampFacts ==
    ASSUME NEW n
    PROVE  /\ Stamp(n).rev = put[n].body.rev /\ Stamp(n).policy = put[n].body.policy
           /\ Stamp(n).epoch = put[n].body.epoch /\ Stamp(n).lo = now
           /\ Stamp(n).hi = put[n].since + Operation + 2 * MaxSkew
BY DEF Stamp, Span

(* What a node may know was stored, and is the object if it has its        *)
(* revision.                                                               *)
LEMMA SpanFacts ==
    ASSUME RInv, NEW n \in Nodes, NEW s \in Spans(n)
    PROVE  /\ s.rev \in Stored /\ s.rev # 0 /\ s.epoch \in Nat
           /\ s.lo \in Nat /\ s.hi \in Nat
           /\ s.rev = object.rev => s.policy = object.policy /\ s.epoch = object.epoch
           /\ object.rev # 0 /\ object \in Rosters /\ object.rev \in Stored
<1>1. ASSUME NEW x, x.rev # 0, Known(x, now, object, Stored), s = Exactly(x)
      PROVE  /\ s.rev \in Stored /\ s.rev # 0 /\ s.epoch \in Nat
             /\ s.lo \in Nat /\ s.hi \in Nat
             /\ s.rev = object.rev => s.policy = object.policy /\ s.epoch = object.epoch
  <2>1. Sane(x, now) /\ x.rev \in Stored /\ (x.rev = object.rev => Same(x, object))
    BY <1>1, KnownRosters
  <2>2. x.epoch \in Nat /\ x.modified \in Nat
    BY <2>1, RosterFields DEF Sane
  <2> QED BY <1>1, <2>1, <2>2, ExactlyFacts DEF Same
<1>2. ASSUME Told(n) /\ s = Stamp(n)
      PROVE  /\ s.rev \in Stored /\ s.rev # 0 /\ s.epoch \in Nat
             /\ s.lo \in Nat /\ s.hi \in Nat
             /\ s.rev = object.rev => s.policy = object.policy /\ s.epoch = object.epoch
  <2>1. put[n] \in Writes /\ put[n].answer = "stored"
    BY <1>2, OfNode DEF Told, PutAt
  <2>2. put[n] # NoPut /\ put[n].why # "list" /\ put[n].since \in Nat
    BY <2>1, Constants DEF Writes, Whys, NoPut
  <2>3. PutGood(n, put[n], net, object, Stored, drawn, now)
    BY <2>2, OfNode
  <2>4. /\ put[n].body.rev \in Stored /\ put[n].body.rev # 0 /\ put[n].body.epoch \in Nat
        /\ put[n].body.rev = object.rev => Same(put[n].body, object)
    BY <2>1, <2>2, <2>3, RosterFields DEF PutGood, Sane
  <2>5. now \in Nat
    BY DEF RInv, ClocksOk
  <2>6. put[n].since + Operation + 2 * MaxSkew \in Nat
    BY <2>2, Constants
  <2>7. /\ s.rev = put[n].body.rev /\ s.policy = put[n].body.policy
        /\ s.epoch = put[n].body.epoch /\ s.lo \in Nat /\ s.hi \in Nat
    BY <1>2, <2>5, <2>6, StampFacts
  <2> QED BY <2>4, <2>7 DEF Same
<1>3. \/ object.rev # 0 /\ s = Exactly(object)
      \/ cache[n].rev # 0 /\ s = Exactly(cache[n])
      \/ job[n] # <<>> /\ job[n][1].rev # 0 /\ s = Exactly(job[n][1])
      \/ Told(n) /\ s = Stamp(n)
  BY DEF Spans, When
<1>4. /\ s.rev \in Stored /\ s.rev # 0 /\ s.epoch \in Nat
      /\ s.lo \in Nat /\ s.hi \in Nat
      /\ s.rev = object.rev => s.policy = object.policy /\ s.epoch = object.epoch
  BY <1>1, <1>2, <1>3, OfNode DEF JobGood
<1>5. object # Missing
  BY <1>4 DEF RInv, StoreOk, StoreGood
<1>6. object.rev # 0 /\ Sane(object, now) /\ object.rev \in Stored
  BY <1>5, OfNode, KnownRosters
<1> QED BY <1>4, <1>6 DEF Sane

(* What is stored has one place.                                           *)
LEMMA PlaceFacts ==
    ASSUME RInv, InTurn, NEW r, r.rev \in Stored
    PROVE  /\ StoredAs(r) \in 1..Len(committed) /\ committed[StoredAs(r)] = r.rev
           /\ \A k \in 1..Len(committed) : committed[k] = r.rev => k = StoredAs(r)
<1>1. \E k \in 1..Len(committed) : committed[k] = r.rev
  BY DEF Stored
<1>2. StoredAs(r) \in 1..Len(committed) /\ committed[StoredAs(r)] = r.rev
  BY <1>1 DEF StoredAs
<1> QED BY <1>2 DEF InTurn

(* The object is the last one.                                             *)
LEMMA ObjectLast ==
    ASSUME RInv, InTurn, object.rev # 0, NEW r, r.rev \in Stored
    PROVE  /\ r.rev = object.rev => StoredAs(r) = StoredAs(object)
           /\ r.rev # object.rev => StoredAs(r) < StoredAs(object)
<1>1. Len(committed) \in Nat
  BY LenProperties DEF RInv, StoreOk
<1>2. StoredAs(r) \in 1..Len(committed) /\ committed[StoredAs(r)] = r.rev
  BY PlaceFacts
<1>3. Len(committed) \in 1..Len(committed) /\ committed[Len(committed)] = object.rev
  BY <1>1, <1>2 DEF InTurn
<1>4. object.rev \in Stored
  BY <1>3 DEF Stored
<1>5. StoredAs(object) = Len(committed)
  BY <1>3, <1>4, PlaceFacts
<1> QED BY <1>1, <1>2, <1>3, <1>5, PlaceFacts

LEMMA StoredAsRev == ASSUME NEW r, NEW s, r.rev = s.rev PROVE StoredAs(r) = StoredAs(s)
BY DEF StoredAs

(* What is covered is compared as what covers it.                          *)
LEMMA CoveredNewer ==
    ASSUME NEW n, NEW s, NEW u, NEW a, NEW b, Covers(a, s), Covers(b, u),
           a.lo \in Nat, a.hi \in Nat, b.lo \in Nat, b.hi \in Nat, Newer(b, a, n)
    PROVE  Newer(u, s, n)
<1>1. /\ Foreign(s, n) = Foreign(a, n) /\ Foreign(u, n) = Foreign(b, n)
  BY DEF Covers, Foreign
<1>2. a.hi <= b.lo => s.hi <= u.lo
  BY DEF Covers
<1>3. a.hi < b.lo => s.hi < u.lo
  BY DEF Covers
<1> QED BY <1>1, <1>2, <1>3 DEF Covers, Newer

(* A step after which a node knows nothing but what it could know before.  *)
LEMMA CoveredStep ==
    ASSUME RInv, InTurn, NEW n \in Nodes, InOrder(n), NotAhead(n),
           UNCHANGED <<fixed, object, committed>>,
           \A s \in Spans(n)' : \E u \in Spans(n) : Covers(u, s)
    PROVE  (InOrder(n) /\ NotAhead(n))'
<1>1. /\ \A r : StoredAs(r)' = StoredAs(r)
      /\ \A r, m : Foreign(r, m)' = Foreign(r, m)
      /\ \A r, s, m : Newer(r, s, m)' = Newer(r, s, m)
  BY DEF StoredAs, Foreign, Newer, fixed
<1>2. InOrder(n)'
  <2> SUFFICES ASSUME NEW s \in Spans(n)', NEW u \in Spans(n)', StoredAs(s) < StoredAs(u)
               PROVE  Newer(u, s, n)
    BY <1>1 DEF InOrder
  <2>1. PICK a \in Spans(n) : Covers(a, s)
    OBVIOUS
  <2>2. PICK b \in Spans(n) : Covers(b, u)
    OBVIOUS
  <2>3. StoredAs(a) = StoredAs(s) /\ StoredAs(b) = StoredAs(u)
    BY <2>1, <2>2, StoredAsRev DEF Covers
  <2>4. Newer(b, a, n)
    BY <2>3 DEF InOrder
  <2> QED BY <2>1, <2>2, <2>4, SpanFacts, CoveredNewer
<1>3. NotAhead(n)'
  <2> SUFFICES ASSUME NEW s \in Spans(n)'
               PROVE  /\ s.hi <= object.modified + Operation + MaxSkew
                      /\ Foreign(s, n) => s.hi <= object.modified
                      /\ Foreign(s, n) /\ ~Foreign(object, n) =>
                           s.hi + MaxSkew < object.modified
                      /\ s.epoch < EpochAt(object.modified + MaxSkew + 1)
    BY <1>1 DEF NotAhead
  <2>1. PICK a \in Spans(n) : Covers(a, s)
    OBVIOUS
  <2>2. /\ a.hi <= object.modified + Operation + MaxSkew
        /\ Foreign(a, n) => a.hi <= object.modified
        /\ Foreign(a, n) /\ ~Foreign(object, n) => a.hi + MaxSkew < object.modified
        /\ a.epoch < EpochAt(object.modified + MaxSkew + 1)
    BY DEF NotAhead
  <2>3. a.hi \in Nat /\ object.modified \in Nat
    BY SpanFacts, RosterFields
  <2>4. /\ Foreign(s, n) = Foreign(a, n) /\ s.hi \in Nat /\ s.hi <= a.hi
        /\ s.epoch = a.epoch
    BY <2>1 DEF Covers, Foreign
  <2> QED BY <2>2, <2>3, <2>4, Constants
<1> QED BY <1>2, <1>3

(* What is in sight of a node.                                             *)
LEMMA SightFacts ==
    ASSUME RInv, NEW n \in Nodes
    PROVE  /\ \A s \in Spans(n) : Covers(s, s)
           /\ InSight(n, Missing) /\ InSight(n, cache[n]) /\ InSight(n, object)
           /\ job[n] # <<>> => InSight(n, job[n][1])
           /\ \A new : InSight(n, new) => InSight(n, Published(new, n))
<1>1. \A s \in Spans(n) : Covers(s, s)
  BY SpanFacts DEF Covers
<1>2. /\ object.rev # 0 => Exactly(object) \in Spans(n)
      /\ cache[n].rev # 0 => Exactly(cache[n]) \in Spans(n)
      /\ job[n] # <<>> /\ job[n][1].rev # 0 => Exactly(job[n][1]) \in Spans(n)
  BY DEF Spans, When
<1>3. /\ InSight(n, cache[n]) /\ InSight(n, object)
      /\ job[n] # <<>> => InSight(n, job[n][1])
  BY <1>1, <1>2 DEF InSight
<1>4. InSight(n, Missing)
  BY MissingFacts DEF InSight
<1>5. ASSUME NEW new, InSight(n, new) PROVE InSight(n, Published(new, n))
  BY <1>3, <1>5 DEF Published
<1> QED BY <1>1, <1>3, <1>4, <1>5

(* The answer to a write stamps it within its span.                        *)
LEMMA StampInSight ==
    ASSUME RInv, CInv, NEW n \in Nodes, pc[n] = "put", put[n].answer = "stored",
           now <= put[n].since + Operation
    PROVE  InSight(n, [put[n].body EXCEPT !.modified = ClockOf(n)])
<1> DEFINE x == [put[n].body EXCEPT !.modified = ClockOf(n)]
<1>1. put[n] \in Writes
  BY OfNode DEF PutAt
<1>2. put[n].body \in Rosters /\ put[n].since \in Nat
  BY <1>1, Constants DEF Writes
<1>3. /\ x.rev = put[n].body.rev /\ x.policy = put[n].body.policy
      /\ x.epoch = put[n].body.epoch /\ x.modified = ClockOf(n)
  BY <1>2 DEF Rosters
<1>4. /\ now \in Nat /\ ClockOf(n) \in Nat /\ now <= ClockOf(n)
      /\ ClockOf(n) <= now + 2 * MaxSkew
  BY ClockFacts DEF RInv
<1>5. ClockOf(n) <= put[n].since + Operation + 2 * MaxSkew
  BY <1>2, <1>4, Constants
<1> HIDE DEF x
<1>6. Covers(Stamp(n), Exactly(x))
  BY <1>3, <1>4, <1>5, StampFacts, ExactlyFacts DEF Covers
<1>7. Stamp(n) \in Spans(n)
  BY DEF Spans, When, Told
<1>8. InSight(n, x)
  BY <1>6, <1>7 DEF InSight
<1> QED BY <1>8 DEF x

(* publish_cache never replaces a roster by an older one.                  *)
LEMMA PublishedForward ==
    ASSUME RInv, CInv, NEW n \in Nodes, NEW new, InSight(n, new), cache[n].rev # 0
    PROVE  StoredAs(Published(new, n)) >= StoredAs(cache[n])
<1> DEFINE c == cache[n]
           s == Exactly(c)
<1>1. InTurn /\ InOrder(n)
  BY DEF CInv
<1>2. s \in Spans(n) /\ s.rev \in Stored
  <2>1. s \in Spans(n)
    BY DEF Spans, When
  <2> QED BY <2>1, SpanFacts
<1>3. StoredAs(c) \in Nat
  BY <1>1, <1>2, PlaceFacts, ExactlyFacts
<1>4. CASE ~Supersedes(new, c, n)
  BY <1>3, <1>4 DEF Published
<1>5. CASE Supersedes(new, c, n)
  <2>1. new.rev # 0 /\ Published(new, n) = new
    BY <1>5 DEF Published, Supersedes
  <2>2. PICK a \in Spans(n) : Covers(a, Exactly(new))
    BY <2>1 DEF InSight
  <2>3. a.rev \in Stored /\ a.lo \in Nat /\ a.hi \in Nat /\ a.epoch \in Nat
    BY <2>2, SpanFacts
  <2>4. /\ new.rev = a.rev /\ new.policy = a.policy /\ new.epoch = a.epoch
        /\ new.modified \in Nat /\ new.modified <= a.hi
    BY <2>2, ExactlyFacts DEF Covers
  <2>5. StoredAs(new) \in Nat /\ StoredAs(a) = StoredAs(new) /\ StoredAs(s) = StoredAs(c)
    BY <1>1, <2>3, <2>4, PlaceFacts, StoredAsRev, ExactlyFacts
  <2>6. ASSUME StoredAs(new) < StoredAs(c) PROVE FALSE
    <3>1. Newer(s, a, n)
      BY <1>1, <1>2, <2>2, <2>5, <2>6 DEF InOrder
    <3>2. /\ Foreign(a, n) = Foreign(new, n) /\ Foreign(s, n) = Foreign(c, n)
          /\ s.lo = c.modified /\ s.epoch = c.epoch /\ s.lo \in Nat /\ s.epoch \in Nat
      BY <1>2, <2>4, ExactlyFacts, SpanFacts DEF Foreign
    <3> HIDE DEF s, c
    <3>3. CASE ~Foreign(new, n) /\ ~Foreign(c, n)
      <4>1. new.epoch < c.epoch
        BY <3>1, <3>2, <3>3, <2>4 DEF Newer
      <4>2. c.rev # 0
        BY DEF c
      <4>3. new.epoch >= c.epoch
        BY <1>5, <3>3, <3>2, <2>3, <2>4, <4>2 DEF Supersedes
      <4> QED BY <4>1, <4>3, <3>2, <2>3, <2>4
    <3>4. CASE Foreign(new, n) /\ Foreign(c, n)
      <4>1. new.modified <= c.modified
        BY <3>1, <3>2, <3>4, <2>3, <2>4 DEF Newer
      <4>2. new.modified > c.modified
        BY <1>5, <3>4 DEF Supersedes, Foreign
      <4> QED BY <4>1, <4>2, <3>2, <2>4
    <3>5. CASE Foreign(new, n) # Foreign(c, n)
      <4>1. new.modified < c.modified
        BY <3>1, <3>2, <3>5, <2>3, <2>4 DEF Newer
      <4>2. c.rev # 0
        BY DEF c
      <4>3. new.modified >= c.modified
        <5>1. \/ Foreign(new, n) /\ ~Foreign(c, n)
              \/ ~Foreign(new, n) /\ Foreign(c, n)
          BY <3>5 DEF Foreign
        <5>2. new.modified >= c.modified \/ new.modified > c.modified
          BY <1>5, <4>2, <5>1 DEF Supersedes
        <5> QED BY <5>2, <3>2, <2>4
      <4> QED BY <4>1, <4>3, <3>2, <2>4
    <3> QED BY <3>3, <3>4, <3>5 DEF Foreign
  <2> QED BY <1>3, <2>1, <2>5, <2>6
<1> QED BY <1>4, <1>5

(* The cache of n does not go back.                                        *)
Forward(n) ==
    cache[n].rev # 0 /\ Running(n)' => StoredAs(cache[n])' >= StoredAs(cache[n])

(* A step of one node.                                                     *)
LEMMA KeepsStep ==
    ASSUME RInv, CInv, NEW n \in Nodes, UNCHANGED <<now, fixed, object, committed>>,
           \A r \in net' : r \in net \/ (r.cond = object.rev => Takes(r.body, object, now)),
           NEW x, NEW p, NEW c, NEW l, NEW j,
           put' = [put EXCEPT ![n] = x], pc' = [pc EXCEPT ![n] = p],
           cache' = [cache EXCEPT ![n] = c], leader' = [leader EXCEPT ![n] = l],
           job' = [job EXCEPT ![n] = j],
           x # NoPut => x.body.policy = policyOf[n],
           x \in Writes => x.since <= now,
           l.rev # 0 => l.policy = policyOf[n],
           p = "down" \/ x.why = "create" => c = Missing /\ j = <<>>,
           p = "put" /\ x.answer = "stored" => p = pc[n] /\ x = put[n],
           InSight(n, c), j # <<>> => InSight(n, j[1]),
           \/ c = cache[n] \/ cache[n] = Missing
           \/ \E new : InSight(n, new) /\ c = Published(new, n)
           \/ p = "exited" \/ x.why = "release"
    PROVE  CInv' /\ \A m \in Nodes : Forward(m)
<1>1. /\ put \in [Nodes -> Writes \cup Reserved \cup {NoPut}] /\ pc \in [Nodes -> Steps]
      /\ cache \in [Nodes -> Rosters \cup {Missing}]
      /\ leader \in [Nodes -> Rosters \cup {Missing}]
      /\ job \in [Nodes -> Seq(Rosters \cup {Missing})]
  BY DEF RInv, PutsOk, NodesOk
<1>2. /\ put'[n] = x /\ pc'[n] = p /\ cache'[n] = c /\ leader'[n] = l /\ job'[n] = j
  BY <1>1
<1>3. \A m \in Nodes \ {n} :
        /\ put'[m] = put[m] /\ pc'[m] = pc[m] /\ cache'[m] = cache[m]
        /\ leader'[m] = leader[m] /\ job'[m] = job[m]
  BY <1>1
<1>4. InTurn'
  BY DEF CInv, InTurn
<1>5. \A r \in net' : r.cond = object'.rev => Takes(r.body, object', now')
  BY DEF CInv
<1>6. \A m \in Nodes : OwnPolicy(m)'
  <2>1. policyOf' = policyOf /\ now' = now
    BY DEF fixed
  <2>2. OwnPolicy(n)'
    BY <1>2, <2>1 DEF OwnPolicy
  <2>3. \A m \in Nodes \ {n} : OwnPolicy(m)'
    BY <1>3, <2>1 DEF OwnPolicy, CInv
  <2> QED BY <2>2, <2>3
<1>7. ASSUME NEW m \in Nodes
      PROVE  \A s \in Spans(m)' : \E u \in Spans(m) : Covers(u, s)
  <2>1. CASE m = n
    <3> SUFFICES ASSUME NEW s \in Spans(n)' PROVE \E u \in Spans(n) : Covers(u, s)
      BY <2>1
    <3>1. \/ object.rev # 0 /\ s = Exactly(object)
          \/ c.rev # 0 /\ s = Exactly(c)
          \/ j # <<>> /\ j[1].rev # 0 /\ s = Exactly(j[1])
          \/ p = "put" /\ x.answer = "stored" /\ s = Stamp(n)'
      BY <1>2 DEF Spans, When, Told, Exactly, Span
    <3>2. CASE p = "put" /\ x.answer = "stored" /\ s = Stamp(n)'
      <4>1. Stamp(n)' = Stamp(n) /\ Told(n)
        BY <1>2, <3>2 DEF Stamp, Told, Span
      <4>2. s \in Spans(n)
        BY <3>2, <4>1 DEF Spans, When
      <4> QED BY <4>2, SightFacts
    <3> QED BY <3>1, <3>2, SightFacts DEF InSight
  <2>2. CASE m # n
    <3>1. Spans(m)' = Spans(m)
      BY <1>3, <2>2 DEF Spans, When, Told, Exactly, Stamp, Span
    <3> QED BY <3>1, SightFacts
  <2> QED BY <2>1, <2>2
<1>8. \A m \in Nodes : (InOrder(m) /\ NotAhead(m))'
  BY <1>7, CoveredStep DEF CInv
<1>9. ASSUME NEW m \in Nodes PROVE Forward(m)
  <2> SUFFICES ASSUME cache[m].rev # 0, Running(m)'
               PROVE  StoredAs(cache[m])' >= StoredAs(cache[m])
    BY DEF Forward
  <2>1. /\ StoredAs(cache[m]) \in Nat /\ cache[m] # Missing
        /\ StoredAs(cache[m])' = StoredAs(cache'[m])
    <3>1. cache[m].rev \in Stored
      BY OfNode, KnownRosters
    <3>2. StoredAs(cache[m]) \in 1..Len(committed)
      BY <3>1, PlaceFacts DEF CInv
    <3>3. StoredAs(cache[m])' = StoredAs(cache'[m])
      BY DEF StoredAs
    <3> QED BY <3>2, <3>3, MissingFacts
  <2>2. CASE cache'[m] = cache[m]
    BY <2>1, <2>2
  <2>3. CASE cache'[m] # cache[m]
    <3>1. m = n /\ c # cache[n]
      BY <1>2, <1>3, <2>3
    <3>2. p # "exited" /\ x.why # "release"
      BY <1>2, <3>1 DEF Running
    <3> QED BY <1>2, <2>1, <3>1, <3>2, PublishedForward
  <2> QED BY <2>2, <2>3
<1> QED BY <1>4, <1>5, <1>6, <1>8, <1>9 DEF CInv

(* A write that is issued: of the node's own policy, and if it may be      *)
(* stored it goes on from the object, or is past all that the object was.  *)
LEMMA TakesIssued ==
    ASSUME RInv, CInv, NEW n \in Nodes, NEW why \in Whys, NEW b, Base(b), NEW cond,
           Issue(n, why, b, cond), b.policy = policyOf[n],
           object.rev = cond =>
             \/ object.rev # 0 /\ b.policy = object.policy /\ b.epoch = object.epoch
             \/ /\ b.epoch <= EpochAt(now + 2 * MaxSkew)
                /\ object.rev # 0 =>
                     /\ now + MaxSkew > object.modified + Lease
                     /\ b.epoch >= EpochAt(object.modified + MaxSkew + 1)
    PROVE  /\ \A r \in net' : r \in net \/ (r.cond = object.rev => Takes(r.body, object, now))
           /\ \E x \in Writes :
                /\ put' = [put EXCEPT ![n] = x] /\ pc' = [pc EXCEPT ![n] = "put"]
                /\ x # NoPut /\ x.why = why /\ x.body.policy = policyOf[n]
                /\ x.since <= now /\ x.answer = "none"
<1> DEFINE f == Fresh(b, n, drawn)
           x == [why |-> why, body |-> f, since |-> now, answer |-> "none"]
<1>1. drawn \in 0..MaxWrites /\ drawn < MaxWrites /\ drawn \in Nat
  BY DEF Issue, RInv, StoreOk, StoreGood
<1>2. /\ f \in Rosters /\ f.rev = drawn + 1 /\ f.epoch = b.epoch + 1 /\ f.policy = b.policy
  BY <1>1, FreshFacts DEF Base, Sane
<1>3. b.epoch \in Nat /\ now \in Nat /\ now \in 0..MaxTime
  BY RosterFields DEF Base, RInv, ClocksOk
<1>4. /\ put' = [put EXCEPT ![n] = x] /\ pc' = [pc EXCEPT ![n] = "put"]
      /\ net' = net \cup {[body |-> f, cond |-> cond]}
  BY DEF Issue, Fresh
<1> HIDE DEF f
<1>5. x \in Writes /\ x # NoPut
  BY <1>2, <1>3 DEF Writes, NoPut
<1>6. x.why = why /\ x.body = f /\ x.since = now /\ x.answer = "none" /\ now <= now
  BY <1>3
<1> HIDE DEF x
<1>7. ASSUME object.rev = cond PROVE Takes(f, object, now)
  <2>1. EpochAt(now + 2 * MaxSkew) \in Nat
    <3>1. now + 2 * MaxSkew \in Nat
      BY <1>3, Constants
    <3> QED BY <3>1, EpochAtFacts
  <2>2. CASE object.rev # 0 /\ b.policy = object.policy /\ b.epoch = object.epoch
    <3>1. object \in Rosters /\ object.rev <= drawn
      <4>1. Sane(object, now) /\ object.rev \in Stored
        BY <2>2, OfNode, KnownRosters
      <4> QED BY <4>1, StoredDrawn DEF Sane
    <3>2. object.modified \in Nat /\ object.rev \in Nat
      BY <3>1, RosterFields
    <3>3. /\ object.modified <= now + MaxSkew
          /\ object.epoch <= EpochAt(object.modified + MaxSkew) + object.rev
      BY <2>2 DEF CInv, InTurn
    <3>4. /\ object.modified + MaxSkew \in Nat /\ now + 2 * MaxSkew \in Nat
          /\ object.modified + MaxSkew <= now + 2 * MaxSkew
      BY <1>3, <3>2, <3>3, Constants
    <3>5. /\ EpochAt(object.modified + MaxSkew) <= EpochAt(now + 2 * MaxSkew)
          /\ EpochAt(object.modified + MaxSkew) \in Nat
      BY <3>4, EpochAtFacts
    <3>6. f.epoch <= EpochAt(now + 2 * MaxSkew) + f.rev
      BY <1>1, <1>2, <1>3, <2>1, <2>2, <3>1, <3>2, <3>3, <3>5
    <3> QED BY <1>2, <2>2, <3>6 DEF Takes
  <2>3. CASE /\ b.epoch <= EpochAt(now + 2 * MaxSkew)
             /\ object.rev # 0 =>
                  /\ now + MaxSkew > object.modified + Lease
                  /\ b.epoch >= EpochAt(object.modified + MaxSkew + 1)
    <3>1. f.epoch <= EpochAt(now + 2 * MaxSkew) + f.rev
      BY <1>1, <1>2, <1>3, <2>1, <2>3
    <3>2. ASSUME object.rev # 0 PROVE f.epoch > EpochAt(object.modified + MaxSkew + 1)
      <4>1. object.modified \in Nat
        BY <3>2, OfNode, KnownRosters, RosterFields DEF Sane
      <4>2. EpochAt(object.modified + MaxSkew + 1) \in Nat
        <5>1. object.modified + MaxSkew + 1 \in Nat
          BY <4>1, Constants
        <5> QED BY <5>1, EpochAtFacts
      <4> QED BY <1>2, <1>3, <2>3, <3>2, <4>2
    <3> QED BY <2>3, <3>1, <3>2 DEF Takes
  <2> QED BY <1>7, <2>2, <2>3
<1>8. \A r \in net' : r \in net \/ (r.cond = object.rev => Takes(r.body, object, now))
  BY <1>4, <1>7
<1>9. x.body.policy = policyOf[n]
  BY <1>2, <1>6
<1> QED BY <1>4, <1>5, <1>6, <1>8, <1>9

LEMMA OwnFacts ==
    ASSUME CInv, NEW n \in Nodes
    PROVE  /\ put[n] # NoPut => put[n].body.policy = policyOf[n]
           /\ put[n] \in Writes => put[n].since <= now
           /\ leader[n].rev # 0 => leader[n].policy = policyOf[n]
           /\ pc[n] = "down" \/ put[n].why = "create" => cache[n] = Missing /\ job[n] = <<>>
           /\ NoPut \notin Writes /\ NoPut.why = "none"
BY DEF CInv, OwnPolicy, NoPut, Writes, Whys

LEMMA OwnConsumed ==
    ASSUME NEW n, NEW k, NEW l, l.rev # 0 => l.policy = policyOf[n]
    PROVE  Consumed(k, l, n).rev # 0 => Consumed(k, l, n).policy = policyOf[n]
<1>1. Consumed(k, l, n) \in {Missing, l} \/ (Consumed(k, l, n) = k /\ Leads(k, n))
  BY DEF Consumed
<1> QED BY <1>1, MissingFacts DEF Leads, Foreign

(* A step of a node that issues nothing: it keeps its write or drops it.   *)
LEMMA KeepsOrDrops ==
    ASSUME RInv, CInv, NEW n \in Nodes, UNCHANGED <<now, fixed, object, committed, net>>,
           NEW x \in {put[n], NoPut}, NEW p, NEW c, NEW l, NEW j,
           put' = [put EXCEPT ![n] = x], pc' = [pc EXCEPT ![n] = p],
           cache' = [cache EXCEPT ![n] = c], leader' = [leader EXCEPT ![n] = l],
           job' = [job EXCEPT ![n] = j],
           l.rev # 0 => l.policy = policyOf[n],
           p # "down", p = "put" => p = pc[n] /\ x = put[n],
           x.why = "create" => c = cache[n] /\ j = job[n],
           InSight(n, c), j # <<>> => InSight(n, j[1]),
           \/ c = cache[n] \/ cache[n] = Missing
           \/ \E new : InSight(n, new) /\ c = Published(new, n)
           \/ p = "exited"
    PROVE  CInv' /\ \A m \in Nodes : Forward(m)
<1>1. x # NoPut => x.body.policy = policyOf[n]
  BY OwnFacts
<1>2. x \in Writes => x.since <= now
  BY OwnFacts
<1>3. p = "down" \/ x.why = "create" => c = Missing /\ j = <<>>
  BY OwnFacts
<1>4. UNCHANGED <<now, fixed, object, committed>>
      /\ \A r \in net' : r \in net \/ (r.cond = object.rev => Takes(r.body, object, now))
  OBVIOUS
<1> QED BY <1>1, <1>2, <1>3, <1>4, KeepsStep

LEMMA QuietKeeps ==
    ASSUME RInv, CInv, NEW n \in Nodes,
           \/ StartFails(n) \/ PutTimesOut(n) \/ LoopHead(n) \/ NotDue(n) \/ ReadFails(n)
           \/ PassTimesOut(n) \/ Crash(n) \/ JobReads(n) \/ JobPublishes(n)
    PROVE  CInv' /\ \A m \in Nodes : Forward(m)
<1>1. UNCHANGED <<now, fixed, object, committed, net>>
  BY DEF StartFails, PutTimesOut, LoopHead, NotDue, ReadFails, PassTimesOut, Crash, Exit,
         JobReads, JobPublishes
<1>2. /\ InSight(n, cache[n]) /\ InSight(n, Missing) /\ InSight(n, object)
      /\ job[n] # <<>> => InSight(n, job[n][1])
  BY SightFacts
<1>3. leader[n].rev # 0 => leader[n].policy = policyOf[n]
  BY OwnFacts
<1>4. CASE StartFails(n) \/ NotDue(n)
  <2>1. /\ put' = [put EXCEPT ![n] = put[n]] /\ pc' = [pc EXCEPT ![n] = "idle"]
        /\ cache' = [cache EXCEPT ![n] = cache[n]] /\ leader' = [leader EXCEPT ![n] = leader[n]]
        /\ job' = [job EXCEPT ![n] = job[n]]
    BY <1>4, Unmoved DEF StartFails, NotDue
  <2> QED BY <1>1, <1>2, <1>3, <2>1, KeepsOrDrops
<1>5. CASE PutTimesOut(n)
  <2>1. /\ put' = [put EXCEPT ![n] = put[n]] /\ pc' = [pc EXCEPT ![n] = "readback"]
        /\ cache' = [cache EXCEPT ![n] = cache[n]] /\ leader' = [leader EXCEPT ![n] = leader[n]]
        /\ job' = [job EXCEPT ![n] = job[n]]
    BY <1>5, Unmoved DEF PutTimesOut
  <2> QED BY <1>1, <1>2, <1>3, <2>1, KeepsOrDrops
<1>6. CASE LoopHead(n)
  <2> DEFINE l == Consumed(cache[n], leader[n], n)
             p == IF MayElect(cache[n], n) THEN "elect" ELSE "pass"
  <2>1. /\ put' = [put EXCEPT ![n] = put[n]] /\ pc' = [pc EXCEPT ![n] = p]
        /\ cache' = [cache EXCEPT ![n] = cache[n]] /\ leader' = [leader EXCEPT ![n] = l]
        /\ job' = [job EXCEPT ![n] = job[n]]
    BY <1>6, Unmoved DEF LoopHead
  <2>2. l.rev # 0 => l.policy = policyOf[n]
    BY <1>3, OwnConsumed
  <2>3. p # "down" /\ p # "put"
    OBVIOUS
  <2> HIDE DEF l, p
  <2> QED BY <1>1, <1>2, <2>1, <2>2, <2>3, KeepsOrDrops
<1>7. CASE ReadFails(n)
  <2>1. /\ put' = [put EXCEPT ![n] = put[n]] /\ pc' = [pc EXCEPT ![n] = "idle"]
        /\ cache' = [cache EXCEPT ![n] = cache[n]] /\ leader' = [leader EXCEPT ![n] = Missing]
        /\ job' = [job EXCEPT ![n] = job[n]]
    BY <1>7, Unmoved DEF ReadFails, Abandon
  <2> QED BY <1>1, <1>2, <2>1, MissingFacts, KeepsOrDrops
<1>8. CASE PassTimesOut(n)
  <2>1. /\ put' = [put EXCEPT ![n] = NoPut] /\ pc' = [pc EXCEPT ![n] = "idle"]
        /\ cache' = [cache EXCEPT ![n] = cache[n]] /\ leader' = [leader EXCEPT ![n] = Missing]
        /\ job' = [job EXCEPT ![n] = job[n]]
    BY <1>8, Unmoved DEF PassTimesOut, Abandon
  <2> QED BY <1>1, <1>2, <2>1, MissingFacts, KeepsOrDrops
<1>9. CASE Crash(n)
  <2>1. /\ put' = [put EXCEPT ![n] = NoPut] /\ pc' = [pc EXCEPT ![n] = "exited"]
        /\ cache' = [cache EXCEPT ![n] = Missing] /\ leader' = [leader EXCEPT ![n] = Missing]
        /\ job' = [job EXCEPT ![n] = <<>>]
    BY <1>9 DEF Crash, Exit, Forget
  <2> QED BY <1>1, <1>2, <2>1, MissingFacts, OwnFacts, KeepsOrDrops
<1>10. CASE JobReads(n)
  <2> DEFINE j == <<object>>
  <2>1. /\ put' = [put EXCEPT ![n] = put[n]] /\ pc' = [pc EXCEPT ![n] = pc[n]]
        /\ cache' = [cache EXCEPT ![n] = cache[n]] /\ leader' = [leader EXCEPT ![n] = leader[n]]
        /\ job' = [job EXCEPT ![n] = j] /\ pc[n] # "down" /\ put[n].why # "create"
    BY <1>10, Unmoved DEF JobReads, Running
  <2>2. InSight(n, j[1])
    BY <1>2
  <2> HIDE DEF j
  <2> QED BY <1>1, <1>2, <1>3, <2>1, <2>2, KeepsOrDrops
<1>11. CASE JobPublishes(n)
  <2> DEFINE c == Published(job[n][1], n)
  <2>1. /\ put' = [put EXCEPT ![n] = put[n]] /\ pc' = [pc EXCEPT ![n] = pc[n]]
        /\ cache' = [cache EXCEPT ![n] = c] /\ leader' = [leader EXCEPT ![n] = leader[n]]
        /\ job' = [job EXCEPT ![n] = <<>>] /\ pc[n] # "down" /\ put[n].why # "create"
        /\ job[n] # <<>>
    BY <1>11, Unmoved DEF JobPublishes, Running
  <2>2. InSight(n, c) /\ \E new : InSight(n, new) /\ c = Published(new, n)
    BY <1>2, <2>1, SightFacts
  <2> HIDE DEF c
  <2> QED BY <1>1, <1>2, <1>3, <2>1, <2>2, KeepsOrDrops
<1> QED BY <1>4, <1>5, <1>6, <1>7, <1>8, <1>9, <1>10, <1>11

(* The write is in.                                                        *)
LEMMA SucceedsKeeps ==
    ASSUME RInv, CInv, NEW n \in Nodes, put[n] \in Writes, NEW r, InSight(n, r),
           r.policy = policyOf[n], PutSucceeds(n, r),
           UNCHANGED <<now, fixed, object, committed, net, job>>
    PROVE  CInv' /\ \A m \in Nodes : Forward(m)
<1>1. job' = [job EXCEPT ![n] = job[n]] /\ (job[n] # <<>> => InSight(n, job[n][1]))
      /\ InSight(n, cache[n]) /\ InSight(n, Published(r, n))
  BY Unmoved, SightFacts
<1>2. leader[n].rev # 0 => leader[n].policy = policyOf[n]
  BY OwnFacts
<1>3. NoPut.why = "none" /\ NoPut \notin Writes
  BY OwnFacts
<1>4. CASE put[n].why = "create"
  <2> DEFINE l == IF Leads(r, n) THEN r ELSE Missing
  <2>1. /\ put' = [put EXCEPT ![n] = NoPut] /\ pc' = [pc EXCEPT ![n] = "idle"]
        /\ cache' = [cache EXCEPT ![n] = r] /\ leader' = [leader EXCEPT ![n] = l]
    BY <1>4 DEF PutSucceeds, StartWorker
  <2>2. l.rev # 0 => l.policy = policyOf[n]
    BY MissingFacts
  <2>3. cache[n] = Missing
    BY <1>4, OwnFacts
  <2> HIDE DEF l
  <2> QED BY <1>1, <1>3, <2>1, <2>2, <2>3, KeepsOrDrops
<1>5. CASE put[n].why = "release"
  <2>1. /\ put' = [put EXCEPT ![n] = NoPut] /\ pc' = [pc EXCEPT ![n] = "exited"]
        /\ cache' = [cache EXCEPT ![n] = cache[n]] /\ leader' = [leader EXCEPT ![n] = leader[n]]
    BY <1>5, Unmoved DEF PutSucceeds
  <2> QED BY <1>1, <1>2, <1>3, <2>1, KeepsOrDrops
<1>6. CASE put[n].why \notin {"create", "release"}
  <2> DEFINE c == Published(r, n)
             l == Consumed(c, r, n)
             p == CASE put[n].why = "release" -> "exited"
                    [] put[n].why = "reserve" -> "list"
                    [] put[n].why = "elect" -> "pass"
                    [] OTHER -> "idle"
             x == IF put[n].why = "reserve" THEN [why |-> "list", body |-> r] ELSE NoPut
  <2>1. /\ put' = [put EXCEPT ![n] = x] /\ pc' = [pc EXCEPT ![n] = p]
        /\ cache' = [cache EXCEPT ![n] = c] /\ leader' = [leader EXCEPT ![n] = l]
    BY <1>6 DEF PutSucceeds, Learn
  <2>2. l.rev # 0 => l.policy = policyOf[n]
    BY OwnConsumed
  <2>3. p \in {"list", "pass", "idle"}
    BY <1>6
  <2>4. /\ x # NoPut => x.body.policy = policyOf[n]
        /\ x \notin Writes /\ x.why \in {"list", "none"}
    BY <1>3 DEF Writes, Whys
  <2>5. InSight(n, c) /\ \E new : InSight(n, new) /\ c = Published(new, n)
    BY <1>1
  <2>6. UNCHANGED <<now, fixed, object, committed>> /\ net' = net
    OBVIOUS
  <2> HIDE DEF c, l, p, x
  <2> QED BY <1>1, <2>1, <2>2, <2>3, <2>4, <2>5, <2>6, KeepsStep
<1> QED BY <1>4, <1>5, <1>6

(* Another write was first, or nothing is known of it.                     *)
LEMMA LosesKeeps ==
    ASSUME RInv, CInv, NEW n \in Nodes, NEW seen, InSight(n, seen),
           PutLoses(n, seen) \/ PutFails(n),
           UNCHANGED <<now, fixed, object, committed, net, job>>
    PROVE  CInv' /\ \A m \in Nodes : Forward(m)
<1>1. /\ job' = [job EXCEPT ![n] = job[n]] /\ (job[n] # <<>> => InSight(n, job[n][1]))
      /\ InSight(n, cache[n]) /\ InSight(n, Published(seen, n)) /\ InSight(n, Missing)
      /\ put' = [put EXCEPT ![n] = NoPut]
  BY Unmoved, SightFacts DEF PutLoses, PutFails
<1>2. NoPut.why = "none"
  BY OwnFacts
<1>3. CASE put[n].why = "create"
  <2>1. PICK c \in {seen, Missing} : StartWorker(n, c)
    BY <1>3 DEF PutLoses, PutFails
  <2> DEFINE l == IF Leads(c, n) THEN c ELSE Missing
  <2>2. /\ pc' = [pc EXCEPT ![n] = "idle"] /\ cache' = [cache EXCEPT ![n] = c]
        /\ leader' = [leader EXCEPT ![n] = l]
    BY <2>1 DEF StartWorker
  <2>3. l.rev # 0 => l.policy = policyOf[n]
    BY MissingFacts DEF Leads, Foreign
  <2>4. cache[n] = Missing /\ InSight(n, c)
    BY <1>1, <1>3, OwnFacts
  <2> HIDE DEF l
  <2> QED BY <1>1, <1>2, <2>2, <2>3, <2>4, KeepsOrDrops
<1>4. CASE put[n].why # "create"
  <2> DEFINE p == IF put[n].why = "release" THEN "exited" ELSE "idle"
  <2>1. /\ pc' = [pc EXCEPT ![n] = p] /\ leader' = [leader EXCEPT ![n] = Missing]
    BY <1>4 DEF PutLoses, PutFails, Abandon
  <2>2. PICK c \in {cache[n], Published(seen, n)} : cache' = [cache EXCEPT ![n] = c]
    BY <1>4, Unmoved DEF PutLoses, PutFails, Abandon
  <2>3. /\ InSight(n, c)
        /\ c = cache[n] \/ \E new : InSight(n, new) /\ c = Published(new, n)
    BY <1>1, <2>2
  <2>4. p # "down" /\ p # "put"
    OBVIOUS
  <2> HIDE DEF p
  <2> QED BY <1>1, <1>2, <2>1, <2>2, <2>3, <2>4, MissingFacts, KeepsOrDrops
<1> QED BY <1>3, <1>4

LEMMA AnsweredKeeps ==
    ASSUME RInv, CInv, NEW n \in Nodes, PutAnswered(n) \/ Readback(n) \/ ReadbackFails(n)
    PROVE  CInv' /\ \A m \in Nodes : Forward(m)
<1>1. UNCHANGED <<now, fixed, object, committed, net, job>> /\ put[n] \in Writes
  BY OfNode DEF PutAnswered, Readback, ReadbackFails, PutAt
<1>2. put[n] # NoPut
  BY <1>1, OwnFacts
<1>3. put[n].body.policy = policyOf[n] /\ put[n].body \in Rosters
  BY <1>1, <1>2, OwnFacts DEF Writes
<1>4. CASE /\ pc[n] = "put" /\ now <= put[n].since + Operation /\ put[n].answer = "stored"
           /\ PutSucceeds(n, [put[n].body EXCEPT !.modified = ClockOf(n)])
  <2> DEFINE r == [put[n].body EXCEPT !.modified = ClockOf(n)]
  <2>1. InSight(n, r)
    BY <1>4, StampInSight
  <2>2. r.policy = policyOf[n]
    BY <1>3 DEF Rosters
  <2>3. PutSucceeds(n, r)
    BY <1>4
  <2> HIDE DEF r
  <2> QED BY <1>1, <2>1, <2>2, <2>3, SucceedsKeeps
<1>5. CASE IsMine(n) /\ PutSucceeds(n, object)
  <2>1. PutGood(n, put[n], net, object, Stored, drawn, now)
    BY <1>2, OfNode
  <2>2. object.policy = policyOf[n]
    BY <1>3, <1>5, <2>1 DEF IsMine, PutGood, Same
  <2> QED BY <1>1, <1>5, <2>2, SightFacts, SucceedsKeeps
<1>6. CASE PutLoses(n, Missing) \/ PutLoses(n, object) \/ PutFails(n)
  BY <1>1, <1>6, SightFacts, LosesKeeps
<1> QED BY <1>4, <1>5, <1>6 DEF PutAnswered, Readback, ReadbackFails

(* What the winner of an election writes, if it may be stored.             *)
LEMMA ClaimedTakes ==
    ASSUME RInv, NEW n \in Nodes, MayElect(object, n)
    PROVE  /\ Claimed(n).policy = policyOf[n]
           /\ \/ /\ object.rev # 0 /\ Claimed(n).policy = object.policy
                 /\ Claimed(n).epoch = object.epoch
              \/ /\ Claimed(n).epoch <= EpochAt(now + 2 * MaxSkew)
                 /\ object.rev # 0 =>
                      /\ now + MaxSkew > object.modified + Lease
                      /\ Claimed(n).epoch >= EpochAt(object.modified + MaxSkew + 1)
<1>1. /\ ClockOf(n) \in Nat /\ ClockOf(n) <= now + 2 * MaxSkew /\ now + 2 * MaxSkew \in Nat
  BY ClockFacts, Constants DEF RInv
<1>2. Created(n).policy = policyOf[n] /\ Created(n).epoch = ClockOf(n) * EpochUnit
  BY DEF Created
<1>3. \A a, b \in Nat : a * b = b * a
  OBVIOUS
<1>4. /\ Created(n).epoch = EpochAt(ClockOf(n))
      /\ EpochAt(ClockOf(n)) <= EpochAt(now + 2 * MaxSkew)
  BY <1>1, <1>2, <1>3, Constants, EpochAtFacts DEF EpochAt
<1>5. CASE object.rev = 0
  BY <1>2, <1>4, <1>5 DEF Claimed
<1>6. CASE Foreign(object, n)
  <2>1. Claimed(n) = Created(n) /\ LeaseExpired(object.modified, n) /\ object.rev # 0
    BY <1>6 DEF Claimed, MayElect, Claimable, Foreign
  <2>2. object.modified \in Nat
    BY <2>1, OfNode, KnownRosters, RosterFields DEF Sane
  <2>3. now + MaxSkew > object.modified + Lease
    BY <2>1, <2>2, ExpiredForAll
  <2>4. object.modified + MaxSkew + 1 \in Nat /\ object.modified + MaxSkew + 1 <= ClockOf(n)
    BY <1>1, <2>1, <2>2, Constants DEF LeaseExpired
  <2>5. EpochAt(object.modified + MaxSkew + 1) <= EpochAt(ClockOf(n))
        /\ EpochAt(object.modified + MaxSkew + 1) \in Nat /\ EpochAt(ClockOf(n)) \in Nat
    BY <1>1, <2>4, EpochAtFacts
  <2> QED BY <1>2, <1>4, <2>1, <2>3, <2>5
<1>7. CASE object.rev # 0 /\ ~Foreign(object, n)
  <2>1. Claimed(n) = [object EXCEPT !.released = FALSE] /\ object \in Rosters
    BY <1>7, OfNode, KnownRosters DEF Claimed, Sane
  <2>2. Claimed(n).policy = object.policy /\ Claimed(n).epoch = object.epoch
    BY <2>1 DEF Rosters
  <2> QED BY <1>7, <2>2 DEF Foreign
<1> QED BY <1>5, <1>6, <1>7 DEF Foreign

(* A node issues a write, and remembers no more than before.               *)
LEMMA IssueKeeps ==
    ASSUME RInv, CInv, NEW n \in Nodes, UNCHANGED <<now, fixed, object, committed>>,
           NEW why \in Whys, NEW b, Base(b), NEW cond, Issue(n, why, b, cond),
           b.policy = policyOf[n],
           object.rev = cond =>
             \/ object.rev # 0 /\ b.policy = object.policy /\ b.epoch = object.epoch
             \/ /\ b.epoch <= EpochAt(now + 2 * MaxSkew)
                /\ object.rev # 0 =>
                     /\ now + MaxSkew > object.modified + Lease
                     /\ b.epoch >= EpochAt(object.modified + MaxSkew + 1),
           NEW c \in {cache[n], Missing}, NEW l \in {leader[n], Missing},
           NEW j \in {job[n], <<>>},
           cache' = [cache EXCEPT ![n] = c], leader' = [leader EXCEPT ![n] = l],
           job' = [job EXCEPT ![n] = j],
           c = cache[n] \/ why = "release", why = "create" => pc[n] = "down"
    PROVE  CInv' /\ \A m \in Nodes : Forward(m)
<1>1. \A r \in net' : r \in net \/ (r.cond = object.rev => Takes(r.body, object, now))
  BY TakesIssued
<1>2. PICK x \in Writes :
        /\ put' = [put EXCEPT ![n] = x] /\ pc' = [pc EXCEPT ![n] = "put"]
        /\ x # NoPut /\ x.why = why /\ x.body.policy = policyOf[n]
        /\ x.since <= now /\ x.answer = "none"
  BY TakesIssued
<1>3. l.rev # 0 => l.policy = policyOf[n]
  BY OwnFacts, MissingFacts
<1>4. x.why = "create" => c = Missing /\ j = <<>>
  BY <1>2, OwnFacts
<1>5. InSight(n, c) /\ (j # <<>> => InSight(n, j[1]))
  BY SightFacts
<1>6. c = cache[n] \/ x.why = "release"
  BY <1>2
<1> QED BY <1>1, <1>2, <1>3, <1>4, <1>5, <1>6, KeepsStep

LEMMA WrittenKeeps ==
    ASSUME RInv, CInv, NEW n \in Nodes,
           Start(n) \/ Elect(n) \/ Pass(n) \/ Publish(n) \/ Release(n)
    PROVE  CInv' /\ \A m \in Nodes : Forward(m)
<1>1. UNCHANGED <<now, fixed, object, committed>>
  BY DEF Start, Elect, Pass, Publish, Release
<1>2. {"create", "elect", "renew", "reserve", "publish", "release"} \subseteq Whys
  BY DEF Whys
<1>3. /\ InSight(n, cache[n]) /\ InSight(n, Missing) /\ InSight(n, object)
      /\ job[n] # <<>> => InSight(n, job[n][1])
      /\ InSight(n, Published(object, n))
  BY SightFacts
<1>4. /\ leader[n].rev # 0 => leader[n].policy = policyOf[n]
      /\ NoPut.why = "none"
  BY OwnFacts
<1>5. CASE Start(n) /\ object.rev = 0
  <2>1. /\ Issue(n, "create", Created(n), 0) /\ pc[n] = "down"
        /\ cache' = [cache EXCEPT ![n] = cache[n]] /\ leader' = [leader EXCEPT ![n] = leader[n]]
        /\ job' = [job EXCEPT ![n] = job[n]]
    BY <1>5, Unmoved DEF Start
  <2>2. MayElect(object, n) /\ Claimed(n) = Created(n)
    BY <1>5 DEF MayElect, Claimed
  <2>3. Created(n).policy = policyOf[n] /\ Created(n).epoch <= EpochAt(now + 2 * MaxSkew)
    BY <1>5, <2>2, ClaimedTakes
  <2>4. Base(Created(n))
    BY CreatedBase
  <2> QED BY <1>1, <1>2, <1>5, <2>1, <2>3, <2>4, IssueKeeps
<1>6. CASE Start(n) /\ object.rev # 0
  <2> DEFINE l == IF Leads(object, n) THEN object ELSE Missing
  <2>1. /\ put' = [put EXCEPT ![n] = put[n]] /\ pc' = [pc EXCEPT ![n] = "idle"]
        /\ cache' = [cache EXCEPT ![n] = object] /\ leader' = [leader EXCEPT ![n] = l]
        /\ job' = [job EXCEPT ![n] = job[n]] /\ net' = net /\ pc[n] = "down"
    BY <1>6, Unmoved DEF Start, StartWorker
  <2>2. l.rev # 0 => l.policy = policyOf[n]
    BY MissingFacts DEF Leads, Foreign
  <2>3. cache[n] = Missing /\ put[n] = NoPut
    BY <2>1, OwnFacts, OfNode DEF PutAt
  <2> HIDE DEF l
  <2> QED BY <1>1, <1>3, <1>4, <2>1, <2>2, <2>3, KeepsOrDrops
<1>7. CASE Elect(n) /\ MayElect(object, n)
  <2>1. /\ Issue(n, "elect", Claimed(n), object.rev)
        /\ cache' = [cache EXCEPT ![n] = cache[n]] /\ leader' = [leader EXCEPT ![n] = leader[n]]
        /\ job' = [job EXCEPT ![n] = job[n]]
    BY <1>7, Unmoved DEF Elect
  <2>2. Base(Claimed(n))
    BY <1>7, ClaimedFacts
  <2>3. "elect" \in Whys /\ "elect" # "create"
    BY <1>2
  <2> DEFINE b == Claimed(n)
  <2>4. /\ b.policy = policyOf[n]
        /\ \/ object.rev # 0 /\ b.policy = object.policy /\ b.epoch = object.epoch
           \/ /\ b.epoch <= EpochAt(now + 2 * MaxSkew)
              /\ object.rev # 0 =>
                   /\ now + MaxSkew > object.modified + Lease
                   /\ b.epoch >= EpochAt(object.modified + MaxSkew + 1)
    BY <1>7, ClaimedTakes
  <2>5. Base(b) /\ Issue(n, "elect", b, object.rev)
    BY <2>1, <2>2
  <2> HIDE DEF b
  <2> QED BY <1>1, <2>1, <2>3, <2>4, <2>5, IssueKeeps
<1>8. CASE Elect(n) /\ ~MayElect(object, n)
  <2> DEFINE c == Published(object, n)
             l == Consumed(c, leader[n], n)
  <2>1. /\ put' = [put EXCEPT ![n] = put[n]] /\ pc' = [pc EXCEPT ![n] = "pass"]
        /\ cache' = [cache EXCEPT ![n] = c] /\ leader' = [leader EXCEPT ![n] = l]
        /\ job' = [job EXCEPT ![n] = job[n]] /\ net' = net /\ put[n] = NoPut
    BY <1>8, Unmoved, OfNode DEF Elect, Learn, PutAt
  <2>2. l.rev # 0 => l.policy = policyOf[n]
    BY <1>4, OwnConsumed
  <2>3. InSight(n, c) /\ \E new : InSight(n, new) /\ c = Published(new, n)
    BY <1>3
  <2> HIDE DEF c, l
  <2> QED BY <1>1, <1>3, <1>4, <2>1, <2>2, <2>3, KeepsOrDrops
<1>9. CASE Pass(n) /\ object.rev = leader[n].rev
  <2> DEFINE b == PassBody(n)
             why == IF CompletedWindow(n, object.last) = 0 THEN "renew" ELSE "reserve"
  <2>1. /\ Issue(n, why, b, object.rev) /\ object.rev # 0
        /\ cache' = [cache EXCEPT ![n] = cache[n]] /\ leader' = [leader EXCEPT ![n] = Missing]
        /\ job' = [job EXCEPT ![n] = job[n]]
    BY <1>9, Unmoved DEF Pass, PassBody
  <2>2. Sane(object, now) /\ object \in Rosters /\ object.rev <= drawn
    <3>1. Sane(object, now) /\ object.rev \in Stored
      BY <2>1, OfNode, KnownRosters
    <3> QED BY <3>1, StoredDrawn DEF Sane
  <2>3. Base(b)
    BY <2>2, PassBodyFacts
  <2>4. b.policy = object.policy /\ b.epoch = object.epoch
    BY <2>2 DEF PassBody, Rosters
  <2>5. object.policy = policyOf[n]
    <3>1. leader[n].rev # 0 /\ leader[n].rev = object.rev
      BY <1>9, <2>1
    <3>2. Same(leader[n], object)
      BY <3>1, OfNode, KnownRosters DEF Leading
    <3> QED BY <1>4, <3>1, <3>2 DEF Same
  <2>6. why \in Whys /\ why # "create"
    BY <1>2
  <2> HIDE DEF b, why
  <2> QED BY <1>1, <2>1, <2>3, <2>4, <2>5, <2>6, IssueKeeps
<1>10. CASE Pass(n) /\ object.rev # leader[n].rev
  <2> DEFINE c == Published(object, n)
             l == Consumed(c, Missing, n)
  <2>1. /\ put' = [put EXCEPT ![n] = put[n]] /\ pc' = [pc EXCEPT ![n] = "idle"]
        /\ cache' = [cache EXCEPT ![n] = c] /\ leader' = [leader EXCEPT ![n] = l]
        /\ job' = [job EXCEPT ![n] = job[n]] /\ net' = net /\ put[n] = NoPut
    BY <1>10, Unmoved, OfNode DEF Pass, Learn, PutAt
  <2>2. l.rev # 0 => l.policy = policyOf[n]
    BY MissingFacts, OwnConsumed
  <2>3. InSight(n, c) /\ \E new : InSight(n, new) /\ c = Published(new, n)
    BY <1>3
  <2> HIDE DEF c, l
  <2> QED BY <1>1, <1>3, <1>4, <2>1, <2>2, <2>3, KeepsOrDrops
<1>11. CASE Publish(n)
  <2> DEFINE k == put[n].body
  <2>1. PICK e \in {k.population, k.last} :
          Issue(n, "publish", [k EXCEPT !.population = e], k.rev)
    BY <1>11 DEF Publish, ReservedVersion
  <2>2. /\ cache' = [cache EXCEPT ![n] = cache[n]] /\ leader' = [leader EXCEPT ![n] = leader[n]]
        /\ job' = [job EXCEPT ![n] = job[n]] /\ put[n] \in Reserved
    BY <1>11, Unmoved, OfNode DEF Publish, PutAt
  <2>3. put[n] # NoPut /\ k.policy = policyOf[n]
    BY <2>2, OwnFacts DEF Reserved, NoPut
  <2>4. /\ Sane(k, now) /\ k \in Rosters /\ k.rev <= drawn /\ k.rev # 0
        /\ (k.rev = object.rev => Same(k, object))
    BY <2>3, OfNode DEF PutGood, Sane
  <2> HIDE DEF k
  <2> DEFINE b == [k EXCEPT !.population = e]
  <2>5. /\ k.last \in Clocks /\ k.population \in Clocks /\ k.last \in Nat /\ k.population \in Nat
    BY <2>4, RosterFields
  <2>6. e \in Clocks /\ e <= k.last
    BY <2>4, <2>5 DEF Sane
  <2>7. /\ b \in Rosters /\ b.epoch = k.epoch /\ b.last = k.last /\ b.population = e
        /\ b.policy = k.policy
    BY <2>4, <2>6 DEF Rosters
  <2>8. Issue(n, "publish", b, k.rev)
    BY <2>1
  <2> HIDE DEF b
  <2>9. Base(k)
    BY <2>4, KnownBase
  <2>10. Base(b)
    BY <2>6, <2>7, <2>9 DEF Base
  <2>11. object.rev = k.rev =>
           object.rev # 0 /\ b.policy = object.policy /\ b.epoch = object.epoch
    BY <2>4, <2>7 DEF Same
  <2>12. "publish" \in Whys /\ "publish" # "create" /\ b.policy = policyOf[n]
    BY <1>2, <2>3, <2>7
  <2> QED BY <1>1, <2>2, <2>8, <2>10, <2>11, <2>12, IssueKeeps
<1>12. CASE Release(n) /\ leader[n].rev # 0
  <2> DEFINE k == leader[n]
             b == [k EXCEPT !.released = TRUE]
  <2>1. /\ Issue(n, "release", b, k.rev)
        /\ cache' = [cache EXCEPT ![n] = Missing] /\ leader' = [leader EXCEPT ![n] = Missing]
        /\ job' = [job EXCEPT ![n] = <<>>]
    BY <1>12 DEF Release, Forget
  <2>2. /\ Sane(k, now) /\ k \in Rosters /\ k.rev \in Stored /\ k.rev # 0
        /\ (k.rev = object.rev => Same(k, object)) /\ k.policy = policyOf[n]
    BY <1>4, <1>12, OfNode, KnownRosters DEF Leading, Sane
  <2> HIDE DEF k
  <2>3. /\ b \in Rosters /\ b.epoch = k.epoch /\ b.last = k.last /\ b.population = k.population
        /\ b.policy = k.policy
    BY <2>2 DEF Rosters
  <2> HIDE DEF b
  <2>4. Base(k)
    BY <2>2, StoredDrawn, KnownBase
  <2>5. Base(b)
    BY <2>3, <2>4 DEF Base
  <2>6. object.rev = k.rev =>
          object.rev # 0 /\ b.policy = object.policy /\ b.epoch = object.epoch
    BY <2>2, <2>3 DEF Same
  <2> QED BY <1>1, <1>2, <2>1, <2>2, <2>3, <2>5, <2>6, IssueKeeps
<1>13. CASE Release(n) /\ leader[n].rev = 0
  <2>1. /\ put' = [put EXCEPT ![n] = NoPut] /\ pc' = [pc EXCEPT ![n] = "exited"]
        /\ cache' = [cache EXCEPT ![n] = Missing] /\ leader' = [leader EXCEPT ![n] = Missing]
        /\ job' = [job EXCEPT ![n] = <<>>] /\ net' = net
    BY <1>13 DEF Release, Exit, Forget
  <2> QED BY <1>1, <1>3, <1>4, <2>1, MissingFacts, KeepsOrDrops
<1> QED BY <1>5, <1>6, <1>7, <1>8, <1>9, <1>10, <1>11, <1>12, <1>13

(* Time passes: a request loses nothing by waiting, and an answer that is  *)
(* still to come is not stamped earlier.                                   *)
LEMMA TickKeeps ==
    ASSUME RInv, CInv, Tick
    PROVE  CInv' /\ \A m \in Nodes : Forward(m)
<1>1. /\ UNCHANGED <<fixed, object, net, pc, put, cache, leader, job, committed>>
      /\ now' = now + 1 /\ now \in Nat /\ now' \in Nat
  BY DEF Tick, RInv, ClocksOk
<1>2. InTurn'
  <2>1. object.rev # 0 => object.modified \in Nat
    BY RosterFields, KnownRosters DEF RInv, StoreOk, StoreGood, Sane
  <2> QED BY <1>1, <2>1, Constants DEF CInv, InTurn
<1>3. ASSUME NEW r \in net, r.cond = object.rev PROVE Takes(r.body, object, now + 1)
  <2>1. r.body.epoch \in Nat /\ r.body.rev \in Nat
    BY RosterFields DEF RInv, NetOk, NetGood, RequestGood, Sane
  <2>2. Takes(r.body, object, now)
    BY <1>3 DEF CInv
  <2>3. now + 2 * MaxSkew \in Nat /\ (now + 1) + 2 * MaxSkew \in Nat
        /\ now + 2 * MaxSkew <= (now + 1) + 2 * MaxSkew
    BY <1>1, Constants
  <2>4. /\ EpochAt(now + 2 * MaxSkew) <= EpochAt((now + 1) + 2 * MaxSkew)
        /\ EpochAt(now + 2 * MaxSkew) \in Nat /\ EpochAt((now + 1) + 2 * MaxSkew) \in Nat
    BY <2>3, EpochAtFacts
  <2>5. r.body.epoch <= EpochAt((now + 1) + 2 * MaxSkew) + r.body.rev
    BY <2>1, <2>2, <2>4 DEF Takes
  <2>6. ASSUME object.rev # 0, now + MaxSkew > object.modified + Lease
        PROVE  (now + 1) + MaxSkew > object.modified + Lease
    <3>1. object.modified \in Nat
      BY <2>6, RosterFields, KnownRosters DEF RInv, StoreOk, StoreGood, Sane
    <3> QED BY <1>1, <2>6, <3>1, Constants
  <2> QED BY <2>2, <2>5, <2>6 DEF Takes
<1>4. ASSUME NEW n \in Nodes PROVE OwnPolicy(n)'
  <2>1. put[n] \in Writes => put[n].since \in Nat
    BY Constants DEF Writes
  <2>2. put[n] \in Writes => put[n].since <= now + 1
    BY <1>1, <2>1, OwnFacts
  <2> QED BY <1>1, <2>2, OwnFacts DEF OwnPolicy, fixed
<1>5. ASSUME NEW n \in Nodes PROVE (InOrder(n) /\ NotAhead(n))'
  <2>1. ASSUME NEW s \in Spans(n)' PROVE \E u \in Spans(n) : Covers(u, s)
    <3>1. s \in Spans(n) \/ (Told(n) /\ s = Stamp(n)')
      BY <1>1 DEF Spans, When, Told, Exactly, Span
    <3>2. CASE Told(n) /\ s = Stamp(n)'
      <4>1. Stamp(n) \in Spans(n)
        BY <3>2 DEF Spans, When
      <4>2. Stamp(n).hi \in Nat
        BY <4>1, SpanFacts
      <4>3. /\ s.rev = Stamp(n).rev /\ s.policy = Stamp(n).policy
            /\ s.epoch = Stamp(n).epoch /\ s.lo = now + 1 /\ s.hi = Stamp(n).hi
            /\ Stamp(n).lo = now
        BY <1>1, <3>2 DEF Stamp, Span
      <4>4. Covers(Stamp(n), s)
        BY <1>1, <4>2, <4>3 DEF Covers
      <4> QED BY <4>1, <4>4
    <3> QED BY <3>1, <3>2, SightFacts
  <2> QED BY <1>1, <2>1, CoveredStep DEF CInv
<1>6. ASSUME NEW n \in Nodes PROVE Forward(n)
  <2>1. ASSUME cache[n].rev # 0 PROVE StoredAs(cache[n]) \in Nat
    <3>1. cache[n].rev \in Stored
      BY <2>1, OfNode, KnownRosters
    <3>2. StoredAs(cache[n]) \in 1..Len(committed)
      BY <3>1, PlaceFacts DEF CInv
    <3> QED BY <3>2
  <2>2. StoredAs(cache[n])' = StoredAs(cache[n])
    BY <1>1 DEF StoredAs
  <2> QED BY <2>1, <2>2 DEF Forward
<1> QED BY <1>1, <1>2, <1>3, <1>4, <1>5, <1>6 DEF CInv

(* Of what a node may know, the object is the newest.                      *)
LEMMA ObjectNewest ==
    ASSUME RInv, CInv, NEW m \in Nodes, NEW s \in Spans(m), s.rev # object.rev
    PROVE  StoredAs(s) < StoredAs(object) /\ Newer(Exactly(object), s, m)
<1>1. object.rev # 0 /\ s.rev \in Stored
  BY SpanFacts
<1>2. Exactly(object) \in Spans(m)
  BY <1>1 DEF Spans, When
<1>3. StoredAs(s) < StoredAs(object)
  BY <1>1, ObjectLast DEF CInv
<1>4. StoredAs(Exactly(object)) = StoredAs(object)
  BY ExactlyFacts, StoredAsRev
<1> QED BY <1>2, <1>3, <1>4 DEF CInv, InOrder

(* What is stored now is newer than all that a node may know, stamped as   *)
(* early as the slowest clock would.                                       *)
LEMMA StoredIsNewer ==
    ASSUME Operation + MaxSkew <= Lease, RInv, CInv, NEW m \in Nodes, NEW s \in Spans(m),
           NEW r \in net, r.cond = object.rev,
           NEW u, u.rev # 0, u.policy = r.body.policy, u.epoch = r.body.epoch,
           u.lo \in {now, now + MaxSkew}, Foreign(u, m) => u.lo = now + MaxSkew
    PROVE  /\ Newer(u, s, m)
           /\ Foreign(s, m) /\ ~Foreign(u, m) => s.hi < now
<1> DEFINE e == Exactly(object)
<1>1. /\ s.rev # 0 /\ s.epoch \in Nat /\ s.lo \in Nat /\ s.hi \in Nat /\ object.rev # 0
      /\ object \in Rosters
      /\ s.rev = object.rev => s.policy = object.policy /\ s.epoch = object.epoch
  BY SpanFacts
<1>2. /\ object.modified \in Nat /\ object.epoch \in Nat /\ now \in Nat
      /\ object.modified <= now + MaxSkew
  BY <1>1, RosterFields DEF RInv, ClocksOk, CInv, InTurn
<1>3. Takes(r.body, object, now) /\ Inherits(r.body, object, now) /\ u.epoch \in Nat
  <2>1. RequestGood(r, object, Stored, drawn, now)
    BY DEF RInv, NetOk, NetGood
  <2>2. Inherits(r.body, object, now) /\ r.body \in Rosters
    BY <1>1, <2>1 DEF RequestGood, Sane
  <2>3. Takes(r.body, object, now)
    BY DEF CInv
  <2> QED BY <2>2, <2>3, RosterFields
<1>4. /\ s.hi <= object.modified + Operation + MaxSkew
      /\ Foreign(s, m) => s.hi <= object.modified
      /\ Foreign(s, m) /\ ~Foreign(object, m) => s.hi + MaxSkew < object.modified
      /\ s.epoch < EpochAt(object.modified + MaxSkew + 1)
  BY DEF CInv, NotAhead
<1>5. u.policy # object.policy => now + MaxSkew > object.modified + Lease
  BY <1>1, <1>3 DEF Takes
<1>6. Foreign(u, m) # Foreign(object, m) => u.policy # object.policy
  BY <1>1 DEF Foreign
<1>7. e.epoch = object.epoch /\ e.lo = object.modified /\ Foreign(e, m) = Foreign(object, m)
  BY ExactlyFacts DEF Foreign
<1>8. Foreign(s, m) # Foreign(object, m) => s.rev # object.rev
  BY <1>1 DEF Foreign
<1>9. s.rev # object.rev => Newer(e, s, m)
  BY ObjectNewest
<1> HIDE DEF e
<1>10. Foreign(s, m) \in BOOLEAN /\ Foreign(u, m) \in BOOLEAN /\ Foreign(object, m) \in BOOLEAN
  BY DEF Foreign
<1>11. CASE ~Foreign(s, m) /\ ~Foreign(u, m)
  <2>1. s.epoch < u.epoch
    <3>1. CASE Foreign(object, m)
      <4>1. u.epoch > EpochAt(object.modified + MaxSkew + 1)
        BY <1>1, <1>3, <1>6, <1>11, <3>1 DEF Takes
      <4>2. object.modified + MaxSkew + 1 \in Nat
        BY <1>2, Constants
      <4>3. EpochAt(object.modified + MaxSkew + 1) \in Nat
        BY <4>2, EpochAtFacts
      <4> QED BY <1>1, <1>3, <1>4, <4>1, <4>3
    <3>2. CASE ~Foreign(object, m)
      <4>1. u.policy = object.policy
        BY <1>1, <1>11, <3>2 DEF Foreign
      <4>2. u.epoch > object.epoch
        BY <1>3, <4>1 DEF Inherits
      <4>3. s.epoch <= object.epoch
        <5>1. CASE s.rev = object.rev
          BY <1>1, <1>2, <5>1
        <5>2. CASE s.rev # object.rev
          <6>1. s.epoch < object.epoch
            BY <1>7, <1>9, <1>11, <3>2, <5>2 DEF Newer
          <6> QED BY <1>1, <1>2, <6>1
        <5> QED BY <5>1, <5>2
      <4> QED BY <1>1, <1>2, <1>3, <4>2, <4>3
    <3> QED BY <3>1, <3>2
  <2> QED BY <1>10, <1>11, <2>1 DEF Newer
<1>12. CASE Foreign(s, m) /\ Foreign(u, m)
  <2>1. s.hi <= u.lo
    BY <1>1, <1>2, <1>4, <1>12, Constants
  <2> QED BY <1>10, <1>12, <2>1 DEF Newer
<1>13. CASE ~Foreign(s, m) /\ Foreign(u, m)
  <2>1. s.hi < u.lo
    <3>1. CASE Foreign(object, m)
      <4>1. s.hi < object.modified
        BY <1>7, <1>8, <1>9, <1>10, <1>13, <3>1 DEF Newer
      <4> QED BY <1>1, <1>2, <1>13, <4>1, Constants
    <3>2. CASE ~Foreign(object, m)
      <4>1. now + MaxSkew > object.modified + Lease
        BY <1>5, <1>6, <1>13, <3>2
      <4> QED BY <1>1, <1>2, <1>4, <1>13, <4>1, Constants
    <3> QED BY <3>1, <3>2
  <2> QED BY <1>10, <1>13, <2>1 DEF Newer
<1>14. CASE Foreign(s, m) /\ ~Foreign(u, m)
  <2>1. s.hi < now
    <3>1. CASE Foreign(object, m)
      <4>1. now + MaxSkew > object.modified + Lease
        BY <1>5, <1>6, <1>14, <3>1
      <4> QED BY <1>1, <1>2, <1>4, <1>14, <4>1, Constants
    <3>2. CASE ~Foreign(object, m)
      BY <1>1, <1>2, <1>4, <1>14, <3>2, Constants
    <3> QED BY <3>1, <3>2
  <2>2. s.hi < u.lo
    BY <1>1, <1>2, <2>1, Constants
  <2> QED BY <1>10, <1>14, <2>1, <2>2 DEF Newer
<1> QED BY <1>10, <1>11, <1>12, <1>13, <1>14

(* The store's answer changes nothing of a write but its answer.           *)
LEMMA AnswerChanges ==
    ASSUME RInv, NEW r \in net, ServerPut(r), NEW m \in Nodes
    PROVE  \/ put'[m] = put[m]
           \/ /\ put[m] \in Writes /\ put'[m] \in Writes /\ put[m].body = r.body
              /\ put'[m].body = put[m].body /\ put'[m].why = put[m].why
              /\ put'[m].since = put[m].since
              /\ put'[m].answer = IF object.rev = r.cond THEN "stored" ELSE "refused"
<1> DEFINE a == IF object.rev = r.cond THEN "stored" ELSE "refused"
<1>1. AnswerStep(r, a)
  BY ServerAnswers DEF RInv
<1>2. a \in {"stored", "refused"}
  OBVIOUS
<1> HIDE DEF a
<1>3. CASE put'[m] # put[m]
  <2>1. /\ put[m] \in Writes /\ put[m].body.rev = r.body.rev
        /\ put'[m] = Answered(put[m], a)
    BY <1>1, <1>3 DEF AnswerStep
  <2>2. put'[m].since = put[m].since
    BY <2>1 DEF Answered, Writes
  <2>3. put[m] # NoPut
    BY <2>1 DEF Writes, Whys, NoPut
  <2>4. put[m].body = r.body
    BY <2>1, <2>3, OfNode DEF PutGood
  <2> QED BY <1>2, <2>1, <2>2, <2>4, AnsweredFacts DEF a
<1> QED BY <1>3

LEMMA ServedOwn ==
    ASSUME RInv, CInv, NEW r \in net, ServerPut(r), NEW m \in Nodes
    PROVE  OwnPolicy(m)'
<1>1. UNCHANGED <<now, fixed, pc, cache, leader, job>>
  BY DEF ServerPut
<1>2. policyOf' = policyOf
  BY <1>1 DEF fixed
<1>3. CASE put'[m] = put[m]
  BY <1>1, <1>2, <1>3, OwnFacts DEF OwnPolicy
<1>4. CASE put'[m] # put[m]
  <2>1. /\ put[m] \in Writes /\ put'[m].body = put[m].body /\ put'[m].why = put[m].why
        /\ put'[m].since = put[m].since
    BY <1>4, AnswerChanges
  <2>2. put[m] # NoPut
    BY <2>1, OwnFacts
  <2> QED BY <1>1, <1>2, <2>1, <2>2, OwnFacts DEF OwnPolicy
<1> QED BY <1>3, <1>4

(* The store refuses a request.                                            *)
LEMMA RefusedKeeps ==
    ASSUME RInv, CInv, NEW r \in net, ServerPut(r), object.rev # r.cond
    PROVE  CInv' /\ \A m \in Nodes : Forward(m)
<1>1. /\ UNCHANGED <<now, fixed, object, committed, pc, cache, leader, job>>
      /\ net' \subseteq net
  BY DEF ServerPut
<1>2. InTurn' /\ \A q \in net' : q.cond = object'.rev => Takes(q.body, object', now')
  BY <1>1 DEF CInv, InTurn
<1>3. ASSUME NEW m \in Nodes PROVE (InOrder(m) /\ NotAhead(m))'
  <2>1. ASSUME NEW s \in Spans(m)' PROVE \E u \in Spans(m) : Covers(u, s)
    <3>1. s \in Spans(m)
      <4>1. CASE put'[m] = put[m]
        BY <1>1, <4>1 DEF Spans, When, Told, Stamp, Exactly, Span
      <4>2. CASE put'[m] # put[m]
        <5>1. ~Told(m)'
          BY <4>2, AnswerChanges DEF Told
        <5> QED BY <1>1, <5>1 DEF Spans, When, Exactly, Span
      <4> QED BY <4>1, <4>2
    <3> QED BY <3>1, SightFacts
  <2> QED BY <1>1, <2>1, CoveredStep DEF CInv
<1>4. ASSUME NEW n \in Nodes PROVE Forward(n)
  <2>1. ASSUME cache[n].rev # 0 PROVE StoredAs(cache[n]) \in Nat
    <3>1. cache[n].rev \in Stored
      BY <2>1, OfNode, KnownRosters
    <3>2. StoredAs(cache[n]) \in 1..Len(committed)
      BY <3>1, PlaceFacts DEF CInv
    <3> QED BY <3>2
  <2>2. StoredAs(cache[n])' = StoredAs(cache[n])
    BY <1>1 DEF StoredAs
  <2> QED BY <2>1, <2>2 DEF Forward
<1> QED BY <1>2, <1>3, <1>4, ServedOwn DEF CInv

Place(C, k) == CHOOSE i \in 1..Len(C) : C[i] = k

LEMMA StoredAsPlace == \A x : StoredAs(x) = Place(committed, x.rev)
BY DEF StoredAs, Place

(* The store takes a request: what was stored before keeps its place, and  *)
(* the new roster comes after it.                                          *)
LEMMA PlacesKept ==
    ASSUME RInv, InTurn, NEW k \in Nat, k \notin Stored, committed' = Append(committed, k)
    PROVE  /\ \A q \in Stored : /\ Place(committed', q) = Place(committed, q)
                                /\ Place(committed, q) \in 1..Len(committed)
           /\ Place(committed', k) = Len(committed) + 1
           /\ \A i, j \in 1..Len(committed') : committed'[i] = committed'[j] => i = j
           /\ committed'[Len(committed')] = k
           /\ Len(committed) \in Nat
<1>1. committed \in Seq(Nat) /\ Len(committed) \in Nat
  BY LenProperties DEF RInv, StoreOk
<1>2. /\ Len(committed') = Len(committed) + 1
      /\ \A i \in 1..Len(committed) : committed'[i] = committed[i]
      /\ committed'[Len(committed) + 1] = k
  BY <1>1, AppendProperties
<1>3. 1..Len(committed') = (1..Len(committed)) \cup {Len(committed) + 1}
  BY <1>1, <1>2
<1>4. \A i \in 1..Len(committed) : committed[i] # k
  BY DEF Stored
<1>5. \A i, j \in 1..Len(committed') : committed'[i] = committed'[j] => i = j
  BY <1>2, <1>3, <1>4 DEF InTurn
<1>6. ASSUME NEW q, NEW i \in 1..Len(committed'), committed'[i] = q
      PROVE  Place(committed', q) = i
  <2>1. Place(committed', q) \in 1..Len(committed') /\ committed'[Place(committed', q)] = q
    BY <1>6 DEF Place
  <2> QED BY <1>5, <1>6, <2>1
<1>7. ASSUME NEW q \in Stored
      PROVE  /\ Place(committed', q) = Place(committed, q)
             /\ Place(committed, q) \in 1..Len(committed)
  <2>1. \E i \in 1..Len(committed) : committed[i] = q
    BY DEF Stored
  <2>2. Place(committed, q) \in 1..Len(committed) /\ committed[Place(committed, q)] = q
    BY <2>1 DEF Place
  <2> QED BY <2>2, <1>2, <1>3, <1>6
<1>8. Place(committed', k) = Len(committed) + 1
  BY <1>2, <1>3, <1>6
<1> QED BY <1>1, <1>2, <1>5, <1>7, <1>8

LEMMA StoredKeeps ==
    ASSUME Operation + MaxSkew <= Lease, RInv, CInv, NEW r \in net, ServerPut(r),
           object.rev = r.cond
    PROVE  CInv' /\ \A m \in Nodes : Forward(m)
<1> DEFINE y == r.body
           t == now + MaxSkew
<1>1. /\ UNCHANGED <<now, fixed, pc, cache, leader, job>> /\ net' = net \ {r}
      /\ object' = [y EXCEPT !.modified = t] /\ committed' = Append(committed, y.rev)
  BY DEF ServerPut, ServerClock
<1>2. /\ RequestGood(r, object, Stored, drawn, now) /\ Takes(y, object, now)
      /\ InTurn
  BY DEF RInv, NetOk, NetGood, CInv
<1>3. /\ y \in Rosters /\ y.rev # 0 /\ y.rev \notin Stored /\ y.rev \in Nat /\ y.epoch \in Nat
      /\ y.rev <= MaxWrites
  BY <1>2, RosterFields, Constants DEF RequestGood, Sane, Rosters, Revisions
<1>4. /\ object'.rev = y.rev /\ object'.policy = y.policy /\ object'.epoch = y.epoch
      /\ object'.modified = t
  BY <1>1, <1>3 DEF Rosters
<1>5. now \in Nat /\ t \in Nat /\ t + MaxSkew + 1 \in Nat /\ now + 2 * MaxSkew \in Nat
      /\ t + MaxSkew = now + 2 * MaxSkew
  BY Constants DEF RInv, ClocksOk
<1>6. /\ \A q \in Stored : /\ Place(committed', q) = Place(committed, q)
                           /\ Place(committed, q) \in 1..Len(committed)
      /\ Place(committed', y.rev) = Len(committed) + 1
      /\ \A i, j \in 1..Len(committed') : committed'[i] = committed'[j] => i = j
      /\ committed'[Len(committed')] = y.rev /\ Len(committed) \in Nat
  BY <1>1, <1>2, <1>3, PlacesKept
<1>7. /\ \A x : StoredAs(x) = Place(committed, x.rev)
      /\ \A x : StoredAs(x)' = Place(committed', x.rev)
  BY DEF StoredAs, Place
<1>8. \A x, m : Foreign(x, m)' = Foreign(x, m)
  BY <1>1 DEF Foreign, fixed
<1> HIDE DEF y, t
<1>9. y.epoch <= EpochAt(t + MaxSkew) + y.rev /\ y.epoch < EpochAt(t + MaxSkew + 1)
  <2>1. /\ EpochAt(t + MaxSkew) \in Nat
        /\ EpochAt(t + MaxSkew + 1) = EpochAt(t + MaxSkew) + EpochUnit
    BY <1>5, EpochAtFacts
  <2>2. y.epoch <= EpochAt(t + MaxSkew) + y.rev
    BY <1>2, <1>5 DEF Takes
  <2>3. EpochUnit = MaxWrites + 1
    BY DEF EpochUnit
  <2> QED BY <1>3, <2>1, <2>2, <2>3, Constants
<1>10. InTurn'
  <2>1. object'.modified <= now' + MaxSkew
    BY <1>1, <1>4, <1>5 DEF t
  <2> QED BY <1>4, <1>6, <1>9, <2>1 DEF InTurn
<1>11. \A q \in net' : q.cond # object'.rev
  <2> SUFFICES ASSUME NEW q \in net PROVE q.cond # y.rev
    BY <1>1, <1>4
  <2>1. q.cond = 0 \/ q.cond \in Stored
    BY DEF RInv, NetOk, NetGood, RequestGood
  <2> QED BY <2>1, <1>3
<1>12. ASSUME NEW m \in Nodes, NEW s \in Spans(m)', s \notin Spans(m)
       PROVE  /\ s.rev = y.rev /\ s.policy = y.policy /\ s.epoch = y.epoch
              /\ s.lo \in {now, t} /\ s.hi \in Nat /\ s.hi <= t + Operation + MaxSkew
              /\ Foreign(s, m) => s.lo = t /\ s.hi = t
  <2>1. s = Exactly(object)' \/ (Told(m)' /\ s = Stamp(m)' /\ put'[m] # put[m])
    BY <1>1, <1>12 DEF Spans, When, Told, Stamp, Exactly, Span
  <2>2. CASE s = Exactly(object)'
    <3>1. /\ s.rev = y.rev /\ s.policy = y.policy /\ s.epoch = y.epoch
          /\ s.lo = t /\ s.hi = t
      BY <1>4, <2>2 DEF Exactly, Span
    <3>2. t <= t + Operation + MaxSkew
      BY <1>5, Constants
    <3> QED BY <1>5, <3>1, <3>2
  <2>3. CASE Told(m)' /\ s = Stamp(m)' /\ put'[m] # put[m]
    <3>1. /\ put[m] \in Writes /\ put[m].body = y /\ put'[m].body = y
          /\ put'[m].since = put[m].since
      BY <2>3, AnswerChanges DEF y
    <3>2. put[m].since \in Nat /\ put[m].since <= now /\ y.policy = policyOf[m]
      <4>1. put[m] # NoPut /\ put[m].since <= now
        BY <3>1, OwnFacts
      <4> QED BY <3>1, <4>1, OwnFacts, Constants DEF Writes
    <3>3. /\ s.rev = y.rev /\ s.policy = y.policy /\ s.epoch = y.epoch
          /\ s.lo = now /\ s.hi = put[m].since + Operation + 2 * MaxSkew
      BY <1>1, <2>3, <3>1 DEF Stamp, Span
    <3>4. /\ put[m].since + Operation + 2 * MaxSkew \in Nat
          /\ put[m].since + Operation + 2 * MaxSkew <= t + Operation + MaxSkew
      BY <1>5, <3>2, Constants DEF t
    <3>5. ~Foreign(s, m)
      BY <3>2, <3>3 DEF Foreign
    <3> QED BY <3>3, <3>4, <3>5
  <2> QED BY <2>1, <2>2, <2>3
<1>13. ASSUME NEW m \in Nodes, NEW s \in Spans(m)
       PROVE  s.rev \in Stored /\ StoredAs(s)' = StoredAs(s) /\ StoredAs(s)' <= Len(committed)
  <2>1. s.rev \in Stored
    BY SpanFacts
  <2> QED BY <2>1, <1>6, <1>7
<1>14. ASSUME NEW m \in Nodes PROVE InOrder(m)'
  <2> SUFFICES ASSUME NEW s \in Spans(m)', NEW u \in Spans(m)', StoredAs(s)' < StoredAs(u)'
               PROVE  Newer(u, s, m)
    BY <1>8 DEF InOrder, Newer
  <2>1. CASE s \in Spans(m) /\ u \in Spans(m)
    BY <1>13, <2>1 DEF CInv, InOrder
  <2>2. CASE s \in Spans(m) /\ u \notin Spans(m)
    <3>1. /\ u.rev # 0 /\ u.policy = r.body.policy /\ u.epoch = r.body.epoch
          /\ u.lo \in {now, now + MaxSkew} /\ (Foreign(u, m) => u.lo = now + MaxSkew)
      BY <1>3, <1>12, <2>2 DEF y, t
    <3>2. r.cond = object.rev
      OBVIOUS
    <3> QED BY <2>2, <3>1, <3>2, StoredIsNewer
  <2>3. CASE s \notin Spans(m)
    <3>1. StoredAs(s)' = Len(committed) + 1
      BY <1>6, <1>7, <1>12, <2>3
    <3>2. StoredAs(u)' <= Len(committed) + 1 /\ StoredAs(u)' \in Nat
      <4>1. CASE u \in Spans(m)
        <5>1. u.rev \in Stored
          BY <1>13, <4>1
        <5>2. /\ Place(committed, u.rev) \in 1..Len(committed)
              /\ StoredAs(u)' = Place(committed, u.rev)
          BY <1>6, <1>7, <5>1
        <5> QED BY <1>6, <5>2
      <4>2. CASE u \notin Spans(m)
        <5>1. StoredAs(u)' = Len(committed) + 1
          BY <1>6, <1>7, <1>12, <4>2
        <5> QED BY <1>6, <5>1
      <4> QED BY <4>1, <4>2
    <3> QED BY <1>6, <3>1, <3>2
  <2> QED BY <2>1, <2>2, <2>3
<1>15. ASSUME NEW m \in Nodes PROVE NotAhead(m)'
  <2> SUFFICES ASSUME NEW s \in Spans(m)'
               PROVE  /\ s.hi <= t + Operation + MaxSkew
                      /\ Foreign(s, m) => s.hi <= t
                      /\ Foreign(s, m) /\ ~Foreign(object', m) => s.hi + MaxSkew < t
                      /\ s.epoch < EpochAt(t + MaxSkew + 1)
    BY <1>4, <1>8 DEF NotAhead, Foreign, fixed
  <2>1. CASE s \in Spans(m)
    <3>1. /\ object.rev # 0 /\ object \in Rosters /\ s.hi \in Nat /\ s.epoch \in Nat
          /\ object.modified \in Nat
      BY <2>1, SpanFacts, RosterFields
    <3>2. object.modified <= t
      BY <1>2, <3>1 DEF InTurn, t
    <3>3. /\ s.hi <= object.modified + Operation + MaxSkew
          /\ Foreign(s, m) => s.hi <= object.modified
          /\ s.epoch < EpochAt(object.modified + MaxSkew + 1)
      BY <2>1 DEF CInv, NotAhead
    <3>4. /\ EpochAt(object.modified + MaxSkew + 1) <= EpochAt(t + MaxSkew + 1)
          /\ EpochAt(object.modified + MaxSkew + 1) \in Nat /\ EpochAt(t + MaxSkew + 1) \in Nat
      <4>1. /\ object.modified + MaxSkew + 1 \in Nat
            /\ object.modified + MaxSkew + 1 <= t + MaxSkew + 1
        BY <1>5, <3>1, <3>2, Constants
      <4> QED BY <1>5, <4>1, EpochAtFacts
    <3>5. ASSUME Foreign(s, m), ~Foreign(object', m) PROVE s.hi + MaxSkew < t
      <4> DEFINE u == [rev |-> y.rev, policy |-> y.policy, epoch |-> y.epoch, lo |-> t]
      <4>1. /\ u.rev # 0 /\ u.policy = r.body.policy /\ u.epoch = r.body.epoch
            /\ u.lo \in {now, now + MaxSkew} /\ (Foreign(u, m) => u.lo = now + MaxSkew)
        BY <1>3 DEF y, t
      <4>2. ~Foreign(u, m)
        BY <1>4, <3>5 DEF Foreign
      <4> HIDE DEF u
      <4>3. s.hi < now
        BY <2>1, <3>5, <4>1, <4>2, StoredIsNewer
      <4> QED BY <1>5, <3>1, <4>3, Constants DEF t
    <3> QED BY <1>5, <3>1, <3>2, <3>3, <3>4, <3>5, Constants
  <2>2. CASE s \notin Spans(m)
    <3>1. /\ s.rev = y.rev /\ s.policy = y.policy /\ s.epoch = y.epoch /\ s.hi \in Nat
          /\ s.hi <= t + Operation + MaxSkew /\ (Foreign(s, m) => s.hi = t)
      BY <1>12, <2>2
    <3>2. Foreign(s, m) = Foreign(object', m)
      BY <1>4, <3>1 DEF Foreign
    <3> QED BY <1>5, <1>9, <3>1, <3>2
  <2> QED BY <2>1, <2>2
<1>16. ASSUME NEW n \in Nodes PROVE Forward(n)
  <2> SUFFICES ASSUME cache[n].rev # 0 PROVE StoredAs(cache[n])' >= StoredAs(cache[n])
    BY DEF Forward
  <2>1. cache[n].rev \in Stored
    BY OfNode, KnownRosters
  <2>2. StoredAs(cache[n])' = Place(committed', cache[n].rev)
    BY <1>1 DEF StoredAs, Place
  <2>3. StoredAs(cache[n]) \in 1..Len(committed) /\ StoredAs(cache[n])' = StoredAs(cache[n])
    BY <1>6, <1>7, <2>1, <2>2
  <2> QED BY <2>3
<1> QED BY <1>10, <1>11, <1>14, <1>15, <1>16, ServedOwn DEF CInv

LEMMA CacheInit == Init => CInv
<1> SUFFICES ASSUME Init PROVE CInv
  OBVIOUS
<1>1. /\ object.rev = 0 /\ net = {} /\ committed = <<>>
  BY DEF Init, Missing
<1>2. ASSUME NEW n \in Nodes
      PROVE  /\ put[n] = NoPut /\ pc[n] = "down" /\ cache[n] = Missing /\ leader[n] = Missing
             /\ job[n] = <<>>
  BY DEF Init
<1>3. InTurn
  BY <1>1 DEF InTurn
<1>4. ASSUME NEW n \in Nodes PROVE OwnPolicy(n) /\ InOrder(n) /\ NotAhead(n)
  <2>1. Spans(n) = {}
    BY <1>1, <1>2, MissingFacts DEF Spans, When, Told
  <2>2. NoPut \notin Writes
    BY DEF NoPut, Writes, Whys
  <2> QED BY <1>2, <2>1, <2>2, MissingFacts DEF OwnPolicy, InOrder, NotAhead
<1> QED BY <1>1, <1>3, <1>4 DEF CInv

LEMMA CacheNext ==
    ASSUME Operation + MaxSkew <= Lease
    PROVE  RInv /\ CInv /\ [Next]_vars => CInv' /\ [\A m \in Nodes : Forward(m)]_vars
<1> SUFFICES ASSUME RInv, CInv, [Next]_vars
             PROVE  CInv' /\ [\A m \in Nodes : Forward(m)]_vars
  OBVIOUS
<1>1. CASE Tick
  BY <1>1, TickKeeps
<1>2. CASE \E r \in net : ServerPut(r)
  BY <1>2, StoredKeeps, RefusedKeeps
<1>3. CASE \E n \in Nodes : PutAnswered(n) \/ Readback(n) \/ ReadbackFails(n)
  BY <1>3, AnsweredKeeps
<1>4. CASE \E n \in Nodes : Start(n) \/ Elect(n) \/ Pass(n) \/ Publish(n) \/ Release(n)
  BY <1>4, WrittenKeeps
<1>5. CASE \E n \in Nodes :
             \/ StartFails(n) \/ PutTimesOut(n) \/ LoopHead(n) \/ NotDue(n)
             \/ ReadFails(n) \/ PassTimesOut(n) \/ Crash(n) \/ JobReads(n) \/ JobPublishes(n)
  BY <1>5, QuietKeeps
<1>6. CASE UNCHANGED vars
  BY <1>6 DEF vars, fixed, CInv, InTurn, OwnPolicy, InOrder, NotAhead, Spans, When, Told,
              Stamp, Exactly, Span, Newer, Foreign, StoredAs
<1> QED BY <1>1, <1>2, <1>3, <1>4, <1>5, <1>6 DEF Next

(* What the store has is accepted.                                         *)
LEMMA CacheAccepts == RInv /\ CInv => FreshIsAccepted
<1> SUFFICES ASSUME RInv, CInv, NEW n \in Nodes, object.rev # 0, cache[n].rev # 0,
                    object.rev # cache[n].rev
             PROVE  \/ Supersedes(object, cache[n], n)
                    \/ /\ Foreign(object, n) /\ Foreign(cache[n], n)
                       /\ object.modified = cache[n].modified
  BY DEF FreshIsAccepted
<1> DEFINE c == cache[n]
           s == Exactly(c)
           o == Exactly(object)
<1>1. s \in Spans(n) /\ o \in Spans(n)
  BY DEF Spans, When
<1>2. Newer(o, s, n)
  BY <1>1, ExactlyFacts, ObjectNewest
<1>3. /\ s.epoch = c.epoch /\ s.hi = c.modified /\ o.epoch = object.epoch
      /\ o.lo = object.modified /\ Foreign(s, n) = Foreign(c, n)
      /\ Foreign(o, n) = Foreign(object, n) /\ c.modified \in Nat /\ c.epoch \in Nat
      /\ object.modified \in Nat /\ object.epoch \in Nat
      /\ Foreign(c, n) \in BOOLEAN /\ Foreign(object, n) \in BOOLEAN
  BY <1>1, ExactlyFacts, SpanFacts DEF Foreign
<1> HIDE DEF s, o, c
<1>4. CASE ~Foreign(c, n) /\ ~Foreign(object, n)
  BY <1>2, <1>3, <1>4 DEF Newer, Supersedes, c
<1>5. CASE Foreign(c, n) /\ Foreign(object, n)
  <2>1. object.modified > c.modified \/ object.modified = c.modified
    BY <1>2, <1>3, <1>5 DEF Newer
  <2> QED BY <1>5, <2>1 DEF Supersedes, c
<1>6. CASE Foreign(c, n) # Foreign(object, n)
  <2>1. object.modified > c.modified /\ object.modified >= c.modified
    BY <1>2, <1>3, <1>6 DEF Newer
  <2> QED BY <1>3, <1>6, <2>1 DEF Supersedes, c
<1> QED BY <1>3, <1>4, <1>5, <1>6

(* What a node knows of the roster follows the store: however late reads   *)
(* are applied, its cache only moves forward, and what the store has is    *)
(* never refused as older (publish_cache, engine.rs), across policies and  *)
(* takeovers too.  A writer stamps what it wrote with its own clock when   *)
(* the answer arrives, so the lease must outlast the wait for an answer    *)
(* and the skew; by default it is 180 s against 3 s and 5 s (Timing::new). *)
THEOREM CacheTheorem ==
    ASSUME Operation + MaxSkew <= Lease
    PROVE  Spec => CacheFollows
<1>1. RInv /\ CInv /\ [Next]_vars => CInv' /\ [\A m \in Nodes : Forward(m)]_vars
  BY CacheNext
<1>2. (\A m \in Nodes : Forward(m)) =>
        \A n \in Nodes : cache[n].rev # 0 /\ Running(n)' =>
           StoredAs(cache[n])' >= StoredAs(cache[n])
  BY DEF Forward
<1> QED BY <1>1, <1>2, InvAlways, CacheInit, CacheAccepts, PTL
        DEF Spec, CacheFollows, CacheNeverGoesBack
=============================================================================
