------------------------ MODULE TriggeredWorkerProofs ------------------------
(***************************************************************************)
(* The triggered worker over the memory ring, for any number of requests   *)
(* and segments, any windows, debounce window, ring and retry budget:      *)
(* receipts and manifests agree, only what an open dump asked for reaches  *)
(* the pipeline, a dump that resolves in the normal course has settled     *)
(* what the ring held for it, and the debounce gate lets one request per   *)
(* window through.                                                         *)
(*                                                                         *)
(* An operation of the run loop moves one entry: a request from the        *)
(* channel to the open dumps, a dump to resolve_dump, a slot from the ring *)
(* into flight and back.  The invariant says that nothing is in two places *)
(* (Distinct, Line), that a dump's keys are of segments that have left     *)
(* (Books), and that what a dump is owed has not (Owing).                  *)
(***************************************************************************)
EXTENDS TriggeredWorker, FiniteSetTheorems, SequenceTheorems, TLAPS

RingSlots == Slots(Segments, {1}, 0..RetryBudget, Times)

InRing == Indices(ring.slots)
InFlight == Indices(taken)
Memory == {ring.slots[k] : k \in 1..Len(ring.slots)} \cup {taken[k] : k \in 1..Len(taken)}

Ids(q) == {q[k].id : k \in 1..Len(q)}

Types ==
    /\ TypeOK
    /\ ring = [slots |-> ring.slots, bytes |-> ring.bytes, dropped |-> ring.dropped]
    /\ receipt \in [Dumps -> Nat]
    /\ owed \in [Dumps -> SUBSET Segments]

(* Requests are of the past, and their windows end within the bound.       *)
Asked ==
    /\ Len(request) <= MaxDumps
    /\ activeStart <= now
    /\ \A d \in 1..Len(request) :
         request[d].at <= now /\ request[d].at + request[d].forward <= MaxTime
    /\ \A d \in Dumps : d > Len(request) => answer[d] = "none"

(* An unanswered request is in the channel, open or in resolve_dump, once. *)
Distinct ==
    /\ \A j, k \in 1..Len(dumps) : j # k => dumps[j].id # dumps[k].id
    /\ \A j, k \in 1..Len(channel) : j # k => channel[j] # channel[k]
    /\ Ids(dumps) \cap Ids(closing) = {}
    /\ OpenDumps \cap Queued = {}
    /\ \A d \in OpenDumps \cup Queued : answer[d] = "open"

(* A segment is in the ring or in flight, once.                            *)
Line ==
    /\ \A j, k \in 1..Len(ring.slots) :
         j # k => ring.slots[j].index # ring.slots[k].index
    /\ InRing \cap InFlight = {}
    /\ \A slot \in Memory : slot.index <= sealed /\ slot.start <= slot.seal

(* What the loop holds, by where it is.                                    *)
Holding == {"seglive", "stage", "backoff"}

Places ==
    /\ taken # <<>> => pc \in Holding
    /\ pc \in Holding /\ driver \notin {"unwound", "gone"} => taken # <<>>
    /\ pc = "backoff" /\ taken # <<>> => taken[1].retry < RetryBudget
    /\ closing # <<>> => pc \in {"resolve", "expire", "finish"}
    /\ closing # <<>> /\ pc = "resolve" => ~hold

(* The keys a dump has are of segments that have left the memory.          *)
Books ==
    /\ ReceiptsAgree
    /\ \A d \in Dumps : keys[d] \subseteq 1..sealed /\ keys[d] \cap (InRing \cup InFlight) = {}

(* What a dump is owed is in memory, and the dump wants it.                *)
Owing ==
    \A d \in Dumps : \A i \in owed[d] :
        d \in OpenDumps /\ \E slot \in Memory : slot.index = i /\ Overlaps(d, slot)

(* The loop that resolves is entered with nothing owed.                    *)
Settled ==
    pc \in {"settle", "resolve"} /\ ~hold /\ ~stop => \A d \in Dumps : owed[d] = {}

Wanting == taken # <<>> => Wanted(taken[1])

(* A request that was accepted a short time ago has the gate.              *)
Gating ==
    /\ \A d \in 1..Len(request) :
         /\ request[d].into = 0
         /\ answer[d] # "rejected"
         /\ now - request[d].at < DebounceWindow
         => gate = d
    /\ RateLimited

TInv ==
    /\ Types /\ Asked /\ Distinct /\ Line /\ Places
    /\ Books /\ Owing /\ Settled /\ Wanting /\ Gating

-----------------------------------------------------------------------------
(* Sequences from which one entry goes                                     *)

(* r has the entries of s, the k-th excepted, each once.                   *)
Drops(s, k, r) ==
    /\ \A j \in 1..Len(r) : \E i \in (1..Len(s)) \ {k} : r[j] = s[i]
    /\ \A i \in (1..Len(s)) \ {k} : \E j \in 1..Len(r) : r[j] = s[i]
    /\ \A a, b \in 1..Len(r) : a # b =>
         \E i, j \in (1..Len(s)) \ {k} : i # j /\ r[a] = s[i] /\ r[b] = s[j]

LEMMA SwapDrops ==
    ASSUME NEW T, NEW s \in Seq(T), NEW k \in 1..Len(s)
    PROVE  /\ SwapRemove(s, k) \in Seq(T)
           /\ Len(SwapRemove(s, k)) = Len(s) - 1
           /\ Drops(s, k, SwapRemove(s, k))
<1> DEFINE n == Len(s)
           t == [s EXCEPT ![k] = s[n]]
           r == SubSeq(t, 1, n - 1)
<1>1. n \in Nat /\ n >= 1 /\ k \in Nat /\ s[n] \in T
  <2>1. n \in Nat /\ n >= 1
    BY LenProperties
  <2> QED BY <2>1, ElementOfSeq
<1>2. \A j \in 1..n : t[j] = IF j = k THEN s[n] ELSE s[j]
  BY <1>1, ExceptSeq
<1>3. \A j \in 1..(n - 1) : t[j] \in T
  BY <1>1, <1>2, ElementOfSeq
<1>4. /\ r \in Seq(T)
      /\ Len(r) = IF 1 <= n - 1 THEN (n - 1) - 1 + 1 ELSE 0
      /\ \A j \in 1..((n - 1) - 1 + 1) : r[j] = t[1 + j - 1]
  <2>1. 1 \in Int /\ n - 1 \in Int
    BY <1>1
  <2> HIDE DEF t, n
  <2> QED BY <1>3, <2>1, SubSeqProperties
<1>5. r \in Seq(T) /\ Len(r) = n - 1
  <2> HIDE DEF r, t, n
  <2> QED BY <1>1, <1>4
<1>6. \A j \in 1..(n - 1) : r[j] = IF j = k THEN s[n] ELSE s[j]
  <2> SUFFICES ASSUME NEW j \in 1..(n - 1) PROVE r[j] = IF j = k THEN s[n] ELSE s[j]
    OBVIOUS
  <2>1. r[j] = t[j] /\ j \in 1..n
    <3> HIDE DEF r, t
    <3> QED BY <1>1, <1>4
  <2> HIDE DEF r, t
  <2> QED BY <1>2, <2>1
<1>7. Drops(s, k, r)
  <2> HIDE DEF r, t
  <2>1. ASSUME NEW j \in 1..Len(r)
        PROVE  \E i \in (1..n) \ {k} : r[j] = s[i] /\ (j # k => i = j) /\ (j = k => i = n)
    <3>1. CASE j = k
      <4>1. n \in (1..n) \ {k}
        BY <1>1, <1>5, <3>1
      <4> QED BY <1>5, <1>6, <3>1, <4>1
    <3>2. CASE j # k
      <4>1. j \in (1..n) \ {k}
        BY <1>1, <1>5, <3>2
      <4> QED BY <1>5, <1>6, <3>2, <4>1
    <3> QED BY <3>1, <3>2
  <2>2. ASSUME NEW i \in (1..n) \ {k}
        PROVE  \E j \in 1..Len(r) : r[j] = s[i]
    <3>1. CASE i = n
      BY <1>1, <1>5, <1>6, <3>1
    <3>2. CASE i # n
      BY <1>1, <1>5, <1>6, <3>2
    <3> QED BY <3>1, <3>2
  <2>3. ASSUME NEW a \in 1..Len(r), NEW b \in 1..Len(r), a # b
        PROVE  \E i, j \in (1..n) \ {k} : i # j /\ r[a] = s[i] /\ r[b] = s[j]
    <3>1. PICK i \in (1..n) \ {k} : r[a] = s[i] /\ (a # k => i = a) /\ (a = k => i = n)
      BY <2>1
    <3>2. PICK j \in (1..n) \ {k} : r[b] = s[j] /\ (b # k => j = b) /\ (b = k => j = n)
      BY <2>1
    <3>3. i # j
      BY <1>1, <1>5, <2>3, <3>1, <3>2
    <3> QED BY <3>1, <3>2, <3>3
  <2> QED BY <2>1, <2>2, <2>3 DEF Drops
<1> QED BY <1>5, <1>7 DEF SwapRemove

LEMMA TailDrops ==
    ASSUME NEW T, NEW s \in Seq(T), s # <<>>
    PROVE  /\ Tail(s) \in Seq(T) /\ Len(Tail(s)) = Len(s) - 1
           /\ Len(s) >= 1 /\ Head(s) = s[1] /\ Head(s) \in T
           /\ Drops(s, 1, Tail(s))
<1> DEFINE r == Tail(s)
<1>1. Len(s) \in Nat /\ Len(s) >= 1
  BY EmptySeq
<1>2. /\ Head(s) \in T /\ r \in Seq(T) /\ Len(r) = Len(s) - 1
      /\ \A i \in 1..Len(r) : r[i] = s[i + 1]
  BY HeadTailProperties
<1>3. Head(s) = s[1]
  OBVIOUS
<1>4. Drops(s, 1, r)
  <2> HIDE DEF r
  <2>1. \A j \in 1..Len(r) : j + 1 \in (1..Len(s)) \ {1} /\ r[j] = s[j + 1]
    BY <1>1, <1>2
  <2>2. \A i \in (1..Len(s)) \ {1} : i - 1 \in 1..Len(r) /\ r[i - 1] = s[i]
    BY <1>1, <1>2
  <2>3. \A a, b \in 1..Len(r) : a # b => a + 1 # b + 1
    BY <1>1, <1>2
  <2> QED BY <2>1, <2>2, <2>3 DEF Drops
<1> QED BY <1>1, <1>2, <1>3, <1>4

LEMMA WithoutDrops ==
    ASSUME NEW T, NEW s \in Seq(T), NEW k \in 1..Len(s)
    PROVE  Without(s, k) \in Seq(T) /\ Drops(s, k, Without(s, k))
<1> DEFINE n == Len(s)
           u == SubSeq(s, 1, k - 1)
           v == SubSeq(s, k + 1, n)
           r == u \o v
<1>1. n \in Nat /\ k \in Nat /\ 1 <= k /\ k <= n
  BY LenProperties
<1>2. \A j \in 1..n : s[j] \in T
  BY ElementOfSeq
<1>3. /\ u \in Seq(T) /\ Len(u) = k - 1
      /\ \A j \in 1..(k - 1) : u[j] = s[j]
  <2>1. 1 \in Int /\ k - 1 \in Int /\ \A j \in 1..(k - 1) : s[j] \in T
    BY <1>1, <1>2
  <2>2. /\ u \in Seq(T)
        /\ Len(u) = IF 1 <= k - 1 THEN (k - 1) - 1 + 1 ELSE 0
        /\ \A j \in 1..((k - 1) - 1 + 1) : u[j] = s[1 + j - 1]
    BY <2>1, SubSeqProperties
  <2> HIDE DEF u
  <2> QED BY <1>1, <2>2
<1>4. /\ v \in Seq(T) /\ Len(v) = n - k
      /\ \A j \in 1..(n - k) : v[j] = s[k + j]
  <2>1. k + 1 \in Int /\ n \in Int /\ \A j \in (k + 1)..n : s[j] \in T
    BY <1>1, <1>2
  <2>2. /\ v \in Seq(T)
        /\ Len(v) = IF k + 1 <= n THEN n - (k + 1) + 1 ELSE 0
        /\ \A j \in 1..(n - (k + 1) + 1) : v[j] = s[(k + 1) + j - 1]
    <3> HIDE DEF n
    <3> QED BY <2>1, SubSeqProperties
  <2> HIDE DEF v
  <2> QED BY <1>1, <2>2
<1>5. /\ r \in Seq(T) /\ Len(r) = n - 1
      /\ \A j \in 1..(n - 1) : r[j] = IF j < k THEN s[j] ELSE s[j + 1]
  <2>1. /\ r \in Seq(T) /\ Len(r) = Len(u) + Len(v)
        /\ \A j \in 1..(Len(u) + Len(v)) : r[j] = IF j <= Len(u) THEN u[j] ELSE v[j - Len(u)]
    <3> HIDE DEF u, v
    <3> QED BY <1>3, <1>4, ConcatProperties
  <2>2. r \in Seq(T) /\ Len(r) = n - 1
    <3> HIDE DEF u, v, r
    <3> QED BY <1>1, <1>3, <1>4, <2>1
  <2>3. ASSUME NEW j \in 1..(n - 1)
        PROVE  r[j] = IF j < k THEN s[j] ELSE s[j + 1]
    <3> HIDE DEF u, v, r
    <3>1. j \in 1..(Len(u) + Len(v))
      BY <1>1, <1>3, <1>4
    <3>2. CASE j < k
      BY <1>1, <1>3, <2>1, <3>1, <3>2
    <3>3. CASE ~(j < k)
      <4>1. j - (k - 1) \in 1..(n - k) /\ ~(j <= k - 1) /\ k + (j - (k - 1)) = j + 1
        BY <1>1, <3>3
      <4> QED BY <1>3, <1>4, <2>1, <3>1, <3>3, <4>1
    <3> QED BY <3>2, <3>3
  <2> QED BY <2>2, <2>3
<1>6. Drops(s, k, r)
  <2> HIDE DEF r
  <2>1. \A j \in 1..Len(r) : \/ j < k /\ j \in (1..n) \ {k} /\ r[j] = s[j]
                             \/ j >= k /\ j + 1 \in (1..n) \ {k} /\ r[j] = s[j + 1]
    BY <1>1, <1>5
  <2>2. \A i \in (1..n) \ {k} : \/ i < k /\ i \in 1..Len(r) /\ r[i] = s[i]
                                \/ i > k /\ i - 1 \in 1..Len(r) /\ r[i - 1] = s[i]
    BY <1>1, <1>5
  <2>3. ASSUME NEW a \in 1..Len(r), NEW b \in 1..Len(r), a # b
        PROVE  \E i, j \in (1..n) \ {k} : i # j /\ r[a] = s[i] /\ r[b] = s[j]
    <3> DEFINE at(j) == IF j < k THEN j ELSE j + 1
    <3>1. at(a) # at(b)
      BY <1>1, <1>5, <2>3
    <3>2. at(a) \in (1..n) \ {k} /\ at(b) \in (1..n) \ {k} /\ r[a] = s[at(a)] /\ r[b] = s[at(b)]
      BY <1>1, <1>5, <2>1
    <3> HIDE DEF at
    <3> QED BY <3>1, <3>2
  <2> QED BY <2>1, <2>2, <2>3 DEF Drops
<1> QED BY <1>5, <1>6 DEF Without

(* r is s with a slot x at the back, and without the first n.              *)
Pushes(s, n, x, r) ==
    /\ \A j \in 1..Len(r) : r[j] = x \/ \E i \in (n + 1)..Len(s) : r[j] = s[i]
    /\ \A i \in (n + 1)..Len(s) : \E j \in 1..Len(r) : r[j] = s[i]
    /\ \A a, b \in 1..Len(r) : a < b =>
         \E i \in (n + 1)..Len(s) : r[a] = s[i] /\
             (r[b] = x \/ \E j \in (n + 1)..Len(s) : i # j /\ r[b] = s[j])

LEMMA PushedBack ==
    ASSUME NEW T, NEW s \in Seq(T), NEW n \in 0..Len(s), NEW x \in T
    PROVE  /\ Append(SubSeq(s, n + 1, Len(s)), x) \in Seq(T)
           /\ Pushes(s, n, x, Append(SubSeq(s, n + 1, Len(s)), x))
           /\ Indices(SubSeq(s, 1, n)) = {s[i].index : i \in 1..n}
<1> DEFINE m == Len(s)
           v == SubSeq(s, n + 1, m)
           r == Append(v, x)
<1>1. m \in Nat /\ n \in Nat /\ n <= m
  BY LenProperties
<1>2. \A j \in 1..m : s[j] \in T
  BY ElementOfSeq
<1>3. /\ v \in Seq(T) /\ Len(v) = m - n
      /\ \A j \in 1..(m - n) : v[j] = s[n + j]
  <2>1. n + 1 \in Int /\ m \in Int /\ \A j \in (n + 1)..m : s[j] \in T
    BY <1>1, <1>2
  <2>2. /\ v \in Seq(T)
        /\ Len(v) = IF n + 1 <= m THEN m - (n + 1) + 1 ELSE 0
        /\ \A j \in 1..(m - (n + 1) + 1) : v[j] = s[(n + 1) + j - 1]
    <3> HIDE DEF m
    <3> QED BY <2>1, SubSeqProperties
  <2> HIDE DEF v, m
  <2>3. m - (n + 1) + 1 = m - n /\ \A j \in 1..(m - n) : (n + 1) + j - 1 = n + j
    BY <1>1
  <2> QED BY <1>1, <2>2, <2>3
<1>4. /\ r \in Seq(T) /\ Len(r) = (m - n) + 1
      /\ \A j \in 1..((m - n) + 1) : r[j] = IF j <= m - n THEN s[n + j] ELSE x
  <2>1. /\ r \in Seq(T) /\ Len(r) = Len(v) + 1
        /\ \A j \in 1..Len(v) : r[j] = v[j]
        /\ r[Len(v) + 1] = x
    <3> HIDE DEF v
    <3> QED BY <1>3, AppendProperties
  <2> HIDE DEF v, m, r
  <2>2. r \in Seq(T) /\ Len(r) = (m - n) + 1
    BY <1>3, <2>1
  <2>3. ASSUME NEW j \in 1..((m - n) + 1)
        PROVE  r[j] = IF j <= m - n THEN s[n + j] ELSE x
    <3>1. CASE j <= m - n
      BY <1>1, <1>3, <2>1, <3>1
    <3>2. CASE ~(j <= m - n)
      <4>1. j = Len(v) + 1
        BY <1>1, <1>3, <3>2
      <4> QED BY <2>1, <3>2, <4>1
    <3> QED BY <3>1, <3>2
  <2> QED BY <2>2, <2>3
<1> HIDE DEF r, v
<1>5. \A j \in 1..Len(r) : r[j] = x \/ \E i \in (n + 1)..m : r[j] = s[i]
  BY <1>1, <1>4
<1>6. \A i \in (n + 1)..m : \E j \in 1..Len(r) : r[j] = s[i]
  <2>1. \A i \in (n + 1)..m : i - n \in 1..Len(r) /\ r[i - n] = s[i]
    BY <1>1, <1>4
  <2> QED BY <2>1
<1>7. ASSUME NEW a \in 1..Len(r), NEW b \in 1..Len(r), a < b
      PROVE  \E i \in (n + 1)..m : r[a] = s[i] /\
                 (r[b] = x \/ \E j \in (n + 1)..m : i # j /\ r[b] = s[j])
  <2>1. n + a \in (n + 1)..m /\ r[a] = s[n + a]
    BY <1>1, <1>4, <1>7
  <2>2. r[b] = x \/ (n + b \in (n + 1)..m /\ n + a # n + b /\ r[b] = s[n + b])
    BY <1>1, <1>4, <1>7
  <2> QED BY <2>1, <2>2
<1>8. Indices(SubSeq(s, 1, n)) = {s[i].index : i \in 1..n}
  <2>1. 1 \in Int /\ n \in Int /\ \A j \in 1..n : s[j] \in T
    BY <1>1, <1>2
  <2>2. /\ Len(SubSeq(s, 1, n)) = IF 1 <= n THEN n - 1 + 1 ELSE 0
        /\ \A j \in 1..(n - 1 + 1) : SubSeq(s, 1, n)[j] = s[1 + j - 1]
    BY <2>1, SubSeqProperties
  <2>3. Len(SubSeq(s, 1, n)) = n /\ \A j \in 1..n : SubSeq(s, 1, n)[j] = s[j]
    BY <1>1, <2>2
  <2> QED BY <2>3 DEF Indices
<1>9. Pushes(s, n, x, r)
  BY <1>5, <1>6, <1>7 DEF Pushes
<1> QED BY <1>4, <1>8, <1>9 DEF r, v

(* A slot goes to the front.                                               *)
LEMMA PushedFront ==
    ASSUME NEW T, NEW s \in Seq(T), NEW x \in T, NEW r, r = <<x>> \o s
    PROVE  /\ r \in Seq(T) /\ Len(r) = Len(s) + 1 /\ r[1] = x
           /\ \A j \in 1..Len(s) : r[j + 1] = s[j]
<1>1. <<x>> \in Seq(T) /\ Len(<<x>>) = 1 /\ <<x>>[1] = x
  OBVIOUS
<1>2. /\ r \in Seq(T) /\ Len(r) = 1 + Len(s)
      /\ \A i \in 1..(1 + Len(s)) : r[i] = IF i <= 1 THEN <<x>>[i] ELSE s[i - 1]
  BY <1>1, ConcatProperties
<1>3. Len(s) \in Nat
  BY LenProperties
<1> QED BY <1>1, <1>2, <1>3

-----------------------------------------------------------------------------
(* What the parts of the invariant depend on                               *)

LEMMA Bounds ==
    /\ MaxTime \in Nat /\ MaxSegments \in Nat /\ MaxDumps \in Nat
    /\ DebounceWindow \in Nat /\ RetryBudget \in Nat
  BY TriggeredAssumption

(* The types of what is counted, compared or looked up.                    *)
LEMMA Shapes ==
    ASSUME Types
    PROVE  /\ now \in Nat /\ activeStart \in Nat /\ asOf \in Nat /\ sealed \in Nat
           /\ Len(request) \in Nat /\ Len(dumps) \in Nat /\ Len(channel) \in Nat
           /\ \A d \in 1..Len(request) :
                /\ request[d].at \in Nat /\ request[d].lookback \in Nat
                /\ request[d].forward \in Nat /\ request[d].into \in Nat
           /\ \A k \in 1..Len(dumps) : dumps[k] \in ActiveDumps
           /\ \A k \in 1..Len(closing) : closing[k] \in ActiveDumps
           /\ \A k \in 1..Len(channel) : channel[k] \in Dumps
           /\ OpenDumps \subseteq Dumps /\ Queued \subseteq Dumps
           /\ Memory \subseteq RingSlots
           /\ ring.slots \in Seq(RingSlots) /\ taken \in Seq(RingSlots)
<1>1. /\ now \in Nat /\ activeStart \in Nat /\ asOf \in Nat /\ sealed \in Nat
  BY Bounds DEF Types, TypeOK, Times
<1>2. request \in Seq([at : Times, lookback : Nat, forward : Nat, into : 0..MaxDumps])
  BY DEF Types, TypeOK
<1>3. \A d \in 1..Len(request) :
          /\ request[d].at \in Nat /\ request[d].lookback \in Nat
          /\ request[d].forward \in Nat /\ request[d].into \in Nat
  <2> SUFFICES ASSUME NEW d \in 1..Len(request)
               PROVE  /\ request[d].at \in Nat /\ request[d].lookback \in Nat
                      /\ request[d].forward \in Nat /\ request[d].into \in Nat
    OBVIOUS
  <2>1. request[d] \in [at : Times, lookback : Nat, forward : Nat, into : 0..MaxDumps]
    BY <1>2, ElementOfSeq
  <2> QED BY <2>1, Bounds DEF Times
<1>4. dumps \in Seq(ActiveDumps) /\ closing \in Seq(ActiveDumps) /\ channel \in Seq(Dumps)
  BY DEF Types, TypeOK
<1>5. /\ Len(request) \in Nat /\ Len(dumps) \in Nat /\ Len(channel) \in Nat
  BY <1>2, <1>4, LenProperties
<1>6. /\ \A k \in 1..Len(dumps) : dumps[k] \in ActiveDumps
      /\ \A k \in 1..Len(closing) : closing[k] \in ActiveDumps
      /\ \A k \in 1..Len(channel) : channel[k] \in Dumps
  BY <1>4, ElementOfSeq
<1>7. OpenDumps \subseteq Dumps /\ Queued \subseteq Dumps
  BY <1>6 DEF OpenDumps, Queued, ActiveDumps
<1>8. ring.slots \in Seq(RingSlots) /\ taken \in Seq(RingSlots)
  BY DEF Types, TypeOK, RingSlots
<1>9. Memory \subseteq RingSlots
  <2>1. /\ \A k \in 1..Len(ring.slots) : ring.slots[k] \in RingSlots
        /\ \A k \in 1..Len(taken) : taken[k] \in RingSlots
    BY <1>8, ElementOfSeq
  <2> QED BY <2>1 DEF Memory
<1> QED BY <1>1, <1>3, <1>5, <1>6, <1>7, <1>8, <1>9

LEMMA SlotShape ==
    ASSUME NEW slot \in RingSlots
    PROVE  /\ slot.index \in Segments /\ slot.retry \in 0..RetryBudget
           /\ slot.start \in Times /\ slot.seal \in Times
           /\ slot.index \in Nat /\ slot.retry \in Nat
           /\ slot.start \in Nat /\ slot.seal \in Nat
  BY Bounds DEF RingSlots, Slots, Segments, Times

(* What is open or queued was asked for.                                   *)
LEMMA OpenAsked ==
    ASSUME Types, Asked, Distinct
    PROVE  \A d \in OpenDumps \cup Queued : d \in Dumps /\ d \in 1..Len(request)
<1>1. \A d \in OpenDumps \cup Queued : d \in Dumps /\ answer[d] = "open"
  BY Shapes DEF Distinct
<1>2. \A d \in Dumps : d \in Nat /\ d >= 1
  BY Bounds DEF Dumps
<1> QED BY <1>1, <1>2, Shapes DEF Asked

(* EpochWindow::overlaps is what a window promises.                        *)
LEMMA SameWindow ==
    ASSUME Types, NEW d \in 1..Len(request), NEW slot \in RingSlots,
           slot.start <= slot.seal
    PROVE  Overlaps(d, slot) <=> InWindow(d, slot)
<1> DEFINE at == request[d].at
           back == request[d].lookback
           fwd == request[d].forward
           lo == slot.start
           hi == slot.seal
<1>1. at \in Nat /\ back \in Nat /\ fwd \in Nat /\ lo \in Nat /\ hi \in Nat /\ lo <= hi
  BY Shapes, SlotShape
<1>2. Overlaps(d, slot) <=> lo <= at + fwd /\ hi >= Monus(at, back)
  BY DEF Overlaps
<1>3. InWindow(d, slot) <=> \E t \in lo..hi : t + back >= at /\ t <= at + fwd
  BY DEF InWindow
<1> HIDE DEF at, back, fwd, lo, hi
<1>4. ASSUME lo <= at + fwd, hi >= Monus(at, back)
      PROVE  \E t \in lo..hi : t + back >= at /\ t <= at + fwd
  <2>1. CASE lo >= Monus(at, back)
    <3>1. lo \in lo..hi /\ lo + back >= at
      BY <1>1, <2>1 DEF Monus
    <3> QED BY <1>4, <3>1
  <2>2. CASE ~(lo >= Monus(at, back))
    <3>1. Monus(at, back) \in lo..hi /\ Monus(at, back) + back >= at /\ Monus(at, back) <= at + fwd
      BY <1>1, <1>4, <2>2 DEF Monus
    <3> QED BY <3>1
  <2> QED BY <2>1, <2>2
<1>5. ASSUME NEW t \in lo..hi, t + back >= at, t <= at + fwd
      PROVE  lo <= at + fwd /\ hi >= Monus(at, back)
  BY <1>1, <1>5 DEF Monus
<1> QED BY <1>2, <1>3, <1>4, <1>5

LEMMA AskedFrame ==
    ASSUME Types, Asked, now' \in Nat, now <= now', request' = request,
           activeStart' = activeStart \/ activeStart' = now,
           \A d \in Dumps : d > Len(request) => answer'[d] = answer[d]
    PROVE  Asked'
<1>1. now \in Nat /\ activeStart \in Nat /\ \A d \in 1..Len(request) : request[d].at \in Nat
  BY Shapes
<1> QED BY <1>1 DEF Asked

LEMMA DistinctFrame ==
    ASSUME Distinct, UNCHANGED <<dumps, closing, channel, answer>>
    PROVE  Distinct'
<1>1. OpenDumps' = OpenDumps /\ Queued' = Queued
  BY DEF OpenDumps, Queued
<1>2. Ids(dumps)' = Ids(dumps) /\ Ids(closing)' = Ids(closing)
  BY DEF Ids
<1> QED BY <1>1, <1>2 DEF Distinct

LEMMA LineFrame ==
    ASSUME Line, ring'.slots = ring.slots, UNCHANGED <<taken, sealed>>
    PROVE  Line'
  BY DEF Line, InRing, InFlight, Indices, Memory

LEMMA OpenFrame ==
    ASSUME UNCHANGED <<dumps, closing>>
    PROVE  OpenDumps' = OpenDumps
  BY DEF OpenDumps

(* A receipt that was sent stays, and no request is failed meanwhile.      *)
LEMMA BooksFrame ==
    ASSUME Books, ring'.slots = ring.slots,
           UNCHANGED <<taken, sealed, keys, manifest, receipt, dumps, closing>>,
           \A d \in Dumps :
               \/ answer'[d] = answer[d]
               \/ answer[d] # "ok" /\ answer'[d] \notin {"pipeline", "unavailable"}
    PROVE  Books'
<1>1. OpenDumps' = OpenDumps
  BY OpenFrame
<1>2. InRing' = InRing /\ InFlight' = InFlight
  BY DEF InRing, InFlight, Indices
<1>3. ReceiptsAgree'
  BY <1>1 DEF Books, ReceiptsAgree
<1> QED BY <1>2, <1>3 DEF Books

(* What is owed may shrink; what is left moves in memory.                  *)
LEMMA OwingFrame ==
    ASSUME Owing,
           \A d \in Dumps : owed'[d] \subseteq owed[d],
           \A d \in Dumps : owed'[d] # {} => d \in OpenDumps' /\ request'[d] = request[d],
           \A slot \in Memory :
               (\E d \in Dumps : slot.index \in owed'[d]) =>
               \E s \in Memory' :
                   s.index = slot.index /\ s.start = slot.start /\ s.seal = slot.seal
    PROVE  Owing'
<1> SUFFICES ASSUME NEW d \in Dumps, NEW i \in owed'[d]
             PROVE  d \in OpenDumps' /\ \E s \in Memory' : s.index = i /\ Overlaps(d, s)'
  BY DEF Owing
<1>1. PICK slot \in Memory : slot.index = i /\ Overlaps(d, slot)
  BY DEF Owing
<1>2. PICK s \in Memory' : s.index = slot.index /\ s.start = slot.start /\ s.seal = slot.seal
  BY <1>1
<1>3. Overlaps(d, s)'
  BY <1>1, <1>2 DEF Overlaps
<1> QED BY <1>1, <1>2, <1>3

LEMMA WantingFrame ==
    ASSUME Wanting, UNCHANGED <<taken, dumps>>,
           \A d \in OpenDumps : request'[d] = request[d]
    PROVE  Wanting'
<1> SUFFICES ASSUME taken' # <<>> PROVE Wanted(taken[1])'
  BY DEF Wanting
<1>1. PICK k \in 1..Len(dumps) : Overlaps(dumps[k].id, taken[1])
  BY DEF Wanting, Wanted, Matched
<1>2. dumps[k].id \in OpenDumps
  BY DEF OpenDumps
<1>3. Overlaps(dumps[k].id, taken[1])'
  BY <1>1, <1>2 DEF Overlaps
<1> QED BY <1>3 DEF Wanted, Matched

LEMMA GatingFrame ==
    ASSUME Types, Gating, now' \in Nat, now <= now', UNCHANGED <<request, gate>>,
           \A d \in 1..Len(request) : answer[d] = "rejected" <=> answer'[d] = "rejected"
    PROVE  Gating'
<1>1. now \in Nat /\ \A d \in 1..Len(request) : request[d].at \in Nat
  BY Shapes
<1>2. DebounceWindow \in Nat
  BY Bounds
<1>3. RateLimited'
  BY DEF Gating, RateLimited
<1> QED BY <1>1, <1>2, <1>3 DEF Gating

-----------------------------------------------------------------------------
(* Steps that move the loop, a flag or the driver only                     *)

LEMMA LifecycleTypes ==
    ASSUME LifecycleTypeOK,
           \/ UNCHANGED lifecycle
           \/ \E done, suspended \in BOOLEAN : LifecycleStep(done, suspended)
           \/ RunLoopReturns
           \/ DropRunFuture
    PROVE  LifecycleTypeOK'
<1>1. CASE UNCHANGED lifecycle
  BY <1>1 DEF LifecycleTypeOK, lifecycle
<1>2. ASSUME NEW done \in BOOLEAN, NEW suspended \in BOOLEAN, LifecycleStep(done, suspended)
      PROVE  LifecycleTypeOK'
  <2>1. Processors \in Nat
    BY ProcessorsAssumption
  <2>2. CASE StartThread
    BY <2>1, <2>2 DEF LifecycleTypeOK, StartThread, Stopped
  <2>3. CASE StartHookPanics
    BY <2>3 DEF LifecycleTypeOK, StartHookPanics, Record, Causes
  <2>4. CASE InitializeOk
    BY <2>1, <2>4 DEF LifecycleTypeOK, InitializeOk, Stopped, Running, Initializing
  <2>5. CASE \E marker \in BOOLEAN : InitializeFails(marker)
    <3>1. <<"InitializeFailed", phase>> \in Causes
      BY <2>5 DEF InitializeFails, Causes
    <3> QED BY <2>5, <3>1 DEF LifecycleTypeOK, InitializeFails, Record
  <2>6. CASE InitializePanics
    BY <2>6 DEF LifecycleTypeOK, InitializePanics, Record, Causes
  <2>7. CASE \E how \in {"graceful", "dropped"} : SignalShutdown(how, done)
    BY <2>7 DEF LifecycleTypeOK, SignalShutdown
  <2>8. CASE ReceiveShutdown
    BY <2>8 DEF LifecycleTypeOK, ReceiveShutdown
  <2>9. CASE DrainTimesOut(suspended)
    BY <2>9 DEF LifecycleTypeOK, DrainTimesOut, Record, Causes
  <2>10. CASE PublishStopped
    BY <2>1, <2>10 DEF LifecycleTypeOK, PublishStopped, Stopped
  <2> QED BY <1>2, <2>2, <2>3, <2>4, <2>5, <2>6, <2>7, <2>8, <2>9, <2>10 DEF LifecycleStep
<1>3. CASE RunLoopReturns
  BY <1>3 DEF LifecycleTypeOK, RunLoopReturns, Record, Causes
<1>4. CASE DropRunFuture
  BY <1>4 DEF LifecycleTypeOK, DropRunFuture
<1> QED BY <1>1, <1>2, <1>3, <1>4

(* The driver leaves for good, and a stop is not taken back.               *)
LEMMA LifecycleAdvances ==
    ASSUME LifecycleTypeOK, NEW done, NEW suspended, LifecycleStep(done, suspended)
    PROVE  /\ driver \in {"unwound", "gone"} => driver' \in {"unwound", "gone"}
           /\ stop => stop'
  BY DEF LifecycleTypeOK, LifecycleStep, StartThread, StartHookPanics, InitializeOk,
         InitializeFails, InitializePanics, SignalShutdown, ReceiveShutdown, DrainTimesOut,
         PublishStopped, MayPublish, Record, Polled

LEMMA QuietStep ==
    ASSUME TInv, Types', Places', Settled', ring'.slots = ring.slots,
           UNCHANGED <<now, activeStart, sealed, request, gate, answer, channel, dumps,
                       closing, taken, keys, manifest, receipt, owed>>
    PROVE  TInv'
<1>1. now \in Nat
  BY Shapes DEF TInv
<1>2. Memory' = Memory /\ OpenDumps' = OpenDumps
  BY DEF Memory, OpenDumps
<1>3. Asked'
  BY <1>1, AskedFrame DEF TInv
<1>4. Distinct' /\ Line' /\ Wanting'
  BY DistinctFrame, LineFrame, WantingFrame DEF TInv
<1>5. Books'
  BY BooksFrame DEF TInv
<1>6. Owing'
  <2>1. \A d \in Dumps : owed[d] # {} => d \in OpenDumps
    BY DEF TInv, Owing
  <2> QED BY <1>2, <2>1, OwingFrame DEF TInv
<1>7. Gating'
  BY <1>1, GatingFrame DEF TInv
<1> QED BY <1>3, <1>4, <1>5, <1>6, <1>7 DEF TInv

LEMMA DropTriggersKeeps == TInv /\ DropTriggers => TInv'
<1> SUFFICES ASSUME TInv, DropTriggers PROVE TInv'
  OBVIOUS
<1> USE DEF DropTriggers, loop, writer, stages
<1>1. Types'
  BY LifecycleTypes DEF TInv, Types, TypeOK
<1>2. Places' /\ Settled'
  BY DEF TInv, Places, Settled, lifecycle
<1> QED BY <1>1, <1>2, QuietStep

LEMMA MarkWriterDoneKeeps == TInv /\ MarkWriterDone => TInv'
<1> SUFFICES ASSUME TInv, MarkWriterDone PROVE TInv'
  OBVIOUS
<1> USE DEF MarkWriterDone, loop, clients, stages
<1>1. Types'
  BY LifecycleTypes DEF TInv, Types, TypeOK
<1>2. Places' /\ Settled'
  BY DEF TInv, Places, Settled, lifecycle
<1> QED BY <1>1, <1>2, QuietStep

LEMMA WaitLiveKeeps == TInv /\ WaitLive => TInv'
<1> SUFFICES ASSUME TInv, WaitLive PROVE TInv'
  OBVIOUS
<1> USE DEF WaitLive, clients, writer, stages
<1>1. Types'
  BY LifecycleTypes DEF TInv, Types, TypeOK
<1>2. Places' /\ Settled'
  BY DEF TInv, Places, Settled, Holding, lifecycle
<1> QED BY <1>1, <1>2, QuietStep

LEMMA ReceiverEndsKeeps == TInv /\ ReceiverEnds => TInv'
<1> SUFFICES ASSUME TInv, ReceiverEnds PROVE TInv'
  OBVIOUS
<1> USE DEF ReceiverEnds, Top, clients, writer, stages
<1>1. Types'
  BY LifecycleTypes DEF TInv, Types, TypeOK
<1>2. Places' /\ Settled'
  BY DEF TInv, Places, Settled, Holding, lifecycle
<1> QED BY <1>1, <1>2, QuietStep

LEMMA SettleKeeps == TInv /\ Settle => TInv'
<1> SUFFICES ASSUME TInv, Settle PROVE TInv'
  OBVIOUS
<1> USE DEF Settle, At, clients, writer, stages
<1>1. Types'
  BY LifecycleTypes, Bounds DEF TInv, Types, TypeOK
<1>2. Places' /\ Settled'
  BY DEF TInv, Places, Settled, Holding, lifecycle
<1> QED BY <1>1, <1>2, QuietStep

LEMMA ResolveEndsKeeps == TInv /\ ResolveEnds => TInv'
<1> SUFFICES ASSUME TInv, ResolveEnds PROVE TInv'
  OBVIOUS
<1> USE DEF ResolveEnds, Top, clients, writer, stages
<1>1. Types'
  <2>1. 0 \in Times /\ 1 \in 1..(MaxDumps + 1)
    BY Bounds DEF Times
  <2> QED BY <2>1, LifecycleTypes DEF TInv, Types, TypeOK
<1>2. Places' /\ Settled'
  BY DEF TInv, Places, Settled, Holding, lifecycle
<1> QED BY <1>1, <1>2, QuietStep

LEMMA CheckKeeps == TInv /\ Check => TInv'
<1> SUFFICES ASSUME TInv, Check PROVE TInv'
  OBVIOUS
<1> USE DEF Check, At, clients, writer, stages
<1>1. Types'
  <2>1. final' \in BOOLEAN
    BY DEF TInv, Types, TypeOK
  <2> QED BY <2>1, LifecycleTypes DEF TInv, Types, TypeOK
<1>2. Places' /\ Settled'
  BY DEF TInv, Places, Settled, Holding, lifecycle
<1> QED BY <1>1, <1>2, QuietStep

LEMMA SelectKeeps == TInv /\ (SelectTimed \/ SelectWoken) => TInv'
<1> SUFFICES ASSUME TInv, SelectTimed \/ SelectWoken PROVE TInv'
  OBVIOUS
<1> USE DEF SelectTimed, SelectWoken, At, Top, clients, writer, stages
<1>1. Types'
  BY LifecycleTypes DEF TInv, Types, TypeOK
<1>2. Places' /\ Settled'
  BY DEF TInv, Places, Settled, Holding, lifecycle
<1> QED BY <1>1, <1>2, QuietStep

LEMMA ProcessorRecoversKeeps == TInv /\ ProcessorRecovers => TInv'
<1> SUFFICES ASSUME TInv, ProcessorRecovers PROVE TInv'
  OBVIOUS
<1> USE DEF ProcessorRecovers, loop, clients, writer, stages
<1>1. Types'
  BY LifecycleTypes DEF TInv, Types, TypeOK
<1>2. Places' /\ Settled'
  BY DEF TInv, Places, Settled, lifecycle
<1> QED BY <1>1, <1>2, QuietStep

LEMMA DriverKeeps == TInv /\ Driver => TInv'
<1> SUFFICES ASSUME TInv, Driver PROVE TInv'
  OBVIOUS
<1> USE DEF Driver, loop, clients, writer, stages
<1>1. Types'
  <2>1. writerDone \in BOOLEAN /\ Suspended \in BOOLEAN
    BY DEF TInv, Types, TypeOK, Suspended
  <2>2. LifecycleTypeOK'
    BY <2>1, LifecycleTypes DEF TInv, Types, TypeOK
  <2> QED BY <2>2 DEF TInv, Types, TypeOK
<1>2. Places' /\ Settled'
  <2>1. /\ driver \in {"unwound", "gone"} => driver' \in {"unwound", "gone"}
        /\ stop => stop'
    BY LifecycleAdvances DEF TInv, Types, TypeOK
  <2> QED BY <2>1 DEF TInv, Places, Settled
<1> QED BY <1>1, <1>2, QuietStep

LEMMA StutterKeeps == TInv /\ UNCHANGED vars => TInv'
<1> SUFFICES ASSUME TInv, UNCHANGED vars PROVE TInv'
  OBVIOUS
<1> USE DEF vars, loop, clients, writer, stages
<1>1. Types'
  BY LifecycleTypes DEF TInv, Types, TypeOK
<1>2. Places' /\ Settled'
  BY DEF TInv, Places, Settled, lifecycle
<1> QED BY <1>1, <1>2, QuietStep

-----------------------------------------------------------------------------
(* The clock and the application's threads                                 *)

LEMMA TickKeeps == TInv /\ Tick => TInv'
<1> SUFFICES ASSUME TInv, Tick PROVE TInv'
  OBVIOUS
<1> USE DEF Tick, loop, clients, writer, stages
<1>1. now \in Nat /\ now' \in Nat /\ now <= now' /\ now' \in Times
  BY Shapes, Bounds DEF TInv, Times
<1>2. Types'
  BY <1>1, LifecycleTypes DEF TInv, Types, TypeOK
<1>3. Asked' /\ Gating'
  BY <1>1, AskedFrame, GatingFrame DEF TInv
<1>4. Distinct' /\ Line' /\ Wanting' /\ Books'
  BY DistinctFrame, LineFrame, WantingFrame, BooksFrame DEF TInv
<1>5. Places' /\ Settled'
  BY DEF TInv, Places, Settled, lifecycle
<1>6. Owing'
  <2>1. Memory' = Memory /\ OpenDumps' = OpenDumps
    BY DEF Memory, OpenDumps
  <2>2. \A d \in Dumps : owed[d] # {} => d \in OpenDumps
    BY DEF TInv, Owing
  <2> QED BY <2>1, <2>2, OwingFrame DEF TInv
<1> QED BY <1>2, <1>3, <1>4, <1>5, <1>6 DEF TInv

(* A request is the last, and nothing that was asked before changes.       *)
LEMMA RequestKeeps ==
    ASSUME TInv, NEW lookback \in Nat, NEW forward \in Nat, Request(lookback, forward)
    PROVE  TInv'
<1> DEFINE n == Len(request)
           r == [at |-> now, lookback |-> lookback, forward |-> forward,
                 into |-> IF GateShut THEN gate ELSE 0]
           Row == [at : Times, lookback : Nat, forward : Nat, into : 0..MaxDumps]
<1> USE DEF loop, writer, stages
<1>1. /\ n \in Nat /\ n + 1 <= MaxDumps /\ n + 1 \in Dumps
      /\ gate \in 0..n /\ now \in Nat /\ MaxDumps \in Nat
  <2>1. n \in Nat /\ now \in Nat /\ MaxDumps \in Nat
    BY Shapes, Bounds DEF TInv
  <2>2. n + 1 <= MaxDumps
    BY DEF Request
  <2>3. gate \in 0..n
    BY DEF TInv, Types, TypeOK
  <2> QED BY <2>1, <2>2, <2>3 DEF Dumps
<1>2. r \in Row
  BY <1>1 DEF TInv, Types, TypeOK, Times
<1>3. /\ request' \in Seq(Row) /\ Len(request') = n + 1
      /\ \A d \in 1..n : request'[d] = request[d]
      /\ request'[n + 1] = r
  <2>1. request \in Seq(Row) /\ request' = Append(request, r)
    BY DEF TInv, Types, TypeOK, Request
  <2> HIDE DEF r, Row
  <2> QED BY <1>2, <2>1, AppendProperties
<1>4. /\ answer' = [answer EXCEPT ![n + 1] = IF GateShut THEN "coalesced" ELSE "built"]
      /\ answer \in [Dumps -> Answers] /\ answer[n + 1] = "none"
  BY <1>1 DEF TInv, Types, TypeOK, Request, Asked
<1>5. \A d \in Dumps \ {n + 1} : answer'[d] = answer[d]
  BY <1>4
<1>6. gate' \in 0..(n + 1)
  BY <1>1 DEF Request
<1>7. Types'
  <2>1. answer' \in [Dumps -> Answers]
    BY <1>4 DEF Answers
  <2>2. LifecycleTypeOK'
    BY LifecycleTypes DEF TInv, Types, TypeOK, Request
  <2> HIDE DEF r
  <2> QED BY <1>3, <1>6, <2>1, <2>2 DEF TInv, Types, TypeOK, Request
<1>8. \A d \in 1..(n + 1) : d \in 1..n \/ d = n + 1
  BY <1>1
<1>9. Asked'
  <2>1. r.at = now /\ now + r.forward <= MaxTime /\ now <= now
    BY <1>1 DEF Request
  <2>2. \A d \in 1..(n + 1) : request'[d].at <= now /\ request'[d].at + request'[d].forward <= MaxTime
    <3> HIDE DEF r
    <3> QED BY <1>3, <1>8, <2>1 DEF TInv, Asked
  <2>3. \A d \in Dumps : d > n + 1 => answer'[d] = "none"
    <3>1. \A d \in Dumps : d > n + 1 => d > n /\ d # n + 1
      BY <1>1 DEF Dumps
    <3> QED BY <1>5, <3>1 DEF TInv, Asked
  <2> HIDE DEF r
  <2> QED BY <1>1, <1>3, <2>2, <2>3 DEF TInv, Asked, Request
<1>10. UNCHANGED <<dumps, closing, channel>> /\ OpenDumps' = OpenDumps /\ Queued' = Queued
  BY DEF Request, OpenDumps, Queued
<1>11. \A d \in OpenDumps \cup Queued : d \in Dumps /\ d \in 1..n /\ d # n + 1
  <2>1. \A d \in OpenDumps \cup Queued : d \in Dumps /\ d \in 1..n
    BY OpenAsked DEF TInv
  <2> QED BY <1>1, <2>1
<1>12. Distinct'
  <2>1. Ids(dumps)' = Ids(dumps) /\ Ids(closing)' = Ids(closing)
    BY <1>10 DEF Ids
  <2> QED BY <1>5, <1>10, <1>11, <2>1 DEF TInv, Distinct
<1>13. Line' /\ Places' /\ Settled'
  <2>1. UNCHANGED <<ring, taken, sealed>>
    BY DEF Request
  <2>2. Line'
    BY <2>1, LineFrame DEF TInv
  <2> QED BY <2>2 DEF TInv, Places, Settled, Request, lifecycle
<1>14. Books'
  <2>1. \A d \in Dumps :
          \/ answer'[d] = answer[d]
          \/ answer[d] # "ok" /\ answer'[d] \notin {"pipeline", "unavailable"}
    BY <1>4
  <2> QED BY <1>10, <2>1, BooksFrame DEF TInv, Request
<1>15. Owing'
  <2>1. Memory' = Memory /\ owed' = owed
    BY DEF Memory, Request
  <2>2. \A d \in Dumps : owed[d] # {} => d \in OpenDumps
    BY DEF TInv, Owing
  <2> QED BY <1>3, <1>10, <1>11, <2>1, <2>2, OwingFrame DEF TInv
<1>16. Wanting'
  BY <1>3, <1>10, <1>11, WantingFrame DEF TInv, Request
<1>17. Gating'
  <2> DEFINE Recent(d) == now - request[d].at < DebounceWindow
  <2>1. \A d \in 1..n : request'[d] = request[d] /\ (answer'[d] = answer[d])
    <3>1. \A d \in 1..n : d \in Dumps \ {n + 1}
      BY <1>1 DEF Dumps
    <3> QED BY <1>3, <1>5, <3>1
  <2>2. CASE GateShut
    <3>1. r.into # 0 /\ gate' = gate
      BY <2>2 DEF GateShut, Request
    <3>2. \A d \in 1..(n + 1) : request'[d].into = 0 => d \in 1..n
      <4> HIDE DEF r
      <4> QED BY <1>3, <1>8, <3>1
    <3>3. now' = now
      BY DEF Request
    <3>4. RateLimited'
      <4> SUFFICES ASSUME NEW d \in 1..(n + 1), NEW e \in 1..(n + 1), d < e,
                          {request'[d].into, request'[e].into} = {0},
                          request'[e].at - request'[d].at < DebounceWindow
                   PROVE  answer'[d] = "rejected"
        <5> HIDE DEF r
        <5> QED BY <1>3 DEF RateLimited
      <4>1. d \in 1..n /\ e \in 1..n
        BY <3>2
      <4> QED BY <2>1, <4>1 DEF TInv, Gating, RateLimited
    <3>5. \A d \in 1..(n + 1) :
             /\ request'[d].into = 0
             /\ answer'[d] # "rejected"
             /\ now' - request'[d].at < DebounceWindow
             => gate' = d
      BY <2>1, <3>1, <3>2, <3>3 DEF TInv, Gating
    <3> HIDE DEF r
    <3> QED BY <1>3, <3>4, <3>5 DEF Gating
  <2>3. CASE ~GateShut
    <3>1. r.into = 0 /\ r.at = now /\ now' = now
      BY <2>3 DEF Request
    <3>2. \A d \in 1..n : request[d].into = 0 /\ Recent(d) => answer[d] = "rejected"
      <4> SUFFICES ASSUME NEW d \in 1..n, request[d].into = 0, Recent(d), answer[d] # "rejected"
                   PROVE  FALSE
        OBVIOUS
      <4>1. gate = d
        BY DEF TInv, Gating
      <4>2. d # 0
        BY <1>1
      <4> QED BY <2>3, <4>1, <4>2 DEF GateShut
    <3>3. \A d \in 1..n : request[d].at \in Nat
      BY Shapes DEF TInv
    <3>4. RateLimited'
      <4> SUFFICES ASSUME NEW d \in 1..(n + 1), NEW e \in 1..(n + 1), d < e,
                          {request'[d].into, request'[e].into} = {0},
                          request'[e].at - request'[d].at < DebounceWindow
                   PROVE  answer'[d] = "rejected"
        <5> HIDE DEF r
        <5> QED BY <1>3 DEF RateLimited
      <4>1. CASE e \in 1..n
        <5>1. d \in 1..n
          BY <1>1, <4>1
        <5> QED BY <2>1, <4>1, <5>1 DEF TInv, Gating, RateLimited
      <4>2. CASE e = n + 1
        <5>1. d \in 1..n
          BY <1>1, <4>2
        <5>2. request'[e].at = now
          <6> HIDE DEF r
          <6> QED BY <1>3, <3>1, <4>2
        <5>3. request'[d].into = 0
          OBVIOUS
        <5> QED BY <2>1, <3>2, <5>1, <5>2, <5>3
      <4> QED BY <1>8, <4>1, <4>2
    <3>5. ASSUME NEW d \in 1..(n + 1), request'[d].into = 0, answer'[d] # "rejected",
                 now' - request'[d].at < DebounceWindow
          PROVE  gate' = d
      <4>1. CASE d \in 1..n
        BY <2>1, <3>1, <3>2, <3>5, <4>1
      <4>2. CASE d = n + 1
        <5>1. now - now < DebounceWindow
          <6> HIDE DEF r
          <6> QED BY <1>3, <3>1, <3>5, <4>2
        <5>2. DebounceWindow # 0
          BY <1>1, <5>1
        <5> QED BY <2>3, <4>2, <5>2 DEF Request
      <4> QED BY <1>8, <4>1, <4>2
    <3> HIDE DEF r
    <3> QED BY <1>3, <3>4, <3>5 DEF Gating
  <2> QED BY <2>2, <2>3
<1> QED BY <1>7, <1>9, <1>12, <1>13, <1>14, <1>15, <1>16, <1>17 DEF TInv

(* The answers that change are of requests not answered yet.               *)
LEMMA DispatchKeeps ==
    ASSUME TInv, NEW d \in Dumps, Dispatch(d)
    PROVE  TInv'
<1> USE DEF loop, writer, stages
<1>1. answer \in [Dumps -> Answers] /\ answer[d] = "built" /\ channel \in Seq(Dumps)
  BY DEF TInv, Types, TypeOK, Dispatch
<1>2. /\ answer' \in [Dumps -> Answers]
      /\ answer'[d] \in {"open", "stopped"}
      /\ \A e \in Dumps \ {d} : answer'[e] = answer[e]
  BY <1>1 DEF Dispatch, Answers
<1>3. \/ channel' = channel
      \/ channel' = Append(channel, d) /\ answer'[d] = "open"
  BY <1>1 DEF Dispatch
<1>4. UNCHANGED <<lifecycle, now, ring, sealed, activeStart, writerDone, permit, request,
                  gate, receipt, triggers, pc, rxOpen, dumps, closing, hold, cursor, asOf,
                  final, taken, live, keys, manifest, owed>>
  BY DEF Dispatch
<1>5. channel' \in Seq(Dumps)
  BY <1>1, <1>3, AppendProperties
<1>6. Types'
  <2>1. LifecycleTypeOK'
    BY <1>4, LifecycleTypes DEF TInv, Types, TypeOK
  <2> QED BY <1>2, <1>4, <1>5, <2>1 DEF TInv, Types, TypeOK
<1>7. now \in Nat /\ d \in 1..Len(request)
  <2>1. d \in Nat /\ d >= 1 /\ ~(d > Len(request))
    BY <1>1, Bounds DEF TInv, Asked, Dumps
  <2> QED BY <2>1, Shapes DEF TInv
<1>8. Asked'
  <2>1. \A e \in Dumps : e > Len(request) => answer'[e] = answer[e]
    <3>1. ~(d > Len(request))
      BY <1>7
    <3> QED BY <1>2, <3>1
  <2> QED BY <1>4, <1>7, <2>1, AskedFrame DEF TInv
<1>9. Distinct'
  <2>1. OpenDumps' = OpenDumps /\ Ids(dumps)' = Ids(dumps) /\ Ids(closing)' = Ids(closing)
    BY <1>4 DEF OpenDumps, Ids
  <2>2. d \notin OpenDumps \cup Queued /\ OpenDumps \cup Queued \subseteq Dumps
    BY <1>1, Shapes DEF TInv, Distinct
  <2>3. \A e \in OpenDumps \cup Queued : answer'[e] = "open"
    BY <1>2, <2>2 DEF TInv, Distinct
  <2>4. CASE channel' = channel
    <3>1. Queued' = Queued
      BY <2>4 DEF Queued
    <3> QED BY <1>4, <2>1, <2>3, <2>4, <3>1 DEF TInv, Distinct
  <2>5. CASE channel' = Append(channel, d) /\ answer'[d] = "open"
    <3>1. /\ Len(channel) \in Nat /\ Len(channel') = Len(channel) + 1
          /\ \A k \in 1..Len(channel) : channel'[k] = channel[k]
          /\ channel'[Len(channel) + 1] = d
      BY <1>1, <2>5, AppendProperties, LenProperties
    <3>2. \A k \in 1..Len(channel') : k \in 1..Len(channel) \/ k = Len(channel) + 1
      BY <3>1
    <3>3. Queued' = Queued \cup {d}
      BY <3>1, <3>2 DEF Queued
    <3>4. \A k \in 1..Len(channel) : channel[k] \in Queued
      BY DEF Queued
    <3>5. \A j, k \in 1..Len(channel') : j # k => channel'[j] # channel'[k]
      BY <2>2, <3>1, <3>2, <3>4 DEF TInv, Distinct
    <3> QED BY <1>4, <2>1, <2>2, <2>3, <2>5, <3>3, <3>5 DEF TInv, Distinct
  <2> QED BY <1>3, <2>4, <2>5
<1>10. Line' /\ Wanting'
  BY <1>4, LineFrame, WantingFrame DEF TInv
<1>11. Places' /\ Settled'
  BY <1>4 DEF TInv, Places, Settled, lifecycle
<1>12. Books'
  <2>1. \A e \in Dumps :
          \/ answer'[e] = answer[e]
          \/ answer[e] # "ok" /\ answer'[e] \notin {"pipeline", "unavailable"}
    BY <1>1, <1>2
  <2> QED BY <1>4, <2>1, BooksFrame DEF TInv
<1>13. Owing'
  <2>1. Memory' = Memory /\ OpenDumps' = OpenDumps
    BY <1>4 DEF Memory, OpenDumps
  <2>2. \A e \in Dumps : owed[e] # {} => e \in OpenDumps
    BY DEF TInv, Owing
  <2> QED BY <1>4, <2>1, <2>2, OwingFrame DEF TInv
<1>14. Gating'
  <2>1. \A e \in 1..Len(request) : e \in Dumps
    BY Shapes, Bounds DEF TInv, Asked, Dumps
  <2>2. \A e \in 1..Len(request) : answer[e] = "rejected" <=> answer'[e] = "rejected"
    BY <1>1, <1>2, <2>1
  <2> QED BY <1>4, <1>7, <2>2, GatingFrame DEF TInv
<1> QED BY <1>6, <1>8, <1>9, <1>10, <1>11, <1>12, <1>13, <1>14 DEF TInv

-----------------------------------------------------------------------------
(* The writer                                                              *)

LEMMA OverflowBound ==
    ASSUME NEW T, NEW q, q.slots \in Seq(T), NEW size
    PROVE  Overflow(q, size) \in 0..Len(q.slots)
<1> DEFINE m == Len(q.slots)
           K == {k \in 1..Len(q.slots) : \A j \in 0..(k - 1) :
                    q.bytes - SlotBytes(SubSeq(q.slots, 1, j)) + size > RingBudget}
<1>1. m \in Nat /\ 1 \in Int /\ m \in Int
  BY LenProperties
<1>2. IsFiniteSet(1..m) /\ Cardinality(1..m) = m
  <2>1. IsFiniteSet(1..m) /\ Cardinality(1..m) = IF 1 > m THEN 0 ELSE m - 1 + 1
    <3> HIDE DEF m
    <3> QED BY <1>1, FS_Interval
  <2> HIDE DEF m
  <2> QED BY <1>1, <2>1
<1>3. K \in SUBSET (1..m)
  OBVIOUS
<1>4. IsFiniteSet(K) /\ Cardinality(K) <= m
  <2> HIDE DEF K, m
  <2> QED BY <1>2, <1>3, FS_Subset
<1>5. Cardinality(K) \in Nat
  <2> HIDE DEF K
  <2> QED BY <1>4, FS_CardinalityType
<1>6. Overflow(q, size) = Cardinality(K)
  BY DEF Overflow
<1> HIDE DEF K, m
<1>7. Cardinality(K) \in 0..m
  BY <1>1, <1>4, <1>5
<1> QED BY <1>6, <1>7 DEF m

LEMMA SealKeeps == TInv /\ Seal => TInv'
<1> SUFFICES ASSUME TInv, Seal PROVE TInv'
  OBVIOUS
<1> USE DEF loop, clients, stages
<1> DEFINE slot == Slot(sealed + 1, 1, 0, activeStart, now)
           s == ring.slots
           n == Overflow(ring, 1)
<1>1. UNCHANGED <<lifecycle, now, writerDone, request, gate, answer, receipt, triggers,
                  channel, pc, rxOpen, dumps, closing, hold, cursor, asOf, final, taken,
                  live, keys, manifest>>
  BY DEF Seal
<1>2. /\ sealed \in Nat /\ sealed < MaxSegments /\ MaxSegments \in Nat /\ now \in Nat
      /\ activeStart \in Nat /\ activeStart <= now
      /\ sealed' = sealed + 1 /\ activeStart' = now
  BY Shapes, Bounds DEF TInv, Seal, Asked
<1>3. /\ slot \in RingSlots /\ slot.index = sealed + 1 /\ slot.size = 1
      /\ slot.start = activeStart /\ slot.seal = now
  <2>1. activeStart \in Times /\ now \in Times
    BY DEF TInv, Types, TypeOK
  <2> QED BY <1>2, <2>1, Bounds DEF Slot, RingSlots, Slots, Segments
<1>4. s \in Seq(RingSlots)
  BY Shapes DEF TInv
<1>5. n \in 0..Len(s)
  BY <1>4, OverflowBound
<1>6. /\ ring'.slots = Append(SubSeq(s, n + 1, Len(s)), slot)
      /\ ring' = [slots |-> ring'.slots, bytes |-> ring'.bytes, dropped |-> ring'.dropped]
  <2> HIDE DEF slot
  <2> QED BY <1>3 DEF Seal, RingSeal, slot
<1>7. /\ ring'.slots \in Seq(RingSlots)
      /\ \A j \in 1..Len(ring'.slots) : ring'.slots[j] = slot \/ \E i \in (n + 1)..Len(s) : ring'.slots[j] = s[i]
      /\ \A i \in (n + 1)..Len(s) : \E j \in 1..Len(ring'.slots) : ring'.slots[j] = s[i]
      /\ \A a, b \in 1..Len(ring'.slots) : a < b =>
                \E i \in (n + 1)..Len(s) : ring'.slots[a] = s[i] /\
                    (ring'.slots[b] = slot \/ \E j \in (n + 1)..Len(s) : i # j /\ ring'.slots[b] = s[j])
      /\ Indices(SubSeq(s, 1, n)) = {s[i].index : i \in 1..n}
  <2>1. slot \in RingSlots
    BY <1>3
  <2> HIDE DEF slot, s, n
  <2>2. /\ ring'.slots \in Seq(RingSlots)
        /\ Pushes(s, n, slot, ring'.slots)
        /\ Indices(SubSeq(s, 1, n)) = {s[i].index : i \in 1..n}
    BY <1>4, <1>5, <1>6, <2>1, PushedBack
  <2> QED BY <2>2 DEF Pushes
<1>8. Len(s) \in Nat /\ n \in Nat /\ n <= Len(s) /\ Len(ring'.slots) \in Nat
  BY <1>4, <1>5, <1>7, LenProperties
<1>9. Evicted(ring, slot) = {s[i].index : i \in 1..n}
  <2> HIDE DEF slot
  <2> QED BY <1>3, <1>7 DEF Evicted
<1>10. owed' = [d \in Dumps |-> owed[d] \ {s[i].index : i \in 1..n}]
  <2> HIDE DEF s, n
  <2> QED BY <1>9 DEF Seal
<1> HIDE DEF n
<1>11. Types'
  <2>1. LifecycleTypeOK' /\ permit' \in BOOLEAN /\ sealed' \in 0..MaxSegments /\ activeStart' \in Times
    BY <1>1, <1>2, LifecycleTypes DEF TInv, Types, TypeOK, Seal
  <2>2. owed' \in [Dumps -> SUBSET Segments]
    BY <1>10 DEF TInv, Types
  <2>3. ring'.slots \in Seq(Slots(Segments, {1}, 0..RetryBudget, Times))
    BY <1>7 DEF RingSlots
  <2> HIDE DEF slot, s
  <2> QED BY <1>1, <1>6, <2>1, <2>2, <2>3 DEF TInv, Types, TypeOK
<1>12. Asked'
  BY <1>1, <1>2, AskedFrame DEF TInv
<1>13. Distinct' /\ Wanting'
  BY <1>1, DistinctFrame, WantingFrame DEF TInv
<1>14. \A i \in (n + 1)..Len(s) : i \in 1..Len(s) /\ s[i] \in Memory /\ s[i].index \in InRing
  <2>1. \A i \in (n + 1)..Len(s) : i \in 1..Len(s)
    BY <1>8
  <2> QED BY <2>1 DEF Memory, InRing, Indices
<1>15. \A t \in Memory : t.index \in Nat /\ t.index <= sealed /\ t.start <= t.seal
  BY Shapes, SlotShape DEF TInv, Line
<1>16. InRing' \subseteq InRing \cup {sealed + 1} /\ InFlight' = InFlight
  <2>1. \A j \in 1..Len(ring'.slots) : ring'.slots[j].index \in InRing \cup {sealed + 1}
    <3> HIDE DEF slot, s
    <3> QED BY <1>3, <1>7, <1>14
  <2> QED BY <1>1, <2>1 DEF InRing, InFlight, Indices
<1>17. Memory' \subseteq Memory \cup {slot}
  <2>1. \A j \in 1..Len(ring'.slots) : ring'.slots[j] \in Memory \cup {slot}
    <3> HIDE DEF slot, s
    <3> QED BY <1>7, <1>14
  <2> HIDE DEF slot
  <2> QED BY <1>1, <2>1 DEF Memory
<1>18. Line'
  <2>1. ASSUME NEW a \in 1..Len(ring'.slots), NEW b \in 1..Len(ring'.slots), a < b
        PROVE  ring'.slots[a].index # ring'.slots[b].index
    <3>1. PICK i \in (n + 1)..Len(s) : ring'.slots[a] = s[i] /\
                    (ring'.slots[b] = slot \/ \E j \in (n + 1)..Len(s) : i # j /\ ring'.slots[b] = s[j])
      <4> HIDE DEF slot, s
      <4> QED BY <1>7, <2>1
    <3>2. CASE ring'.slots[b] = slot
      <4>1. s[i].index \in Nat /\ s[i].index <= sealed
        BY <1>14, <1>15
      <4> HIDE DEF slot, s
      <4> QED BY <1>2, <1>3, <3>1, <3>2, <4>1
    <3>3. CASE \E j \in (n + 1)..Len(s) : i # j /\ ring'.slots[b] = s[j]
      BY <1>14, <3>1, <3>3 DEF TInv, Line
    <3> QED BY <3>1, <3>2, <3>3
  <2>2. \A j, k \in 1..Len(ring'.slots) : j # k => ring'.slots[j].index # ring'.slots[k].index
    <3> SUFFICES ASSUME NEW j \in 1..Len(ring'.slots), NEW k \in 1..Len(ring'.slots), j # k
                 PROVE  ring'.slots[j].index # ring'.slots[k].index
      OBVIOUS
    <3>1. j < k \/ k < j
      BY <1>8
    <3> QED BY <2>1, <3>1
  <2>3. InRing' \cap InFlight' = {}
    <3>1. sealed + 1 \notin InFlight
      <4>1. \A k \in 1..Len(taken) : taken[k].index \in Nat /\ taken[k].index <= sealed
        BY <1>15 DEF Memory
      <4> QED BY <1>2, <4>1 DEF InFlight, Indices
    <3> QED BY <1>16, <3>1 DEF TInv, Line
  <2>4. \A t \in Memory' : t.index <= sealed' /\ t.start <= t.seal
    <3> HIDE DEF slot
    <3> QED BY <1>2, <1>3, <1>15, <1>17
  <2> QED BY <2>2, <2>3, <2>4 DEF Line
<1>19. Places'
  BY <1>1 DEF TInv, Places, lifecycle
<1>20. Settled'
  BY <1>1, <1>10 DEF TInv, Settled, lifecycle
<1>21. Books'
  <2>1. OpenDumps' = OpenDumps
    BY <1>1 DEF OpenDumps
  <2>2. ReceiptsAgree'
    BY <1>1, <2>1 DEF TInv, Books, ReceiptsAgree
  <2>3. ASSUME NEW d \in Dumps
        PROVE  keys'[d] \subseteq 1..sealed' /\ keys'[d] \cap (InRing' \cup InFlight') = {}
    <3>1. keys[d] \subseteq 1..sealed /\ keys[d] \cap (InRing \cup InFlight) = {}
      BY DEF TInv, Books
    <3>2. sealed + 1 \notin 1..sealed /\ 1..sealed \subseteq 1..(sealed + 1)
      BY <1>2
    <3> QED BY <1>1, <1>2, <1>16, <3>1, <3>2
  <2> QED BY <2>2, <2>3 DEF Books
<1>22. Owing'
  <2>1. OpenDumps' = OpenDumps
    BY <1>1 DEF OpenDumps
  <2>2. \A d \in Dumps : owed'[d] \subseteq owed[d] /\ owed'[d] \cap {s[i].index : i \in 1..n} = {}
    BY <1>10
  <2>3. \A d \in Dumps : owed'[d] # {} => d \in OpenDumps
    BY <2>2 DEF TInv, Owing
  <2>4. ASSUME NEW t \in Memory, NEW d \in Dumps, t.index \in owed'[d]
        PROVE  t \in Memory'
    <3>1. CASE \E k \in 1..Len(taken) : t = taken[k]
      BY <1>1, <3>1 DEF Memory
    <3>2. CASE \E k \in 1..Len(s) : t = s[k]
      <4>1. PICK k \in 1..Len(s) : t = s[k]
        BY <3>2
      <4>2. k \notin 1..n
        BY <2>2, <2>4, <4>1
      <4>3. k \in (n + 1)..Len(s)
        BY <1>8, <4>2
      <4>4. PICK j \in 1..Len(ring'.slots) : ring'.slots[j] = s[k]
        BY <1>7, <4>3
      <4> QED BY <4>1, <4>4 DEF Memory
    <3> QED BY <3>1, <3>2 DEF Memory
  <2> QED BY <1>1, <2>1, <2>2, <2>3, <2>4, OwingFrame DEF TInv
<1>23. Gating'
  BY <1>1, <1>2, GatingFrame DEF TInv
<1> QED BY <1>11, <1>12, <1>13, <1>18, <1>19, <1>20, <1>21, <1>22, <1>23 DEF TInv

-----------------------------------------------------------------------------
(* The run loop: requests turned away, and segments taken and put back     *)

(* The head of the channel goes, and is answered.                          *)
LEMMA HeadGone ==
    ASSUME Types, Distinct, channel # <<>>, channel' = Tail(channel)
    PROVE  /\ Head(channel) \in Queued /\ Head(channel) \in Dumps
           /\ answer[Head(channel)] = "open"
           /\ channel' \in Seq(Dumps)
           /\ Queued' = Queued \ {Head(channel)}
           /\ \A j, k \in 1..Len(channel') : j # k => channel'[j] # channel'[k]
<1>1. channel \in Seq(Dumps)
  BY DEF Types, TypeOK
<1>2. /\ channel' \in Seq(Dumps) /\ Len(channel') = Len(channel) - 1 /\ Len(channel) >= 1
      /\ Head(channel) = channel[1] /\ Head(channel) \in Dumps
      /\ Drops(channel, 1, channel')
  BY <1>1, TailDrops
<1>3. Len(channel) \in Nat /\ 1 \in 1..Len(channel)
  BY <1>1, <1>2, LenProperties
<1>4. Head(channel) \in Queued /\ answer[Head(channel)] = "open"
  BY <1>2, <1>3 DEF Queued, Distinct
<1>5. \A j, k \in 1..Len(channel) : j # k => channel[j] # channel[k]
  BY DEF Distinct
<1>6. \A j, k \in 1..Len(channel') : j # k => channel'[j] # channel'[k]
  BY <1>2, <1>5 DEF Drops
<1>7. Queued' = Queued \ {Head(channel)}
  <2>1. ASSUME NEW x \in Queued'
        PROVE  x \in Queued \ {Head(channel)}
    <3>1. PICK j \in 1..Len(channel') : x = channel'[j]
      BY DEF Queued
    <3>2. PICK i \in (1..Len(channel)) \ {1} : channel'[j] = channel[i]
      BY <1>2 DEF Drops
    <3>3. channel[i] # channel[1]
      BY <1>3, <1>5
    <3> QED BY <1>2, <3>1, <3>2, <3>3 DEF Queued
  <2>2. ASSUME NEW x \in Queued, x # Head(channel)
        PROVE  x \in Queued'
    <3>1. PICK i \in 1..Len(channel) : x = channel[i]
      BY DEF Queued
    <3>2. i # 1
      BY <1>2, <2>2, <3>1
    <3>3. PICK j \in 1..Len(channel') : channel'[j] = channel[i]
      BY <1>2, <3>2 DEF Drops
    <3> QED BY <3>1, <3>3 DEF Queued
  <2> QED BY <2>1, <2>2
<1> QED BY <1>2, <1>4, <1>6, <1>7

LEMMA RejectKeeps == TInv /\ Reject => TInv'
<1> SUFFICES ASSUME TInv, Reject PROVE TInv'
  OBVIOUS
<1> USE DEF loop, writer, stages
<1> DEFINE d == Head(channel)
<1>1. /\ UNCHANGED <<lifecycle, now, ring, sealed, activeStart, writerDone, permit, request,
                     receipt, triggers, pc, rxOpen, dumps, closing, hold, cursor, asOf,
                     final, taken, live, keys, manifest, owed>>
      /\ channel # <<>> /\ channel' = Tail(channel)
      /\ gate' = Released(d)
      /\ answer' = [answer EXCEPT ![d] = "rejected"]
  BY DEF Reject
<1>2. /\ d \in Queued /\ d \in Dumps /\ answer[d] = "open"
      /\ channel' \in Seq(Dumps)
      /\ Queued' = Queued \ {d}
      /\ \A j, k \in 1..Len(channel') : j # k => channel'[j] # channel'[k]
  BY <1>1, HeadGone DEF TInv
<1>3. /\ answer \in [Dumps -> Answers] /\ answer' \in [Dumps -> Answers]
      /\ answer'[d] = "rejected"
      /\ \A e \in Dumps \ {d} : answer'[e] = answer[e]
  <2>1. answer \in [Dumps -> Answers]
    BY DEF TInv, Types, TypeOK
  <2> HIDE DEF d
  <2> QED BY <1>1, <1>2, <2>1 DEF Answers
<1> HIDE DEF d
<1>4. now \in Nat /\ d \in 1..Len(request) /\ gate \in 0..Len(request) /\ Len(request) \in Nat
  BY <1>2, OpenAsked, Shapes DEF TInv, Types, TypeOK
<1>5. Types'
  <2>1. LifecycleTypeOK'
    BY <1>1, LifecycleTypes DEF TInv, Types, TypeOK
  <2>2. gate' \in 0..Len(request)
    BY <1>1, <1>4 DEF Released
  <2> QED BY <1>1, <1>2, <1>3, <2>1, <2>2 DEF TInv, Types, TypeOK
<1>6. Asked'
  <2>1. \A e \in Dumps : e > Len(request) => answer'[e] = answer[e]
    <3>1. ~(d > Len(request))
      BY <1>4
    <3> QED BY <1>3, <3>1
  <2> QED BY <1>1, <1>4, <2>1, AskedFrame DEF TInv
<1>7. OpenDumps' = OpenDumps
  BY <1>1 DEF OpenDumps
<1>8. Distinct'
  <2>1. Ids(dumps)' = Ids(dumps) /\ Ids(closing)' = Ids(closing)
    BY <1>1 DEF Ids
  <2>2. OpenDumps \cup Queued \subseteq Dumps
    BY Shapes DEF TInv
  <2>3. \A e \in OpenDumps' \cup Queued' : answer'[e] = "open"
    BY <1>2, <1>3, <1>7, <2>2 DEF TInv, Distinct
  <2> QED BY <1>1, <1>2, <1>7, <2>1, <2>3 DEF TInv, Distinct
<1>9. Line' /\ Wanting'
  BY <1>1, LineFrame, WantingFrame DEF TInv
<1>10. Places' /\ Settled'
  BY <1>1 DEF TInv, Places, Settled, lifecycle
<1>11. Books'
  <2>1. \A e \in Dumps :
          \/ answer'[e] = answer[e]
          \/ answer[e] # "ok" /\ answer'[e] \notin {"pipeline", "unavailable"}
    BY <1>2, <1>3
  <2> QED BY <1>1, <2>1, BooksFrame DEF TInv
<1>12. Owing'
  <2>1. Memory' = Memory
    BY <1>1 DEF Memory
  <2>2. \A e \in Dumps : owed[e] # {} => e \in OpenDumps
    BY DEF TInv, Owing
  <2> QED BY <1>1, <1>7, <2>1, <2>2, OwingFrame DEF TInv
<1>13. Gating'
  <2>1. \A e \in 1..Len(request) : e \in Dumps
    BY <1>4, Bounds DEF TInv, Asked, Dumps
  <2>2. \A e \in 1..Len(request) :
          /\ answer[e] = "rejected" => answer'[e] = "rejected"
          /\ answer'[e] # "rejected" => e # d /\ answer[e] # "rejected"
    BY <1>2, <1>3, <2>1
  <2>3. RateLimited'
    BY <1>1, <2>2 DEF TInv, Gating, RateLimited
  <2>4. \A e \in 1..Len(request) :
          /\ request[e].into = 0
          /\ answer'[e] # "rejected"
          /\ now - request[e].at < DebounceWindow
          => gate' = e
    BY <1>1, <2>2 DEF TInv, Gating, Released
  <2> QED BY <1>1, <2>3, <2>4 DEF Gating
<1> QED BY <1>5, <1>6, <1>8, <1>9, <1>10, <1>11, <1>12, <1>13 DEF TInv

LEMMA TakeNoneKeeps == TInv /\ TakeNone => TInv'
<1> SUFFICES ASSUME TInv, TakeNone PROVE TInv'
  OBVIOUS
<1> USE DEF TakeNone, At, clients, writer, stages
<1>1. /\ ring'.slots = ring.slots
      /\ ring' = [slots |-> ring'.slots, bytes |-> ring'.bytes, dropped |-> ring'.dropped]
  BY DEF TInv, Types, RingTakeNone
<1>2. pc' \in {"finish", "settle"}
  BY DEF AfterDrain
<1>3. Types'
  <2>1. LifecycleTypeOK'
    BY LifecycleTypes DEF TInv, Types, TypeOK
  <2> QED BY <1>1, <1>2, <2>1 DEF TInv, Types, TypeOK
<1>4. taken = <<>> /\ closing = <<>>
  BY DEF TInv, Places, Holding
<1>5. \A d \in Dumps : owed[d] = {}
  <2> SUFFICES ASSUME NEW d \in Dumps, NEW i \in owed[d] PROVE FALSE
    OBVIOUS
  <2>1. d \in OpenDumps
    BY DEF TInv, Owing
  <2>2. PICK slot \in Memory : Overlaps(d, slot)
    BY DEF TInv, Owing
  <2>3. PICK k \in 1..Len(ring.slots) : slot = ring.slots[k]
    BY <1>4 DEF Memory
  <2>4. PICK j \in 1..Len(dumps) : d = dumps[j].id
    BY <1>4, <2>1 DEF OpenDumps
  <2>5. Wanted(ring.slots[k])
    BY <2>2, <2>3, <2>4 DEF Wanted, Matched
  <2> QED BY <2>5
<1>6. Places' /\ Settled'
  BY <1>2, <1>4, <1>5 DEF TInv, Places, Settled, Holding, lifecycle
<1> QED BY <1>1, <1>3, <1>6, QuietStep

(* Slots may change places in memory and be marked as tried.               *)
LEMMA MemoryStep ==
    ASSUME TInv, Types', Places', Settled', Line', Wanting',
           UNCHANGED <<now, activeStart, sealed, request, gate, answer, channel, dumps,
                       closing, keys, manifest, receipt, owed>>,
           InRing' \cup InFlight' = InRing \cup InFlight,
           \A slot \in Memory : \E s \in Memory' :
               s.index = slot.index /\ s.start = slot.start /\ s.seal = slot.seal
    PROVE  TInv'
<1>1. now \in Nat
  BY Shapes DEF TInv
<1>2. OpenDumps' = OpenDumps
  BY DEF OpenDumps
<1>3. Asked' /\ Gating' /\ Distinct'
  BY <1>1, AskedFrame, GatingFrame, DistinctFrame DEF TInv
<1>4. Books'
  <2>1. ReceiptsAgree'
    BY <1>2 DEF TInv, Books, ReceiptsAgree
  <2> QED BY <2>1 DEF TInv, Books
<1>5. Owing'
  <2>1. \A d \in Dumps : owed[d] # {} => d \in OpenDumps
    BY DEF TInv, Owing
  <2> QED BY <1>2, <2>1, OwingFrame DEF TInv
<1> QED BY <1>3, <1>4, <1>5 DEF TInv

LEMMA TakeMatchingKeeps == TInv /\ TakeMatching => TInv'
<1> SUFFICES ASSUME TInv, TakeMatching PROVE TInv'
  OBVIOUS
<1> USE DEF clients, writer, stages
<1> DEFINE s == ring.slots
<1>1. PICK k \in 1..Len(s) : /\ Wanted(s[k]) /\ taken' = <<s[k]>> /\ ring' = RingTake(ring, k)
  BY DEF TakeMatching
<1>2. UNCHANGED <<lifecycle, now, sealed, activeStart, writerDone, permit, request, gate,
                  answer, receipt, triggers, channel, rxOpen, dumps, closing, hold, cursor,
                  asOf, final, live, keys, manifest, owed>>
      /\ pc = "take" /\ pc' = "seglive"
  BY DEF TakeMatching, At
<1>3. s \in Seq(RingSlots) /\ s[k] \in RingSlots
  <2>1. s \in Seq(RingSlots)
    BY Shapes DEF TInv
  <2> QED BY <2>1, ElementOfSeq
<1>4. ring'.slots \in Seq(RingSlots) /\ Drops(s, k, ring'.slots)
  <2>1. ring'.slots = Without(s, k)
    BY <1>1 DEF RingTake
  <2> HIDE DEF s
  <2> QED BY <1>3, <2>1, WithoutDrops
<1>5. ring' = [slots |-> ring'.slots, bytes |-> ring'.bytes, dropped |-> ring'.dropped]
  BY <1>1 DEF RingTake
<1>6. taken = <<>> /\ closing = <<>>
  BY <1>2 DEF TInv, Places, Holding
<1>7. taken' \in Seq(RingSlots) /\ Len(taken') = 1 /\ taken'[1] = s[k] /\ taken' # <<>>
  BY <1>1, <1>3
<1>8. Types'
  <2>1. LifecycleTypeOK'
    BY <1>2, LifecycleTypes DEF TInv, Types, TypeOK
  <2>2. \A q \in {ring'.slots, taken'} : q \in Seq(Slots(Segments, {1}, 0..RetryBudget, Times))
    BY <1>4, <1>7 DEF RingSlots
  <2> QED BY <1>2, <1>5, <1>7, <2>1, <2>2 DEF TInv, Types, TypeOK
<1>9. Places' /\ Settled'
  BY <1>2, <1>6, <1>7 DEF TInv, Places, Settled, Holding, lifecycle
<1>10. /\ Memory = {s[j] : j \in 1..Len(s)}
       /\ Memory' = {ring'.slots[j] : j \in 1..Len(ring'.slots)} \cup {s[k]}
       /\ InRing = {s[j].index : j \in 1..Len(s)} /\ InFlight = {}
       /\ InRing' = {ring'.slots[j].index : j \in 1..Len(ring'.slots)} /\ InFlight' = {s[k].index}
  BY <1>6, <1>7 DEF Memory, InRing, InFlight, Indices
<1>11. Memory' = Memory
  <2>1. ASSUME NEW i \in 1..Len(s), i # k PROVE s[i] \in Memory'
    <3>1. PICK j \in 1..Len(ring'.slots) : ring'.slots[j] = s[i]
      BY <1>4, <2>1 DEF Drops
    <3> QED BY <1>10, <3>1
  <2>2. ASSUME NEW j \in 1..Len(ring'.slots) PROVE ring'.slots[j] \in Memory
    <3>1. PICK i \in (1..Len(s)) \ {k} : ring'.slots[j] = s[i]
      BY <1>4 DEF Drops
    <3> QED BY <1>10, <3>1
  <2> QED BY <1>10, <2>1, <2>2
<1>12. InRing' \cup InFlight' = InRing \cup InFlight
  <2>1. ASSUME NEW i \in 1..Len(s), i # k PROVE s[i].index \in InRing'
    <3>1. PICK j \in 1..Len(ring'.slots) : ring'.slots[j] = s[i]
      BY <1>4, <2>1 DEF Drops
    <3> QED BY <1>10, <3>1
  <2>2. ASSUME NEW j \in 1..Len(ring'.slots) PROVE ring'.slots[j].index \in InRing
    <3>1. PICK i \in (1..Len(s)) \ {k} : ring'.slots[j] = s[i]
      BY <1>4 DEF Drops
    <3> QED BY <1>10, <3>1
  <2> QED BY <1>10, <2>1, <2>2
<1>13. Line'
  <2>1. \A i, j \in 1..Len(s) : i # j => s[i].index # s[j].index
    BY DEF TInv, Line
  <2>2. \A i, j \in 1..Len(ring'.slots) : i # j => ring'.slots[i].index # ring'.slots[j].index
    <3> SUFFICES ASSUME NEW i \in 1..Len(ring'.slots), NEW j \in 1..Len(ring'.slots), i # j
                 PROVE  ring'.slots[i].index # ring'.slots[j].index
      OBVIOUS
    <3>1. PICK a, b \in (1..Len(s)) \ {k} :
             a # b /\ ring'.slots[i] = s[a] /\ ring'.slots[j] = s[b]
      BY <1>4 DEF Drops
    <3> QED BY <2>1, <3>1
  <2>3. ASSUME NEW j \in 1..Len(ring'.slots)
        PROVE  ring'.slots[j].index # s[k].index
    <3>1. PICK i \in (1..Len(s)) \ {k} : ring'.slots[j] = s[i]
      BY <1>4 DEF Drops
    <3> QED BY <2>1, <3>1
  <2>4. InRing' \cap InFlight' = {}
    BY <1>10, <2>3
  <2> QED BY <1>2, <1>11, <2>2, <2>4 DEF TInv, Line
<1>14. Wanting'
  <2>1. PICK x : x = s[k]
    OBVIOUS
  <2>2. PICK j \in 1..Len(dumps) : Overlaps(dumps[j].id, x)
    BY <1>1, <2>1 DEF Wanted, Matched
  <2>3. taken'[1] = x
    BY <1>7, <2>1
  <2> HIDE DEF s
  <2>4. Overlaps(dumps[j].id, taken[1])'
    BY <1>2, <2>2, <2>3 DEF Overlaps
  <2> QED BY <1>2, <2>4 DEF Wanting, Wanted, Matched
<1> QED BY <1>2, <1>8, <1>9, <1>11, <1>12, <1>13, <1>14, MemoryStep

LEMMA InFlightIsOne ==
    ASSUME Types, taken # <<>>
    PROVE  /\ Len(taken) = 1 /\ taken[1] \in RingSlots /\ taken[1] \in Memory
           /\ Memory = {ring.slots[k] : k \in 1..Len(ring.slots)} \cup {taken[1]}
           /\ InFlight = {taken[1].index}
<1>1. taken \in Seq(RingSlots) /\ Len(taken) <= 1
  BY Shapes DEF Types, TypeOK
<1>2. Len(taken) = 1
  <2>1. Len(taken) \in Nat /\ Len(taken) # 0
    BY <1>1, EmptySeq
  <2>2. PICK n \in Nat : n = Len(taken)
    BY <2>1
  <2>3. n <= 1 /\ n # 0
    BY <1>1, <2>1, <2>2
  <2>4. n = 1
    BY <2>3
  <2> QED BY <2>2, <2>4
<1>3. taken[1] \in RingSlots
  BY <1>1, <1>2, ElementOfSeq
<1>4. 1..Len(taken) = {1}
  BY <1>2
<1> QED BY <1>2, <1>3, <1>4 DEF Memory, InFlight, Indices

(* release_for_retry: the slot in flight goes to the front of the ring.    *)
LEMMA Releases ==
    ASSUME TInv, taken # <<>>, taken' = <<>>, sealed' = sealed,
           NEW x \in RingSlots, ring' = RingRelease(ring, x),
           x.index = taken[1].index, x.start = taken[1].start, x.seal = taken[1].seal
    PROVE  /\ ring'.slots \in Seq(RingSlots)
           /\ ring' = [slots |-> ring'.slots, bytes |-> ring'.bytes, dropped |-> ring'.dropped]
           /\ Line' /\ Wanting'
           /\ InRing' \cup InFlight' = InRing \cup InFlight
           /\ \A slot \in Memory : \E s \in Memory' :
                s.index = slot.index /\ s.start = slot.start /\ s.seal = slot.seal
<1> DEFINE s == ring.slots
           r == ring'.slots
<1>1. r = <<x>> \o s /\ s \in Seq(RingSlots)
  BY Shapes DEF RingRelease, TInv
<1>2. ring' = [slots |-> r, bytes |-> ring'.bytes, dropped |-> ring'.dropped]
  BY DEF RingRelease
<1>3. /\ r \in Seq(RingSlots) /\ Len(r) = Len(s) + 1 /\ r[1] = x /\ Len(s) \in Nat
      /\ \A j \in 1..Len(s) : r[j + 1] = s[j]
  <2> HIDE DEF s, r
  <2> QED BY <1>1, PushedFront, LenProperties
<1>4. /\ taken[1] \in Memory
      /\ Memory = {s[k] : k \in 1..Len(s)} \cup {taken[1]}
      /\ InFlight = {taken[1].index} /\ InRing = {s[k].index : k \in 1..Len(s)}
  BY InFlightIsOne DEF TInv, InRing, Indices
<1>5. /\ Memory' = {r[k] : k \in 1..Len(r)}
      /\ InFlight' = {} /\ InRing' = {r[k].index : k \in 1..Len(r)}
  <2>1. Len(taken') = 0
    OBVIOUS
  <2>2. 1..Len(taken') = {}
    BY <2>1
  <2> QED BY <2>2 DEF Memory, InFlight, InRing, Indices
<1>6. \A k \in 1..Len(r) : (k = 1 /\ r[k] = x) \/ (k - 1 \in 1..Len(s) /\ r[k] = s[k - 1])
  <2> HIDE DEF s, r
  <2> SUFFICES ASSUME NEW k \in 1..Len(r), k # 1 PROVE k - 1 \in 1..Len(s) /\ r[k] = s[k - 1]
    BY <1>3
  <2>1. k - 1 \in 1..Len(s) /\ (k - 1) + 1 = k
    BY <1>3
  <2> QED BY <1>3, <2>1
<1>7. \A k \in 1..Len(s) : k + 1 \in 1..Len(r) /\ r[k + 1] = s[k]
  <2> HIDE DEF s, r
  <2> QED BY <1>3
<1>8. 1 \in 1..Len(r)
  <2> HIDE DEF s, r
  <2> QED BY <1>3
<1>9. InRing' \cup InFlight' = InRing \cup InFlight
  <2>1. \A k \in 1..Len(r) : r[k].index \in InRing \cup InFlight
    <3> HIDE DEF s, r
    <3> QED BY <1>4, <1>6
  <2>2. \A k \in 1..Len(s) : s[k].index \in InRing'
    <3> HIDE DEF s, r
    <3> QED BY <1>5, <1>7
  <2>3. taken[1].index \in InRing'
    <3> HIDE DEF s, r
    <3> QED BY <1>3, <1>5, <1>8
  <2> HIDE DEF s, r
  <2> QED BY <1>4, <1>5, <2>1, <2>2, <2>3
<1>10. \A slot \in Memory : \E t \in Memory' :
          t.index = slot.index /\ t.start = slot.start /\ t.seal = slot.seal
  <2>1. \A k \in 1..Len(s) : s[k] \in Memory'
    <3> HIDE DEF s, r
    <3> QED BY <1>5, <1>7
  <2>2. x \in Memory'
    <3> HIDE DEF s, r
    <3> QED BY <1>3, <1>5, <1>8
  <2> HIDE DEF s, r
  <2> QED BY <1>4, <2>1, <2>2
<1>11. Line'
  <2>1. \A j, k \in 1..Len(s) : j # k => s[j].index # s[k].index
    BY DEF TInv, Line
  <2>2. \A k \in 1..Len(s) : s[k].index # x.index
    BY <1>4 DEF TInv, Line
  <2>3. \A slot \in Memory : slot.index <= sealed /\ slot.start <= slot.seal
    BY DEF TInv, Line
  <2> HIDE DEF s, r
  <2>4. ASSUME NEW j \in 1..Len(r), NEW k \in 1..Len(r), j # k
        PROVE  r[j].index # r[k].index
    <3>1. CASE j = 1
      BY <1>3, <1>6, <2>2, <2>4, <3>1
    <3>2. CASE k = 1
      BY <1>3, <1>6, <2>2, <2>4, <3>2
    <3>3. CASE j # 1 /\ k # 1
      <4>1. j - 1 # k - 1
        BY <1>3, <2>4
      <4> QED BY <1>6, <2>1, <3>3, <4>1
    <3> QED BY <3>1, <3>2, <3>3
  <2>5. \A k \in 1..Len(r) : r[k].index <= sealed /\ r[k].start <= r[k].seal
    <3>1. \A k \in 1..Len(s) : s[k].index <= sealed /\ s[k].start <= s[k].seal
      BY <1>4, <2>3
    <3>2. x.index <= sealed /\ x.start <= x.seal
      BY <1>4, <2>3
    <3> QED BY <1>6, <3>1, <3>2
  <2> QED BY <1>5, <2>4, <2>5 DEF Line, r
<1>12. Wanting'
  BY DEF Wanting
<1> QED BY <1>2, <1>3, <1>9, <1>10, <1>11, <1>12

LEMMA ReleaseForRetryKeeps == TInv /\ ReleaseForRetry => TInv'
<1> SUFFICES ASSUME TInv, ReleaseForRetry PROVE TInv'
  OBVIOUS
<1> USE DEF clients, writer, stages
<1> DEFINE x == [taken[1] EXCEPT !.retry = @ + 1]
<1>1. UNCHANGED <<lifecycle, now, sealed, activeStart, writerDone, request, gate,
                  answer, receipt, triggers, channel, rxOpen, dumps, closing, cursor,
                  asOf, final, live, keys, manifest, owed>>
      /\ pc = "backoff" /\ pc' \in {"finish", "settle"} /\ hold' = TRUE /\ permit' = TRUE
      /\ taken' = <<>> /\ ring' = RingRelease(ring, x) /\ driver \in {"polling", "draining"}
  BY DEF ReleaseForRetry, At, AfterDrain, HoldOver, RunLoopRuns, Polled
<1>2. taken # <<>> /\ closing = <<>> /\ taken[1].retry < RetryBudget
  BY <1>1 DEF TInv, Places, Holding
<1>3. x \in RingSlots /\ x.index = taken[1].index /\ x.start = taken[1].start /\ x.seal = taken[1].seal
  <2>1. taken[1] \in RingSlots
    BY <1>2, InFlightIsOne DEF TInv
  <2>2. taken[1].retry + 1 \in 0..RetryBudget
    BY <1>2, <2>1, SlotShape, Bounds
  <2> QED BY <2>1, <2>2 DEF RingSlots, Slots
<1> HIDE DEF x
<1>4. /\ ring'.slots \in Seq(RingSlots)
      /\ ring' = [slots |-> ring'.slots, bytes |-> ring'.bytes, dropped |-> ring'.dropped]
      /\ Line' /\ Wanting'
      /\ InRing' \cup InFlight' = InRing \cup InFlight
      /\ \A slot \in Memory : \E s \in Memory' :
            s.index = slot.index /\ s.start = slot.start /\ s.seal = slot.seal
  BY <1>1, <1>2, <1>3, Releases
<1>5. Types'
  <2>1. LifecycleTypeOK'
    BY <1>1, LifecycleTypes DEF TInv, Types, TypeOK
  <2>2. \A q \in {ring'.slots, taken'} : q \in Seq(Slots(Segments, {1}, 0..RetryBudget, Times))
    <3>1. taken' \in Seq(RingSlots)
      BY <1>1, EmptySeq
    <3> QED BY <1>4, <3>1 DEF RingSlots
  <2>3. Len(taken') <= 1
    BY <1>1
  <2> QED BY <1>1, <1>4, <2>1, <2>2, <2>3 DEF TInv, Types, TypeOK
<1>6. Places' /\ Settled'
  BY <1>1, <1>2 DEF TInv, Places, Settled, Holding, lifecycle
<1> QED BY <1>1, <1>4, <1>5, <1>6, MemoryStep

(* A stop or a deadline ends the wait: the normal resolution is not next.  *)
LEMMA WaitInterruptedKeeps == TInv /\ WaitInterrupted => TInv'
<1> SUFFICES ASSUME TInv, WaitInterrupted PROVE TInv'
  OBVIOUS
<1> USE DEF clients, writer, stages
<1>1. UNCHANGED <<lifecycle, now, sealed, activeStart, writerDone, request, gate,
                  answer, receipt, triggers, channel, rxOpen, dumps, closing, hold,
                  final, live, keys, manifest, owed>>
      /\ pc \in {"wait", "seglive"} /\ asOf' = now /\ cursor' = 1
      /\ pc' \in {"finish", "expire", "settle"} /\ (pc' = "settle" => stop)
      /\ driver \in {"polling", "draining"}
  BY DEF WaitInterrupted, AfterDrain, RunLoopRuns, Polled
<1>2. closing = <<>>
  BY <1>1 DEF TInv, Places
<1>3. cursor' \in 1..(MaxDumps + 1) /\ asOf' \in Times
  BY <1>1, Bounds DEF TInv, Types, TypeOK
<1>4. LifecycleTypeOK'
  BY <1>1, LifecycleTypes DEF TInv, Types, TypeOK
<1>5. Settled'
  BY <1>1 DEF Settled, lifecycle
<1>6. CASE pc = "wait"
  <2>1. UNCHANGED <<ring, permit, taken>> /\ taken = <<>>
    BY <1>6 DEF WaitInterrupted, TInv, Places, Holding
  <2>2. Types'
    BY <1>1, <1>3, <1>4, <2>1 DEF TInv, Types, TypeOK
  <2>3. Places'
    BY <1>1, <1>2, <2>1 DEF TInv, Places, Holding, lifecycle
  <2> QED BY <1>1, <1>5, <2>1, <2>2, <2>3, QuietStep
<1>7. CASE pc = "seglive"
  <2>1. ring' = RingRelease(ring, taken[1]) /\ permit' = TRUE /\ taken' = <<>>
    BY <1>7 DEF WaitInterrupted
  <2>2. taken # <<>>
    BY <1>1, <1>7 DEF TInv, Places, Holding
  <2>3. taken[1] \in RingSlots
    BY <2>2, InFlightIsOne DEF TInv
  <2>4. /\ ring'.slots \in Seq(RingSlots)
        /\ ring' = [slots |-> ring'.slots, bytes |-> ring'.bytes, dropped |-> ring'.dropped]
        /\ Line' /\ Wanting'
        /\ InRing' \cup InFlight' = InRing \cup InFlight
        /\ \A slot \in Memory : \E s \in Memory' :
              s.index = slot.index /\ s.start = slot.start /\ s.seal = slot.seal
    BY <1>1, <2>1, <2>2, <2>3, Releases
  <2>5. Types'
    <3>1. \A q \in {ring'.slots, taken'} : q \in Seq(Slots(Segments, {1}, 0..RetryBudget, Times))
      <4>1. taken' \in Seq(RingSlots)
        BY <2>1, EmptySeq
      <4> QED BY <2>4, <4>1 DEF RingSlots
    <3>2. Len(taken') <= 1
      BY <2>1
    <3> QED BY <1>1, <1>3, <1>4, <2>1, <2>4, <3>1, <3>2 DEF TInv, Types, TypeOK
  <2>6. Places'
    BY <1>1, <1>2, <2>1 DEF TInv, Places, Holding, lifecycle
  <2> QED BY <1>1, <1>5, <2>4, <2>5, <2>6, MemoryStep
<1> QED BY <1>1, <1>6, <1>7

-----------------------------------------------------------------------------
(* A segment that the pipeline is done with leaves the memory              *)

(* A dump's window is what decides whether it is owed the segment.         *)
LEMMA OwedIsMatched ==
    ASSUME TInv, taken # <<>>, closing = <<>>, NEW d \in Dumps, taken[1].index \in owed[d]
    PROVE  \E k \in Matched(taken[1]) : dumps[k].id = d
<1>1. PICK slot \in Memory : slot.index = taken[1].index /\ Overlaps(d, slot)
  BY DEF TInv, Owing
<1>2. /\ Memory = {ring.slots[k] : k \in 1..Len(ring.slots)} \cup {taken[1]}
      /\ InFlight = {taken[1].index}
  BY InFlightIsOne DEF TInv
<1>3. slot = taken[1]
  <2> SUFFICES ASSUME NEW k \in 1..Len(ring.slots), slot = ring.slots[k] PROVE FALSE
    BY <1>2
  <2>1. taken[1].index \in InRing
    BY <1>1 DEF InRing, Indices
  <2> QED BY <1>2, <2>1 DEF TInv, Line
<1>4. PICK k \in 1..Len(dumps) : d = dumps[k].id
  <2>1. d \in OpenDumps
    BY DEF TInv, Owing
  <2>2. 1..Len(closing) = {}
    OBVIOUS
  <2> QED BY <2>1, <2>2 DEF OpenDumps
<1>5. k \in Matched(taken[1])
  BY <1>1, <1>3, <1>4 DEF Matched
<1> QED BY <1>4, <1>5

LEMMA SegmentLeaves ==
    ASSUME TInv, taken # <<>>, taken' = <<>>, closing = <<>>, pc' = "wait",
           UNCHANGED <<lifecycle, now, ring, sealed, activeStart, writerDone, permit,
                       request, gate, answer, receipt, triggers, channel, rxOpen, closing,
                       hold, cursor, asOf, final, manifest>>,
           live' \in BOOLEAN,
           dumps' \in Seq(ActiveDumps), Len(dumps') = Len(dumps),
           \A k \in 1..Len(dumps) : dumps'[k].id = dumps[k].id,
           owed' \in [Dumps -> SUBSET Segments],
           \A d \in Dumps : owed'[d] \subseteq owed[d] \ {taken[1].index},
           keys' \in [Dumps -> SUBSET Segments],
           \A d \in Dumps : keys'[d] \subseteq keys[d] \cup {taken[1].index},
           \A d \in Dumps : keys'[d] # {} => d \in OpenDumps,
           \A k \in 1..Len(dumps) : dumps'[k].processed = Cardinality(keys'[dumps[k].id])
    PROVE  TInv'
<1>1. /\ taken[1] \in Memory
      /\ Memory = {ring.slots[k] : k \in 1..Len(ring.slots)} \cup {taken[1]}
      /\ InFlight = {taken[1].index}
  BY InFlightIsOne DEF TInv
<1>2. /\ Memory' = {ring.slots[k] : k \in 1..Len(ring.slots)}
      /\ InFlight' = {} /\ InRing' = InRing
  <2>1. 1..Len(taken') = {}
    OBVIOUS
  <2> QED BY <2>1 DEF Memory, InFlight, InRing, Indices
<1>3. OpenDumps' = OpenDumps /\ Queued' = Queued /\ Ids(dumps)' = Ids(dumps) /\ Ids(closing)' = Ids(closing)
  BY DEF OpenDumps, Queued, Ids
<1>4. now \in Nat /\ sealed \in Nat
  BY Shapes DEF TInv
<1>5. Types'
  <2>1. LifecycleTypeOK'
    BY LifecycleTypes DEF TInv, Types, TypeOK
  <2>2. \A q \in {ring'.slots, taken'} : q \in Seq(Slots(Segments, {1}, 0..RetryBudget, Times))
    <3>1. taken' \in Seq(RingSlots) /\ ring'.slots \in Seq(RingSlots)
      BY EmptySeq, Shapes DEF TInv
    <3> QED BY <3>1 DEF RingSlots
  <2>3. Len(taken') <= 1
    OBVIOUS
  <2> QED BY <2>1, <2>2, <2>3 DEF TInv, Types, TypeOK
<1>6. Asked' /\ Gating'
  BY <1>4, AskedFrame, GatingFrame DEF TInv
<1>7. Distinct'
  <2>1. \A j, k \in 1..Len(dumps) : j # k => dumps[j].id # dumps[k].id
    BY DEF TInv, Distinct
  <2>2. \A j, k \in 1..Len(dumps') : j # k => dumps'[j].id # dumps'[k].id
    BY <2>1
  <2> QED BY <1>3, <2>2 DEF TInv, Distinct
<1>8. Line'
  <2>1. Memory' \subseteq Memory
    BY <1>1, <1>2
  <2> QED BY <1>2, <2>1 DEF TInv, Line
<1>9. Places' /\ Settled' /\ Wanting'
  BY DEF Places, Settled, Wanting, Holding
<1>10. Books'
  <2>1. ReceiptsAgree'
    <3>1. \A q \in {dumps', closing'} : \A k \in 1..Len(q) :
             q[k].processed = Cardinality(keys'[q[k].id])
      <4>1. 1..Len(closing') = {}
        OBVIOUS
      <4> QED BY <4>1
    <3> QED BY <1>3, <3>1 DEF TInv, Books, ReceiptsAgree
  <2>2. taken[1].index \in 1..sealed /\ taken[1].index \notin InRing
    <3>1. taken[1].index \in Nat /\ taken[1].index \in Segments
      BY <1>1, Shapes, SlotShape DEF TInv
    <3>2. taken[1].index <= sealed
      BY <1>1 DEF TInv, Line
    <3>3. taken[1].index \notin InRing
      BY <1>1 DEF TInv, Line
    <3> QED BY <1>4, <3>1, <3>2, <3>3 DEF Segments
  <2>3. \A d \in Dumps : keys[d] \subseteq 1..sealed /\ keys[d] \cap InRing = {}
    BY DEF TInv, Books
  <2>4. \A d \in Dumps : keys'[d] \subseteq 1..sealed' /\ keys'[d] \cap (InRing' \cup InFlight') = {}
    BY <1>2, <2>2, <2>3
  <2> QED BY <2>1, <2>4 DEF Books
<1>11. Owing'
  <2>1. \A d \in Dumps : owed'[d] \subseteq owed[d]
    OBVIOUS
  <2>2. \A d \in Dumps : owed'[d] # {} => d \in OpenDumps' /\ request'[d] = request[d]
    BY <1>3 DEF TInv, Owing
  <2>3. \A slot \in Memory : (\E d \in Dumps : slot.index \in owed'[d]) => slot \in Memory'
    BY <1>1, <1>2
  <2> QED BY <2>1, <2>2, <2>3, OwingFrame DEF TInv
<1> QED BY <1>5, <1>6, <1>7, <1>8, <1>9, <1>10, <1>11 DEF TInv

LEMMA StageSucceedsKeeps == TInv /\ StageSucceeds => TInv'
<1> SUFFICES ASSUME TInv, StageSucceeds PROVE TInv'
  OBVIOUS
<1> USE DEF clients, writer
<1> DEFINE slot == taken[1]
           i == slot.index
           M == Matched(slot)
           ids == {dumps[k].id : k \in M}
<1>1. UNCHANGED <<lifecycle, now, ring, sealed, activeStart, writerDone, permit,
                  request, gate, answer, receipt, triggers, channel, rxOpen, closing,
                  hold, cursor, asOf, final, manifest, live>>
      /\ pc = "stage" /\ pc' = "wait" /\ taken' = <<>> /\ driver \in {"polling", "draining"}
  BY DEF StageSucceeds, At, RunLoopRuns, Polled
<1>2. /\ dumps' = [k \in 1..Len(dumps) |->
             IF k \in M THEN [dumps[k] EXCEPT !.processed = @ + 1] ELSE dumps[k]]
      /\ keys' = [d \in Dumps |-> IF d \in ids THEN keys[d] \cup {i} ELSE keys[d]]
      /\ owed' = [d \in Dumps |-> IF d \in ids THEN owed[d] \ {i} ELSE owed[d]]
  BY DEF StageSucceeds
<1>3. taken # <<>> /\ closing = <<>> /\ live' \in BOOLEAN
  BY <1>1 DEF TInv, Types, TypeOK, Places, Holding
<1>4. slot \in RingSlots /\ i \in InFlight /\ i \in Segments
  <2>1. slot \in RingSlots /\ InFlight = {i}
    BY <1>3, InFlightIsOne DEF TInv
  <2> QED BY <2>1, SlotShape
<1>5. /\ keys \in [Dumps -> SUBSET Segments] /\ owed \in [Dumps -> SUBSET Segments]
      /\ Len(dumps) \in Nat /\ \A k \in 1..Len(dumps) : dumps[k] \in ActiveDumps
  BY Shapes DEF TInv, Types, TypeOK
<1>6. \A k \in 1..Len(dumps) : k \in M <=> dumps[k].id \in ids
  BY DEF Matched
<1>7. \A d \in Dumps : owed'[d] \subseteq owed[d] \ {i}
  <2> SUFFICES ASSUME NEW d \in Dumps, i \in owed[d] PROVE d \in ids
    BY <1>2, <1>5
  <2>1. \E k \in Matched(taken[1]) : dumps[k].id = d
    BY <1>3, OwedIsMatched
  <2> QED BY <2>1
<1>8. \A d \in Dumps : keys'[d] # {} => d \in OpenDumps
  <2> SUFFICES ASSUME NEW d \in Dumps, keys'[d] # {} PROVE d \in OpenDumps
    OBVIOUS
  <2>1. CASE d \in ids
    BY <2>1 DEF OpenDumps, Matched
  <2>2. CASE d \notin ids
    BY <1>2, <2>2 DEF TInv, Books, ReceiptsAgree
  <2> QED BY <2>1, <2>2
<1>9. /\ keys' \in [Dumps -> SUBSET Segments] /\ owed' \in [Dumps -> SUBSET Segments]
      /\ \A d \in Dumps : keys'[d] \subseteq keys[d] \cup {i}
  <2> HIDE DEF ids, i
  <2> QED BY <1>2, <1>4, <1>5
<1>10. ASSUME NEW d \in Dumps
       PROVE  /\ Cardinality(keys[d] \cup {i}) = Cardinality(keys[d]) + 1
              /\ Cardinality(keys[d] \cup {i}) \in 0..MaxSegments
  <2>1. i \notin keys[d]
    BY <1>4 DEF TInv, Books
  <2>2. IsFiniteSet(Segments) /\ Cardinality(Segments) = MaxSegments
    <3>1. 1 \in Int /\ MaxSegments \in Int /\ MaxSegments \in Nat
      BY Bounds
    <3>2. /\ IsFiniteSet(1..MaxSegments)
          /\ Cardinality(1..MaxSegments) = IF 1 > MaxSegments THEN 0 ELSE MaxSegments - 1 + 1
      BY <3>1, FS_Interval
    <3> QED BY <3>1, <3>2 DEF Segments
  <2>3. keys[d] \in SUBSET Segments /\ keys[d] \cup {i} \in SUBSET Segments
    BY <1>4, <1>5
  <2> HIDE DEF i
  <2>4. IsFiniteSet(keys[d]) /\ IsFiniteSet(keys[d] \cup {i})
        /\ Cardinality(keys[d] \cup {i}) <= Cardinality(Segments)
    BY <2>2, <2>3, FS_Subset
  <2>5. Cardinality(keys[d] \cup {i}) = Cardinality(keys[d]) + 1
    BY <2>1, <2>4, FS_AddElement
  <2>6. Cardinality(keys[d] \cup {i}) \in Nat
    BY <2>4, FS_CardinalityType
  <2> QED BY <2>2, <2>4, <2>5, <2>6, Bounds
<1>11. ASSUME NEW k \in 1..Len(dumps)
       PROVE  /\ dumps'[k] \in ActiveDumps /\ dumps'[k].id = dumps[k].id
              /\ dumps'[k].processed = Cardinality(keys'[dumps[k].id])
  <2>1. dumps[k].id \in Dumps /\ dumps[k] \in ActiveDumps
    BY <1>5 DEF ActiveDumps
  <2>2. dumps[k].processed = Cardinality(keys[dumps[k].id])
    BY DEF TInv, Books, ReceiptsAgree
  <2>3. CASE k \in M
    <3>1. dumps'[k] = [dumps[k] EXCEPT !.processed = @ + 1]
      <4> HIDE DEF M
      <4> QED BY <1>2, <2>3
    <3>2. keys'[dumps[k].id] = keys[dumps[k].id] \cup {i}
      <4> HIDE DEF M, ids, i
      <4> QED BY <1>2, <1>6, <2>1, <2>3
    <3>3. dumps[k].processed + 1 = Cardinality(keys'[dumps[k].id]) /\ dumps[k].processed + 1 \in 0..MaxSegments
      <4> HIDE DEF M, ids, i
      <4> QED BY <1>10, <2>1, <2>2, <3>2
    <3> HIDE DEF M, ids, i
    <3> QED BY <2>1, <3>1, <3>3 DEF ActiveDumps
  <2>4. CASE k \notin M
    <3>1. dumps'[k] = dumps[k]
      <4> HIDE DEF M
      <4> QED BY <1>2, <2>4
    <3>2. keys'[dumps[k].id] = keys[dumps[k].id]
      <4> HIDE DEF M, ids, i
      <4> QED BY <1>2, <1>6, <2>1, <2>4
    <3> HIDE DEF M, ids, i
    <3> QED BY <2>1, <2>2, <3>1, <3>2
  <2> QED BY <2>3, <2>4
<1>12. dumps' \in Seq(ActiveDumps) /\ Len(dumps') = Len(dumps)
  <2> HIDE DEF M
  <2>1. dumps' \in [1..Len(dumps) -> ActiveDumps]
    BY <1>2, <1>11
  <2> QED BY <1>5, <2>1, IsASeq, LenProperties
<1> QED BY <1>1, <1>3, <1>7, <1>8, <1>9, <1>11, <1>12, SegmentLeaves

LEMMA FailSegmentKeeps ==
    ASSUME TInv, At("stage"), FailSegment, live' \in BOOLEAN,
           UNCHANGED <<lifecycle, now, ring, writer, permit, clients, rxOpen, closing,
                       hold, cursor, asOf, final, stages>>
    PROVE  TInv'
<1> USE DEF clients, writer, stages
<1> DEFINE M == Matched(taken[1])
<1>1. pc = "stage" /\ pc' = "wait" /\ taken' = <<>> /\ driver \in {"polling", "draining"}
  BY DEF FailSegment, At, RunLoopRuns, Polled
<1>2. /\ dumps' = [k \in 1..Len(dumps) |->
             IF k \in M THEN [dumps[k] EXCEPT !.error = TRUE] ELSE dumps[k]]
      /\ owed' = [d \in Dumps |-> owed[d] \ {taken[1].index}]
  BY DEF FailSegment
<1>3. taken # <<>> /\ closing = <<>>
  BY <1>1 DEF TInv, Places, Holding
<1>4. /\ keys \in [Dumps -> SUBSET Segments] /\ owed \in [Dumps -> SUBSET Segments]
      /\ Len(dumps) \in Nat /\ \A k \in 1..Len(dumps) : dumps[k] \in ActiveDumps
  BY Shapes DEF TInv, Types, TypeOK
<1>5. ASSUME NEW k \in 1..Len(dumps)
      PROVE  /\ dumps'[k] \in ActiveDumps /\ dumps'[k].id = dumps[k].id
             /\ dumps'[k].processed = Cardinality(keys'[dumps[k].id])
  <2>1. dumps[k] \in ActiveDumps
    BY <1>4
  <2>2. dumps[k].processed = Cardinality(keys[dumps[k].id])
    BY DEF TInv, Books, ReceiptsAgree
  <2>3. dumps'[k] \in {dumps[k], [dumps[k] EXCEPT !.error = TRUE]}
    <3> HIDE DEF M
    <3> QED BY <1>2
  <2>4. /\ dumps'[k] \in ActiveDumps /\ dumps'[k].id = dumps[k].id
        /\ dumps'[k].processed = dumps[k].processed
    BY <2>1, <2>3 DEF ActiveDumps
  <2> QED BY <2>2, <2>4
<1>6. dumps' \in Seq(ActiveDumps) /\ Len(dumps') = Len(dumps)
  <2> HIDE DEF M
  <2>1. dumps' \in [1..Len(dumps) -> ActiveDumps]
    BY <1>2, <1>5
  <2> QED BY <1>4, <2>1, IsASeq, LenProperties
<1>7. /\ owed' \in [Dumps -> SUBSET Segments]
      /\ \A d \in Dumps : owed'[d] \subseteq owed[d] \ {taken[1].index}
  BY <1>2, <1>4
<1>8. \A d \in Dumps : keys'[d] # {} => d \in OpenDumps
  BY DEF TInv, Books, ReceiptsAgree
<1> QED BY <1>1, <1>3, <1>4, <1>5, <1>6, <1>7, <1>8, SegmentLeaves

LEMMA StageFailsKeeps == TInv /\ (StageFails \/ StageRetries) => TInv'
<1> SUFFICES ASSUME TInv, StageFails \/ StageRetries PROVE TInv'
  OBVIOUS
<1>1. CASE StageFails
  BY <1>1, FailSegmentKeeps DEF StageFails
<1>2. CASE StageRetries /\ taken[1].retry + 1 > RetryBudget
  BY <1>2, FailSegmentKeeps DEF StageRetries
<1>3. CASE StageRetries /\ ~(taken[1].retry + 1 > RetryBudget)
  <2> USE DEF clients, writer, stages
  <2>1. UNCHANGED <<lifecycle, now, ring, sealed, activeStart, writerDone, permit, request,
                    gate, answer, receipt, triggers, channel, rxOpen, dumps, closing, hold,
                    cursor, asOf, final, taken, keys, manifest, owed>>
        /\ pc = "stage" /\ pc' = "backoff" /\ live' \in BOOLEAN
        /\ driver \in {"polling", "draining"}
    BY <1>3 DEF StageRetries, At, RunLoopRuns, Polled
  <2>2. taken # <<>> /\ closing = <<>>
    BY <2>1 DEF TInv, Places, Holding
  <2>3. taken[1].retry < RetryBudget
    <3>1. taken[1].retry \in Nat
      BY <2>2, InFlightIsOne, SlotShape DEF TInv
    <3> QED BY <1>3, <3>1, Bounds
  <2>4. Types'
    <3>1. LifecycleTypeOK'
      BY <2>1, LifecycleTypes DEF TInv, Types, TypeOK
    <3> QED BY <2>1, <3>1 DEF TInv, Types, TypeOK
  <2>5. Places' /\ Settled'
    BY <2>1, <2>2, <2>3 DEF TInv, Places, Settled, Holding, lifecycle
  <2> QED BY <2>1, <2>4, <2>5, QuietStep
<1> QED BY <1>1, <1>2, <1>3

-----------------------------------------------------------------------------
(* Dumps that resolve                                                      *)

(* No more dumps are open than were requested.                             *)
LEMMA FewDumps ==
    ASSUME Types, Distinct
    PROVE  Len(dumps) <= MaxDumps
<1> DEFINE n == Len(dumps)
           f == [k \in 1..n |-> dumps[k].id]
<1>1. n \in Nat /\ MaxDumps \in Nat
  BY Shapes, Bounds
<1>2. f \in [1..n -> Dumps]
  BY Shapes DEF ActiveDumps
<1> HIDE DEF n
<1>3. /\ IsFiniteSet(1..n) /\ Cardinality(1..n) = IF 1 > n THEN 0 ELSE n - 1 + 1
      /\ IsFiniteSet(1..MaxDumps)
      /\ Cardinality(1..MaxDumps) = IF 1 > MaxDumps THEN 0 ELSE MaxDumps - 1 + 1
  BY <1>1, FS_Interval
<1>4. Cardinality(1..n) = n /\ Cardinality(1..MaxDumps) = MaxDumps
  BY <1>1, <1>3
<1>5. ~(MaxDumps < n)
  <2> SUFFICES ASSUME MaxDumps < n PROVE FALSE
    OBVIOUS
  <2>1. \E j, k \in 1..n : j # k /\ f[j] = f[k]
    <3> HIDE DEF f
    <3> QED BY <1>2, <1>3, <1>4, FS_PigeonHole DEF Dumps
  <2> QED BY <2>1 DEF Distinct, n
<1> QED BY <1>1, <1>5 DEF n

LEMMA DumpMoves ==
    ASSUME TInv, Places', closing = <<>>, taken = <<>>,
           NEW k \in 1..Len(dumps), dumps' \in Seq(ActiveDumps), Drops(dumps, k, dumps'),
           NEW x \in ActiveDumps, closing' = <<x>>,
           x.id = dumps[k].id, x.processed = dumps[k].processed,
           UNCHANGED <<lifecycle, now, ring, sealed, activeStart, writerDone, permit,
                       request, gate, answer, receipt, triggers, channel, pc, rxOpen, hold,
                       cursor, asOf, final, taken, live, keys, manifest, owed>>
    PROVE  TInv'
<1>1. closing' \in Seq(ActiveDumps) /\ Len(closing') = 1 /\ closing'[1] = x /\ 1..Len(closing') = {1}
  OBVIOUS
<1>2. Types'
  <2>1. LifecycleTypeOK'
    BY LifecycleTypes DEF TInv, Types, TypeOK
  <2>2. Len(closing') <= 1
    BY <1>1
  <2> QED BY <1>1, <2>1, <2>2 DEF TInv, Types, TypeOK
<1>3. now \in Nat
  BY Shapes DEF TInv
<1>4. Asked' /\ Gating' /\ Line'
  BY <1>3, AskedFrame, GatingFrame, LineFrame DEF TInv
<1>5. \A i, j \in 1..Len(dumps) : i # j => dumps[i].id # dumps[j].id
  BY DEF TInv, Distinct
<1>6. Ids(dumps') = Ids(dumps) \ {x.id} /\ x.id \in Ids(dumps)
  <2>1. ASSUME NEW j \in 1..Len(dumps') PROVE dumps'[j].id \in Ids(dumps) \ {x.id}
    <3>1. PICK i \in (1..Len(dumps)) \ {k} : dumps'[j] = dumps[i]
      BY DEF Drops
    <3> QED BY <1>5, <3>1 DEF Ids
  <2>2. ASSUME NEW i \in 1..Len(dumps), i # k PROVE dumps[i].id \in Ids(dumps')
    <3>1. PICK j \in 1..Len(dumps') : dumps'[j] = dumps[i]
      BY <2>2 DEF Drops
    <3> QED BY <3>1 DEF Ids
  <2>3. x.id \in Ids(dumps)
    BY DEF Ids
  <2> QED BY <2>1, <2>2, <2>3 DEF Ids
<1>7. Ids(closing') = {x.id} /\ Ids(closing) = {}
  <2>1. 1..Len(closing) = {}
    OBVIOUS
  <2> QED BY <1>1, <2>1 DEF Ids
<1>8. OpenDumps' = OpenDumps /\ Queued' = Queued
  <2>1. OpenDumps' = Ids(dumps') \cup Ids(closing') /\ OpenDumps = Ids(dumps) \cup Ids(closing)
    BY DEF OpenDumps, Ids
  <2> QED BY <1>6, <1>7, <2>1 DEF Queued
<1>9. Distinct'
  <2>1. \A a, b \in 1..Len(dumps') : a # b => dumps'[a].id # dumps'[b].id
    <3> SUFFICES ASSUME NEW a \in 1..Len(dumps'), NEW b \in 1..Len(dumps'), a # b
                 PROVE  dumps'[a].id # dumps'[b].id
      OBVIOUS
    <3>1. PICK i, j \in (1..Len(dumps)) \ {k} : i # j /\ dumps'[a] = dumps[i] /\ dumps'[b] = dumps[j]
      BY DEF Drops
    <3> QED BY <1>5, <3>1
  <2>2. Ids(dumps)' \cap Ids(closing)' = {}
    <3>1. Ids(dumps)' = Ids(dumps') /\ Ids(closing)' = Ids(closing')
      BY DEF Ids
    <3> QED BY <1>6, <1>7, <3>1
  <2> QED BY <1>8, <2>1, <2>2 DEF TInv, Distinct
<1>10. Books'
  <2>1. \A i \in 1..Len(dumps) : dumps[i].processed = Cardinality(keys[dumps[i].id])
    BY DEF TInv, Books, ReceiptsAgree
  <2>2. ASSUME NEW j \in 1..Len(dumps')
        PROVE  dumps'[j].processed = Cardinality(keys'[dumps'[j].id])
    <3>1. PICK i \in (1..Len(dumps)) \ {k} : dumps'[j] = dumps[i]
      BY DEF Drops
    <3> QED BY <2>1, <3>1
  <2>3. \A j \in 1..Len(closing') : closing'[j].processed = Cardinality(keys'[closing'[j].id])
    BY <1>1, <2>1
  <2>4. ReceiptsAgree'
    BY <1>8, <2>2, <2>3 DEF TInv, Books, ReceiptsAgree
  <2>5. InRing' = InRing /\ InFlight' = InFlight
    BY DEF InRing, InFlight, Indices
  <2> QED BY <2>4, <2>5 DEF TInv, Books
<1>11. Owing'
  <2>1. Memory' = Memory
    BY DEF Memory
  <2>2. \A d \in Dumps : owed[d] # {} => d \in OpenDumps
    BY DEF TInv, Owing
  <2> QED BY <1>8, <2>1, <2>2, OwingFrame DEF TInv
<1>12. Settled' /\ Wanting'
  BY DEF TInv, Settled, Wanting, lifecycle
<1> QED BY <1>2, <1>4, <1>9, <1>10, <1>11, <1>12 DEF TInv

LEMMA ResolveTurnKeeps == TInv /\ ResolveTurn => TInv'
<1> SUFFICES ASSUME TInv, ResolveTurn PROVE TInv'
  OBVIOUS
<1> USE DEF clients, writer, stages
<1>1. UNCHANGED <<lifecycle, now, ring, sealed, activeStart, writerDone, permit,
                  request, gate, answer, receipt, triggers, channel, pc, rxOpen, hold,
                  asOf, final, taken, live, keys, manifest, owed>>
      /\ pc \in {"resolve", "expire"} /\ closing = <<>> /\ cursor <= Len(dumps)
  BY DEF ResolveTurn
<1>2. taken = <<>>
  BY <1>1 DEF TInv, Places, Holding
<1>3. dumps \in Seq(ActiveDumps) /\ cursor \in 1..(MaxDumps + 1) /\ Len(dumps) \in Nat
      /\ MaxDumps \in Nat /\ Len(dumps) <= MaxDumps
  BY Shapes, Bounds, FewDumps DEF TInv, Types, TypeOK
<1>4. cursor \in 1..Len(dumps) /\ cursor + 1 \in 1..(MaxDumps + 1)
  BY <1>1, <1>3
<1>5. CASE Due(dumps[cursor]) /\ (pc = "resolve" => ~hold)
  <2> DEFINE x == IF pc = "expire" THEN MarkUnavailable(dumps[cursor]) ELSE dumps[cursor]
  <2>1. closing' = <<x>> /\ dumps' = SwapRemove(dumps, cursor) /\ cursor' = cursor
    BY <1>5 DEF ResolveTurn
  <2>2. x \in ActiveDumps /\ x.id = dumps[cursor].id /\ x.processed = dumps[cursor].processed
    <3>1. dumps[cursor] \in ActiveDumps
      BY <1>3, <1>4, ElementOfSeq
    <3> QED BY <3>1 DEF MarkUnavailable, ActiveDumps
  <2> HIDE DEF x
  <2>3. dumps' \in Seq(ActiveDumps) /\ Drops(dumps, cursor, dumps')
    BY <1>3, <1>4, <2>1, SwapDrops
  <2>4. Places'
    BY <1>1, <1>2, <1>5, <2>1 DEF TInv, Places, Holding, lifecycle
  <2> QED BY <1>1, <1>2, <1>4, <2>1, <2>2, <2>3, <2>4, DumpMoves
<1>6. CASE ~(Due(dumps[cursor]) /\ (pc = "resolve" => ~hold))
  <2>1. UNCHANGED <<closing, dumps>> /\ cursor' = cursor + 1
    BY <1>6 DEF ResolveTurn
  <2>2. Types'
    <3>1. LifecycleTypeOK' /\ cursor' \in 1..(MaxDumps + 1)
      BY <1>1, <1>4, <2>1, LifecycleTypes DEF TInv, Types, TypeOK
    <3> QED BY <1>1, <2>1, <3>1 DEF TInv, Types, TypeOK
  <2>3. Places' /\ Settled'
    BY <1>1, <1>2, <2>1 DEF TInv, Places, Settled, Holding, lifecycle
  <2> QED BY <1>1, <2>1, <2>2, <2>3, QuietStep
<1> QED BY <1>5, <1>6

LEMMA FinishTurnKeeps == TInv /\ FinishTurn => TInv'
<1> SUFFICES ASSUME TInv, FinishTurn PROVE TInv'
  OBVIOUS
<1> USE DEF clients, writer, stages
<1>1. UNCHANGED <<lifecycle, now, ring, sealed, activeStart, writerDone, permit,
                  request, gate, answer, receipt, triggers, channel, pc, rxOpen, hold,
                  cursor, asOf, final, taken, live, keys, manifest, owed>>
      /\ pc = "finish" /\ closing = <<>> /\ dumps # <<>>
      /\ closing' = <<Head(dumps)>> /\ dumps' = Tail(dumps)
  BY DEF FinishTurn, At
<1>2. taken = <<>>
  BY <1>1 DEF TInv, Places, Holding
<1>3. dumps \in Seq(ActiveDumps) /\ Len(dumps) \in Nat
  BY Shapes DEF TInv, Types, TypeOK
<1>4. /\ dumps' \in Seq(ActiveDumps) /\ Drops(dumps, 1, dumps')
      /\ Len(dumps) >= 1 /\ Head(dumps) = dumps[1] /\ Head(dumps) \in ActiveDumps
  BY <1>1, <1>3, TailDrops
<1>5. 1 \in 1..Len(dumps)
  BY <1>3, <1>4
<1>6. Places'
  BY <1>1, <1>2 DEF TInv, Places, Holding, lifecycle
<1>7. PICK x \in ActiveDumps : x = dumps[1] /\ closing' = <<x>>
  BY <1>1, <1>4
<1> QED BY <1>1, <1>2, <1>4, <1>5, <1>6, <1>7, DumpMoves

(* resolve_dump answers the request and forgets the dump's keys.           *)
LEMMA ResolveKeeps == TInv /\ Resolve => TInv'
<1> SUFFICES ASSUME TInv, Resolve PROVE TInv'
  OBVIOUS
<1> USE DEF writer
<1> DEFINE dump == closing[1]
           d == dump.id
<1>1. UNCHANGED <<lifecycle, now, ring, sealed, activeStart, writerDone, permit,
                  request, gate, triggers, channel, pc, rxOpen, dumps, hold,
                  cursor, asOf, final, taken, live>>
      /\ closing # <<>> /\ closing' = <<>>
  BY DEF Resolve
<1>2. PICK m \in ManifestOf(dump) : manifest' = [manifest EXCEPT ![d] = m]
  BY DEF Resolve
<1>3. /\ keys' = [keys EXCEPT ![d] = {}]
      /\ answer' = [answer EXCEPT ![d] = Result(dump)]
      /\ receipt' = [receipt EXCEPT ![d] = dump.processed]
      /\ owed' = [owed EXCEPT ![d] = {}]
  BY DEF Resolve
<1>4. Len(closing) = 1 /\ 1..Len(closing) = {1} /\ dump \in ActiveDumps
  <2>1. closing \in Seq(ActiveDumps) /\ Len(closing) <= 1
    BY DEF TInv, Types, TypeOK
  <2>2. PICK n \in Nat : n = Len(closing) /\ n # 0
    BY <1>1, <2>1, EmptySeq
  <2>3. n = 1
    BY <2>1, <2>2
  <2>4. Len(closing) = 1 /\ 1..Len(closing) = {1}
    BY <2>2, <2>3
  <2>5. closing[1] \in ActiveDumps
    BY <2>1, <2>4, ElementOfSeq
  <2> QED BY <2>4, <2>5
<1>5. /\ d \in Dumps /\ dump.processed \in Nat
      /\ dump.processed = Cardinality(keys[d])
  <2>1. d \in Dumps /\ dump.processed \in 0..MaxSegments
    BY <1>4 DEF ActiveDumps
  <2>2. closing[1].processed = Cardinality(keys[closing[1].id])
    BY <1>4 DEF TInv, Books, ReceiptsAgree
  <2> QED BY <2>1, <2>2, Bounds
<1>6. /\ keys \in [Dumps -> SUBSET Segments] /\ answer \in [Dumps -> Answers]
      /\ receipt \in [Dumps -> Nat] /\ owed \in [Dumps -> SUBSET Segments]
      /\ manifest \in [Dumps -> (SUBSET Segments) \cup {NoManifest}]
  BY DEF TInv, Types, TypeOK
<1>7. OpenDumps = Ids(dumps) \cup {d} /\ OpenDumps' = Ids(dumps) /\ Ids(closing) = {d}
      /\ Ids(closing)' = {} /\ Ids(dumps)' = Ids(dumps) /\ Queued' = Queued
      /\ d \notin Ids(dumps)
  <2>1. 1..Len(closing') = {}
    BY <1>1
  <2>2. Ids(dumps) \cap Ids(closing) = {}
    BY DEF TInv, Distinct
  <2> QED BY <1>1, <1>4, <2>1, <2>2 DEF OpenDumps, Ids, Queued
<1> HIDE DEF d, dump
<1>8. answer[d] = "open" /\ d \notin Queued
  BY <1>7 DEF TInv, Distinct
<1>9. /\ Result(dump) \in {"ok", "pipeline", "unavailable"}
      /\ Result(dump) # "ok" => dump.processed = 0 /\ m = NoManifest
      /\ m \in {keys[d], NoManifest}
  BY <1>2 DEF Result, ManifestOf, Failed, d
<1>10. /\ \A e \in Dumps : e # d => /\ keys'[e] = keys[e] /\ answer'[e] = answer[e]
                                    /\ receipt'[e] = receipt[e] /\ owed'[e] = owed[e]
                                    /\ manifest'[e] = manifest[e]
       /\ keys'[d] = {} /\ answer'[d] = Result(dump) /\ receipt'[d] = dump.processed
       /\ owed'[d] = {} /\ manifest'[d] = m
  BY <1>2, <1>3, <1>5, <1>6
<1>11. Types'
  <2>1. LifecycleTypeOK'
    BY <1>1, LifecycleTypes DEF TInv, Types, TypeOK
  <2>2. /\ keys' \in [Dumps -> SUBSET Segments] /\ answer' \in [Dumps -> Answers]
        /\ receipt' \in [Dumps -> Nat] /\ owed' \in [Dumps -> SUBSET Segments]
    <3>1. keys' \in [Dumps -> SUBSET Segments] /\ owed' \in [Dumps -> SUBSET Segments]
      BY <1>3, <1>6
    <3>2. receipt' \in [Dumps -> Nat]
      BY <1>3, <1>5, <1>6
    <3>3. Result(dump) \in Answers
      BY <1>9 DEF Answers
    <3>4. answer' \in [Dumps -> Answers]
      BY <1>3, <1>6, <3>3
    <3> QED BY <3>1, <3>2, <3>4
  <2>3. manifest' \in [Dumps -> (SUBSET Segments) \cup {NoManifest}]
    <3>1. m \in (SUBSET Segments) \cup {NoManifest}
      BY <1>5, <1>6, <1>9
    <3> QED BY <1>2, <1>6, <3>1
  <2>4. closing' \in Seq(ActiveDumps) /\ Len(closing') <= 1
    BY <1>1, EmptySeq
  <2> QED BY <1>1, <2>1, <2>2, <2>3, <2>4 DEF TInv, Types, TypeOK
<1>12. now \in Nat /\ d \in 1..Len(request) /\ Len(request) \in Nat
  BY <1>7, Shapes, OpenAsked DEF TInv
<1>13. Asked'
  <2>1. ~(d > Len(request))
    BY <1>12
  <2>2. \A e \in Dumps : e > Len(request) => answer'[e] = answer[e]
    BY <1>10, <2>1
  <2> QED BY <1>1, <1>12, <2>2, AskedFrame DEF TInv
<1>14. Distinct'
  <2>1. \A e \in OpenDumps' \cup Queued' : e \in Dumps /\ e # d /\ answer[e] = "open"
    BY <1>7, <1>8, Shapes DEF TInv, Distinct
  <2>2. OpenDumps' \cap Queued' = {}
    BY <1>7 DEF TInv, Distinct
  <2> QED BY <1>1, <1>7, <1>10, <2>1, <2>2 DEF TInv, Distinct
<1>15. Line' /\ Wanting'
  <2>1. Line'
    BY <1>1, LineFrame DEF TInv
  <2>2. taken = <<>>
    BY <1>1 DEF TInv, Places, Holding
  <2> QED BY <1>1, <2>1, <2>2 DEF Wanting
<1>16. Places' /\ Settled'
  <2>1. Places'
    BY <1>1 DEF TInv, Places, lifecycle
  <2>2. Settled'
    BY <1>1, <1>10 DEF TInv, Settled, lifecycle
  <2> QED BY <2>1, <2>2
<1>17. Books'
  <2>1. ASSUME NEW e \in Dumps
        PROVE  /\ manifest'[e] # NoManifest =>
                    answer'[e] = "ok" /\ Cardinality(manifest'[e]) = receipt'[e]
               /\ answer'[e] \in {"pipeline", "unavailable"} => receipt'[e] = 0
               /\ keys'[e] # {} => e \in OpenDumps'
    <3>1. CASE e = d
      BY <1>5, <1>9, <1>10, <3>1
    <3>2. CASE e # d
      <4>1. /\ manifest[e] # NoManifest => answer[e] = "ok" /\ Cardinality(manifest[e]) = receipt[e]
            /\ answer[e] \in {"pipeline", "unavailable"} => receipt[e] = 0
            /\ keys[e] # {} => e \in OpenDumps
        BY DEF TInv, Books, ReceiptsAgree
      <4> QED BY <1>7, <1>10, <3>2, <4>1
    <3> QED BY <3>1, <3>2
  <2>2. \A k \in 1..Len(dumps) : dumps[k].id \in Ids(dumps) /\ dumps[k].id \in Dumps
    BY Shapes DEF TInv, Ids, ActiveDumps
  <2>3. \A k \in 1..Len(dumps) : dumps[k].processed = Cardinality(keys[dumps[k].id])
    BY DEF TInv, Books, ReceiptsAgree
  <2>4. \A k \in 1..Len(dumps') : dumps'[k].processed = Cardinality(keys'[dumps'[k].id])
    BY <1>1, <1>7, <1>10, <2>2, <2>3
  <2>5. 1..Len(closing') = {}
    BY <1>1
  <2>6. ReceiptsAgree'
    BY <2>1, <2>4, <2>5 DEF ReceiptsAgree
  <2>7. InRing' = InRing /\ InFlight' = InFlight
    BY <1>1 DEF InRing, InFlight, Indices
  <2>8. \A e \in Dumps : keys'[e] \subseteq keys[e]
    BY <1>10
  <2> QED BY <1>1, <2>6, <2>7, <2>8 DEF TInv, Books
<1>18. Owing'
  <2>1. Memory' = Memory
    BY <1>1 DEF Memory
  <2>2. \A e \in Dumps : owed[e] # {} => e \in OpenDumps
    BY DEF TInv, Owing
  <2>3. \A e \in Dumps : owed'[e] # {} => e \in OpenDumps'
    BY <1>7, <1>10, <2>2
  <2>4. \A e \in Dumps : owed'[e] \subseteq owed[e]
    BY <1>10
  <2> QED BY <1>1, <2>1, <2>3, <2>4, OwingFrame DEF TInv
<1>19. Gating'
  <2>1. \A e \in 1..Len(request) : e \in Dumps
    BY Shapes, Bounds DEF TInv, Asked, Dumps
  <2>2. \A e \in 1..Len(request) : answer[e] = "rejected" <=> answer'[e] = "rejected"
    BY <1>8, <1>9, <1>10, <2>1
  <2> QED BY <1>1, <1>12, <2>2, GatingFrame DEF TInv
<1> QED BY <1>11, <1>13, <1>14, <1>15, <1>16, <1>17, <1>18, <1>19 DEF TInv

-----------------------------------------------------------------------------
(* The end of the run loop, and a dump that opens                          *)

(* Every request that is open or queued reads WorkerStopped.               *)
LEMMA EverythingStops ==
    ASSUME TInv, LifecycleTypeOK', NEW D, AnswerStopped(D), D \subseteq OpenDumps \cup Queued,
           dumps' = <<>>, closing' = <<>>, channel' = <<>>, taken' = <<>>,
           \A d \in Dumps : keys'[d] = {} /\ owed'[d] = {},
           keys' \in [Dumps -> SUBSET Segments], owed' \in [Dumps -> SUBSET Segments],
           pc' = pc \/ pc' = "closed",
           pc' \in Holding => driver' \in {"unwound", "gone"},
           UNCHANGED <<now, ring, sealed, activeStart, writerDone, permit, request, gate,
                       receipt, triggers, rxOpen, hold, cursor, asOf, final, live, manifest>>
    PROVE  TInv'
<1>1. answer \in [Dumps -> Answers]
  BY DEF TInv, Types, TypeOK
<1>2. answer' = [d \in Dumps |-> IF d \in D THEN "stopped" ELSE answer[d]]
  BY DEF AnswerStopped
<1>3. \A d \in Dumps : answer'[d] = answer[d] \/ (answer[d] = "open" /\ answer'[d] = "stopped")
  BY <1>2 DEF TInv, Distinct
<1>4. /\ 1..Len(dumps') = {} /\ 1..Len(closing') = {} /\ 1..Len(channel') = {}
      /\ 1..Len(taken') = {} /\ Len(taken') <= 1 /\ Len(closing') <= 1
  OBVIOUS
<1>5. /\ OpenDumps' = {} /\ Queued' = {} /\ Ids(dumps)' = {} /\ InFlight' = {}
      /\ InRing' = InRing /\ Memory' \subseteq Memory
  BY <1>4 DEF OpenDumps, Queued, Ids, InFlight, InRing, Indices, Memory
<1>6. Types'
  <2>1. answer' \in [Dumps -> Answers]
    BY <1>1, <1>2 DEF Answers
  <2>2. /\ dumps' \in Seq(ActiveDumps) /\ closing' \in Seq(ActiveDumps) /\ channel' \in Seq(Dumps)
        /\ taken' \in Seq(RingSlots) /\ ring'.slots \in Seq(RingSlots)
    BY EmptySeq, Shapes DEF TInv
  <2>3. \A q \in {ring'.slots, taken'} : q \in Seq(Slots(Segments, {1}, 0..RetryBudget, Times))
    BY <2>2 DEF RingSlots
  <2> QED BY <1>4, <2>1, <2>2, <2>3 DEF TInv, Types, TypeOK
<1>7. now \in Nat /\ \A e \in 1..Len(request) : e \in Dumps
  BY Shapes, Bounds DEF TInv, Asked, Dumps
<1>8. Asked'
  <2>1. \A d \in Dumps : d > Len(request) => answer'[d] = answer[d]
    BY <1>3 DEF TInv, Asked
  <2> QED BY <1>7, <2>1, AskedFrame DEF TInv
<1>9. Distinct'
  BY <1>4, <1>5 DEF Distinct
<1>10. Line'
  BY <1>5 DEF TInv, Line
<1>11. Places' /\ Settled' /\ Wanting' /\ Owing'
  BY DEF Places, Settled, Wanting, Owing
<1>12. Books'
  <2>1. ReceiptsAgree'
    BY <1>3, <1>4 DEF TInv, Books, ReceiptsAgree
  <2> QED BY <2>1 DEF Books
<1>13. Gating'
  BY <1>3, <1>7, GatingFrame DEF TInv
<1> QED BY <1>6, <1>8, <1>9, <1>10, <1>11, <1>12, <1>13 DEF TInv

LEMMA CloseKeeps == TInv /\ Close => TInv'
<1> SUFFICES ASSUME TInv, Close PROVE TInv'
  OBVIOUS
<1> USE DEF writer, stages
<1>1. UNCHANGED <<now, ring, sealed, activeStart, writerDone, permit, request, gate,
                  receipt, triggers, rxOpen, dumps, closing, hold, cursor, asOf, final,
                  taken, live, keys, manifest, owed>>
      /\ pc = "finish" /\ pc' = "closed" /\ closing = <<>> /\ dumps = <<>>
      /\ channel' = <<>> /\ AnswerStopped(Queued) /\ RunLoopReturns
  BY DEF Close, At
<1>2. taken = <<>>
  BY <1>1 DEF TInv, Places, Holding
<1>3. LifecycleTypeOK'
  BY <1>1, LifecycleTypes DEF TInv, Types, TypeOK
<1>4. OpenDumps = {}
  <2>1. 1..Len(dumps) = {} /\ 1..Len(closing) = {}
    BY <1>1
  <2> QED BY <2>1 DEF OpenDumps
<1>5. \A d \in Dumps : keys[d] = {} /\ owed[d] = {}
  BY <1>4 DEF TInv, Books, ReceiptsAgree, Owing
<1>6. keys \in [Dumps -> SUBSET Segments] /\ owed \in [Dumps -> SUBSET Segments]
  BY DEF TInv, Types, TypeOK
<1>7. \A d \in Dumps : keys'[d] = {} /\ owed'[d] = {}
  BY <1>1, <1>5
<1>8. Queued \subseteq OpenDumps \cup Queued /\ pc' \notin Holding
  BY <1>1 DEF Holding
<1> QED BY <1>1, <1>2, <1>3, <1>6, <1>7, <1>8, EverythingStops

LEMMA DropWorkerKeeps == TInv /\ DropWorker => TInv'
<1> SUFFICES ASSUME TInv, DropWorker PROVE TInv'
  OBVIOUS
<1> USE DEF writer
<1>1. UNCHANGED <<now, ring, sealed, activeStart, writerDone, permit, request, gate,
                  receipt, triggers, pc, rxOpen, hold, cursor, asOf, final, live, manifest>>
      /\ dumps' = <<>> /\ closing' = <<>> /\ channel' = <<>> /\ taken' = <<>>
      /\ AnswerStopped(OpenDumps \cup Queued)
      /\ keys' = [d \in Dumps |-> {}] /\ owed' = [d \in Dumps |-> {}]
      /\ DropRunFuture /\ driver' = "unwound"
  BY DEF DropWorker, DropRunFuture
<1>2. LifecycleTypeOK'
  BY <1>1, LifecycleTypes DEF TInv, Types, TypeOK
<1>3. /\ \A d \in Dumps : keys'[d] = {} /\ owed'[d] = {}
      /\ keys' \in [Dumps -> SUBSET Segments] /\ owed' \in [Dumps -> SUBSET Segments]
  BY <1>1
<1>4. OpenDumps \cup Queued \subseteq OpenDumps \cup Queued
  OBVIOUS
<1> QED BY <1>1, <1>2, <1>3, <1>4, EverythingStops

(* The deadline is anchored at the trigger, so it is within the window.    *)
LEMMA DeadlineBound ==
    ASSUME Types, Asked, NEW d \in 1..Len(request)
    PROVE  Deadline(request[d]) \in Times
<1> DEFINE r == request[d]
<1>1. /\ r.at \in Nat /\ r.forward \in Nat /\ now \in Nat /\ MaxTime \in Nat
      /\ r.at <= now /\ now <= MaxTime /\ r.at + r.forward <= MaxTime
  <2>1. r.at \in Nat /\ r.forward \in Nat /\ now \in Nat /\ MaxTime \in Nat
    BY Shapes, Bounds
  <2>2. r.at <= now /\ r.at + r.forward <= MaxTime
    BY DEF Asked
  <2>3. now \in Times
    BY DEF Types, TypeOK
  <2> QED BY <2>1, <2>2, <2>3 DEF Times
<1> HIDE DEF r
<1>2. Deadline(r) \in 0..MaxTime
  BY <1>1 DEF Deadline, Monus, NoDeadline
<1> QED BY <1>2 DEF r, Times

LEMMA RegisterKeeps == TInv /\ Register => TInv'
<1> SUFFICES ASSUME TInv, Register PROVE TInv'
  OBVIOUS
<1> USE DEF writer, stages
<1> DEFINE d == Head(channel)
           n == Len(dumps)
           x == [id |-> d, before |-> {dumps[k].id : k \in 1..Len(dumps)},
                 deadline |-> Deadline(request[d]), processed |-> 0,
                 error |-> FALSE, unavailable |-> FALSE]
           W == {ring.slots[k].index : k \in {j \in 1..Len(ring.slots) : InWindow(d, ring.slots[j])}}
<1>1. UNCHANGED <<lifecycle, now, ring, sealed, activeStart, writerDone, permit, request,
                  gate, answer, receipt, triggers, rxOpen, closing, hold, cursor, asOf, final,
                  taken, live, keys, manifest>>
      /\ pc = "select" /\ channel # <<>> /\ channel' = Tail(channel)
      /\ dumps' = Append(dumps, x) /\ owed' = [owed EXCEPT ![d] = W]
      /\ pc' \in {"wait", "check"}
  BY DEF Register, At, Top
<1>2. taken = <<>> /\ closing = <<>>
  BY <1>1 DEF TInv, Places, Holding
<1>3. /\ d \in Queued /\ d \in Dumps /\ answer[d] = "open"
      /\ channel' \in Seq(Dumps)
      /\ Queued' = Queued \ {d}
      /\ \A j, k \in 1..Len(channel') : j # k => channel'[j] # channel'[k]
  <2>1. Types /\ Distinct /\ channel # <<>> /\ channel' = Tail(channel)
    BY <1>1 DEF TInv
  <2> HIDE DEF d, x, W, n
  <2> QED BY <2>1, HeadGone DEF d
<1>4. d \in 1..Len(request)
  BY <1>3, OpenAsked DEF TInv
<1>5. x \in ActiveDumps /\ x.id = d /\ x.processed = 0
  <2>1. Deadline(request[d]) \in Times
    BY <1>4, DeadlineBound DEF TInv
  <2>2. {dumps[k].id : k \in 1..Len(dumps)} \in SUBSET Dumps
    BY Shapes DEF TInv, ActiveDumps
  <2>3. 0 \in 0..MaxSegments
    BY Bounds
  <2> HIDE DEF d
  <2> QED BY <1>3, <2>1, <2>2, <2>3 DEF ActiveDumps
<1>6. dumps \in Seq(ActiveDumps) /\ owed \in [Dumps -> SUBSET Segments] /\ n \in Nat /\ now \in Nat
  BY Shapes DEF TInv, Types, TypeOK
<1> HIDE DEF x, d
<1>7. /\ dumps' \in Seq(ActiveDumps) /\ Len(dumps') = n + 1
      /\ \A k \in 1..n : dumps'[k] = dumps[k]
      /\ dumps'[n + 1] = x
  BY <1>1, <1>5, <1>6, AppendProperties
<1> HIDE DEF n
<1>8. \A k \in 1..Len(dumps') : k \in 1..n \/ k = n + 1
  BY <1>6, <1>7
<1>9. 1..n \subseteq 1..Len(dumps') /\ n + 1 \in 1..Len(dumps')
  BY <1>6, <1>7
<1>10. Ids(dumps)' = Ids(dumps) \cup {d} /\ Ids(closing) = {} /\ Ids(closing)' = {}
  <2>1. 1..Len(closing) = {}
    BY <1>2
  <2>2. Ids(dumps) = {dumps[k].id : k \in 1..n}
    BY DEF Ids, n
  <2>3. Ids(dumps)' = {dumps'[k].id : k \in 1..Len(dumps')}
    BY DEF Ids
  <2>4. \A k \in 1..Len(dumps') : dumps'[k].id \in Ids(dumps) \cup {d}
    BY <1>5, <1>7, <1>8, <2>2
  <2>5. d \in Ids(dumps)' /\ \A k \in 1..n : dumps[k].id \in Ids(dumps)'
    BY <1>5, <1>7, <1>9, <2>3
  <2>6. Ids(closing) = {} /\ Ids(closing)' = {}
    BY <1>1, <2>1 DEF Ids
  <2> QED BY <2>2, <2>3, <2>4, <2>5, <2>6
<1>11. OpenDumps = Ids(dumps) /\ OpenDumps' = OpenDumps \cup {d} /\ d \notin OpenDumps
  <2>1. OpenDumps = Ids(dumps) \cup Ids(closing) /\ OpenDumps' = Ids(dumps)' \cup Ids(closing)'
    BY DEF OpenDumps, Ids
  <2>2. d \notin OpenDumps
    BY <1>3 DEF TInv, Distinct
  <2> QED BY <1>10, <2>1, <2>2
<1>12. W \subseteq Segments /\ \A i \in W : \E slot \in Memory : slot.index = i /\ Overlaps(d, slot)
  <2>1. ASSUME NEW k \in 1..Len(ring.slots), InWindow(d, ring.slots[k])
        PROVE  /\ ring.slots[k] \in Memory /\ ring.slots[k].index \in Segments
               /\ Overlaps(d, ring.slots[k])
    <3>1. ring.slots[k] \in Memory
      BY DEF Memory
    <3>2. ring.slots[k] \in RingSlots
      BY <3>1, Shapes DEF TInv
    <3>3. ring.slots[k].start <= ring.slots[k].seal
      BY <3>1 DEF TInv, Line
    <3>4. Overlaps(d, ring.slots[k])
      BY <1>4, <2>1, <3>2, <3>3, SameWindow DEF TInv
    <3> QED BY <3>1, <3>2, <3>4, SlotShape
  <2> QED BY <2>1
<1> HIDE DEF W
<1>13. \A e \in Dumps : owed'[e] = IF e = d THEN W ELSE owed[e]
  BY <1>1, <1>3, <1>6
<1>14. Types'
  <2>1. LifecycleTypeOK'
    BY <1>1, LifecycleTypes DEF TInv, Types, TypeOK
  <2>2. owed' \in [Dumps -> SUBSET Segments]
    BY <1>1, <1>6, <1>12
  <2> QED BY <1>1, <1>3, <1>7, <2>1, <2>2 DEF TInv, Types, TypeOK
<1>15. Asked' /\ Gating' /\ Line'
  BY <1>1, <1>6, AskedFrame, GatingFrame, LineFrame DEF TInv
<1>16. Distinct'
  <2>1. \A k \in 1..n : dumps[k].id # d
    BY <1>11 DEF Ids, n
  <2>2. \A j, k \in 1..n : j # k => dumps[j].id # dumps[k].id
    BY DEF TInv, Distinct, n
  <2>3. \A j, k \in 1..Len(dumps') : j # k => dumps'[j].id # dumps'[k].id
    BY <1>5, <1>7, <1>8, <2>1, <2>2
  <2>4. OpenDumps' \cap Queued' = {} /\ \A e \in OpenDumps' \cup Queued' : answer[e] = "open"
    BY <1>3, <1>11 DEF TInv, Distinct
  <2> QED BY <1>1, <1>3, <1>10, <2>3, <2>4 DEF Distinct
<1>17. Places' /\ Settled' /\ Wanting'
  BY <1>1, <1>2 DEF Places, Settled, Wanting, Holding
<1>18. Books'
  <2>1. keys[d] = {}
    BY <1>3, <1>11 DEF TInv, Books, ReceiptsAgree
  <2>2. Cardinality({}) = 0
    BY FS_EmptySet
  <2>3. \A k \in 1..n : dumps[k].processed = Cardinality(keys[dumps[k].id])
    BY DEF TInv, Books, ReceiptsAgree, n
  <2>4. \A k \in 1..Len(dumps') : dumps'[k].processed = Cardinality(keys[dumps'[k].id])
    BY <1>5, <1>7, <1>8, <2>1, <2>2, <2>3
  <2>5. 1..Len(closing') = {}
    BY <1>1, <1>2
  <2>6. ReceiptsAgree'
    BY <1>1, <1>11, <2>4, <2>5 DEF TInv, Books, ReceiptsAgree
  <2>7. InRing' = InRing /\ InFlight' = InFlight
    BY <1>1 DEF InRing, InFlight, Indices
  <2> QED BY <1>1, <2>6, <2>7 DEF TInv, Books
<1>19. Owing'
  <2> SUFFICES ASSUME NEW e \in Dumps, NEW i \in owed'[e]
               PROVE  e \in OpenDumps' /\ \E slot \in Memory' : slot.index = i /\ Overlaps(e, slot)'
    BY DEF Owing
  <2>1. Memory' = Memory
    BY <1>1 DEF Memory
  <2>2. e \in OpenDumps' /\ \E slot \in Memory : slot.index = i /\ Overlaps(e, slot)
    <3>1. CASE e = d
      BY <1>11, <1>12, <1>13, <3>1
    <3>2. CASE e # d
      BY <1>11, <1>13, <3>2 DEF TInv, Owing
    <3> QED BY <3>1, <3>2
  <2>3. \A slot : Overlaps(e, slot)' = Overlaps(e, slot)
    BY <1>1 DEF Overlaps
  <2> QED BY <2>1, <2>2, <2>3
<1> QED BY <1>14, <1>15, <1>16, <1>17, <1>18, <1>19 DEF TInv

-----------------------------------------------------------------------------
(* The theorems                                                            *)

LEMMA InitHolds == Init => TInv
<1> SUFFICES ASSUME Init PROVE TInv
  OBVIOUS
<1> USE DEF Init
<1>1. 0 \in Times /\ 0 \in 0..MaxSegments /\ 1 \in 1..(MaxDumps + 1) /\ 0 \in Nat
  BY Bounds DEF Times
<1>2. LifecycleTypeOK
  <2>1. NotStarted \in 1..Stopped
    BY ProcessorsAssumption DEF NotStarted, Stopped
  <2>2. NoCause \in Causes
    BY DEF Causes
  <2> QED BY <2>1, <2>2 DEF LifecycleInit, LifecycleTypeOK
<1>3. ring = [slots |-> <<>>, bytes |-> 0, dropped |-> 0] /\ ring.slots = <<>>
  BY DEF EmptyRing
<1>4. /\ 1..Len(ring.slots) = {} /\ 1..Len(taken) = {} /\ 1..Len(dumps) = {}
      /\ 1..Len(closing) = {} /\ 1..Len(channel) = {} /\ 1..Len(request) = {}
      /\ Len(taken) <= 1 /\ Len(closing) <= 1 /\ Len(request) = 0
  BY <1>3
<1>5. Types
  <2>1. /\ ring.slots \in Seq(RingSlots) /\ taken \in Seq(RingSlots)
        /\ dumps \in Seq(ActiveDumps) /\ closing \in Seq(ActiveDumps)
        /\ channel \in Seq(Dumps)
        /\ request \in Seq([at : Times, lookback : Nat, forward : Nat, into : 0..MaxDumps])
    BY <1>3, EmptySeq
  <2>2. /\ answer \in [Dumps -> Answers] /\ keys \in [Dumps -> SUBSET Segments]
        /\ owed \in [Dumps -> SUBSET Segments]
    BY DEF Answers
  <2>3. manifest \in [Dumps -> (SUBSET Segments) \cup {NoManifest}] /\ receipt \in [Dumps -> Nat]
    OBVIOUS
  <2>4. gate \in 0..Len(request)
    BY <1>4
  <2>5. \A q \in {ring.slots, taken} : q \in Seq(Slots(Segments, {1}, 0..RetryBudget, Times))
    BY <2>1 DEF RingSlots
  <2>6. pc = "check" /\ {now, activeStart, asOf} \subseteq Times
        /\ {writerDone, permit, triggers, rxOpen, hold, final, live} \subseteq BOOLEAN
    BY <1>1
  <2> QED BY <1>1, <1>2, <1>3, <1>4, <2>1, <2>2, <2>3, <2>4, <2>5, <2>6 DEF Types, TypeOK
<1>6. InRing = {} /\ InFlight = {} /\ Memory = {} /\ OpenDumps = {} /\ Queued = {} /\ Ids(dumps) = {}
  BY <1>4 DEF InRing, InFlight, Indices, Memory, OpenDumps, Queued, Ids
<1>7. Asked
  BY <1>1, <1>4, Bounds DEF Asked
<1>8. Distinct /\ Line
  BY <1>4, <1>6 DEF Distinct, Line
<1>9. Places /\ Owing /\ Settled /\ Wanting
  BY DEF Places, Holding, Owing, Settled, Wanting
<1>10. Books
  <2>1. ReceiptsAgree
    BY <1>4 DEF ReceiptsAgree
  <2> QED BY <2>1 DEF Books
<1>11. Gating
  BY <1>4 DEF Gating, RateLimited
<1> QED BY <1>5, <1>7, <1>8, <1>9, <1>10, <1>11 DEF TInv

LEMMA RunLoopKeeps == TInv /\ RunLoop => TInv'
  BY WaitLiveKeeps, WaitInterruptedKeeps, RejectKeeps, ReceiverEndsKeeps, TakeMatchingKeeps,
     TakeNoneKeeps, ReleaseForRetryKeeps, SettleKeeps, ResolveTurnKeeps, ResolveEndsKeeps,
     CheckKeeps, FinishTurnKeeps, CloseKeeps, RegisterKeeps, SelectKeeps
     DEF RunLoop

LEMMA NextKeeps == TInv /\ [Next]_vars => TInv'
<1> SUFFICES ASSUME TInv, [Next]_vars PROVE TInv'
  OBVIOUS
<1>1. ASSUME NEW r \in Requests, Request(r[1], r[2]) PROVE TInv'
  <2>1. r[1] \in Nat /\ r[2] \in Nat
    BY TriggeredAssumption
  <2> QED BY <1>1, <2>1, RequestKeeps
<1>2. ASSUME NEW d \in Dumps, Dispatch(d) PROVE TInv'
  BY <1>2, DispatchKeeps
<1>3. CASE RunStage
  BY <1>3, StageSucceedsKeeps, StageFailsKeeps DEF RunStage
<1>4. CASE Terminated
  BY <1>4, StutterKeeps DEF Terminated
<1>5. CASE Tick \/ DropTriggers \/ Seal \/ MarkWriterDone
  BY <1>5, TickKeeps, DropTriggersKeeps, SealKeeps, MarkWriterDoneKeeps
<1>6. CASE Resolve \/ ProcessorRecovers \/ Driver \/ DropWorker
  BY <1>6, ResolveKeeps, ProcessorRecoversKeeps, DriverKeeps, DropWorkerKeeps
<1> QED BY <1>1, <1>2, <1>3, <1>4, <1>5, <1>6, RunLoopKeeps, StutterKeeps DEF Next

(* The inductive invariant of the triggered worker (run_triggered): what is *)
(* asked for, open, in the ring, in flight and owed is in one place each.   *)
THEOREM TriggeredInvariant == Spec => []TInv
  BY InitHolds, NextKeeps, PTL DEF Spec

(* Whatever the requests, the stages' failures and the shutdown: the count  *)
(* in a dump's receipt is the number of keys in the manifest finalize_dump  *)
(* wrote for it, a dump that failed captured nothing and left no manifest,  *)
(* and the S3 stage keeps keys of open dumps only.                          *)
THEOREM DumpTheorem == Spec => []DumpInv
<1>1. TInv => DumpInv
  BY DEF TInv, Types, Books, DumpInv
<1> QED BY <1>1, TriggeredInvariant, PTL

(* take_files_matching hands the pipeline a segment only while a dump is    *)
(* open whose window has an instant in common with the segment's span.      *)
THEOREM AskedForTheorem == Spec => []OnlyWhatWasAskedFor
<1>1. TInv => OnlyWhatWasAskedFor
  <2> SUFFICES ASSUME TInv, taken # <<>> PROVE \E d \in OpenDumps : InWindow(d, taken[1])
    BY DEF OnlyWhatWasAskedFor
  <2>1. PICK k \in 1..Len(dumps) : Overlaps(dumps[k].id, taken[1])
    BY DEF TInv, Wanting, Wanted, Matched
  <2>2. dumps[k].id \in OpenDumps
    BY DEF OpenDumps
  <2>3. dumps[k].id \in 1..Len(request)
    BY <2>2, OpenAsked DEF TInv
  <2>4. taken[1] \in RingSlots /\ taken[1] \in Memory
    BY InFlightIsOne DEF TInv
  <2>5. taken[1].start <= taken[1].seal
    BY <2>4 DEF TInv, Line
  <2>6. InWindow(dumps[k].id, taken[1])
    BY <2>1, <2>3, <2>4, <2>5, SameWindow DEF TInv
  <2> QED BY <2>2, <2>6
<1> QED BY <1>1, TriggeredInvariant, PTL

(* A dump that resolves in the normal course, with retry_hold empty, is     *)
(* owed nothing: each matching segment the ring held when it registered was *)
(* captured, failed for good or was evicted.                                *)
THEOREM SettlesTheorem == Spec => []SettlesWhatTheRingHeld
<1>1. TInv => SettlesWhatTheRingHeld
  <2> SUFFICES ASSUME TInv, pc = "resolve", closing # <<>>, ~stop
               PROVE  owed[closing[1].id] = {}
    BY DEF SettlesWhatTheRingHeld
  <2>1. \A d \in Dumps : owed[d] = {}
    BY DEF TInv, Places, Settled
  <2>2. closing \in Seq(ActiveDumps)
    BY DEF TInv, Types, TypeOK
  <2>3. 1 \in 1..Len(closing)
    <3>1. PICK n \in Nat \ {0} : n = Len(closing)
      BY <2>2, EmptySeq
    <3> QED BY <3>1
  <2>4. closing[1].id \in Dumps
    <3>1. closing[1] \in ActiveDumps
      BY <2>2, <2>3, ElementOfSeq
    <3> QED BY <3>1 DEF ActiveDumps
  <2> QED BY <2>1, <2>4
<1> QED BY <1>1, TriggeredInvariant, PTL

(* The debounce gate, which only the request that holds it can open, lets   *)
(* one request per window through to the worker.                            *)
THEOREM RateTheorem == Spec => []RateLimited
<1>1. TInv => RateLimited
  BY DEF TInv, Gating
<1> QED BY <1>1, TriggeredInvariant, PTL
=============================================================================
