----------------------------- MODULE TraceStream -----------------------------
(***************************************************************************)
(* The trace format (dial9-trace-format): what the encoder of a            *)
(* thread-local buffer writes, a decoder reads back as it was meant.       *)
(*                                                                         *)
(* The stream is self-describing: schemas, strings and stacks are defined  *)
(* by frames before events refer to them by id, and timestamps are deltas. *)
(* So the encoder keeps caches of what it has defined, and all of them     *)
(* must be forgotten when a batch ends, because every batch begins with a  *)
(* header, at which the decoder forgets too (batches of many threads are   *)
(* concatenated in any order).  The last batch of a sealed segment may be  *)
(* continued by an encoder made from a decoder (Decoder::into_encoder).    *)
(*                                                                         *)
(* dec is a decoder that has read everything written so far: the decoder   *)
(* works frame by frame, so emitting a frame is the Read operator of that  *)
(* frame applied to dec.  One call of Encodable::encode holds the buffer's *)
(* lock; its steps are separate actions, but a flush never comes between.  *)
(***************************************************************************)
EXTENDS Integers, Sequences, FiniteSets

CONSTANTS
    Types,          \* derived TraceEvent types
    Schemas,        \* dynamic Schema handles
    EntryOf,        \* their SchemaEntry: name, fields, number of annotations
    SlotOf,         \* TraceEvent::type_slot, 0 for none
    StaticLimit,    \* STATIC_WIRE_ID_LIMIT
    CacheLimit,     \* DYNAMIC_SCHEMA_CACHE_LIMIT
    MaxDelta,       \* the largest u24 delta
    Times,          \* timestamps
    Strings, Stacks, Locations,
    TextOf,         \* the string of a location
    Generations,    \* bound: batch_generation wraps here (2^64)
    MaxEvents,      \* bound: events of a batch and its continuation
    Appends,        \* whether segments are continued with into_encoder
    KeptKinds       \* the handles an application keeps beyond its call

Sources == Types \cup Schemas
Kinds == {"string", "stack"}
Fast(x) == x \in Types /\ SlotOf[x] > 0 /\ SlotOf[x] < StaticLimit

ASSUME StreamAssumption ==
    /\ Types \cap Schemas = {}
    /\ \A x \in Sources : EntryOf[x].notes \in Nat
    /\ SlotOf \in [Types -> Nat]
    /\ \A x, y \in Types : SlotOf[x] = SlotOf[y] /\ SlotOf[x] # 0 => x = y
    /\ StaticLimit \in Nat \ {0} /\ CacheLimit \in Nat \ {0} /\ MaxDelta \in Nat
    /\ Times \subseteq Nat
    /\ TextOf \in [Locations -> Strings]
    /\ Generations \in Nat \ {0} /\ MaxEvents \in Nat
    /\ Appends \in BOOLEAN /\ KeptKinds \subseteq Kinds

VARIABLES
    enc,            \* the Encoder
    dec,            \* a Decoder that has read what was written
    buf,            \* ThreadLocalBuffer: batch_generation and location_cache
    mode,           \* "batch" or "append"
    call,           \* the encode call in progress
    kept,           \* a handle the application keeps
    sent            \* history: the events written since the header

vars == <<enc, dec, buf, mode, call, kept, sent>>

Values == Strings \cup Stacks
Idle == [at |-> "idle"]
Nothing == [k |-> "none", fresh |-> FALSE]

(* f with k bound to v, and the empty function.                            *)
Bind(f, k, v) == [x \in DOMAIN f \cup {k} |-> IF x = k THEN v ELSE f[x]]
Empty == [x \in {} |-> x]
Image(f) == {f[x] : x \in DOMAIN f}

-----------------------------------------------------------------------------
(* The decoder.                                                            *)

(* reset_state, at a header.                                               *)
FreshDecoder ==
    [ok |-> TRUE, base |-> 0, reg |-> Empty, pool |-> [k \in Kinds |-> Empty],
     got |-> <<>>]

(* try_consume_reset_header                                                *)
ReadHeader(d) == FreshDecoder

(* A schema frame carries no annotations; an id may be defined again only  *)
(* by an entry equal to the registered one.                                *)
ReadSchema(d, id, entry) ==
    LET bare == [entry EXCEPT !.notes = 0]
    IN  IF id \notin DOMAIN d.reg THEN [d EXCEPT !.reg = Bind(@, id, bare)]
        ELSE [d EXCEPT !.ok = @ /\ d.reg[id] = bare]

(* Annotations accumulate.                                                 *)
ReadAnnotations(d, id, count) ==
    IF id \in DOMAIN d.reg
    THEN [d EXCEPT !.reg[id].notes = @ + count] ELSE d

ReadPool(d, k, id, v) == [d EXCEPT !.pool[k] = Bind(@, id, v)]

ReadReset(d, t) == [d EXCEPT !.base = t]

(* An event of an unknown type cannot be skipped; a reference to an        *)
(* undefined pool id does not resolve.                                     *)
ReadEvent(d, id, delta, k, ref) ==
    IF ~d.ok \/ id \notin DOMAIN d.reg THEN [d EXCEPT !.ok = FALSE]
    ELSE [d EXCEPT !.base = @ + delta,
                   !.got = Append(@, [entry |-> d.reg[id], time |-> d.base + delta,
                                      value |-> IF ref \in DOMAIN d.pool[k]
                                                THEN <<d.pool[k][ref]>> ELSE <<>>])]

-----------------------------------------------------------------------------
(* The encoder.                                                            *)

FreshEncoder ==
    [base |-> 0, reg |-> Empty, next |-> StaticLimit, names |-> Empty,
     cached |-> Empty, types |-> Empty, fast |-> {},
     pool |-> [k \in Kinds |-> Empty], nextPool |-> [k \in Kinds |-> 0]]

(* The first id past those of S, and not below n.                          *)
After(S, n) == CHOOSE m \in {n} \cup {i + 1 : i \in S} :
                 m >= n /\ \A i \in S : m > i

(* from_decoder; two entries of one name are in the order of a hash map.   *)
FromDecoder(d, names) ==
    [base |-> d.base, reg |-> d.reg, next |-> After(DOMAIN d.reg, StaticLimit),
     names |-> names, cached |-> Empty, types |-> Empty, fast |-> {},
     pool |-> [k \in Kinds |->
                 [v \in Image(d.pool[k]) |->
                    CHOOSE i \in DOMAIN d.pool[k] : d.pool[k][i] = v]],
     nextPool |-> [k \in Kinds |-> After(DOMAIN d.pool[k], 0)]]

Init ==
    /\ enc = FreshEncoder
    /\ dec = FreshDecoder
    /\ buf = [gen |-> 0, locs |-> Empty]
    /\ mode = "batch"
    /\ call = Idle
    /\ kept = Nothing
    /\ sent = <<>>

-----------------------------------------------------------------------------
(* An encode call: what its event's pooled field shall show, ...           *)

Begin(x, t, c) ==
    /\ call = Idle
    /\ dec.ok
    /\ Len(sent) < MaxEvents
    /\ call' = [c EXCEPT !.x = x, !.t = t]
    /\ UNCHANGED <<enc, dec, buf, mode, kept, sent>>

Call(at, k, v, ref) ==
    [at |-> at, x |-> 0, t |-> 0, k |-> k, v |-> v, ref |-> ref, id |-> 0, fresh |-> TRUE]

EncodeString(x, t, v) == Begin(x, t, Call("intern", "string", v, 0))
EncodeStack(x, t, v) == Begin(x, t, Call("intern", "stack", v, 0))
EncodeLocation(x, t, l) == mode = "batch" /\ Begin(x, t, Call("locate", "string", l, 0))
EncodeKept(x, t) ==
    /\ kept # Nothing
    /\ Begin(x, t, [Call("register", kept.k, kept.v, kept.ref) EXCEPT !.fresh = kept.fresh])

(* intern_string, intern_stack_frames: ... known to the pool, ...          *)
InternKnown ==
    /\ call.at = "intern"
    /\ call.v \in DOMAIN enc.pool[call.k]
    /\ call' = [call EXCEPT !.at = "register", !.ref = enc.pool[call.k][call.v]]
    /\ UNCHANGED <<enc, dec, buf, mode, kept, sent>>

(* ... or new, and then defined by a frame.                                *)
Intern(k, v) ==
    LET id == enc.nextPool[k]
    IN  /\ v \notin DOMAIN enc.pool[k]
        /\ enc' = [enc EXCEPT !.nextPool[k] = id + 1, !.pool[k] = Bind(@, v, id)]
        /\ dec' = ReadPool(dec, k, id, v)
        /\ call' = [call EXCEPT !.at = "register", !.v = v, !.ref = id]

InternNew ==
    /\ call.at = "intern"
    /\ Intern(call.k, call.v)
    /\ UNCHANGED <<buf, mode, kept, sent>>

Current(l) == l \in DOMAIN buf.locs /\ buf.locs[l].gen = buf.gen

(* intern_location: the id cached for this batch, ...                      *)
LocationKnown ==
    /\ call.at = "locate"
    /\ Current(call.v)
    /\ call' = [call EXCEPT !.at = "register", !.v = TextOf[call.v],
                            !.ref = buf.locs[call.v].id]
    /\ UNCHANGED <<enc, dec, buf, mode, kept, sent>>

(* ... or the string interned again, and its id cached.                    *)
LocationStale ==
    LET v == TextOf[call.v]
    IN  /\ call.at = "locate"
        /\ ~Current(call.v)
        /\ \/ Intern("string", v)
           \/ /\ v \in DOMAIN enc.pool["string"]
              /\ call' = [call EXCEPT !.at = "register", !.v = v,
                                      !.ref = enc.pool["string"][v]]
              /\ UNCHANGED <<enc, dec>>
        /\ buf' = [buf EXCEPT !.locs = Bind(@, call.v, [gen |-> buf.gen, id |-> call'.ref])]
        /\ UNCHANGED <<mode, kept, sent>>

(* ... an application may keep the id it was given, ...                    *)
Keep ==
    /\ call.at = "register"
    /\ call.k \in KeptKinds
    /\ kept' = [k |-> call.k, v |-> call.v, ref |-> call.ref, fresh |-> call.fresh]
    /\ kept' # kept
    /\ UNCHANGED <<enc, dec, buf, mode, call, sent>>

-----------------------------------------------------------------------------
(* ... the type of its event is registered, ...                            *)

Registered(id) == [call EXCEPT !.at = "write", !.id = id]

(* The schema frame, and the annotations if there are any.                 *)
DefineSchema(id, entry) == ReadAnnotations(ReadSchema(dec, id, entry), id, entry.notes)

(* Encoder::write, fast path: the slot is the id.                          *)
FastKnown ==
    /\ call.at = "register"
    /\ Fast(call.x) /\ SlotOf[call.x] \in enc.fast
    /\ call' = Registered(SlotOf[call.x])
    /\ UNCHANGED <<enc, dec, buf, mode, kept, sent>>

(* register_fast_id: the frame is written before the registry is asked.    *)
RegisterFast ==
    LET id == SlotOf[call.x]
        entry == EntryOf[call.x]
    IN  /\ call.at = "register"
        /\ Fast(call.x) /\ id \notin enc.fast
        /\ dec' = DefineSchema(id, entry)
        /\ IF id \in DOMAIN enc.reg /\ enc.reg[id] # entry
           THEN call' = [call EXCEPT !.at = "failed"] /\ UNCHANGED enc
           ELSE /\ call' = Registered(id)
                /\ enc' = [enc EXCEPT !.fast = @ \cup {id}, !.reg = Bind(@, id, entry)]
        /\ UNCHANGED <<buf, mode, kept, sent>>

(* resolve_dynamic_wire_id and ensure_registered: an id cached for this    *)
(* type or this handle, ...                                                *)
Known(x) == IF x \in Types THEN enc.types ELSE enc.cached

IdKnown ==
    /\ call.at = "register"
    /\ ~Fast(call.x) /\ call.x \in DOMAIN Known(call.x)
    /\ call' = Registered(Known(call.x)[call.x])
    /\ UNCHANGED <<enc, dec, buf, mode, kept, sent>>

(* Either cache remembers; the handles' one is cleared when it is full,    *)
(* and a derived type gets there with a handle of its own.                 *)
Remember(e, x, id) ==
    [e EXCEPT !.types = IF x \in Types THEN Bind(@, x, id) ELSE @,
              !.cached = IF Cardinality(DOMAIN @) >= CacheLimit
                         THEN Bind(Empty, x, id) ELSE Bind(@, x, id)]

Unknown(x) == call.at = "register" /\ ~Fast(x) /\ x \notin DOMAIN Known(x)

(* ... an entry registered under its name, ...                             *)
NameKnown ==
    LET id == enc.names[EntryOf[call.x].name]
    IN  /\ Unknown(call.x)
        /\ EntryOf[call.x].name \in DOMAIN enc.names
        /\ enc.reg[id] = EntryOf[call.x]
        /\ enc' = Remember(enc, call.x, id)
        /\ call' = Registered(id)
        /\ UNCHANGED <<dec, buf, mode, kept, sent>>

(* ... which may be another one: write_event drops the event, and write's  *)
(* error is a panic in write_infallible; ...                               *)
NameTaken ==
    /\ Unknown(call.x)
    /\ EntryOf[call.x].name \in DOMAIN enc.names
    /\ enc.reg[enc.names[EntryOf[call.x].name]] # EntryOf[call.x]
    /\ call' = IF call.x \in Types THEN [call EXCEPT !.at = "failed"] ELSE Idle
    /\ UNCHANGED <<enc, dec, buf, mode, kept, sent>>

(* ... or a new id, and the schema is written.                             *)
RegisterNew ==
    LET id == enc.next
        entry == EntryOf[call.x]
    IN  /\ Unknown(call.x)
        /\ entry.name \notin DOMAIN enc.names
        /\ dec' = DefineSchema(id, entry)
        /\ enc' = Remember([enc EXCEPT !.next = @ + 1, !.reg = Bind(@, id, entry),
                                       !.names = Bind(@, entry.name, id)], call.x, id)
        /\ call' = Registered(id)
        /\ UNCHANGED <<buf, mode, kept, sent>>

-----------------------------------------------------------------------------
(* ... and the event is written.                                           *)

(* encode_timestamp_delta: the delta must be a u24.                        *)
NeedsReset(t) == t < enc.base \/ t > enc.base + MaxDelta

(* What fits in the u24.                                                   *)
Delta(t) == (t - enc.base) % (MaxDelta + 1)

WriteFrame ==
    LET t == call.t
        d == IF NeedsReset(t) THEN ReadReset(dec, t) ELSE dec
    IN  /\ call.at = "write"
        /\ dec' = ReadEvent(d, call.id, IF NeedsReset(t) THEN 0 ELSE Delta(t),
                            call.k, call.ref)
        /\ enc' = [enc EXCEPT !.base = t]
        /\ sent' = Append(sent, [entry |-> EntryOf[call.x], time |-> t,
                                 value |-> <<call.v>>, fresh |-> call.fresh])
        /\ call' = Idle
        /\ UNCHANGED <<buf, mode, kept>>

(* write_event: the number of values is not the schema's.                  *)
WrongCount ==
    /\ call.at = "write"
    /\ call.x \in Schemas
    /\ call' = Idle
    /\ UNCHANGED <<enc, dec, buf, mode, kept, sent>>

-----------------------------------------------------------------------------
(* reset_to                                                                *)
ResetTo(e) == FreshEncoder

(* Variant of NextGeneration: nothing is cleared when it wraps.            *)
NextGenerationOnly(b) == [b EXCEPT !.gen = (@ + 1) % Generations]

NextGeneration(b) ==
    LET g == (b.gen + 1) % Generations
    IN  [gen |-> g, locs |-> IF g = 0 THEN Empty ELSE b.locs]

(* flush: the batch ends, and the next begins with a header.               *)
Flush ==
    /\ call = Idle
    /\ sent # <<>>
    /\ enc' = ResetTo(enc)
    /\ dec' = ReadHeader(dec)
    /\ buf' = NextGeneration(buf)
    /\ mode' = "batch"
    /\ kept' = [kept EXCEPT !.fresh = FALSE]
    /\ sent' = <<>>
    /\ UNCHANGED call

(* into_encoder: another encoder goes on where the segment ended.          *)
IntoEncoder ==
    /\ Appends
    /\ call = Idle /\ mode = "batch" /\ dec.ok
    /\ \E names \in [{r.name : r \in Image(dec.reg)} -> DOMAIN dec.reg] :
         /\ \A n \in DOMAIN names : dec.reg[names[n]].name = n
         /\ enc' = FromDecoder(dec, names)
    /\ mode' = "append"
    /\ UNCHANGED <<dec, buf, call, kept, sent>>

Next ==
    \/ \E x \in Sources, t \in Times :
         \/ \E v \in Strings : EncodeString(x, t, v)
         \/ \E v \in Stacks : EncodeStack(x, t, v)
         \/ \E l \in Locations : EncodeLocation(x, t, l)
         \/ EncodeKept(x, t)
    \/ InternKnown \/ InternNew \/ LocationKnown \/ LocationStale \/ Keep
    \/ FastKnown \/ RegisterFast \/ IdKnown \/ NameKnown \/ NameTaken \/ RegisterNew
    \/ WriteFrame \/ WrongCount
    \/ Flush \/ IntoEncoder

Spec == Init /\ [][Next]_vars

-----------------------------------------------------------------------------
TypeOK ==
    /\ DOMAIN enc.cached \subseteq Sources /\ Cardinality(DOMAIN enc.cached) <= CacheLimit
    /\ DOMAIN enc.types \subseteq Types
    /\ enc.base \in Times \cup {0} /\ dec.base \in Times \cup {0}
    /\ buf.gen \in 0..(Generations - 1)
    /\ DOMAIN buf.locs \subseteq Locations
    /\ mode \in {"batch", "append"}
    /\ call.at \in {"idle", "intern", "locate", "register", "write", "failed"}
    /\ Len(sent) <= MaxEvents

(* Every event a batch and its continuation hold decodes to the event that *)
(* was recorded: its type with its annotations, its absolute time, and the *)
(* string or stack it referred to by id.  A handle kept from an earlier    *)
(* batch garbles its own field and nothing else.  It takes several calls,  *)
(* flushes and a wrapped generation for a stale id to be used.             *)
RoundTrip ==
    /\ dec.ok
    /\ Len(dec.got) = Len(sent)
    /\ \A i \in DOMAIN sent :
         /\ dec.got[i].entry = sent[i].entry
         /\ dec.got[i].time = sent[i].time
         /\ sent[i].fresh => dec.got[i].value = sent[i].value

(* What the encoder and a decoder know of the schemas, ...                 *)
SchemasAgree ==
    /\ dec.base = enc.base
    /\ dec.reg = enc.reg
    /\ \A n \in DOMAIN enc.names : enc.names[n] \in DOMAIN enc.reg
    /\ \A x \in DOMAIN enc.cached :
         enc.cached[x] \in DOMAIN enc.reg /\ enc.reg[enc.cached[x]] = EntryOf[x]
    /\ \A x \in DOMAIN enc.types :
         enc.types[x] \in DOMAIN enc.reg /\ enc.reg[enc.types[x]] = EntryOf[x]
    /\ \A x \in Types : Fast(x) /\ SlotOf[x] \in enc.fast =>
         SlotOf[x] \in DOMAIN enc.reg /\ enc.reg[SlotOf[x]] = EntryOf[x]
    /\ enc.next >= StaticLimit
    /\ \A i \in DOMAIN enc.reg : i < enc.next

(* ... of the strings and stacks, ...                                      *)
PoolsAgree ==
    /\ \A k \in Kinds : \A v \in DOMAIN enc.pool[k] :
         /\ enc.pool[k][v] \in DOMAIN dec.pool[k]
         /\ dec.pool[k][enc.pool[k][v]] = v
    /\ \A k \in Kinds : \A i \in DOMAIN dec.pool[k] : i < enc.nextPool[k]

(* ... and the ids cached for the locations of this batch.                 *)
LocationsAgree ==
    \A l \in DOMAIN buf.locs :
        /\ buf.locs[l].gen <= buf.gen
        /\ mode = "batch" /\ buf.locs[l].gen = buf.gen =>
             /\ TextOf[l] \in DOMAIN enc.pool["string"]
             /\ enc.pool["string"][TextOf[l]] = buf.locs[l].id

(* The encoder omits a definition only if a decoder of its output has it:  *)
(* every id it has cached, in four caches, is what the decoder learned in  *)
(* this batch.                                                             *)
Agree == call.at # "failed" => SchemasAgree /\ PoolsAgree /\ LocationsAgree

(* A recorded event decodes to itself: the caches are well formed and      *)
(* agree with the decoder at every step, so every frame reads as it was    *)
(* meant.                                                                  *)
StreamInv == TypeOK /\ Agree /\ RoundTrip

(* ThreadLocalEncoder's documentation says that handles are used within    *)
(* their batch: what an event refers to is what its handle was made from.  *)
HandlesResolve ==
    dec.ok => \A i \in DOMAIN dec.got : dec.got[i].value = sent[i].value

(* Decoder::into_encoder promises that new frames are compatible with the  *)
(* existing data, and the format that a schema may be repeated.            *)
ContinuationDecodes == mode = "append" => dec.ok

(* write_infallible expects that a write to memory never fails.            *)
WriteInfallible == call.at # "failed"
=============================================================================
