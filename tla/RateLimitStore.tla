--------------------------- MODULE RateLimitStore ---------------------------
(***************************************************************************)
(* MemoryRateLimitStore of crates/blazingly-middleware/src/lib.rs: token   *)
(* buckets in a slab (BucketTable), linked from the least to the most      *)
(* recently used, swept for idle buckets on every request and evicted at   *)
(* the bound.  One consume is one step: the table is borrowed throughout.  *)
(*                                                                         *)
(* Tokens are counted in Period-ths, so that the refill rate of            *)
(* RateLimitQuota::new, capacity per window, is exact; the rounding of the *)
(* code's f64 is not modelled.  Slots are numbered from 1.                 *)
(***************************************************************************)
EXTENDS Integers, Sequences, FiniteSets

CONSTANTS Keys, Capacity, Period, MaxKeys,
          IdleTtl,  \* idle_ttl, in ticks
          Budget,   \* RATE_LIMIT_SWEEP_BUDGET
          MaxTime,  \* bound of the clock
          Nil

Full == Capacity * Period

\* A bucket's slot: its neighbours in the order of use, and the bucket.
BucketSlot ==
  [key : Keys, older : Nat \cup {Nil}, newer : Nat \cup {Nil},
   bucket : [tokens : 0 .. Full, updated : Nat]]

\* What an instance must satisfy; the module that makes it assumes so.
QuotaAssumption == Capacity \in Nat \ {0} /\ Period \in Nat \ {0}
LimitsAssumption ==
  /\ MaxKeys \in Nat \ {0} /\ Budget \in Nat /\ MaxTime \in Nat
  /\ IsFiniteSet(Keys) /\ Nil \notin Nat /\ Nil \notin BucketSlot
\* RateLimit::new: a bucket idle for a whole window is full.
TtlAssumption == IdleTtl \in Nat /\ IdleTtl >= Period

VARIABLES now,    \* Instant::now()
          index,  \* the keys in the table -> their slots
          slots,  \* Vec<Option<BucketSlot>>
          spare,  \* BucketTable::free
          oldest, newest,
          verdict \* the last decision

rateVars == <<now, index, slots, spare, oldest, newest, verdict>>

LimitTypeOK ==
  /\ now \in 0 .. MaxTime
  /\ DOMAIN index \subseteq Keys /\ \A k \in DOMAIN index : index[k] \in DOMAIN slots
  /\ slots \in Seq(BucketSlot \cup {Nil}) /\ spare \in Seq(DOMAIN slots)
  /\ {oldest, newest} \subseteq DOMAIN slots \cup {Nil}

MinOf(a, b) == IF a < b THEN a ELSE b

\* BucketTable::default().
LimitInit ==
  /\ now = 0 /\ verdict = <<>>
  /\ index = [k \in {} |-> 0] /\ slots = <<>> /\ spare = <<>>
  /\ oldest = Nil /\ newest = Nil

Tick ==
  /\ now < MaxTime /\ now' = now + 1
  /\ UNCHANGED <<index, slots, spare, oldest, newest, verdict>>

------------------------------------------------------------------------------
(* BucketTable, on a record t of its fields. *)

Table == [index |-> index, slots |-> slots, spare |-> spare,
          oldest |-> oldest, newest |-> newest]

Unlink(t, s) ==
  LET e == t.slots[s]
      relinked == [i \in DOMAIN t.slots |->
        IF i = s THEN [e EXCEPT !.older = Nil, !.newer = Nil]
        ELSE IF i = e.older THEN [t.slots[i] EXCEPT !.newer = e.newer]
        ELSE IF i = e.newer THEN [t.slots[i] EXCEPT !.older = e.older]
        ELSE t.slots[i]]
  IN [t EXCEPT !.slots = relinked,
               !.oldest = IF e.older = Nil THEN e.newer ELSE @,
               !.newest = IF e.newer = Nil THEN e.older ELSE @]

LinkNewest(t, s) ==
  LET linked == [t.slots EXCEPT ![s].older = t.newest, ![s].newer = Nil]
  IN [t EXCEPT !.slots = IF t.newest = Nil THEN linked
                         ELSE [linked EXCEPT ![t.newest].newer = s],
               !.oldest = IF t.newest = Nil THEN s ELSE @,
               !.newest = s]

Forget(f, k) == [x \in DOMAIN f \ {k} |-> f[x]]

\* Mutant: the evicted slot stays linked to its newer neighbour.
EvictLinked(t) ==
  LET s == t.oldest
  IN [t EXCEPT !.slots[s] = Nil, !.spare = Append(@, s), !.oldest = t.slots[s].newer,
               !.index = Forget(@, t.slots[s].key)]

EvictOldest(t) ==
  LET s == t.oldest
      u == Unlink(t, s)
  IN [u EXCEPT !.slots[s] = Nil, !.spare = Append(@, s),
               !.index = Forget(@, t.slots[s].key)]

\* The most recently freed slot is reused first.
Insert(t, k) ==
  LET reuse == t.spare # <<>>
      s == IF reuse THEN t.spare[Len(t.spare)] ELSE Len(t.slots) + 1
      entry == [key |-> k, older |-> Nil, newer |-> Nil,
                bucket |-> [tokens |-> Full, updated |-> now]]
  IN LinkNewest([t EXCEPT
       !.slots = IF reuse THEN [@ EXCEPT ![s] = entry] ELSE Append(@, entry),
       !.spare = IF reuse THEN SubSeq(@, 1, Len(@) - 1) ELSE @,
       !.index = [x \in DOMAIN @ \cup {k} |-> IF x = k THEN s ELSE @[x]]], s)

\* Mutant: the bucket is dropped one tick before it is full again.
IdleEarly(t) ==
  t.oldest # Nil /\ now - t.slots[t.oldest].bucket.updated >= IdleTtl - 1

Idle(t) ==
  t.oldest # Nil /\ now - t.slots[t.oldest].bucket.updated >= IdleTtl

\* sweep: at most Budget idle buckets, from the oldest.
Sweep(t) ==
  LET swept[n \in 0 .. Budget] ==
        IF n = 0 THEN t
        ELSE IF Idle(swept[n - 1]) THEN EvictOldest(swept[n - 1])
        ELSE swept[n - 1]
  IN swept[Budget]

\* The loop that makes room: one eviction is enough, the bound held before.
MakeRoom(t) ==
  IF Cardinality(DOMAIN t.index) >= MaxKeys /\ t.oldest # Nil
  THEN EvictOldest(t) ELSE t

Refilled(b) == MinOf(b.tokens + (now - b.updated) * Capacity, Full)

\* MemoryRateLimitStore::consume and consume_bucket: refill up to the
\* capacity, then take one token if there is one.
Consume(k) ==
  LET t == Sweep(Table)
      placed == IF k \in DOMAIN t.index
                THEN LinkNewest(Unlink(t, t.index[k]), t.index[k])
                ELSE Insert(MakeRoom(t), k)
      s == placed.index[k]
      r == Refilled(placed.slots[s].bucket)
      left == IF r >= Period THEN r - Period ELSE r
  IN /\ index' = placed.index /\ spare' = placed.spare
     /\ oldest' = placed.oldest /\ newest' = placed.newest
     /\ slots' = [placed.slots EXCEPT
                    ![s].bucket = [tokens |-> left, updated |-> now]]
     /\ verdict' = <<k, r >= Period>>
     /\ UNCHANGED now

LimitNext == Tick \/ \E k \in Keys : Consume(k)

LimitSpec == LimitInit /\ [][LimitNext]_rateVars

------------------------------------------------------------------------------
(* Properties. *)

\* The slots from the oldest, following the newer links, at most n of them.
FromOldest(n) ==
  LET walk[i \in 0 .. n] ==
        IF i = 0 THEN <<>>
        ELSE LET w == walk[i - 1]
                 s == IF w = <<>> THEN oldest ELSE slots[w[Len(w)]].newer
             IN IF s = Nil THEN w ELSE Append(w, s)
  IN walk[n]

Occupied == {s \in DOMAIN slots : slots[s] # Nil}

\* The table stays one table through eviction and reuse of slots: the list
\* visits every occupied slot once, in the order of last use, so that what the
\* sweep and the bound take is the least recently used; the index finds every
\* key at its slot; the other slots are the free ones, once each; and there
\* are never more than MaxKeys of them in all.
TableIsConsistent ==
  LET w == FromOldest(Len(slots) + 1)
  IN /\ Len(w) = Cardinality(Occupied) /\ {w[i] : i \in DOMAIN w} = Occupied
     /\ newest = IF w = <<>> THEN Nil ELSE w[Len(w)]
     /\ \A i \in 2 .. Len(w) :
          /\ slots[w[i]].older = w[i - 1]
          /\ slots[w[i - 1]].bucket.updated <= slots[w[i]].bucket.updated
     /\ \A s \in Occupied : slots[s].key \in DOMAIN index /\ index[slots[s].key] = s
     /\ Cardinality(DOMAIN index) = Cardinality(Occupied)
     /\ {spare[i] : i \in DOMAIN spare} = DOMAIN slots \ Occupied
     /\ Len(spare) + Cardinality(Occupied) = Len(slots) /\ Len(slots) <= MaxKeys

\* What a key has now: a key that is not in the table has a full bucket.
Tokens(k) ==
  IF k \in DOMAIN index THEN Refilled(slots[index[k]].bucket) ELSE Full

Ideal == INSTANCE TokenBuckets WITH tokens <- [k \in Keys |-> Tokens(k)]

\* The shared table, its sweep and its eviction are invisible: every key gets
\* the decisions of a bucket of its own (the comment at 817: a bucket idle for
\* a full window is indistinguishable from a fresh one), and a key is
\* forgotten only to make room.
ImplementsTokenBuckets == Ideal!Spec
==============================================================================
