---------------------------- MODULE TokenBuckets ----------------------------
(***************************************************************************)
(* What RateLimit promises (crates/blazingly-middleware/src/lib.rs): every *)
(* key has a token bucket of its own, which no other key's requests and no *)
(* housekeeping change, except that a first request may make the store     *)
(* forget one key when there are more keys than it may hold.               *)
(***************************************************************************)
EXTENDS Integers, FiniteSets

CONSTANTS Keys,     \* rate-limit keys
          Capacity, \* quota.capacity
          Period,   \* the window, in ticks of the clock
          MaxKeys   \* max_keys

VARIABLES tokens,   \* what each key has now, in Period-ths of a token
          verdict   \* the last decision: the key, and whether it may proceed

bucketVars == <<tokens, verdict>>

MinOf(a, b) == IF a < b THEN a ELSE b

\* A window restores Capacity tokens, so a tick restores Capacity Period-ths.
Full == Capacity * Period

Init == tokens = [k \in Keys |-> Full] /\ verdict = <<>>

Tick ==
  /\ tokens' = [k \in Keys |-> MinOf(tokens[k] + Capacity, Full)]
  /\ UNCHANGED verdict

Consume(k, lost) ==
  /\ lost # {} => tokens[k] = Full /\ Cardinality(Keys) > MaxKeys
  /\ tokens' = [j \in Keys |->
       IF j = k /\ tokens[k] >= Period THEN tokens[k] - Period
       ELSE IF j \in lost THEN Full ELSE tokens[j]]
  /\ verdict' = <<k, tokens[k] >= Period>>

Next ==
  \/ Tick
  \/ \E k \in Keys : \E lost \in {{}} \cup {{j} : j \in Keys \ {k}} : Consume(k, lost)

Spec == Init /\ [][Next]_bucketVars
==============================================================================
