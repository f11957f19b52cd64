--------------------------- MODULE QueueWorkerProofs ---------------------------
(***************************************************************************)
(* The safety properties of QueueWorker for every number of messages and   *)
(* workers, every policy and every number of stops and expired leases.     *)
(* How long a delivery waits is left open: nothing here depends on what    *)
(* Backoff returns.  And those of WebSocketSession, for all frames a peer  *)
(* may send: nothing there depends on how many bytes they have.            *)
(***************************************************************************)
EXTENDS QueueWorker, WebSocketSession, SequenceTheorems, FiniteSetTheorems, TLAPS

Busy(w) == wpc[w] \notin {"idle", "stopped"}

Deliveries(T) == [msg : Messages, attempt : Nat \ {0}, wait : T]

Types ==
  /\ \E T : pending \in Seq(Deliveries(T))
  /\ unsent \subseteq Messages
  /\ inFlight \in [Messages -> Nat]
  /\ dead \in Seq(Messages)
  /\ wpc \in [Workers -> WorkerPlaces]
  /\ holds \in [Workers -> DeliveryOf \cup {None}]
  /\ expiries \in Nat
  /\ tries \in [Messages -> Nat]
  /\ judged \in [Messages -> SUBSET Verdicts]

Hands ==
  \A w \in Workers : IF Busy(w) THEN holds[w] \in DeliveryOf ELSE holds[w] = None

\* A message is in one place: unsent, once in the topic, or checked out.
Copies ==
  /\ \A p, q \in 1 .. Len(pending) : pending[p].msg = pending[q].msg => p = q
  /\ \A p \in 1 .. Len(pending) :
       pending[p].msg \notin unsent /\ inFlight[pending[p].msg] = 0
  /\ \A m \in unsent : inFlight[m] = 0

\* Until a lease expires a busy worker holds what is checked out, alone.
Holders ==
  expiries = 0 => \A w \in Workers : Busy(w) =>
    /\ inFlight[holds[w].msg] = holds[w].attempt
    /\ \A v \in Workers : Busy(v) /\ holds[v].msg = holds[w].msg => v = w

\* An attempt number is the number of calls of the handler, and a worker that
\* gives a delivery back has attempts left.
Counts ==
  /\ \A p \in 1 .. Len(pending) :
       /\ tries[pending[p].msg] = pending[p].attempt - 1
       /\ pending[p].attempt <= Policy.max_attempts + expiries
  /\ \A m \in Messages :
       /\ inFlight[m] # 0 => tries[m] = inFlight[m]
       /\ tries[m] <= Policy.max_attempts + expiries
  /\ \A m \in unsent : tries[m] = 0
  /\ \A w \in Workers : wpc[w] = "nack" => holds[w].attempt < Policy.max_attempts

\* What has been judged, and what buried, when a worker is about to settle.
Verdict ==
  \A w \in Workers :
    /\ wpc[w] = "ack" => "ok" \in judged[holds[w].msg]
    /\ wpc[w] \in {"nack", "bury", "settle", "discard"} => judged[holds[w].msg] # {}
    /\ wpc[w] = "settle" => Buried(holds[w].msg)
    /\ wpc[w] = "discard" => ~deadTopic

\* NothingVanishes without the set of positions.
Accounted ==
  \A m \in Messages \ unsent :
    \/ \E p \in 1 .. Len(pending) : pending[p].msg = m
    \/ inFlight[m] # 0
    \/ "ok" \in judged[m]
    \/ judged[m] # {} /\ (deadTopic => Buried(m))

IInv ==
  /\ Types /\ Hands /\ Copies /\ Holders /\ Counts
  /\ Verdict /\ Accounted /\ BuriedForAReason

------------------------------------------------------------------------------
(* What the operations on the topic do. *)

\* The positions of the topic are 1 to its length.
LEMMA Entries ==
  ASSUME Types
  PROVE  /\ Len(pending) \in Nat
         /\ DOMAIN pending = 1 .. Len(pending)
         /\ \A p \in 1 .. Len(pending) :
              pending[p].msg \in Messages /\ pending[p].attempt \in Nat \ {0}
<1>1. PICK T : pending \in Seq(Deliveries(T))
  BY DEF Types
<1>2. \A p \in 1 .. Len(pending) : pending[p] \in Deliveries(T)
  BY <1>1, ElementOfSeq
<1> QED BY <1>1, <1>2, LenProperties DEF Deliveries

\* Appending a delivery adds one entry and keeps the others.
LEMMA Appending ==
  ASSUME Types, NEW m \in Messages, NEW a \in Nat \ {0}, NEW t,
         pending' = Append(pending, Waiting(m, a, t))
  PROVE  /\ \E T : pending' \in Seq(Deliveries(T))
         /\ Len(pending') = Len(pending) + 1
         /\ \A i \in 1 .. Len(pending) : pending'[i] = pending[i]
         /\ pending'[Len(pending) + 1].msg = m
         /\ pending'[Len(pending) + 1].attempt = a
         /\ \A i \in 1 .. Len(pending') : i \in 1 .. Len(pending) \/ i = Len(pending) + 1
<1>1. PICK T : pending \in Seq(Deliveries(T))
  BY DEF Types
<1>2. pending \in Seq(Deliveries(T \cup {t}))
  <2>1. Deliveries(T) \subseteq Deliveries(T \cup {t})
    BY DEF Deliveries
  <2> QED BY <1>1, <2>1, SeqMonotonic
<1>3. Waiting(m, a, t) \in Deliveries(T \cup {t})
  BY DEF Waiting, Deliveries
<1>4. /\ pending' \in Seq(Deliveries(T \cup {t}))
      /\ Len(pending') = Len(pending) + 1
      /\ \A i \in 1 .. Len(pending) : pending'[i] = pending[i]
      /\ pending'[Len(pending) + 1] = Waiting(m, a, t)
  BY <1>2, <1>3, AppendProperties
<1>5. Len(pending) \in Nat
  BY Entries
<1> QED BY <1>4, <1>5 DEF Waiting

\* Removing a delivery keeps the others in their order.
LEMMA Removing ==
  ASSUME Types, NEW p \in 1 .. Len(pending), pending' = Without(pending, p)
  PROVE  /\ \E T : pending' \in Seq(Deliveries(T))
         /\ Len(pending') = Len(pending) - 1
         /\ \A q \in 1 .. Len(pending') :
              pending'[q] = IF q < p THEN pending[q] ELSE pending[q + 1]
<1>1. PICK T : pending \in Seq(Deliveries(T))
  BY DEF Types
<1>2. Len(pending) \in Nat /\ \A i \in 1 .. Len(pending) : pending[i] \in Deliveries(T)
  BY <1>1, LenProperties, ElementOfSeq
<1>3. \A q \in 1 .. Len(pending) - 1 :
        (IF q < p THEN pending[q] ELSE pending[q + 1]) \in Deliveries(T)
  BY <1>2
<1>4. pending' \in Seq(Deliveries(T)) /\ Len(pending') = Len(pending) - 1
  BY <1>2, <1>3, IsASeq, LenProperties DEF Without
<1> QED BY <1>2, <1>4 DEF Without

\* The clock changes waits only.
LEMMA Ageing ==
  ASSUME Types, Advance
  PROVE  /\ \E T : pending' \in Seq(Deliveries(T))
         /\ Len(pending') = Len(pending)
         /\ \A q \in 1 .. Len(pending) :
              /\ pending'[q].msg = pending[q].msg
              /\ pending'[q].attempt = pending[q].attempt
<1>1. PICK T : pending \in Seq(Deliveries(T))
  BY DEF Types
<1> DEFINE Left(t) == IF t > 0 THEN t - 1 ELSE 0
           Rest == {Left(t) : t \in T}
           Older(d) == [d EXCEPT !.wait = Left(@)]
<1>2. /\ Len(pending) \in Nat /\ DOMAIN pending = 1 .. Len(pending)
      /\ \A i \in 1 .. Len(pending) : pending[i] \in Deliveries(T)
  BY <1>1, LenProperties, ElementOfSeq
<1>3. pending' = [p \in 1 .. Len(pending) |-> Older(pending[p])]
  BY <1>2 DEF Advance
<1>4. \A d \in Deliveries(T) :
        /\ Older(d) \in Deliveries(Rest)
        /\ Older(d).msg = d.msg /\ Older(d).attempt = d.attempt
  BY DEF Deliveries
<1> HIDE DEF Older, Rest, Left
<1>5. \A i \in 1 .. Len(pending) : Older(pending[i]) \in Deliveries(Rest)
  BY <1>2, <1>4
<1>6. pending' \in Seq(Deliveries(Rest)) /\ Len(pending') = Len(pending)
  BY <1>2, <1>3, <1>5, IsASeq, LenProperties
<1> QED BY <1>2, <1>3, <1>4, <1>6

\* RetryPolicy::new clamps the attempts to at least one.
LEMMA MaxAttempts == Policy.max_attempts \in Nat \ {0}
BY PolicyAssumption DEF Policies

------------------------------------------------------------------------------
(* The invariant holds initially and every action keeps it. *)

\* The invariant holds of the empty queue.
LEMMA InitHolds == Init => IInv
<1> SUFFICES ASSUME Init PROVE IInv
  OBVIOUS
<1> USE MaxAttempts DEF Init
<1>1. Len(pending) = 0 /\ 1 .. Len(pending) = {} /\ pending \in Seq(Deliveries({}))
  BY EmptySeq
<1>2. Types
  BY <1>1, EmptySeq DEF Types, WorkerPlaces
<1>3. Hands /\ Holders
  BY DEF Hands, Holders, Busy
<1>4. Copies
  BY <1>1 DEF Copies
<1>5. Counts
  BY <1>1 DEF Counts
<1>6. Verdict /\ Accounted /\ BuriedForAReason
  BY DEF Verdict, Accounted, BuriedForAReason
<1> QED BY <1>2, <1>3, <1>4, <1>5, <1>6 DEF IInv

\* Publishing keeps the invariant.
LEMMA PublishHolds ==
  ASSUME IInv, NEW m \in Messages, Publish(m)
  PROVE  IInv'
<1> USE MaxAttempts, Entries DEF IInv
<1>1. /\ m \in unsent /\ unsent' = unsent \ {m}
      /\ UNCHANGED <<inFlight, dead, wpc, holds, tries, judged, deadTopic, stops, expiries>>
      /\ pending' = Append(pending, Waiting(m, 1, 0))
  BY DEF Publish, workerVars, history, bounds
<1>2. /\ \E T : pending' \in Seq(Deliveries(T))
      /\ Len(pending') = Len(pending) + 1
      /\ \A i \in 1 .. Len(pending) : pending'[i] = pending[i]
      /\ pending'[Len(pending) + 1].msg = m
      /\ pending'[Len(pending) + 1].attempt = 1
      /\ \A i \in 1 .. Len(pending') : i \in 1 .. Len(pending) \/ i = Len(pending) + 1
  BY <1>1, Appending
<1>3. Types'
  BY <1>1, <1>2 DEF Types
<1>4. Hands' /\ Holders'
  BY <1>1 DEF Hands, Holders, Busy
<1>5. Copies'
  BY SMTT(30), <1>1, <1>2 DEF Copies, Types
<1>6. Counts'
  BY <1>1, <1>2 DEF Counts, Types
<1>7. Verdict' /\ BuriedForAReason'
  BY <1>1 DEF Verdict, BuriedForAReason, Buried
<1>8. Accounted'
  BY <1>1, <1>2 DEF Accounted, Buried
<1> QED BY <1>3, <1>4, <1>5, <1>6, <1>7, <1>8

\* The clock keeps the invariant.
LEMMA AdvanceHolds ==
  ASSUME IInv, Advance
  PROVE  IInv'
<1> USE Entries DEF IInv
<1>1. UNCHANGED <<unsent, inFlight, dead, wpc, holds, tries, judged, deadTopic, stops, expiries>>
  BY DEF Advance, workerVars, history, bounds
<1>2. /\ \E T : pending' \in Seq(Deliveries(T))
      /\ Len(pending') = Len(pending)
      /\ \A q \in 1 .. Len(pending) :
           /\ pending'[q].msg = pending[q].msg
           /\ pending'[q].attempt = pending[q].attempt
  BY Ageing
<1>3. Types'
  BY <1>1, <1>2 DEF Types
<1>4. Hands' /\ Holders'
  BY <1>1 DEF Hands, Holders, Busy
<1>5. Copies' /\ Counts'
  BY <1>1, <1>2 DEF Copies, Counts
<1>6. Verdict' /\ BuriedForAReason'
  BY <1>1 DEF Verdict, BuriedForAReason, Buried
<1>7. Accounted'
  BY <1>1, <1>2 DEF Accounted, Buried
<1> QED BY <1>3, <1>4, <1>5, <1>6, <1>7

\* Checking out and calling the handler keeps the invariant.
LEMMA ReceiveHolds ==
  ASSUME IInv, NEW w \in Workers, Receive(w)
  PROVE  IInv'
<1> USE MaxAttempts, Entries DEF IInv
<1>1. PICK p \in 1 .. Len(pending) :
        /\ pending' = Without(pending, p)
        /\ inFlight' = [inFlight EXCEPT ![pending[p].msg] = pending[p].attempt]
        /\ holds' = [holds EXCEPT ![w] = Held(pending[p].msg, pending[p].attempt)]
        /\ tries' = [tries EXCEPT ![pending[p].msg] = @ + 1]
  BY DEF Receive
<1>2. /\ wpc[w] = "idle" /\ wpc' = [wpc EXCEPT ![w] = "handling"]
      /\ UNCHANGED <<unsent, dead, judged, deadTopic, stops, expiries>>
  BY DEF Receive, bounds
<1> DEFINE m == pending[p].msg
           a == pending[p].attempt
<1>3. m \in Messages /\ a \in Nat \ {0} /\ m \notin unsent /\ inFlight[m] = 0
  BY DEF Copies
<1>4. /\ \E T : pending' \in Seq(Deliveries(T))
      /\ Len(pending') = Len(pending) - 1
      /\ \A q \in 1 .. Len(pending') :
           pending'[q] = IF q < p THEN pending[q] ELSE pending[q + 1]
  BY <1>1, Removing
<1>5. \A q \in 1 .. Len(pending') : \E r \in 1 .. Len(pending) :
        r # p /\ r = (IF q < p THEN q ELSE q + 1) /\ pending'[q] = pending[r]
  BY <1>4
<1>6. \A q \in 1 .. Len(pending') : pending'[q].msg # m
  BY <1>5 DEF Copies
<1>7. /\ inFlight' \in [Messages -> Nat] /\ tries' \in [Messages -> Nat]
      /\ inFlight'[m] = a /\ tries'[m] = a /\ a <= Policy.max_attempts + expiries
      /\ \A n \in Messages : n # m => inFlight'[n] = inFlight[n] /\ tries'[n] = tries[n]
  BY SMTT(30), <1>1, <1>3 DEF Types, Counts
<1>8. /\ Held(m, a) \in DeliveryOf /\ Held(m, a).msg = m /\ Held(m, a).attempt = a
  BY <1>3 DEF Held, DeliveryOf
<1>9. /\ holds'[w] = Held(m, a) /\ wpc'[w] = "handling"
      /\ \A v \in Workers : v # w => holds'[v] = holds[v] /\ wpc'[v] = wpc[v]
  BY <1>1, <1>2 DEF Types
<1> HIDE DEF m, a
<1>10. Types'
  <2>1. holds' \in [Workers -> DeliveryOf \cup {None}] /\ wpc' \in [Workers -> WorkerPlaces]
    BY <1>1, <1>2, <1>8 DEF Types, WorkerPlaces, m, a
  <2> QED BY <1>2, <1>4, <1>7, <2>1 DEF Types
<1>11. Hands'
  BY <1>8, <1>9 DEF Hands, Busy
<1>12. Copies'
  <2>1. \A q, r \in 1 .. Len(pending') : pending'[q].msg = pending'[r].msg => q = r
    BY <1>5 DEF Copies
  <2>2. ASSUME NEW q \in 1 .. Len(pending')
        PROVE  pending'[q].msg \notin unsent' /\ inFlight'[pending'[q].msg] = 0
    <3>1. PICK r \in 1 .. Len(pending) : pending'[q] = pending[r]
      BY <1>5
    <3>2. pending[r].msg \in Messages /\ pending[r].msg \notin unsent /\ inFlight[pending[r].msg] = 0
      BY DEF Copies
    <3>3. pending[r].msg # m
      BY <1>6, <3>1
    <3> QED BY <1>2, <1>7, <3>1, <3>2, <3>3
  <2> QED BY <1>2, <1>3, <1>7, <2>1, <2>2 DEF Copies, Types
<1>13. Holders'
  <2> SUFFICES ASSUME expiries = 0
               PROVE  \A v \in Workers : Busy(v)' =>
                        /\ inFlight'[holds'[v].msg] = holds'[v].attempt
                        /\ \A u \in Workers :
                             Busy(u)' /\ holds'[u].msg = holds'[v].msg => u = v
    BY <1>2 DEF Holders
  <2>1. \A v \in Workers : v # w /\ Busy(v) =>
          /\ holds[v].msg \in Messages /\ holds[v].msg # m
          /\ inFlight[holds[v].msg] = holds[v].attempt
    BY <1>3 DEF Holders, Hands, DeliveryOf
  <2>2. \A v \in Workers : v # w => (Busy(v)' <=> Busy(v)) /\ holds'[v] = holds[v]
    BY <1>9 DEF Busy
  <2>3. \A v \in Workers : v # w /\ Busy(v) =>
          inFlight'[holds'[v].msg] = holds'[v].attempt /\ holds'[v].msg # m
    BY <1>7, <2>1, <2>2
  <2>4. inFlight'[holds'[w].msg] = holds'[w].attempt /\ holds'[w].msg = m
    BY <1>7, <1>8, <1>9
  <2> QED BY <2>2, <2>3, <2>4 DEF Holders
<1>14. Counts'
  <2>1. \A q \in 1 .. Len(pending') :
          /\ tries'[pending'[q].msg] = pending'[q].attempt - 1
          /\ pending'[q].attempt <= Policy.max_attempts + expiries'
    <3> TAKE q \in 1 .. Len(pending')
    <3>1. PICK r \in 1 .. Len(pending) : pending'[q] = pending[r] /\ pending[r].msg # m
      BY <1>5, <1>6
    <3>2. tries'[pending[r].msg] = tries[pending[r].msg]
      BY <1>7, <3>1
    <3> QED BY <1>2, <3>1, <3>2 DEF Counts
  <2>2. \A n \in Messages :
          /\ inFlight'[n] # 0 => tries'[n] = inFlight'[n]
          /\ tries'[n] <= Policy.max_attempts + expiries'
    <3> TAKE n \in Messages
    <3>1. CASE n = m
      BY <1>2, <1>7, <3>1
    <3>2. CASE n # m
      BY <1>2, <1>7, <3>2 DEF Counts
    <3> QED BY <3>1, <3>2
  <2>3. \A n \in unsent' : tries'[n] = 0
    BY <1>2, <1>3, <1>7 DEF Counts, Types
  <2>4. \A v \in Workers : wpc'[v] = "nack" => holds'[v].attempt < Policy.max_attempts
    BY <1>9 DEF Counts
  <2> QED BY <2>1, <2>2, <2>3, <2>4 DEF Counts
<1>15. Verdict'
  BY <1>2, <1>9 DEF Verdict, Buried
<1>16. BuriedForAReason'
  <2> SUFFICES ASSUME NEW v \in Workers, wpc'[v] \in {"bury", "settle", "discard"},
                      expiries = 0
               PROVE  \/ "permanent" \in judged[holds'[v].msg]
                      \/ /\ "retryable" \in judged[holds'[v].msg]
                         /\ tries'[holds'[v].msg] = Policy.max_attempts
    BY <1>2 DEF BuriedForAReason
  <2>1. wpc'[v] = wpc[v] /\ holds'[v] = holds[v]
    BY <1>9
  <2>2. Busy(v) /\ holds[v] \in DeliveryOf /\ inFlight[holds[v].msg] = holds[v].attempt
    BY <2>1 DEF Busy, Hands, Holders
  <2>3. holds[v].msg \in Messages /\ holds[v].msg # m
    BY <1>3, <2>2 DEF DeliveryOf
  <2>4. tries'[holds[v].msg] = tries[holds[v].msg]
    BY <1>7, <2>3
  <2> QED BY <2>1, <2>4 DEF BuriedForAReason
<1>17. Accounted'
  <2> SUFFICES ASSUME NEW n \in Messages \ unsent', n # m
               PROVE  \/ \E q \in 1 .. Len(pending') : pending'[q].msg = n
                      \/ inFlight'[n] # 0
                      \/ "ok" \in judged'[n]
                      \/ judged'[n] # {} /\ (deadTopic' => Buried(n)')
    BY <1>3, <1>7 DEF Accounted
  <2>1. ASSUME NEW r \in 1 .. Len(pending), pending[r].msg = n
        PROVE  \E q \in 1 .. Len(pending') : pending'[q].msg = n
    <3>1. r # p
      BY <2>1 DEF m
    <3>2. CASE r < p
      BY <1>4, <2>1, <3>2
    <3>3. CASE r > p
      <4>1. r - 1 \in 1 .. Len(pending') /\ pending'[r - 1] = pending[r]
        BY <1>4, <3>3
      <4> QED BY <2>1, <4>1
    <3> QED BY <3>1, <3>2, <3>3
  <2>2. n \in Messages \ unsent /\ inFlight'[n] = inFlight[n]
    BY <1>2, <1>7
  <2> QED BY <1>2, <2>1, <2>2 DEF Accounted, Buried
<1> QED BY <1>10, <1>11, <1>12, <1>13, <1>14, <1>15, <1>16, <1>17

\* Judging the handler's result keeps the invariant.
LEMMA HandlerReturnsHolds ==
  ASSUME IInv, NEW w \in Workers, HandlerReturns(w)
  PROVE  IInv'
<1> USE MaxAttempts, Entries DEF IInv
<1>1. PICK verdict \in {"ok", "retryable", "permanent"} :
        /\ wpc' = [wpc EXCEPT ![w] = SettleWith(w, verdict)]
        /\ judged' = [judged EXCEPT ![holds[w].msg] = @ \cup {verdict}]
  BY DEF HandlerReturns
<1>2. /\ wpc[w] = "handling"
      /\ UNCHANGED <<unsent, pending, inFlight, dead, holds, tries, deadTopic, stops, expiries>>
  BY DEF HandlerReturns, queueVars, bounds
<1>3. Busy(w) /\ holds[w].msg \in Messages /\ holds[w].attempt \in Nat \ {0}
  BY <1>2 DEF Hands, Busy, DeliveryOf
<1>4. /\ judged' \in [Messages -> SUBSET Verdicts]
      /\ verdict \in judged'[holds[w].msg]
      /\ \A n \in Messages : judged[n] \subseteq judged'[n]
  BY <1>1, <1>3 DEF Types, Verdicts
<1>5. \A v \in Workers : v # w => wpc'[v] = wpc[v]
  BY <1>1 DEF Types
<1>6. /\ wpc'[w] \in {"ack", "nack", "bury", "discard"}
      /\ wpc'[w] = "ack" => verdict = "ok"
      /\ wpc'[w] = "nack" => verdict = "retryable" /\ holds[w].attempt < Policy.max_attempts
      /\ wpc'[w] \in {"bury", "discard"} =>
           verdict = "permanent"
           \/ (verdict = "retryable" /\ holds[w].attempt >= Policy.max_attempts)
      /\ wpc'[w] = "discard" => ~deadTopic
  <2>1. wpc'[w] = SettleWith(w, verdict)
    BY <1>1 DEF Types
  <2>2. CASE verdict = "ok"
    BY <2>1, <2>2 DEF SettleWith
  <2>3. CASE verdict = "retryable" /\ holds[w].attempt < Policy.max_attempts
    <3>1. ~IsExhausted(Policy, holds[w].attempt)
      BY <1>3, <2>3 DEF IsExhausted
    <3> QED BY <2>1, <2>3, <3>1 DEF SettleWith
  <2>4. CASE /\ verdict # "ok"
             /\ verdict = "retryable" => holds[w].attempt >= Policy.max_attempts
    <3>1. verdict # "retryable" \/ IsExhausted(Policy, holds[w].attempt)
      BY <2>4 DEF IsExhausted
    <3>2. /\ deadTopic => wpc'[w] = "bury"
          /\ ~deadTopic => wpc'[w] = "discard"
      BY <2>1, <2>4, <3>1 DEF SettleWith
    <3>3. wpc'[w] \in {"bury", "discard"} /\ (wpc'[w] = "discard" => ~deadTopic)
      BY <3>2
    <3>4. \/ verdict = "permanent"
          \/ (verdict = "retryable" /\ holds[w].attempt >= Policy.max_attempts)
      BY <2>4
    <3> QED BY <3>3, <3>4
  <2> QED BY <1>3, <2>2, <2>3, <2>4
<1>7. Types'
  <2>1. wpc' \in [Workers -> WorkerPlaces]
    BY <1>1, <1>6, <1>5 DEF Types, WorkerPlaces
  <2> QED BY <1>2, <1>4, <2>1 DEF Types
<1>8. \A v \in Workers : Busy(v)' <=> Busy(v)
  BY <1>2, <1>5, <1>6 DEF Busy
<1>9. Hands' /\ Holders'
  BY <1>2, <1>8 DEF Hands, Holders
<1>10. Copies'
  BY <1>2 DEF Copies
<1>11. Counts'
  BY <1>2, <1>5, <1>6 DEF Counts
<1>12. \A v \in Workers : Busy(v) => holds[v].msg \in Messages
  BY DEF Hands, DeliveryOf
<1>13. Verdict'
  <2> SUFFICES ASSUME NEW v \in Workers
               PROVE  /\ wpc'[v] = "ack" => "ok" \in judged'[holds'[v].msg]
                      /\ wpc'[v] \in {"nack", "bury", "settle", "discard"} =>
                           judged'[holds'[v].msg] # {}
                      /\ wpc'[v] = "settle" => Buried(holds[v].msg)'
                      /\ wpc'[v] = "discard" => ~deadTopic'
    BY <1>2 DEF Verdict, Buried
  <2>1. CASE v = w
    BY <1>2, <1>4, <1>6, <2>1
  <2>2. CASE v # w
    BY <1>2, <1>4, <1>5, <1>12, <2>2 DEF Verdict, Busy, Buried
  <2> QED BY <2>1, <2>2
<1>14. BuriedForAReason'
  <2> SUFFICES ASSUME NEW v \in Workers, wpc'[v] \in {"bury", "settle", "discard"},
                      expiries = 0
               PROVE  \/ "permanent" \in judged'[holds[v].msg]
                      \/ /\ "retryable" \in judged'[holds[v].msg]
                         /\ tries[holds[v].msg] = Policy.max_attempts
    BY <1>2 DEF BuriedForAReason
  <2>1. CASE v = w
    <3>1. tries[holds[w].msg] = holds[w].attempt /\ tries[holds[w].msg] <= Policy.max_attempts
      BY <1>3 DEF Holders, Counts, Types
    <3> QED BY <1>3, <1>4, <1>6, <2>1, <3>1 DEF Types
  <2>2. CASE v # w
    <3>1. /\ wpc[v] \in {"bury", "settle", "discard"} /\ Busy(v)
          /\ judged[holds[v].msg] \subseteq judged'[holds[v].msg]
      BY <1>4, <1>5, <1>12, <2>2 DEF Busy
    <3> QED BY <3>1 DEF BuriedForAReason
  <2> QED BY <2>1, <2>2
<1>15. Accounted'
  BY <1>2, <1>4 DEF Accounted, Buried
<1> QED BY <1>7, <1>9, <1>10, <1>11, <1>13, <1>14, <1>15

\* A worker that leaves its delivery, whatever becomes of it.
LEMMA Leaving ==
  ASSUME IInv, NEW w \in Workers, NEW place \in {"idle", "stopped"},
         wpc' = [wpc EXCEPT ![w] = place],
         holds' = [holds EXCEPT ![w] = None]
  PROVE  /\ wpc' \in [Workers -> WorkerPlaces]
         /\ holds' \in [Workers -> DeliveryOf \cup {None}]
         /\ Hands'
         /\ ~Busy(w)' /\ wpc'[w] = place
         /\ \A v \in Workers : v # w => wpc'[v] = wpc[v] /\ holds'[v] = holds[v]
<1>1. /\ wpc \in [Workers -> WorkerPlaces]
      /\ holds \in [Workers -> DeliveryOf \cup {None}]
      /\ Hands
  BY DEF IInv, Types
<1>2. /\ wpc' \in [Workers -> WorkerPlaces]
      /\ holds' \in [Workers -> DeliveryOf \cup {None}]
      /\ wpc'[w] = place /\ holds'[w] = None
      /\ \A v \in Workers : v # w => wpc'[v] = wpc[v] /\ holds'[v] = holds[v]
  BY <1>1 DEF WorkerPlaces
<1> QED BY <1>1, <1>2 DEF Hands, Busy

\* Nothing else changes: Stop and UnknownReceipt.
LEMMA GivesUpHolds ==
  ASSUME IInv, NEW w \in Workers,
         wpc' = [wpc EXCEPT ![w] = "stopped"],
         holds' = [holds EXCEPT ![w] = None],
         UNCHANGED <<unsent, pending, inFlight, dead, tries, judged, deadTopic, expiries>>
  PROVE  IInv'
<1> USE DEF IInv
<1>1. /\ wpc' \in [Workers -> WorkerPlaces]
      /\ holds' \in [Workers -> DeliveryOf \cup {None}]
      /\ Hands' /\ ~Busy(w)' /\ wpc'[w] = "stopped"
      /\ \A v \in Workers : v # w => wpc'[v] = wpc[v] /\ holds'[v] = holds[v]
  BY Leaving
<1>2. Types' /\ Copies' /\ Accounted'
  BY ZenonT(40), <1>1 DEF Types, Copies, Accounted, Buried
<1>3. \A v \in Workers : Busy(v)' => Busy(v) /\ holds'[v] = holds[v]
  BY <1>1 DEF Busy
<1>4. Holders'
  BY <1>3 DEF Holders
<1>5. Counts'
  BY <1>1 DEF Counts
<1>6. Verdict' /\ BuriedForAReason'
  BY <1>1 DEF Verdict, BuriedForAReason, Buried
<1> QED BY <1>1, <1>2, <1>4, <1>5, <1>6

\* Acknowledging keeps the invariant.
LEMMA AckHolds ==
  ASSUME IInv, NEW w \in Workers, Ack(w)
  PROVE  IInv'
<1> USE MaxAttempts, Entries DEF IInv
<1>1. /\ wpc[w] \in {"ack", "discard", "settle"}
      /\ inFlight[holds[w].msg] = holds[w].attempt
      /\ inFlight' = [inFlight EXCEPT ![holds[w].msg] = 0]
      /\ wpc' = [wpc EXCEPT ![w] = "idle"]
      /\ holds' = [holds EXCEPT ![w] = None]
      /\ UNCHANGED <<unsent, pending, dead, tries, judged, deadTopic, expiries>>
  BY DEF Ack, Known, Settled, Done, history, bounds
<1>2. /\ wpc' \in [Workers -> WorkerPlaces]
      /\ holds' \in [Workers -> DeliveryOf \cup {None}]
      /\ Hands' /\ ~Busy(w)' /\ wpc'[w] = "idle"
      /\ \A v \in Workers : v # w => wpc'[v] = wpc[v] /\ holds'[v] = holds[v]
  BY <1>1, Leaving
<1>3. /\ Busy(w) /\ holds[w].msg \in Messages /\ holds[w].attempt \in Nat \ {0}
  BY <1>1 DEF Hands, Busy, DeliveryOf
<1>4. /\ inFlight' \in [Messages -> Nat] /\ inFlight'[holds[w].msg] = 0
      /\ \A n \in Messages : n # holds[w].msg => inFlight'[n] = inFlight[n]
  BY <1>1, <1>3 DEF Types
<1>5. \A v \in Workers : Busy(v)' => v # w /\ Busy(v) /\ holds'[v] = holds[v]
  BY <1>2 DEF Busy
<1>6. Types'
  BY <1>1, <1>2, <1>4 DEF Types
<1>7. Copies'
  BY <1>1, <1>3, <1>4 DEF Copies, Types
<1>8. Holders'
  <2>1. \A v \in Workers : Busy(v) => holds[v].msg \in Messages
    BY DEF Hands, DeliveryOf
  <2> QED BY <1>1, <1>3, <1>4, <1>5, <2>1 DEF Holders
<1>9. Counts'
  BY <1>1, <1>2, <1>3, <1>4 DEF Counts
<1>10. Verdict' /\ BuriedForAReason'
  BY <1>1, <1>2 DEF Verdict, BuriedForAReason, Buried
<1>11. Accounted'
  <2> SUFFICES ASSUME NEW n \in Messages \ unsent
               PROVE  \/ \E p \in 1 .. Len(pending) : pending[p].msg = n
                      \/ inFlight'[n] # 0
                      \/ "ok" \in judged[n]
                      \/ judged[n] # {} /\ (deadTopic => Buried(n))
    BY <1>1 DEF Accounted, Buried
  <2>1. CASE n = holds[w].msg
    BY <1>1, <2>1 DEF Verdict
  <2>2. CASE n # holds[w].msg
    BY <1>4, <2>2 DEF Accounted
  <2> QED BY <2>1, <2>2
<1> QED BY <1>2, <1>6, <1>7, <1>8, <1>9, <1>10, <1>11

\* A delivery that was checked out goes back to the topic with one attempt
\* more, and its receipt is gone: Nack and Expire.
LEMMA Returning ==
  ASSUME IInv, NEW m \in Messages, inFlight[m] # 0, NEW t,
         expiries' \in Nat, expiries <= expiries',
         inFlight[m] + 1 <= Policy.max_attempts + expiries',
         inFlight' = [inFlight EXCEPT ![m] = 0],
         pending' = Append(pending, Waiting(m, inFlight[m] + 1, t)),
         UNCHANGED <<unsent, dead, tries, judged, deadTopic>>
  PROVE  /\ \E T : pending' \in Seq(Deliveries(T))
         /\ inFlight' \in [Messages -> Nat] /\ inFlight'[m] = 0
         /\ \A n \in Messages : n # m => inFlight'[n] = inFlight[n]
         /\ Copies'
         /\ \A p \in 1 .. Len(pending') :
              /\ tries'[pending'[p].msg] = pending'[p].attempt - 1
              /\ pending'[p].attempt <= Policy.max_attempts + expiries'
         /\ \A n \in Messages :
              /\ inFlight'[n] # 0 => tries'[n] = inFlight'[n]
              /\ tries'[n] <= Policy.max_attempts + expiries'
         /\ \A n \in unsent' : tries'[n] = 0
         /\ Accounted'
<1> USE MaxAttempts, Entries DEF IInv
<1>1. inFlight[m] + 1 \in Nat \ {0}
  BY DEF Types
<1>2. /\ \E T : pending' \in Seq(Deliveries(T))
      /\ Len(pending') = Len(pending) + 1
      /\ \A i \in 1 .. Len(pending) : pending'[i] = pending[i]
      /\ pending'[Len(pending) + 1].msg = m
      /\ pending'[Len(pending) + 1].attempt = inFlight[m] + 1
      /\ \A i \in 1 .. Len(pending') : i \in 1 .. Len(pending) \/ i = Len(pending) + 1
  BY <1>1, Appending
<1>3. /\ inFlight' \in [Messages -> Nat] /\ inFlight'[m] = 0
      /\ \A n \in Messages : n # m => inFlight'[n] = inFlight[n]
  BY DEF Types
<1>4. m \notin unsent /\ \A p \in 1 .. Len(pending) : pending[p].msg # m
  BY DEF Copies
<1>5. Copies'
  <2>1. \A p, q \in 1 .. Len(pending') : pending'[p].msg = pending'[q].msg => p = q
    BY <1>2, <1>4 DEF Copies
  <2>2. \A p \in 1 .. Len(pending') :
          pending'[p].msg \notin unsent' /\ inFlight'[pending'[p].msg] = 0
    BY <1>2, <1>3, <1>4 DEF Copies
  <2>3. \A n \in unsent' : inFlight'[n] = 0
    BY <1>3, <1>4 DEF Copies, Types
  <2> QED BY <2>1, <2>2, <2>3 DEF Copies
<1>6. tries[m] = inFlight[m]
  BY DEF Counts
<1>7. \A p \in 1 .. Len(pending') :
        /\ tries'[pending'[p].msg] = pending'[p].attempt - 1
        /\ pending'[p].attempt <= Policy.max_attempts + expiries'
  <2> TAKE p \in 1 .. Len(pending')
  <2>1. CASE p \in 1 .. Len(pending)
    <3>1. pending'[p] = pending[p]
      BY <1>2, <2>1
    <3>2. pending[p].attempt <= Policy.max_attempts + expiries
      BY <2>1 DEF Counts
    <3>3. pending[p].attempt \in Nat /\ expiries \in Nat
      BY <2>1 DEF Types
    <3> QED BY SMTT(30), <2>1, <3>1, <3>2, <3>3 DEF Counts
  <2>2. CASE p = Len(pending) + 1
    <3>1. pending'[p].msg = m /\ pending'[p].attempt = inFlight[m] + 1
      BY <1>2, <2>2
    <3>2. inFlight[m] \in Nat /\ tries'[m] = inFlight[m]
      BY <1>6 DEF Types
    <3>3. tries'[pending'[p].msg] = pending'[p].attempt - 1
      BY <3>1, <3>2
    <3>4. pending'[p].attempt <= Policy.max_attempts + expiries'
      BY <3>1
    <3> QED BY <3>3, <3>4
  <2> QED BY <1>2, <2>1, <2>2
<1>8. \A n \in Messages :
        /\ inFlight'[n] # 0 => tries'[n] = inFlight'[n]
        /\ tries'[n] <= Policy.max_attempts + expiries'
  <2> TAKE n \in Messages
  <2>1. tries[n] <= Policy.max_attempts + expiries /\ tries[n] \in Nat /\ expiries \in Nat
    BY DEF Counts, Types
  <2>2. inFlight'[n] # 0 => tries[n] = inFlight'[n]
    BY <1>3 DEF Counts
  <2> QED BY <2>1, <2>2
<1>9. \A n \in unsent' : tries'[n] = 0
  BY DEF Counts
<1>10. Accounted'
  <2> SUFFICES ASSUME NEW n \in Messages \ unsent
               PROVE  \/ \E p \in 1 .. Len(pending') : pending'[p].msg = n
                      \/ inFlight'[n] # 0
                      \/ "ok" \in judged[n]
                      \/ judged[n] # {} /\ (deadTopic => Buried(n))
    BY DEF Accounted, Buried
  <2>1. CASE n = m
    BY <1>2, <2>1
  <2>2. CASE n # m
    BY <1>2, <1>3, <2>2 DEF Accounted
  <2> QED BY <2>1, <2>2
<1> QED BY <1>2, <1>3, <1>5, <1>7, <1>8, <1>9, <1>10

\* Giving back keeps the invariant.
LEMMA NackHolds ==
  ASSUME IInv, NEW w \in Workers, Nack(w)
  PROVE  IInv'
<1> USE MaxAttempts, Entries DEF IInv
<1> DEFINE m == holds[w].msg
<1>1. /\ wpc[w] = "nack"
      /\ inFlight[m] = holds[w].attempt
      /\ inFlight' = [inFlight EXCEPT ![m] = 0]
      /\ pending' = Append(pending, Waiting(m, holds[w].attempt + 1,
                                            Backoff(Policy, holds[w].attempt)))
      /\ wpc' = [wpc EXCEPT ![w] = "idle"]
      /\ holds' = [holds EXCEPT ![w] = None]
      /\ UNCHANGED <<unsent, dead, tries, judged, deadTopic, expiries>>
  BY DEF Nack, Known, Settled, Done, history, bounds
<1>2. /\ wpc' \in [Workers -> WorkerPlaces]
      /\ holds' \in [Workers -> DeliveryOf \cup {None}]
      /\ Hands' /\ ~Busy(w)' /\ wpc'[w] = "idle"
      /\ \A v \in Workers : v # w => wpc'[v] = wpc[v] /\ holds'[v] = holds[v]
  BY <1>1, Leaving
<1>3. Busy(w) /\ m \in Messages /\ inFlight[m] \in Nat \ {0} /\ expiries \in Nat
  BY <1>1 DEF Hands, Busy, DeliveryOf, Types
<1>4. inFlight[m] + 1 <= Policy.max_attempts + expiries
  BY <1>1, <1>3 DEF Counts
<1> HIDE DEF m
<1>5. /\ \E T : pending' \in Seq(Deliveries(T))
      /\ inFlight' \in [Messages -> Nat] /\ inFlight'[m] = 0
      /\ \A n \in Messages : n # m => inFlight'[n] = inFlight[n]
      /\ Copies'
      /\ \A p \in 1 .. Len(pending') :
           /\ tries'[pending'[p].msg] = pending'[p].attempt - 1
           /\ pending'[p].attempt <= Policy.max_attempts + expiries'
      /\ \A n \in Messages :
           /\ inFlight'[n] # 0 => tries'[n] = inFlight'[n]
           /\ tries'[n] <= Policy.max_attempts + expiries'
      /\ \A n \in unsent' : tries'[n] = 0
      /\ Accounted'
  <2>1. pending' = Append(pending, Waiting(m, inFlight[m] + 1,
                                         Backoff(Policy, holds[w].attempt)))
    BY <1>1
  <2>2. inFlight[m] # 0 /\ expiries' \in Nat /\ expiries <= expiries'
    BY <1>1, <1>3
  <2>3. inFlight[m] + 1 <= Policy.max_attempts + expiries'
    BY <1>1, <1>4
  <2>4. UNCHANGED <<unsent, dead, tries, judged, deadTopic>>
    BY <1>1
  <2> QED BY <1>1, <1>3, <2>1, <2>2, <2>3, <2>4, Returning
<1>6. \A v \in Workers : Busy(v)' => v # w /\ Busy(v) /\ holds'[v] = holds[v]
  BY <1>2 DEF Busy
<1>7. Types'
  BY <1>1, <1>2, <1>5 DEF Types
<1>8. Holders'
  <2>1. \A v \in Workers : Busy(v) => holds[v].msg \in Messages
    BY DEF Hands, DeliveryOf
  <2> QED BY <1>1, <1>3, <1>5, <1>6, <2>1 DEF Holders, m
<1>9. Counts'
  <2>1. \A v \in Workers : wpc'[v] = "nack" => holds'[v].attempt < Policy.max_attempts
    BY <1>2 DEF Counts
  <2> QED BY <1>5, <2>1 DEF Counts
<1>10. Verdict' /\ BuriedForAReason'
  BY <1>1, <1>2 DEF Verdict, BuriedForAReason, Buried
<1> QED BY <1>2, <1>5, <1>7, <1>8, <1>9, <1>10

\* An expired lease keeps the invariant.
LEMMA ExpireHolds ==
  ASSUME IInv, NEW m \in Messages, Expire(m)
  PROVE  IInv'
<1> USE MaxAttempts DEF IInv
<1>1. /\ inFlight[m] # 0 /\ expiries' = expiries + 1
      /\ inFlight' = [inFlight EXCEPT ![m] = 0]
      /\ pending' = Append(pending, Waiting(m, inFlight[m] + 1, 0))
      /\ UNCHANGED <<unsent, dead, wpc, holds, tries, judged, deadTopic>>
  BY DEF Expire, workerVars, history
<1>2. /\ expiries' \in Nat \ {0} /\ expiries <= expiries'
      /\ inFlight[m] + 1 <= Policy.max_attempts + expiries'
  <2>1. inFlight[m] \in Nat /\ expiries \in Nat
    BY DEF Types
  <2>2. inFlight[m] <= Policy.max_attempts + expiries
    BY <1>1 DEF Counts
  <2> QED BY <1>1, <2>1, <2>2
<1>3. /\ \E T : pending' \in Seq(Deliveries(T))
      /\ inFlight' \in [Messages -> Nat]
      /\ Copies'
      /\ \A p \in 1 .. Len(pending') :
           /\ tries'[pending'[p].msg] = pending'[p].attempt - 1
           /\ pending'[p].attempt <= Policy.max_attempts + expiries'
      /\ \A n \in Messages :
           /\ inFlight'[n] # 0 => tries'[n] = inFlight'[n]
           /\ tries'[n] <= Policy.max_attempts + expiries'
      /\ \A n \in unsent' : tries'[n] = 0
      /\ Accounted'
  BY <1>1, <1>2, Returning
<1>4. Types'
  BY <1>1, <1>2, <1>3 DEF Types
<1>5. Hands' /\ Verdict'
  BY <1>1 DEF Hands, Busy, Verdict, Buried
<1>6. Holders' /\ BuriedForAReason'
  BY <1>2 DEF Holders, BuriedForAReason
<1>7. Counts'
  BY <1>1, <1>3 DEF Counts
<1> QED BY <1>3, <1>4, <1>5, <1>6, <1>7

\* Dead-lettering keeps the invariant.
LEMMA BuryHolds ==
  ASSUME IInv, NEW w \in Workers, Bury(w)
  PROVE  IInv'
<1> USE DEF IInv
<1>1. /\ wpc[w] = "bury" /\ dead' = Append(dead, holds[w].msg)
      /\ wpc' = [wpc EXCEPT ![w] = "settle"]
      /\ UNCHANGED <<unsent, pending, inFlight, holds, tries, judged, deadTopic, expiries>>
  BY DEF Bury, history, bounds
<1>2. holds[w].msg \in Messages
  BY <1>1 DEF Hands, Busy, DeliveryOf
<1>3. /\ dead' \in Seq(Messages) /\ Buried(holds[w].msg)'
      /\ \A n \in Messages : Buried(n) => Buried(n)'
  <2>1. /\ dead' \in Seq(Messages) /\ Len(dead') = Len(dead) + 1 /\ Len(dead) \in Nat
        /\ \A i \in 1 .. Len(dead) : dead'[i] = dead[i]
        /\ dead'[Len(dead) + 1] = holds[w].msg
        /\ DOMAIN dead = 1 .. Len(dead) /\ DOMAIN dead' = 1 .. Len(dead')
    BY <1>1, <1>2, AppendProperties, LenProperties DEF Types
  <2> QED BY <1>1, <2>1 DEF Buried
<1>4. /\ wpc' \in [Workers -> WorkerPlaces] /\ wpc'[w] = "settle"
      /\ \A v \in Workers : v # w => wpc'[v] = wpc[v]
  BY <1>1 DEF Types, WorkerPlaces
<1>5. \A v \in Workers : (Busy(v)' <=> Busy(v)) /\ (Busy(v) => holds[v].msg \in Messages)
  BY <1>1, <1>4 DEF Busy, Hands, DeliveryOf
<1>6. Types'
  BY <1>1, <1>3, <1>4 DEF Types
<1>7. Hands' /\ Holders' /\ Copies'
  BY <1>1, <1>5 DEF Hands, Holders, Copies
<1>8. Counts'
  BY <1>1, <1>4 DEF Counts
<1>9. Verdict'
  <2> SUFFICES ASSUME NEW v \in Workers
               PROVE  /\ wpc'[v] = "ack" => "ok" \in judged[holds[v].msg]
                      /\ wpc'[v] \in {"nack", "bury", "settle", "discard"} =>
                           judged[holds[v].msg] # {}
                      /\ wpc'[v] = "settle" => Buried(holds[v].msg)'
                      /\ wpc'[v] = "discard" => ~deadTopic
    BY <1>1 DEF Verdict, Buried
  <2>1. CASE v = w
    BY <1>1, <1>3, <1>4, <2>1 DEF Verdict
  <2>2. CASE v # w
    BY <1>1, <1>3, <1>4, <1>5, <2>2 DEF Verdict, Busy
  <2> QED BY <2>1, <2>2
<1>10. BuriedForAReason'
  BY <1>1, <1>4 DEF BuriedForAReason
<1>11. Accounted'
  BY <1>1, <1>3 DEF Accounted
<1> QED BY <1>6, <1>7, <1>8, <1>9, <1>10, <1>11

\* A worker that starts again keeps the invariant.
LEMMA RestartHolds ==
  ASSUME IInv, NEW w \in Workers, Restart(w)
  PROVE  IInv'
<1> USE DEF IInv
<1>1. /\ wpc[w] = "stopped" /\ wpc' = [wpc EXCEPT ![w] = "idle"]
      /\ UNCHANGED <<queueVars, holds, history, bounds>>
  BY DEF Restart
<1>2. /\ wpc' \in [Workers -> WorkerPlaces] /\ wpc'[w] = "idle"
      /\ \A v \in Workers : v # w => wpc'[v] = wpc[v]
  BY <1>1 DEF Types, WorkerPlaces
<1>3. \A v \in Workers : Busy(v)' <=> Busy(v)
  BY <1>1, <1>2 DEF Busy
<1> USE DEF queueVars, history, bounds
<1>4. Types' /\ Copies' /\ Accounted'
  BY ZenonT(40), <1>1, <1>2 DEF Types, Copies, Accounted, Buried
<1>5. Hands' /\ Holders'
  BY <1>1, <1>3 DEF Hands, Holders
<1>6. Counts' /\ Verdict' /\ BuriedForAReason'
  BY <1>1, <1>2 DEF Counts, Verdict, BuriedForAReason, Buried
<1> QED BY <1>4, <1>5, <1>6

\* Stuttering keeps the invariant.
LEMMA StutterHolds ==
  ASSUME IInv, UNCHANGED vars
  PROVE  IInv'
<1> USE DEF vars, queueVars, workerVars, history, bounds
<1>1. Types' /\ Copies' /\ Accounted'
  BY DEF IInv, Types, Copies, Accounted, Buried
<1>2. Hands' /\ Holders'
  BY DEF IInv, Hands, Holders, Busy
<1>3. Counts' /\ Verdict' /\ BuriedForAReason'
  BY DEF IInv, Counts, Verdict, BuriedForAReason, Buried
<1> QED BY <1>1, <1>2, <1>3 DEF IInv

\* The inductive invariant is inductive.
LEMMA StepHolds == IInv /\ [Next]_vars => IInv'
<1> SUFFICES ASSUME IInv, [Next]_vars PROVE IInv'
  OBVIOUS
<1>1. ASSUME NEW m \in Messages, Publish(m) \/ Expire(m) PROVE IInv'
  BY <1>1, PublishHolds, ExpireHolds
<1>2. ASSUME NEW w \in Workers, WorkerStep(w) PROVE IInv'
  <2>1. CASE UnknownReceipt(w)
    BY <2>1, <1>2, GivesUpHolds DEF UnknownReceipt, queueVars, history, bounds
  <2> QED BY <1>2, <2>1, ReceiveHolds, HandlerReturnsHolds, AckHolds, NackHolds,
             BuryHolds, RestartHolds DEF WorkerStep
<1>3. ASSUME NEW w \in Workers, Stop(w) PROVE IInv'
  BY <1>3, GivesUpHolds DEF Stop, queueVars, history
<1>4. CASE Advance
  BY <1>4, AdvanceHolds
<1>5. CASE UNCHANGED vars
  BY <1>5, StutterHolds
<1> QED BY <1>1, <1>2, <1>3, <1>4, <1>5 DEF Next

\* The inductive invariant holds in every behaviour of topic and workers.
THEOREM Invariance == Spec => []IInv
<1> QED BY InitHolds, StepHolds, PTL DEF Spec

------------------------------------------------------------------------------
(* The properties *)

\* A set whose elements are all equal has at most one.
LEMMA AtMostOne ==
  ASSUME NEW S, \A x, y \in S : x = y
  PROVE  Cardinality(S) \in Nat /\ Cardinality(S) <= 1 /\ (S = {} => Cardinality(S) = 0)
<1>1. CASE S = {}
  BY <1>1, FS_EmptySet
<1>2. CASE S # {}
  <2>1. PICK x \in S : S = {x}
    BY <1>2
  <2> QED BY <1>2, <2>1, FS_Singleton
<1> QED BY <1>1, <1>2

\* Only Receive calls the handler.
LEMMA OnlyReceiveTries ==
  ASSUME Next, NEW m \in Messages, tries \in [Messages -> Nat], tries'[m] > tries[m]
  PROVE  \E w \in Workers : Receive(w)
<1>1. tries' # tries
  <2>1. ~(tries[m] > tries[m])
    OBVIOUS
  <2> QED BY <2>1
<1>2. ASSUME NEW n \in Messages, Publish(n) \/ Expire(n) PROVE FALSE
  BY <1>1, <1>2 DEF Publish, Expire, history
<1>3. ~Advance
  BY <1>1 DEF Advance, history
<1>4. ASSUME NEW w \in Workers, WorkerStep(w) \/ Stop(w), ~Receive(w) PROVE FALSE
  BY <1>1, <1>4 DEF WorkerStep, Stop, HandlerReturns, Ack, Nack, Bury, UnknownReceipt,
     Restart, history
<1> QED BY <1>2, <1>3, <1>4 DEF Next

\* A published message never vanishes, whoever fails or stops in between.
THEOREM MessagesAreKept == Spec => []NothingVanishes
<1>1. IInv => NothingVanishes
  <2> SUFFICES ASSUME IInv, NEW m \in Messages \ unsent, Queued(m) = {}, inFlight[m] = 0
               PROVE  "ok" \in judged[m] \/ (judged[m] # {} /\ (deadTopic => Buried(m)))
    BY DEF NothingVanishes
  <2>1. \A p \in 1 .. Len(pending) : pending[p].msg # m
    BY Entries DEF IInv, Queued
  <2> QED BY <2>1 DEF IInv, Accounted
<1> QED BY <1>1, Invariance, PTL

\* A message is never in the topic twice or in two hands.
THEOREM MessagesAreNotDoubled == Spec => []OneCopy
<1>1. IInv => OneCopy
  <2> SUFFICES ASSUME IInv, NEW m \in Messages
               PROVE  /\ Cardinality(Queued(m)) + (IF inFlight[m] = 0 THEN 0 ELSE 1) <= 1
                      /\ expiries = 0 =>
                           Cardinality({w \in Workers : holds[w] # None /\ holds[w].msg = m}) <= 1
    BY DEF OneCopy
  <2>1. /\ \A p, q \in Queued(m) : p = q
        /\ Queued(m) # {} => inFlight[m] = 0
    BY Entries DEF IInv, Copies, Queued
  <2>2. Cardinality(Queued(m)) <= 1 /\ Cardinality(Queued(m)) \in Nat
        /\ (Queued(m) = {} => Cardinality(Queued(m)) = 0)
    BY <2>1, AtMostOne
  <2>3. ASSUME expiries = 0
        PROVE  Cardinality({w \in Workers : holds[w] # None /\ holds[w].msg = m}) <= 1
    <3> DEFINE W == {w \in Workers : holds[w] # None /\ holds[w].msg = m}
    <3>1. \A v, w \in W : v = w
      BY <2>3 DEF IInv, Hands, Holders
    <3> HIDE DEF W
    <3> QED BY <3>1, AtMostOne DEF W
  <2> QED BY <2>1, <2>2, <2>3
<1> QED BY <1>1, Invariance, PTL

\* A published message is kept until it is settled, and kept once.
THEOREM MessagesAreKeptOnce == Spec => []KeptOnce
BY MessagesAreKept, MessagesAreNotDoubled, PTL DEF KeptOnce

\* However often workers fail and stop, the handler is called no more often
\* than the policy allows and leases expire.
THEOREM TriesStayBounded == Spec => []TriesAreBounded
<1>1. IInv => TriesAreBounded
  BY DEF IInv, Counts, TriesAreBounded
<1> QED BY <1>1, Invariance, PTL

\* Exhaustion is decided on the number of calls that were really made.
THEOREM AttemptsAreRight == Spec => []AttemptsAreCounted
<1>1. IInv => AttemptsAreCounted
  <2> SUFFICES ASSUME IInv, expiries = 0, NEW w \in Workers, holds[w] # None
               PROVE  tries[holds[w].msg] = holds[w].attempt
    BY DEF AttemptsAreCounted
  <2>1. Busy(w) /\ holds[w].msg \in Messages /\ holds[w].attempt \in Nat \ {0}
    BY DEF IInv, Hands, DeliveryOf
  <2> QED BY <2>1 DEF IInv, Holders, Counts
<1> QED BY <1>1, Invariance, PTL

\* Nothing is dead-lettered but permanent and exhausted failures.
THEOREM BurialsAreJustified == Spec => []BuriedForAReason
<1>1. IInv => BuriedForAReason
  BY DEF IInv
<1> QED BY <1>1, Invariance, PTL

\* What becomes of a message is decided by the calls really made for it.
THEOREM TriesAreDecisive == Spec => []TriesDecide
BY TriesStayBounded, AttemptsAreRight, BurialsAreJustified, PTL DEF TriesDecide

\* A message is neither lost, doubled, tried too often nor given up on without
\* cause, however many workers stop and leases expire.
THEOREM MessagesStaySafe == Spec => []MessagesAreSafe
BY MessagesAreKeptOnce, TriesAreDecisive, PTL DEF MessagesAreSafe

\* The handler is only called for the first delivery that is visible.
THEOREM TurnsAreKept == Spec => DeliveredInTurn
<1>1. IInv /\ [Next]_vars =>
        [\A m \in Messages : tries'[m] > tries[m] =>
           \E p \in DOMAIN pending :
             /\ pending[p].msg = m /\ pending[p].wait = 0
             /\ \A q \in 1 .. p - 1 : pending[q].wait > 0]_vars
  <2> SUFFICES ASSUME IInv, Next, NEW m \in Messages, tries'[m] > tries[m]
               PROVE  \E p \in DOMAIN pending :
                        /\ pending[p].msg = m /\ pending[p].wait = 0
                        /\ \A q \in 1 .. p - 1 : pending[q].wait > 0
    OBVIOUS
  <2>1. tries \in [Messages -> Nat]
    BY DEF IInv, Types
  <2>2. PICK w \in Workers : Receive(w)
    BY <2>1, OnlyReceiveTries
  <2>3. PICK p \in DOMAIN pending :
          /\ FirstVisible(p)
          /\ tries' = [tries EXCEPT ![pending[p].msg] = @ + 1]
    BY <2>2 DEF Receive
  <2>4. pending[p].msg = m
    BY <2>1, <2>3
  <2> QED BY <2>3, <2>4 DEF FirstVisible
<1> QED BY <1>1, Invariance, PTL DEF Spec, DeliveredInTurn

-------------------------------------------------------------------------------
(***************************************************************************)
(* WebSocketSession.  The fragments that wait are exactly the parts that   *)
(* have come of one message and were not refused, none of them final; so   *)
(* the final one makes it whole.  What is returned is made of frames       *)
(* decoded by then, of which nothing changes any more, not even when a     *)
(* chunk is lost, and ends in the one just decoded, which puts messages in *)
(* order.  And the flag close_sent tells whether a Close was written.      *)
(*                                                                         *)
(* F and D stand for the frames and those dropped, G and E for the same    *)
(* after a step, n for how many were decoded before it.                    *)
(***************************************************************************)

Returns == [kind : Ops, ids : Seq(Nat) \ {<<>>}]

PartsIn(F, D, i, l) ==
  {i} \cup {j \in i + 1 .. l : F[j].op = "continuation" /\ j \notin D}

Whole(F, D, r) ==
  r.kind \in Data =>
    /\ InOrder(r.ids) /\ ToSet(r.ids) = PartsIn(F, D, r.ids[1], Last(r.ids))
    /\ r.kind = F[r.ids[1]].op
    /\ \A j \in ToSet(r.ids) : F[j].fin <=> j = Last(r.ids)

\* What was returned is whole, in order, and made of frames decoded.
Delivered(F, D, n, R) ==
  /\ \A m \in DOMAIN R : Whole(F, D, R[m]) /\ ToSet(R[m].ids) \subseteq 1 .. n
  /\ \A m, k \in DOMAIN R : m < k => Last(R[m].ids) < Last(R[k].ids)

\* A message in progress: the parts it has so far, none of them final.
Assembles(F, D, n, parts) ==
  parts # <<>> =>
    /\ F[parts[1]].op \in Data /\ InOrder(parts)
    /\ ToSet(parts) = PartsIn(F, D, parts[1], n)
    /\ \A j \in ToSet(parts) : j \in 1 .. n /\ ~F[j].fin

\* The flag is the account of the Closes written, and the session's come first.
ClosesWritten(W, flag) ==
  /\ \A p, q \in DOMAIN W : p < q /\ W[p] \in Closes => W[q] # "close"
  /\ flag <=> \E p \in DOMAIN W : W[p] \in Closes
ClosesReturned(R, flag) == \A m \in DOMAIN R : R[m].kind = "close" => flag

\* What can be told of a session's variables without adding up bytes.
TalkTyped ==
  /\ frames \in Seq(Frames) /\ decoded \in 0 .. Len(frames)
  /\ dropped \subseteq 1 .. decoded
  /\ fragmented \in Seq(Nat) /\ closeSent \in BOOLEAN
  /\ received \in Seq(Returns) /\ written \in Seq(Said)

Talk ==
  /\ Delivered(frames, dropped, decoded, received)
  /\ Assembles(frames, dropped, decoded, fragmented)
Closing == ClosesWritten(written, closeSent) /\ ClosesReturned(received, closeSent)

TalkInv == TalkTyped /\ Talk /\ Closing

\* A step leaves the frames decoded before it what they were.
SamePast(F, D, G, E, n) == \A j \in 1 .. n : G[j] = F[j] /\ (j \in E <=> j \in D)

-------------------------------------------------------------------------------

\* What appending leaves and adds.
LEMMA Appended ==
  ASSUME NEW S, NEW s \in Seq(S), NEW e \in S
  PROVE  /\ Append(s, e) \in Seq(S)
         /\ Len(Append(s, e)) = Len(s) + 1 /\ Len(s) \in Nat
         /\ DOMAIN s = 1 .. Len(s)
         /\ DOMAIN Append(s, e) = 1 .. Len(s) + 1
         /\ \A i \in 1 .. Len(s) : Append(s, e)[i] = s[i]
         /\ Append(s, e)[Len(s) + 1] = e
OBVIOUS

\* A sequence in order stays so when a greater member follows.
LEMMA InOrderGrows ==
  ASSUME NEW s \in Seq(Nat), NEW e \in Nat, InOrder(s),
         \A p \in DOMAIN s : s[p] < e
  PROVE  /\ InOrder(Append(s, e))
         /\ ToSet(Append(s, e)) = ToSet(s) \cup {e}
         /\ Last(Append(s, e)) = e
<1>1. /\ DOMAIN s = 1 .. Len(s) /\ Len(s) \in Nat
      /\ DOMAIN Append(s, e) = 1 .. Len(s) + 1 /\ Len(Append(s, e)) = Len(s) + 1
      /\ \A i \in 1 .. Len(s) : Append(s, e)[i] = s[i]
      /\ Append(s, e)[Len(s) + 1] = e
  OBVIOUS
<1>2. InOrder(Append(s, e))
  BY <1>1 DEF InOrder
<1>3. ToSet(Append(s, e)) = ToSet(s) \cup {e}
  <2>1. ASSUME NEW p \in DOMAIN s PROVE \E q \in DOMAIN Append(s, e) : Append(s, e)[q] = s[p]
    BY <1>1
  <2>2. \E q \in DOMAIN Append(s, e) : Append(s, e)[q] = e
    BY <1>1
  <2>3. ASSUME NEW q \in DOMAIN Append(s, e)
        PROVE  Append(s, e)[q] = e \/ \E p \in DOMAIN s : s[p] = Append(s, e)[q]
    BY <1>1
  <2> QED BY SMTT(30), <2>1, <2>2, <2>3 DEF ToSet
<1> QED BY <1>1, <1>3, <1>2 DEF Last

\* What was returned was made of frames, of which one is the last.
LEMMA ReturnsEnd ==
  ASSUME NEW r \in Returns
  PROVE  /\ r.kind \in Ops /\ Last(r.ids) \in Nat /\ Last(r.ids) \in ToSet(r.ids)
         /\ r.ids[1] \in ToSet(r.ids)
<1>1. r.ids \in Seq(Nat) /\ r.ids # <<>> /\ r.kind \in Ops BY DEF Returns
<1> DEFINE s == r.ids
<1>2. Len(s) \in DOMAIN s /\ 1 \in DOMAIN s /\ s[Len(s)] \in Nat BY <1>1
<1> QED BY <1>1, <1>2 DEF Last, ToSet

\* What was returned stays whole.
LEMMA WholeStays ==
  ASSUME NEW F, NEW D, NEW G, NEW E, NEW n \in Nat, SamePast(F, D, G, E, n),
         NEW r \in Returns, Whole(F, D, r), ToSet(r.ids) \subseteq 1 .. n
  PROVE  Whole(G, E, r)
<1> DEFINE i == r.ids[1]
           l == Last(r.ids)
<1>1. i \in 1 .. n /\ l \in 1 .. n BY ReturnsEnd
<1>2. \A j \in i + 1 .. l : j \in 1 .. n BY <1>1
<1>3. PartsIn(G, E, i, l) = PartsIn(F, D, i, l)
  BY <1>2 DEF PartsIn, SamePast
<1>4. \A j \in ToSet(r.ids) : G[j] = F[j] BY DEF SamePast
<1>5. G[i] = F[i] BY <1>1 DEF SamePast
<1> QED BY <1>3, <1>4, <1>5 DEF Whole

\* Nothing is returned.
LEMMA KeepsDelivered ==
  ASSUME NEW F, NEW D, NEW G, NEW E, NEW n \in Nat, NEW m \in Nat, n <= m,
         SamePast(F, D, G, E, n), NEW R \in Seq(Returns), Delivered(F, D, n, R)
  PROVE  Delivered(G, E, m, R)
<1>1. 1 .. n \subseteq 1 .. m OBVIOUS
<1>2. ASSUME NEW k \in DOMAIN R
      PROVE  Whole(G, E, R[k]) /\ ToSet(R[k].ids) \subseteq 1 .. m
  <2>1. R[k] \in Returns OBVIOUS
  <2>2. Whole(F, D, R[k]) /\ ToSet(R[k].ids) \subseteq 1 .. n BY DEF Delivered
  <2> QED BY <1>1, <2>1, <2>2, WholeStays
<1> QED BY <1>2 DEF Delivered

\* A whole message that ends in the frame just taken is returned.
LEMMA AddsDelivered ==
  ASSUME NEW F, NEW D, NEW n \in Nat, NEW R \in Seq(Returns), Delivered(F, D, n, R),
         NEW r \in Returns, Whole(F, D, r), Last(r.ids) = n + 1,
         ToSet(r.ids) \subseteq 1 .. n + 1
  PROVE  Delivered(F, D, n + 1, Append(R, r))
<1> DEFINE S == Append(R, r)
           L(m) == Last(S[m].ids)
<1>1. /\ Len(R) \in Nat /\ DOMAIN R = 1 .. Len(R) /\ DOMAIN S = 1 .. Len(R) + 1
      /\ \A m \in 1 .. Len(R) : S[m] = R[m]
      /\ S[Len(R) + 1] = r
  BY Appended
<1>2. ASSUME NEW m \in DOMAIN R
      PROVE  /\ Whole(F, D, S[m]) /\ ToSet(S[m].ids) \subseteq 1 .. n + 1
             /\ L(m) \in 1 .. n
  <2>1. S[m] = R[m] /\ R[m] \in Returns BY <1>1
  <2>2. Whole(F, D, R[m]) /\ ToSet(R[m].ids) \subseteq 1 .. n BY DEF Delivered
  <2>3. Last(R[m].ids) \in 1 .. n BY <2>1, <2>2, ReturnsEnd
  <2>4. 1 .. n \subseteq 1 .. n + 1 OBVIOUS
  <2> QED BY <2>1, <2>2, <2>3, <2>4
<1>3. L(Len(R) + 1) = n + 1 BY <1>1
<1>4. \A m, k \in DOMAIN R : m < k => L(m) < L(k) BY <1>1 DEF Delivered
<1>5. \A m \in DOMAIN S : Whole(F, D, S[m]) /\ ToSet(S[m].ids) \subseteq 1 .. n + 1
  <2> TAKE m \in DOMAIN S
  <2>1. CASE m \in DOMAIN R BY <1>2, <2>1
  <2>2. CASE m = Len(R) + 1 BY <1>1, <2>2
  <2> QED BY <1>1, <2>1, <2>2
<1>6. \A m \in DOMAIN R : L(m) \in 1 .. n BY <1>2
<1> HIDE DEF L
<1>7. ASSUME NEW m \in DOMAIN S, NEW k \in DOMAIN S, m < k PROVE L(m) < L(k)
  <2>1. m \in DOMAIN R BY <1>1, <1>7
  <2>2. CASE k \in DOMAIN R BY <1>4, <1>7, <2>1, <2>2
  <2>3. CASE k = Len(R) + 1 BY <1>3, <1>6, <2>1, <2>3
  <2> QED BY <1>1, <2>2, <2>3
<1> QED BY <1>5, <1>7 DEF Delivered, L

\* The fragments that wait stay, whatever is read behind them.
LEMMA KeepsAssembling ==
  ASSUME NEW F, NEW D, NEW G, NEW E, NEW n \in Nat, SamePast(F, D, G, E, n),
         NEW parts \in Seq(Nat), Assembles(F, D, n, parts)
  PROVE  Assembles(G, E, n, parts)
<1> SUFFICES ASSUME parts # <<>> PROVE Assembles(G, E, n, parts) BY DEF Assembles
<1> DEFINE i == parts[1]
<1>1. i \in ToSet(parts) BY DEF ToSet
<1>2. i \in 1 .. n /\ F[i].op \in Data /\ \A j \in ToSet(parts) : j \in 1 .. n
  BY <1>1 DEF Assembles
<1>3. \A j \in i + 1 .. n : j \in 1 .. n BY <1>2
<1>4. PartsIn(G, E, i, n) = PartsIn(F, D, i, n) BY <1>3 DEF PartsIn, SamePast
<1>5. \A j \in ToSet(parts) : G[j] = F[j] BY <1>2 DEF SamePast
<1> QED BY <1>1, <1>4, <1>5 DEF Assembles

\* They are not concerned by a frame that continues none, or that is refused.
LEMMA SkipsAssembling ==
  ASSUME NEW F, NEW D, NEW n \in Nat, NEW parts \in Seq(Nat), Assembles(F, D, n, parts),
         F[n + 1].op # "continuation" \/ n + 1 \in D
  PROVE  Assembles(F, D, n + 1, parts)
<1> SUFFICES ASSUME parts # <<>> PROVE Assembles(F, D, n + 1, parts) BY DEF Assembles
<1> DEFINE i == parts[1]
<1>1. i \in ToSet(parts) BY DEF ToSet
<1>2. i \in 1 .. n BY <1>1 DEF Assembles
<1>3. i + 1 .. n + 1 = (i + 1 .. n) \cup {n + 1} BY <1>2
<1>4. PartsIn(F, D, i, n + 1) = PartsIn(F, D, i, n) BY <1>3 DEF PartsIn
<1>5. \A j \in 1 .. n : j \in 1 .. n + 1 OBVIOUS
<1> QED BY <1>4, <1>5 DEF Assembles

\* The next part follows those that wait.
LEMMA PartsGrow ==
  ASSUME NEW F, NEW D, NEW n \in Nat, NEW parts \in Seq(Nat),
         NEW k \in Nat, NEW ids, k = n + 1, ids = Append(parts, k),
         Assembles(F, D, n, parts), parts # <<>>, F[k].op = "continuation", k \notin D
  PROVE  /\ ids \in Seq(Nat) \ {<<>>} /\ ids[1] = parts[1]
         /\ InOrder(ids) /\ Last(ids) = k
         /\ ToSet(ids) = PartsIn(F, D, parts[1], k)
         /\ ToSet(ids) = ToSet(parts) \cup {k}
         /\ ToSet(ids) \subseteq 1 .. k
<1> DEFINE i == parts[1]
<1>1. i \in ToSet(parts) /\ \A p \in DOMAIN parts : parts[p] \in ToSet(parts) BY DEF ToSet
<1>2. \A j \in ToSet(parts) : j \in 1 .. n BY DEF Assembles
<1>3. \A p \in DOMAIN parts : parts[p] < k BY <1>1, <1>2
<1>4. /\ InOrder(ids) /\ Last(ids) = k /\ ToSet(ids) = ToSet(parts) \cup {k}
  BY <1>3, InOrderGrows DEF Assembles
<1>5. ids \in Seq(Nat) \ {<<>>} /\ ids[1] = i OBVIOUS
<1>6. i + 1 .. k = (i + 1 .. n) \cup {k} BY <1>1, <1>2
<1>7. PartsIn(F, D, i, k) = PartsIn(F, D, i, n) \cup {k}
  BY <1>6 DEF PartsIn
<1>8. ToSet(parts) = PartsIn(F, D, i, n) BY DEF Assembles
<1>9. ToSet(ids) \subseteq 1 .. k BY <1>2, <1>4
<1> QED BY <1>4, <1>5, <1>7, <1>8, <1>9

\* A part that is not the last waits with the others.
LEMMA AddsPart ==
  ASSUME NEW F, NEW D, NEW n \in Nat, NEW parts \in Seq(Nat),
         NEW k \in Nat, NEW ids, k = n + 1, ids = Append(parts, k),
         Assembles(F, D, n, parts), parts # <<>>, F[k].op = "continuation", k \notin D,
         ~F[k].fin
  PROVE  Assembles(F, D, k, ids)
<1>1. /\ ToSet(ids) = ToSet(parts) \cup {k} /\ ToSet(ids) \subseteq 1 .. k
      /\ InOrder(ids) /\ ids[1] = parts[1]
      /\ ToSet(ids) = PartsIn(F, D, parts[1], k)
  BY PartsGrow
<1>2. \A j \in ToSet(parts) : ~F[j].fin BY Zenon DEF Assembles
<1>3. F[parts[1]].op \in Data BY Zenon DEF Assembles
<1>4. \A j \in ToSet(ids) : j \in 1 .. k /\ ~F[j].fin
  BY Zenon, <1>1, <1>2
<1> QED BY Zenon, <1>1, <1>3, <1>4 DEF Assembles

\* The last part makes the message whole.
LEMMA LastPart ==
  ASSUME NEW F, NEW D, NEW n \in Nat, NEW parts \in Seq(Nat),
         NEW k \in Nat, NEW ids, k = n + 1, ids = Append(parts, k),
         Assembles(F, D, n, parts), parts # <<>>, F[k].op = "continuation", k \notin D,
         F[k].fin = TRUE
  PROVE  /\ \A r : r.kind = F[parts[1]].op /\ r.ids = ids => Whole(F, D, r)
         /\ ToSet(ids) \subseteq 1 .. k
<1>1. \A j \in ToSet(parts) : ~F[j].fin /\ j \in 1 .. n BY Zenon DEF Assembles
<1>2. \A j \in ToSet(parts) : j # k BY <1>1
<1>3. /\ InOrder(ids) /\ Last(ids) = k /\ ids[1] = parts[1]
      /\ ToSet(ids) = ToSet(parts) \cup {k} /\ ToSet(ids) \subseteq 1 .. k
      /\ ToSet(ids) = PartsIn(F, D, parts[1], k)
  BY PartsGrow
<1>4. ASSUME NEW j \in ToSet(ids) PROVE F[j].fin <=> j = k
  BY Zenon, <1>1, <1>2, <1>3
<1>5. ASSUME NEW r, r.kind = F[parts[1]].op, r.ids = ids PROVE Whole(F, D, r)
  BY <1>3, <1>4, <1>5 DEF Whole
<1> QED BY Zenon, <1>3, <1>5

\* A frame on its own, final if it is data.
LEMMA OneFrame ==
  ASSUME NEW F, NEW D, NEW n \in Nat, NEW r \in Returns, r.ids = <<n + 1>>,
         r.kind \in Data => F[n + 1].op = r.kind /\ F[n + 1].fin
  PROVE  /\ Whole(F, D, r) /\ Last(r.ids) = n + 1
         /\ ToSet(r.ids) \subseteq 1 .. n + 1
<1>1. Last(r.ids) = n + 1 /\ r.ids[1] = n + 1 BY DEF Last
<1>2. ToSet(r.ids) = {n + 1} BY DEF ToSet
<1>3. InOrder(r.ids) BY DEF InOrder
<1>4. PartsIn(F, D, n + 1, n + 1) = {n + 1} BY DEF PartsIn
<1> QED BY <1>1, <1>2, <1>3, <1>4 DEF Whole
-------------------------------------------------------------------------------

\* What taking a frame leaves and changes.
LEMMA Takes ==
  ASSUME TalkTyped, TakeFrame
  PROVE  /\ decoded \in Nat /\ decoded' = decoded + 1 /\ decoded' \in 0 .. Len(frames')
         /\ frames' = frames /\ frames \in Seq(Frames) /\ received \in Seq(Returns)
         /\ fragmented \in Seq(Nat) /\ decoded + 1 \in Nat
         /\ NextFrame = frames[decoded + 1] /\ NextFrame \in Frames
         /\ decoded + 1 \notin dropped
<1>1. Len(frames) \in Nat /\ \A i \in 1 .. Len(frames) : frames[i] \in Frames
  BY DEF TalkTyped
<1>2. /\ decoded' = decoded + 1 /\ decoded < Len(frames) /\ decoded \in Nat /\ frames' = frames
  BY <1>1 DEF TakeFrame, FrameArrived, TalkTyped
<1>3. decoded + 1 \in 1 .. Len(frames) BY <1>1, <1>2
<1>4. frames[decoded + 1] \in Frames BY <1>1, <1>3
<1>5. decoded + 1 \notin dropped BY <1>2 DEF TalkTyped
<1> QED BY <1>1, <1>2, <1>3, <1>4, <1>5 DEF NextFrame, TalkTyped

\* The frame is refused with an error: the fragments stay.
LEMMA ErrorKeeps ==
  ASSUME TalkTyped, Talk, TakeFrame, ReturnError, UNCHANGED fragmented
  PROVE  Talk' /\ dropped' \subseteq 1 .. decoded' /\ received' = received
<1>1. dropped' = dropped \cup {decoded + 1} /\ received' = received
  BY DEF ReturnError
<1>2. SamePast(frames, dropped, frames, dropped', decoded)
  BY <1>1, Takes DEF SamePast
<1>3. Delivered(frames, dropped', decoded + 1, received)
  BY <1>2, Takes, KeepsDelivered DEF Talk
<1>4. Assembles(frames, dropped', decoded, fragmented)
  BY <1>2, Takes, KeepsAssembling DEF Talk
<1>5. Assembles(frames, dropped', decoded + 1, fragmented)
  BY <1>1, <1>4, Takes, SkipsAssembling
<1>6. dropped' \subseteq 1 .. decoded + 1 BY <1>1, Takes DEF TalkTyped
<1> QED BY <1>1, <1>3, <1>5, <1>6, Takes DEF Talk

\* Something whole that ends in the frame is returned, which is no continuation.
LEMMA HandsOver ==
  ASSUME TalkTyped, Talk, TakeFrame, UNCHANGED fragmented,
         NEW k \in Ops, k \in Data => NextFrame.op = k /\ NextFrame.fin,
         NextFrame.op # "continuation", HandOver(k, <<decoded + 1>>)
  PROVE  /\ Talk' /\ received' \in Seq(Returns) /\ dropped' \subseteq 1 .. decoded'
         /\ received' = Append(received, [kind |-> k, ids |-> <<decoded + 1>>])
<1> DEFINE r == [kind |-> k, ids |-> <<decoded + 1>>]
<1>1. r \in Returns /\ r.ids = <<decoded + 1>> /\ r.kind = k
  BY Takes DEF Returns
<1>2. received' = Append(received, r) /\ dropped' = dropped BY DEF HandOver
<1> HIDE DEF r
<1>3. SamePast(frames, dropped, frames, dropped, decoded) BY DEF SamePast
<1>4. /\ Whole(frames, dropped, r) /\ Last(r.ids) = decoded + 1
      /\ ToSet(r.ids) \subseteq 1 .. decoded + 1
  BY <1>1, Takes, OneFrame
<1>5. Delivered(frames, dropped, decoded + 1, Append(received, r))
  BY <1>1, <1>4, Takes, AddsDelivered DEF Talk
<1>6. Assembles(frames, dropped, decoded + 1, fragmented)
  BY Takes, SkipsAssembling DEF Talk
<1>7. received' \in Seq(Returns) BY <1>1, <1>2, Takes, Appended
<1>8. dropped' \subseteq 1 .. decoded + 1 BY <1>2, Takes DEF TalkTyped
<1> QED BY <1>2, <1>5, <1>6, <1>7, <1>8, Takes DEF Talk, r

\* The account of Closes when a frame is written.
LEMMA WritesOne ==
  ASSUME NEW W \in Seq(Said), NEW flag \in BOOLEAN, ClosesWritten(W, flag),
         NEW k \in Said, k = "close" => ~flag
  PROVE  /\ Append(W, k) \in Seq(Said)
         /\ ClosesWritten(Append(W, k), flag \/ k \in Closes)
<1> DEFINE V == Append(W, k)
<1>1. /\ V \in Seq(Said) /\ Len(W) \in Nat /\ DOMAIN W = 1 .. Len(W)
      /\ DOMAIN V = 1 .. Len(W) + 1 /\ \A i \in 1 .. Len(W) : V[i] = W[i]
      /\ V[Len(W) + 1] = k
  BY Appended
<1> HIDE DEF V
<1>2. (flag \/ k \in Closes) <=> \E p \in DOMAIN V : V[p] \in Closes
  <2>1. \A p \in DOMAIN V : p \in DOMAIN W \/ p = Len(W) + 1 BY <1>1
  <2>2. \A p \in DOMAIN W : p \in DOMAIN V /\ V[p] = W[p] BY <1>1
  <2>3. Len(W) + 1 \in DOMAIN V BY <1>1
  <2>4. flag <=> \E p \in DOMAIN W : W[p] \in Closes BY Zenon DEF ClosesWritten
  <2> QED BY Zenon, <1>1, <2>1, <2>2, <2>3, <2>4
<1>3. ASSUME NEW p \in DOMAIN V, NEW q \in DOMAIN V, p < q, V[p] \in Closes
      PROVE  V[q] # "close"
  <2>1. p \in DOMAIN W BY <1>1, <1>3
  <2>2. CASE q \in DOMAIN W BY <1>1, <1>3, <2>1, <2>2 DEF ClosesWritten
  <2>3. CASE q = Len(W) + 1
    <3>1. W[p] \in Closes BY <1>1, <1>3, <2>1
    <3>2. flag BY Zenon, <2>1, <3>1 DEF ClosesWritten
    <3> QED BY <1>1, <2>3, <3>2
  <2> QED BY <1>1, <2>2, <2>3
<1> QED BY Zenon, <1>1, <1>2, <1>3 DEF ClosesWritten, V

\* A Close is returned when one has been said.
LEMMA ReturnsOne ==
  ASSUME NEW R \in Seq(Returns), NEW flag \in BOOLEAN, ClosesReturned(R, flag),
         NEW r \in Returns, r.kind = "close" => flag
  PROVE  ClosesReturned(Append(R, r), flag)
<1>1. /\ DOMAIN R = 1 .. Len(R) /\ DOMAIN Append(R, r) = 1 .. Len(R) + 1
      /\ Len(R) \in Nat
      /\ \A i \in 1 .. Len(R) : Append(R, r)[i] = R[i]
      /\ Append(R, r)[Len(R) + 1] = r
  BY Appended
<1> QED BY <1>1 DEF ClosesReturned

-------------------------------------------------------------------------------

LEMMA TalkStarts ==
  ASSUME FramesAssumption, TalkInit
  PROVE  TalkInv
<1>1. frames \in Seq(Frames) BY DEF TalkInit, FramesAssumption
<1>2. TalkTyped
  <2>1. Len(frames) \in Nat /\ 0 \in 0 .. Len(frames) BY <1>1
  <2>2. <<>> \in Seq(Nat) /\ <<>> \in Seq(Returns) /\ <<>> \in Seq(Said) OBVIOUS
  <2> QED BY <1>1, <2>1, <2>2 DEF TalkInit, TalkTyped
<1>3. Talk BY DEF TalkInit, Talk, Delivered, Assembles
<1>4. Closing BY DEF TalkInit, Closing, ClosesWritten, ClosesReturned
<1> QED BY <1>2, <1>3, <1>4 DEF TalkInv

\* One frame is taken and refused, and nothing is said.
LEMMA Refuses ==
  ASSUME TalkInv, TakeFrame, ReturnError,
         UNCHANGED <<fragmented, closeSent, written>>
  PROVE  TalkInv'
<1>1. Talk' /\ dropped' \subseteq 1 .. decoded' /\ received' = received
  BY ErrorKeeps DEF TalkInv
<1>2. TalkTyped' BY <1>1, Takes DEF TalkInv, TalkTyped
<1>3. Closing' BY <1>1 DEF TalkInv, Closing
<1> QED BY <1>1, <1>2, <1>3 DEF TalkInv

\* One frame is taken and returned, other than a Close, and nothing is said.
LEMMA Returned ==
  ASSUME TalkInv, TakeFrame, UNCHANGED <<fragmented, closeSent, written>>,
         NEW k \in Ops, k \in Data => NextFrame.op = k /\ NextFrame.fin,
         NextFrame.op # "continuation", HandOver(k, <<decoded + 1>>),
         k = "close" => closeSent
  PROVE  TalkInv'
<1> DEFINE r == [kind |-> k, ids |-> <<decoded + 1>>]
<1>1. /\ Talk' /\ received' \in Seq(Returns) /\ dropped' \subseteq 1 .. decoded'
      /\ received' = Append(received, r)
  BY HandsOver DEF TalkInv
<1>2. r \in Returns /\ r.kind = k BY Takes DEF TalkInv, Returns
<1> HIDE DEF r
<1>3. TalkTyped' BY <1>1, Takes DEF TalkInv, TalkTyped
<1>4. ClosesReturned(received', closeSent)
  BY <1>1, <1>2, ReturnsOne DEF TalkInv, TalkTyped, Closing
<1>5. Closing' BY <1>4 DEF TalkInv, Closing
<1> QED BY <1>1, <1>3, <1>5 DEF TalkInv

LEMMA ProcessContinuationStep ==
  ASSUME TalkInv, ProcessContinuation
  PROVE  TalkInv'
<1>1. /\ TakeFrame /\ NextFrame.op = "continuation"
      /\ UNCHANGED <<closeSent, written>>
  BY DEF ProcessContinuation
<1> DEFINE n == decoded
           ids == Append(fragmented, n + 1)
           r == [kind |-> frames[fragmented[1]].op, ids |-> ids]
<1>2. CASE ReturnError /\ UNCHANGED fragmented BY <1>1, <1>2, Refuses
<1>3. /\ n \in Nat /\ n' = n + 1 /\ frames' = frames /\ NextFrame = frames[n + 1]
      /\ n + 1 \notin dropped /\ fragmented \in Seq(Nat) /\ received \in Seq(Returns)
      /\ Delivered(frames, dropped, n, received) /\ Assembles(frames, dropped, n, fragmented)
      /\ decoded' \in 0 .. Len(frames')
  BY <1>1, Takes DEF TalkInv, Talk
<1>4. dropped \subseteq 1 .. n + 1 BY <1>3 DEF TalkInv, TalkTyped
<1>5. SamePast(frames, dropped, frames, dropped, n) BY DEF SamePast
<1>6. CASE /\ fragmented # <<>> /\ ~NextFrame.fin /\ fragmented' = ids /\ GoOn
  <2>1. Assembles(frames, dropped, n + 1, ids)
    <3> DEFINE k == n + 1
    <3>1. k \in Nat /\ k \notin dropped /\ frames[k].op = "continuation" /\ ~frames[k].fin
      BY <1>1, <1>3, <1>6
    <3>2. k = n + 1 /\ ids = Append(fragmented, k) OBVIOUS
    <3> HIDE DEF k, ids
    <3> QED BY Zenon, <1>3, <1>6, <3>1, <3>2, AddsPart
  <2>2. Delivered(frames, dropped, n + 1, received) BY <1>3, <1>5, KeepsDelivered
  <2>3. ids \in Seq(Nat) BY <1>3
  <2>4. UNCHANGED <<received, dropped>> BY <1>6 DEF GoOn
  <2>5. Talk' BY <1>3, <1>6, <2>1, <2>2, <2>4 DEF Talk
  <2>6. TalkTyped' BY <1>1, <1>3, <1>4, <1>6, <2>3, <2>4 DEF TalkInv, TalkTyped
  <2>7. Closing' BY <1>1, <2>4 DEF TalkInv, Closing
  <2> QED BY <2>5, <2>6, <2>7 DEF TalkInv
<1>7. CASE /\ fragmented # <<>> /\ NextFrame.fin /\ fragmented' = <<>>
           /\ HandOver(frames[fragmented[1]].op, ids)
  <2>1. received' = Append(received, r) /\ dropped' = dropped BY <1>7 DEF HandOver
  <2>2. frames[fragmented[1]].op \in Data /\ ids \in Seq(Nat) \ {<<>>}
    BY <1>3, <1>7 DEF Assembles
  <2>3. r \in Returns BY <2>2 DEF Returns, Ops, Data
  <2>4. r.kind = frames[fragmented[1]].op /\ r.ids = ids /\ r.kind # "close"
    BY <2>2 DEF Data
  <2> HIDE DEF r
  <2>5. /\ Whole(frames, dropped, r) /\ Last(r.ids) = n + 1
        /\ ToSet(r.ids) \subseteq 1 .. n + 1
    <3> DEFINE k == n + 1
    <3>1. k \in Nat /\ k \notin dropped /\ frames[k].op = "continuation" /\ frames[k].fin = TRUE
      <4>1. NextFrame.fin \in BOOLEAN BY <1>1, Takes DEF TalkInv, Frames
      <4> QED BY <1>1, <1>3, <1>7, <4>1
    <3>2. k = n + 1 /\ ids = Append(fragmented, k) OBVIOUS
    <3> HIDE DEF k, ids
    <3>3. /\ n \in Nat /\ fragmented \in Seq(Nat) /\ fragmented # <<>>
          /\ Assembles(frames, dropped, n, fragmented)
      BY <1>3, <1>7
    <3> HIDE DEF n
    <3>4. \A x : x.kind = frames[fragmented[1]].op /\ x.ids = ids
                   => Whole(frames, dropped, x)
      BY Zenon, <3>1, <3>2, <3>3, LastPart
    <3>5. ToSet(ids) \subseteq 1 .. k
      BY Zenon, <3>1, <3>2, <3>3, LastPart
    <3>6. Last(ids) = k BY <3>1, <3>2, <3>3 DEF Last
    <3> QED BY Zenon, <2>4, <3>2, <3>4, <3>5, <3>6
  <2>6. Delivered(frames, dropped, n + 1, Append(received, r))
    BY <1>3, <2>3, <2>5, AddsDelivered
  <2>7. received' \in Seq(Returns) BY <1>3, <2>1, <2>3, Appended
  <2>8. Assembles(frames, dropped, n + 1, <<>>) BY DEF Assembles
  <2>9. Talk' BY <1>3, <1>7, <2>1, <2>6, <2>8 DEF Talk
  <2>10. TalkTyped' BY <1>1, <1>3, <1>4, <1>7, <2>1, <2>7 DEF TalkInv, TalkTyped
  <2>11. ClosesReturned(received', closeSent)
    BY <2>1, <2>3, <2>4, ReturnsOne DEF TalkInv, TalkTyped, Closing
  <2>12. Closing' BY <1>1, <2>11 DEF TalkInv, Closing
  <2> QED BY <2>9, <2>10, <2>12 DEF TalkInv
<1>8. CASE /\ fragmented # <<>> /\ NextFrame.fin /\ fragmented' = <<>> /\ ReturnError
  <2>1. dropped' = dropped \cup {n + 1} /\ received' = received BY <1>8 DEF ReturnError
  <2>2. SamePast(frames, dropped, frames, dropped', n) BY <1>3, <2>1 DEF SamePast
  <2>3. Delivered(frames, dropped', n + 1, received) BY <1>3, <2>2, KeepsDelivered
  <2>4. Assembles(frames, dropped', n + 1, <<>>) BY DEF Assembles
  <2>5. Talk' BY <1>3, <1>8, <2>1, <2>3, <2>4 DEF Talk
  <2>6. dropped' \subseteq 1 .. n + 1 BY <1>3, <1>4, <2>1
  <2>7. TalkTyped' BY <1>1, <1>3, <1>8, <2>1, <2>6 DEF TalkInv, TalkTyped
  <2>8. Closing' BY <1>1, <2>1 DEF TalkInv, Closing
  <2> QED BY <2>5, <2>7, <2>8 DEF TalkInv
<1> QED BY <1>2, <1>6, <1>7, <1>8 DEF ProcessContinuation, HandOverData

LEMMA ProcessWholeStep ==
  ASSUME TalkInv, ProcessWhole
  PROVE  TalkInv'
<1>1. /\ TakeFrame /\ NextFrame.op \in Data /\ NextFrame.fin
      /\ UNCHANGED <<fragmented, closeSent, written>>
  BY DEF ProcessWhole
<1>2. CASE HandOver(NextFrame.op, <<decoded + 1>>)
  <2>1. /\ NextFrame.op \in Ops /\ NextFrame.op # "continuation" /\ NextFrame.op # "close"
    BY <1>1 DEF Data, Ops
  <2> QED BY <1>1, <1>2, <2>1, Returned
<1>3. CASE ReturnError BY <1>1, <1>3, Refuses
<1> QED BY <1>2, <1>3 DEF ProcessWhole, HandOverData

LEMMA ProcessFirstFragmentStep ==
  ASSUME TalkInv, ProcessFirstFragment
  PROVE  TalkInv'
<1>1. /\ TakeFrame /\ NextFrame.op \in Data /\ ~NextFrame.fin
      /\ UNCHANGED <<closeSent, written>>
  BY DEF ProcessFirstFragment
<1>2. CASE ReturnError /\ UNCHANGED fragmented BY <1>1, <1>2, Refuses
<1>3. CASE fragmented' = <<decoded + 1>> /\ GoOn
  <2> DEFINE n == decoded
  <2>1. /\ n \in Nat /\ n' = n + 1 /\ frames' = frames /\ NextFrame = frames[n + 1]
        /\ received \in Seq(Returns) /\ decoded' \in 0 .. Len(frames')
        /\ Delivered(frames, dropped, n, received)
    BY <1>1, Takes DEF TalkInv, Talk
  <2>2. UNCHANGED <<received, dropped>> BY <1>3 DEF GoOn
  <2>3. SamePast(frames, dropped, frames, dropped, n) BY DEF SamePast
  <2>4. Delivered(frames, dropped, n + 1, received) BY <2>1, <2>3, KeepsDelivered
  <2>5. PartsIn(frames, dropped, n + 1, n + 1) = {n + 1} BY <2>1 DEF PartsIn
  <2>6. ToSet(<<n + 1>>) = {n + 1} BY DEF ToSet
  <2>7. InOrder(<<n + 1>>) BY DEF InOrder
  <2>8. \A j \in {n + 1} : j \in 1 .. n + 1 /\ ~frames[j].fin BY <1>1, <2>1
  <2>9. Assembles(frames, dropped, n + 1, <<n + 1>>)
    BY <1>1, <2>1, <2>5, <2>6, <2>7, <2>8 DEF Assembles
  <2>10. Talk' BY <1>3, <2>1, <2>2, <2>4, <2>9 DEF Talk
  <2>11. dropped \subseteq 1 .. n + 1 BY <2>1 DEF TalkInv, TalkTyped
  <2>12. TalkTyped' BY <1>1, <1>3, <2>1, <2>2, <2>11 DEF TalkInv, TalkTyped
  <2>13. Closing' BY <1>1, <2>2 DEF TalkInv, Closing
  <2> QED BY <2>10, <2>12, <2>13 DEF TalkInv
<1> QED BY <1>2, <1>3 DEF ProcessFirstFragment

LEMMA ProcessCloseStep ==
  ASSUME TalkInv, ProcessClose
  PROVE  TalkInv'
<1>1. TakeFrame /\ NextFrame.op = "close" /\ UNCHANGED fragmented BY DEF ProcessClose
<1>2. CASE closeSent /\ HandOver("close", <<decoded + 1>>) /\ UNCHANGED <<closeSent, written>>
  BY <1>1, <1>2, Returned DEF Ops, Data
<1>3. CASE ~closeSent /\ Write("close") /\ closeSent' = TRUE /\ HandOver("close", <<decoded + 1>>)
  <2> DEFINE r == [kind |-> "close", ids |-> <<decoded + 1>>]
  <2>1. /\ Talk' /\ received' \in Seq(Returns) /\ dropped' \subseteq 1 .. decoded'
        /\ received' = Append(received, r)
    BY <1>1, <1>3, HandsOver DEF TalkInv, Ops, Data
  <2>2. r \in Returns BY <1>1, Takes DEF TalkInv, Returns, Ops
  <2> HIDE DEF r
  <2>3. written' = Append(written, "close") BY <1>3 DEF Write
  <2>4. written' \in Seq(Said) /\ ClosesWritten(written', TRUE)
    BY <1>3, <2>3, WritesOne DEF TalkInv, TalkTyped, Closing, Said, Closes
  <2>5. ClosesReturned(received', TRUE) BY DEF ClosesReturned
  <2>6. TalkTyped' BY <1>1, <1>3, <2>1, <2>4, Takes DEF TalkInv, TalkTyped
  <2>7. Closing' BY <1>3, <2>4, <2>5 DEF Closing
  <2> QED BY <2>1, <2>6, <2>7 DEF TalkInv
<1>4. CASE WriteFails /\ ReturnError /\ UNCHANGED closeSent
  BY <1>1, <1>4, Refuses DEF WriteFails
<1> QED BY <1>2, <1>3, <1>4 DEF ProcessClose

LEMMA ProcessPingStep ==
  ASSUME TalkInv, ProcessPing
  PROVE  TalkInv'
<1>1. TakeFrame /\ NextFrame.op = "ping" /\ UNCHANGED <<fragmented, closeSent>>
  BY DEF ProcessPing
<1>2. CASE Write("pong") /\ HandOver("ping", <<decoded + 1>>)
  <2> DEFINE r == [kind |-> "ping", ids |-> <<decoded + 1>>]
  <2>1. /\ Talk' /\ received' \in Seq(Returns) /\ dropped' \subseteq 1 .. decoded'
        /\ received' = Append(received, r)
    BY <1>1, <1>2, HandsOver DEF TalkInv, Ops, Data
  <2>2. r \in Returns /\ r.kind = "ping" BY <1>1, Takes DEF TalkInv, Returns, Ops
  <2> HIDE DEF r
  <2>3. written' = Append(written, "pong") BY <1>2 DEF Write
  <2>4. written' \in Seq(Said) /\ ClosesWritten(written', closeSent)
    <3>1. "pong" \in Said /\ "pong" # "close" /\ "pong" \notin Closes BY DEF Said, Closes
    <3>2. ClosesWritten(written', closeSent \/ "pong" \in Closes) /\ written' \in Seq(Said)
      BY <2>3, <3>1, WritesOne DEF TalkInv, TalkTyped, Closing
    <3> QED BY Zenon, <3>1, <3>2 DEF ClosesWritten
  <2>5. ClosesReturned(received', closeSent)
    BY <2>1, <2>2, ReturnsOne DEF TalkInv, TalkTyped, Closing
  <2>6. TalkTyped' BY <1>1, <2>1, <2>4, Takes DEF TalkInv, TalkTyped
  <2>7. Closing' BY <1>1, <2>4, <2>5 DEF Closing
  <2> QED BY <2>1, <2>6, <2>7 DEF TalkInv
<1>3. CASE WriteFails /\ ReturnError BY <1>1, <1>3, Refuses DEF WriteFails
<1> QED BY <1>2, <1>3 DEF ProcessPing

LEMMA ProcessPongStep ==
  ASSUME TalkInv, ProcessPong
  PROVE  TalkInv'
BY Returned DEF ProcessPong, Ops, Data

LEMMA ProcessRefusedStep ==
  ASSUME TalkInv, ProcessBadClose \/ ProcessUnsupported
  PROVE  TalkInv'
BY Refuses DEF ProcessBadClose, ProcessUnsupported

\* What the session keeps at most reads otherwise behind a lost chunk.
LEMMA ReadTooMuchStep ==
  ASSUME FramesAssumption, TalkInv, NEW n \in Reads, ReadTooMuch(n)
  PROVE  TalkInv'
<1>1. PICK others \in Misread :
        frames' = SubSeq(frames, 1, decoded)
                    \o (IF HeaderArrived THEN <<NextFrame>> ELSE <<>>) \o others
  BY DEF ReadTooMuch
<1>2. UNCHANGED <<decoded, fragmented, closeSent, received, dropped, written>>
  BY DEF ReadTooMuch
<1> DEFINE past == SubSeq(frames, 1, decoded)
           next == IF HeaderArrived THEN <<NextFrame>> ELSE <<>>
<1>3. /\ frames \in Seq(Frames) /\ Len(frames) \in Nat /\ decoded \in Nat
      /\ decoded <= Len(frames)
  BY DEF TalkInv, TalkTyped
<1>4. others \in Seq(Frames) BY DEF FramesAssumption
<1>5. past \in Seq(Frames) /\ Len(past) = decoded /\ \A j \in 1 .. decoded : past[j] = frames[j]
  BY <1>3
<1>6. next \in Seq(Frames)
  <2>1. ASSUME HeaderArrived PROVE NextFrame \in Frames
    BY <1>3, <2>1 DEF HeaderArrived, NextFrame
  <2> QED BY <2>1
<1> HIDE DEF past, next
<1>7. /\ past \o next \in Seq(Frames) /\ Len(past \o next) \in Nat
      /\ decoded <= Len(past \o next)
      /\ \A j \in 1 .. decoded : (past \o next)[j] = frames[j]
  BY <1>3, <1>5, <1>6
<1>8. /\ frames' \in Seq(Frames) /\ decoded \in 0 .. Len(frames')
      /\ \A j \in 1 .. decoded : frames'[j] = frames[j]
  <2> DEFINE h == past \o next
  <2>1. frames' = h \o others BY <1>1 DEF past, next
  <2> HIDE DEF h
  <2>2. h \in Seq(Frames) /\ Len(h) \in Nat /\ decoded <= Len(h)
        /\ \A j \in 1 .. decoded : h[j] = frames[j]
    BY <1>7 DEF h
  <2> QED BY <1>3, <1>4, <2>1, <2>2
<1>9. SamePast(frames, dropped, frames', dropped, decoded) BY <1>8 DEF SamePast
<1>10. Delivered(frames', dropped, decoded, received)
  BY <1>3, <1>9, KeepsDelivered DEF TalkInv, TalkTyped, Talk
<1>11. Assembles(frames', dropped, decoded, fragmented)
  BY <1>3, <1>9, KeepsAssembling DEF TalkInv, TalkTyped, Talk
<1>12. Talk' BY <1>2, <1>10, <1>11 DEF Talk
<1>13. TalkTyped' BY <1>2, <1>8 DEF TalkInv, TalkTyped
<1>14. Closing' BY <1>2 DEF TalkInv, Closing
<1> QED BY <1>12, <1>13, <1>14 DEF TalkInv

\* Nothing that the invariant speaks of.
LEMMA RestStep ==
  ASSUME TalkInv,
         UNCHANGED <<frames, decoded, fragmented, closeSent, received, dropped, written>>
  PROVE  TalkInv'
BY DEF TalkInv, TalkTyped, Talk, Closing

\* The application says something, or not.
LEMMA SaysStep ==
  ASSUME TalkInv, UNCHANGED <<frames, decoded, fragmented, received, dropped>>,
         NEW k \in Said, k = "close" => ~closeSent,
         written' = Append(written, k), closeSent' = (closeSent \/ k \in Closes)
  PROVE  TalkInv'
<1>1. written' \in Seq(Said) /\ ClosesWritten(written', closeSent')
  BY WritesOne DEF TalkInv, TalkTyped, Closing
<1>2. ClosesReturned(received, closeSent') BY DEF TalkInv, Closing, ClosesReturned
<1>3. TalkTyped' BY <1>1 DEF TalkInv, TalkTyped
<1>4. Talk' BY DEF TalkInv, Talk
<1> QED BY <1>1, <1>2, <1>3, <1>4 DEF TalkInv, Closing

LEMMA SendStep ==
  ASSUME TalkInv, NEW k \in {"sent", "sent close"}, Send(k)
  PROVE  TalkInv'
<1>1. CASE WriteFails /\ UNCHANGED closeSent
  BY <1>1, RestStep DEF Send, WriteFails
<1>2. CASE Write(k) /\ closeSent' = (closeSent \/ k = "sent close")
  BY <1>2, SaysStep DEF Send, Write, Said, Closes
<1> QED BY <1>1, <1>2 DEF Send

LEMMA CloseStep ==
  ASSUME TalkInv, Close
  PROVE  TalkInv'
<1>1. CASE UNCHANGED <<closeSent, written>> BY <1>1, RestStep DEF Close
<1>2. CASE ~closeSent /\ closeSent' = TRUE /\ written' = Append(written, "close")
  BY <1>2, SaysStep DEF Close, Said, Closes
<1> QED BY <1>1, <1>2 DEF Close, WriteFails

LEMMA TalkStep ==
  ASSUME FramesAssumption, TalkInv, [TalkNext]_socketVars
  PROVE  TalkInv'
<1>1. CASE UNCHANGED socketVars BY <1>1, RestStep DEF socketVars
<1>2. CASE CallReceive \/ RefuseHeader \/ ReadEnd
  BY <1>2, RestStep DEF CallReceive, RefuseHeader, ReadEnd
<1>3. CASE ProcessContinuation BY <1>3, ProcessContinuationStep
<1>4. CASE ProcessWhole BY <1>4, ProcessWholeStep
<1>5. CASE ProcessFirstFragment BY <1>5, ProcessFirstFragmentStep
<1>6. CASE ProcessBadClose \/ ProcessUnsupported BY <1>6, ProcessRefusedStep
<1>7. CASE ProcessClose BY <1>7, ProcessCloseStep
<1>8. CASE ProcessPing BY <1>8, ProcessPingStep
<1>9. CASE ProcessPong BY <1>9, ProcessPongStep
<1>10. CASE \E n \in Reads : Read(n) BY <1>10, RestStep DEF Read
<1>11. CASE \E n \in Reads : ReadTooMuch(n) BY <1>11, ReadTooMuchStep
<1>12. CASE Close BY <1>12, CloseStep
<1>13. CASE \E k \in {"sent", "sent close"} : Send(k) BY <1>13, SendStep
<1> QED
  BY <1>1, <1>2, <1>3, <1>4, <1>5, <1>6, <1>7, <1>8, <1>9, <1>10, <1>11, <1>12, <1>13
  DEF TalkNext

LEMMA WhatIsTold ==
  ASSUME TalkInv
  PROVE  SessionIsOrderly
<1>1. MessagesAreWhole
  <2>1. ASSUME NEW m \in DOMAIN received, received[m].kind \in Data
        PROVE  LET ids == received[m].ids IN
                 /\ InOrder(ids) /\ ToSet(ids) = PartsBetween(ids[1], Last(ids))
                 /\ received[m].kind = frames[ids[1]].op
                 /\ \A j \in ToSet(ids) : frames[j].fin <=> j = Last(ids)
    <3>1. Whole(frames, dropped, received[m]) BY DEF TalkInv, Talk, Delivered
    <3> QED BY Zenon, <2>1, <3>1 DEF Whole, PartsIn, PartsBetween
  <2>2. \A m, n \in DOMAIN received : m < n => Last(received[m].ids) < Last(received[n].ids)
    BY DEF TalkInv, Talk, Delivered
  <2> QED BY Zenon, <2>1, <2>2 DEF MessagesAreWhole
<1>2. CloseIsSaidOnce
  BY DEF TalkInv, Closing, ClosesWritten, ClosesReturned, CloseIsSaidOnce
<1> QED BY <1>1, <1>2 DEF SessionIsOrderly

\* SessionIsOrderly, of receive, send, close and process_frame: for every sequence
\* of frames, every limit and wherever the transport cuts the bytes, however
\* often the application goes on after an error, and whatever it sends.
THEOREM SessionStaysOrderly ==
  ASSUME FramesAssumption
  PROVE  TalkSpec => []SessionIsOrderly
<1>1. TalkInit => TalkInv BY TalkStarts
<1>2. TalkInv /\ [TalkNext]_socketVars => TalkInv' BY TalkStep
<1>3. TalkInv => SessionIsOrderly BY WhatIsTold
<1> QED BY <1>1, <1>2, <1>3, PTL DEF TalkSpec

================================================================================
