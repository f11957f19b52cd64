----------------------------- MODULE QueueWorker -----------------------------
(***************************************************************************)
(* Worker of crates/blazingly-queue/src/lib.rs over one topic of           *)
(* MemoryQueue: receive, dispatch and settle, the retry ceiling, the       *)
(* backoff and the dead-letter route.  Several workers compete for the     *)
(* topic; each call of the adapter is one step, taken under its mutex, and *)
(* a worker may stop between any two (its caller drops the run future, or  *)
(* an adapter call fails and run returns).                                 *)
(*                                                                         *)
(* Time is relative: a waiting delivery carries how long it stays          *)
(* invisible.  A delivery is named by its message, which is published      *)
(* once, and its receipt by the message and the attempt.  Up to            *)
(* MaxExpiries times the adapter takes an unsettled delivery back, as      *)
(* external ones do; MemoryQueue never does.                               *)
(***************************************************************************)
EXTENDS RetryPolicy, Integers, Sequences, FiniteSets, Functions

CONSTANTS Messages, Workers,
          Policy,       \* the workers' RetryPolicy
          MaxStops,     \* bound on stops of workers
          MaxExpiries,  \* bound on expired leases
          None

ASSUME PolicyAssumption ==
  Policy \in Policies(Nat \ {0}, Nat, Nat \ {0})

ASSUME BoundsAssumption == MaxStops \in Nat /\ MaxExpiries \in Nat

VARIABLES deadTopic, \* the workers have DeadLetter::Topic, not Discard
          unsent,    \* messages not published yet
          pending,   \* the topic: deliveries waiting, in queue order
          inFlight,  \* for each message the attempt checked out, or 0
          dead,      \* the dead-letter topic, a sequence of messages
          wpc,       \* where each worker is in step
          holds,     \* the delivery each worker is busy with, or None
          stops,     \* how often a worker stopped
          expiries,  \* how often a lease expired
          tries,     \* how often the handler was called (history)
          judged     \* how the handler last judged a message (history)

queueVars == <<unsent, pending, inFlight, dead>>
workerVars == <<wpc, holds>>
history == <<tries, judged>>
bounds == <<deadTopic, stops, expiries>>
vars == <<queueVars, workerVars, history, bounds>>

Waiting(m, a, wait) == [msg |-> m, attempt |-> a, wait |-> wait]
Held(m, a) == [msg |-> m, attempt |-> a]

Init ==
  /\ deadTopic \in BOOLEAN
  /\ unsent = Messages
  /\ pending = <<>>
  /\ inFlight = [m \in Messages |-> 0]
  /\ dead = <<>>
  /\ wpc = [w \in Workers |-> "idle"]
  /\ holds = [w \in Workers |-> None]
  /\ stops = 0
  /\ expiries = 0
  /\ tries = [m \in Messages |-> 0]
  /\ judged = [m \in Messages |-> {}]

------------------------------------------------------------------------------
(* MemoryQueue *)

Publish(m) ==
  /\ m \in unsent
  /\ unsent' = unsent \ {m}
  /\ pending' = Append(pending, Waiting(m, 1, 0))
  /\ UNCHANGED <<inFlight, dead, workerVars, history, bounds>>

\* advance: one unit of the logical clock.
Advance ==
  /\ \E p \in DOMAIN pending : pending[p].wait > 0
  /\ pending' = [p \in DOMAIN pending |->
       [pending[p] EXCEPT !.wait = IF @ > 0 THEN @ - 1 ELSE 0]]
  /\ UNCHANGED <<unsent, inFlight, dead, workerVars, history, bounds>>

\* Mutant: the newest visible delivery is taken.
LastVisible(p) ==
  /\ pending[p].wait = 0
  /\ \A q \in p + 1 .. Len(pending) : pending[q].wait > 0

\* The entry receive takes.
FirstVisible(p) ==
  /\ pending[p].wait = 0
  /\ \A q \in 1 .. p - 1 : pending[q].wait > 0

Without(s, p) == [q \in 1 .. Len(s) - 1 |-> IF q < p THEN s[q] ELSE s[q + 1]]

Settled(h) == inFlight' = [inFlight EXCEPT ![h.msg] = 0]

------------------------------------------------------------------------------
(* Worker::step *)

\* receive and the call of the handler.
Receive(w) ==
  /\ wpc[w] = "idle"
  /\ \E p \in DOMAIN pending :
       LET d == pending[p] IN
       /\ FirstVisible(p)
       /\ pending' = Without(pending, p)
       /\ inFlight' = [inFlight EXCEPT ![d.msg] = d.attempt]
       /\ holds' = [holds EXCEPT ![w] = Held(d.msg, d.attempt)]
       /\ tries' = [tries EXCEPT ![d.msg] = @ + 1]
  /\ wpc' = [wpc EXCEPT ![w] = "handling"]
  /\ UNCHANGED <<unsent, dead, judged, bounds>>

\* How step goes on with the handler's result.
SettleWith(w, verdict) ==
  IF verdict = "ok" THEN "ack"
  ELSE IF verdict = "retryable" /\ ~IsExhausted(Policy, holds[w].attempt) THEN "nack"
  ELSE IF deadTopic THEN "bury" ELSE "discard"

HandlerReturns(w) ==
  /\ wpc[w] = "handling"
  /\ \E verdict \in {"ok", "retryable", "permanent"} :
       /\ wpc' = [wpc EXCEPT ![w] = SettleWith(w, verdict)]
       /\ judged' = [judged EXCEPT ![holds[w].msg] = @ \cup {verdict}]
  /\ UNCHANGED <<queueVars, holds, tries, bounds>>

\* The adapter knows a receipt while its delivery is checked out.
Known(h) == inFlight[h.msg] = h.attempt

Done(w) ==
  /\ wpc' = [wpc EXCEPT ![w] = "idle"]
  /\ holds' = [holds EXCEPT ![w] = None]

\* The last call of step: ack, after a success or a dead letter.
Ack(w) ==
  /\ wpc[w] \in {"ack", "discard", "settle"}
  /\ Known(holds[w])
  /\ Settled(holds[w])
  /\ Done(w)
  /\ UNCHANGED <<unsent, pending, dead, history, bounds>>

\* Mutant: the attempt is not counted.
NackUncounted(w) ==
  LET h == holds[w] IN
  /\ wpc[w] = "nack" /\ Known(h)
  /\ Settled(h)
  /\ pending' = Append(pending, Waiting(h.msg, h.attempt, Backoff(Policy, h.attempt)))
  /\ Done(w)
  /\ UNCHANGED <<unsent, dead, history, bounds>>

Nack(w) ==
  LET h == holds[w] IN
  /\ wpc[w] = "nack" /\ Known(h)
  /\ Settled(h)
  /\ pending' = Append(pending, Waiting(h.msg, h.attempt + 1, Backoff(Policy, h.attempt)))
  /\ Done(w)
  /\ UNCHANGED <<unsent, dead, history, bounds>>

\* route_dead_letter publishes to the dead-letter topic first.
Bury(w) ==
  /\ wpc[w] = "bury"
  /\ dead' = Append(dead, holds[w].msg)
  /\ wpc' = [wpc EXCEPT ![w] = "settle"]
  /\ UNCHANGED <<unsent, pending, inFlight, holds, history, bounds>>

\* The run future is dropped, or an adapter call fails and run returns.
Stop(w) ==
  /\ stops < MaxStops /\ wpc[w] # "stopped"
  /\ wpc' = [wpc EXCEPT ![w] = "stopped"]
  /\ holds' = [holds EXCEPT ![w] = None]
  /\ stops' = stops + 1
  /\ UNCHANGED <<queueVars, history, deadTopic, expiries>>

\* ack and nack of a receipt the adapter no longer knows: run returns the error.
UnknownReceipt(w) ==
  /\ wpc[w] \in {"ack", "discard", "settle", "nack"} /\ ~Known(holds[w])
  /\ wpc' = [wpc EXCEPT ![w] = "stopped"]
  /\ holds' = [holds EXCEPT ![w] = None]
  /\ UNCHANGED <<queueVars, history, bounds>>

\* The owner runs the worker again.
Restart(w) ==
  /\ wpc[w] = "stopped"
  /\ wpc' = [wpc EXCEPT ![w] = "idle"]
  /\ UNCHANGED <<queueVars, holds, history, bounds>>

\* External: a broker takes an unsettled delivery back and counts the attempt.
Expire(m) ==
  /\ inFlight[m] # 0 /\ expiries < MaxExpiries
  /\ inFlight' = [inFlight EXCEPT ![m] = 0]
  /\ pending' = Append(pending, Waiting(m, inFlight[m] + 1, 0))
  /\ expiries' = expiries + 1
  /\ UNCHANGED <<unsent, dead, workerVars, history, deadTopic, stops>>

------------------------------------------------------------------------------
WorkerStep(w) ==
  \/ Receive(w) \/ HandlerReturns(w) \/ Ack(w) \/ Nack(w) \/ Bury(w)
  \/ UnknownReceipt(w) \/ Restart(w)

Next ==
  \/ \E m \in Messages : Publish(m) \/ Expire(m)
  \/ \E w \in Workers : WorkerStep(w) \/ Stop(w)
  \/ Advance

\* Handlers return, workers are polled and time passes; stopping is not fair.
Fairness == WF_vars(Advance) /\ \A w \in Workers : WF_vars(WorkerStep(w))

Spec == Init /\ [][Next]_vars
FairSpec == Spec /\ Fairness

------------------------------------------------------------------------------
(* Properties *)

WorkerPlaces == {"idle", "handling", "ack", "nack", "bury", "settle", "discard", "stopped"}
Verdicts == {"ok", "retryable", "permanent"}
DeliveryOf == [msg : Messages, attempt : Nat \ {0}]

\* Types of the variables.
TypeOK ==
  /\ deadTopic \in BOOLEAN
  /\ unsent \subseteq Messages
  /\ pending \in Seq([msg : Messages, attempt : Nat \ {0}, wait : Nat])
  /\ inFlight \in [Messages -> Nat]
  /\ dead \in Seq(Messages)
  /\ wpc \in [Workers -> WorkerPlaces]
  /\ holds \in [Workers -> DeliveryOf \cup {None}]
  /\ stops \in Nat /\ expiries \in Nat
  /\ tries \in [Messages -> Nat]
  /\ judged \in [Messages -> SUBSET Verdicts]

Queued(m) == {p \in DOMAIN pending : pending[p].msg = m}
Buried(m) == \E p \in DOMAIN dead : dead[p] = m

\* A published message never vanishes: it waits, is checked out, was handled
\* successfully, or failed for good and is in the dead-letter topic if there is one.
NothingVanishes ==
  \A m \in Messages \ unsent :
    Queued(m) = {} /\ inFlight[m] = 0 =>
      \/ "ok" \in judged[m]
      \/ judged[m] # {} /\ (deadTopic => Buried(m))

\* A message is never waiting twice, nor waiting while it is checked out, and
\* until a lease expires never in the hands of two workers.
OneCopy ==
  \A m \in Messages :
    /\ Cardinality(Queued(m)) + (IF inFlight[m] = 0 THEN 0 ELSE 1) <= 1
    /\ expiries = 0 =>
         Cardinality({w \in Workers : holds[w] # None /\ holds[w].msg = m}) <= 1

\* Both: a message is in exactly one place until it is settled.
KeptOnce == NothingVanishes /\ OneCopy

\* The handler is never called more often than the ceiling allows, but for
\* the calls an expired lease adds.
TriesAreBounded == \A m \in Messages : tries[m] <= Policy.max_attempts + expiries

\* Until a lease expires a delivery's attempt number is the number of times
\* its handler was called, which is what exhaustion is decided on.
AttemptsAreCounted ==
  expiries = 0 => \A w \in Workers : holds[w] # None =>
    tries[holds[w].msg] = holds[w].attempt

\* Only a failure that is permanent or exhausted is dead-lettered.
BuriedForAReason ==
  \A w \in Workers : wpc[w] \in {"bury", "settle", "discard"} /\ expiries = 0 =>
    \/ "permanent" \in judged[holds[w].msg]
    \/ "retryable" \in judged[holds[w].msg] /\ tries[holds[w].msg] = Policy.max_attempts

\* All three: the calls of the handler are counted right through redelivery,
\* and the count alone ends a message that keeps failing.
TriesDecide == TriesAreBounded /\ AttemptsAreCounted /\ BuriedForAReason

\* Both: a message is neither lost, doubled, tried too often nor given up on
\* without cause.
MessagesAreSafe == KeptOnce /\ TriesDecide

\* The handler is called for the delivery that has waited longest of those
\* whose backoff has passed, and for no other.
DeliveredInTurn ==
  [][\A m \in Messages : tries'[m] > tries[m] =>
       \E p \in DOMAIN pending :
         /\ pending[p].msg = m /\ pending[p].wait = 0
         /\ \A q \in 1 .. p - 1 : pending[q].wait > 0]_vars

\* Every published message is settled unless a worker stops over it.
EveryMessageSettles ==
  \A m \in Messages :
    m \notin unsent ~> (Queued(m) = {} /\ inFlight[m] = 0) \/ stops > 0
==============================================================================
