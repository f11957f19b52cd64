------------------------------- MODULE JobPool -------------------------------
(***************************************************************************)
(* What the bounded blocking pool of blazingly-executor promises the code  *)
(* that submits to it: a bounded FIFO of accepted jobs, of which each is   *)
(* executed by one worker exactly once.  How workers sleep and how they    *)
(* are woken is not visible here; BlockingPool shows that the code's       *)
(* parking protocol implements this specification.                         *)
(***************************************************************************)
EXTENDS Naturals, Sequences, Functions

CONSTANTS Calls,    \* callers of run_blocking; each submits one job
          Workers,  \* worker threads of the pool
          Capacity, \* bound of the job queue
          None      \* a worker's hands are empty

VARIABLES waiting,  \* accepted jobs nobody has begun, oldest first
          hands,    \* the job each worker executes, or None
          done,     \* jobs that have been executed
          refused,  \* jobs turned away because the queue was full
          open      \* the pool still has a sending side

vars == <<waiting, hands, done, refused, open>>

Known(c) == c \in Range(waiting) \cup Range(hands) \cup done \cup refused

Init ==
  /\ waiting = <<>>
  /\ hands = [w \in Workers |-> None]
  /\ done = {}
  /\ refused = {}
  /\ open = TRUE

Accept(c) ==
  /\ open /\ ~Known(c) /\ Len(waiting) < Capacity
  /\ waiting' = Append(waiting, c)
  /\ UNCHANGED <<hands, done, refused, open>>

Refuse(c) ==
  /\ open /\ ~Known(c) /\ Len(waiting) >= Capacity
  /\ refused' = refused \cup {c}
  /\ UNCHANGED <<waiting, hands, done, open>>

Begin(w) ==
  /\ waiting # <<>> /\ hands[w] = None
  /\ hands' = [hands EXCEPT ![w] = Head(waiting)]
  /\ waiting' = Tail(waiting)
  /\ UNCHANGED <<done, refused, open>>

Finish(w) ==
  /\ hands[w] # None
  /\ done' = done \cup {hands[w]}
  /\ hands' = [hands EXCEPT ![w] = None]
  /\ UNCHANGED <<waiting, refused, open>>

Close ==
  /\ open /\ open' = FALSE
  /\ UNCHANGED <<waiting, hands, done, refused>>

Next ==
  \/ \E c \in Calls : Accept(c) \/ Refuse(c)
  \/ \E w \in Workers : Begin(w) \/ Finish(w)
  \/ Close

Spec == Init /\ [][Next]_vars
==============================================================================
