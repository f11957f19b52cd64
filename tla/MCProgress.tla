------------------------------ MODULE MCProgress ------------------------------
(***************************************************************************)
(* Small instances of the parts that must get somewhere: the queue worker  *)
(* (QueueWorker) and the schedule of retries (RetryPolicy), a blocking     *)
(* call (BlockingCall), the server from startup to drain                   *)
(* (ServerLifecycle), the relay of an upload (UploadChannel), the credit   *)
(* of an HTTP/2 stream (Http2Streams), the development loop (DevLoop), and *)
(* the calls of the database (Transactions).                               *)
(* They share no state, so that their product would show nothing more:     *)
(* each behaviour runs one of them, chosen in the initial state, beside    *)
(* the others at rest, under the fairness of that one.  QueueWorker,       *)
(* BlockingCall and Http2Streams are checked for safety elsewhere, in      *)
(* larger instances.                                                       *)
(* The body of the upload has three windows, of which two may be queued.   *)
(* Of the three edits, the second does not compile.                        *)
(* The server has two connections at a cap of one, two workers of which    *)
(* one may die, and two hooks, so that the second may fail behind the      *)
(* first.                                                                  *)
(***************************************************************************)
EXTENDS Transactions, ServerLifecycle, UploadChannel, DevLoop, TLC

CONSTANT Installer

Parts == {"queue", "retry", "call", "server", "upload", "stream", "dev",
          "database"}

VARIABLES part,
  deadTopic, unsent, pendingMessages, inFlight, dead, wpc, holds, stops, expiries,
  tries, judged,
  policy, attempt,
  cancelled, waiting, kpc, result, slot, callJob, callTaken, tpc, mine, callWoken,
  outcome, global, ipc, via,
  remote, data, requests, bodies, rejected, h2Active, h2Cancelled, tokens, work,
  credit, h2Received, credited, ended, queue, consumed, h2Open, h2Closed, windows,
  reply, afterReset, top, shutdown, inputClosed, over

queueVars ==
  <<deadTopic, unsent, pendingMessages, inFlight, dead, wpc, holds, stops,
    expiries, tries, judged>>
retryVars == <<policy, attempt>>
callVars ==
  <<cancelled, waiting, kpc, result, slot, callJob, callTaken, tpc, mine, callWoken,
    outcome, global, ipc, via>>
streamVars ==
  <<remote, data, requests, bodies, rejected, h2Active, h2Cancelled, tokens, work,
    credit, h2Received, credited, ended, queue, consumed, h2Open, h2Closed, windows,
    reply, afterReset, top, shutdown, inputClosed, over>>
mcVars ==
  <<part, dbVars, queueVars, retryVars, callVars, serverVars, uploadVars, streamVars, devVars>>

------------------------------------------------------------------------------
\* Three attempts per message, and a backoff that doubles once before its cap.
ThreeTries ==
  [max_attempts |-> 3, initial_backoff |-> 1, max_backoff |-> 2, multiplier |-> 2]

Queueing == INSTANCE QueueWorker WITH
  Messages <- {"m1", "m2"}, Workers <- {"w1"}, Policy <- ThreeTries, Width <- 3,
  MaxDuration <- 4, MaxStops <- 1, MaxExpiries <- 1, pending <- pendingMessages

\* The delays one policy produces while a delivery fails again and again:
\* policies whose power overflows its three bits and whose delay meets its cap.
Retrying == INSTANCE RetryPolicy WITH Width <- 3, MaxDuration <- 20

ScheduleStarts ==
  /\ policy \in {Retrying!Clamped(p) :
                  p \in Retrying!Policies({0, 1, 2, 6}, {0, 1, 2, 5, 20}, {0, 1, 2, 3, 7})}
  /\ attempt = 1

\* nack counts one more attempt.
Retry ==
  /\ ~Retrying!IsExhausted(policy, attempt)
  /\ attempt' = attempt + 1
  /\ UNCHANGED policy

\* One task, which two threads cancel and two wakers poll.
Threads == {"k1", "k2"}
Calling == INSTANCE BlockingCall WITH
  Tasks <- {"t"}, Cancellers <- Threads, Wakers <- {"w1", "w2"},
  job <- callJob, taken <- callTaken, woken <- callWoken

\* One stream with a body that may be one unit over the limit of two.
Streaming == INSTANCE Http2Streams WITH
  Streams <- {"s"}, MaxBody <- 2, MaxData <- 3, active <- h2Active,
  cancelled <- h2Cancelled, received <- h2Received,
  open <- h2Open, closed <- h2Closed

\* A part that is not chosen starts, and stays, in one of its initial states.
MCInit ==
  /\ part \in Parts
  /\ part # "queue" => deadTopic = TRUE
  /\ part # "retry" => policy = Retrying!Clamped([ThreeTries EXCEPT !.max_attempts = 2])
  /\ part # "server" => kind = "local"
  /\ part # "upload" => buffered = 0
  /\ part # "dev" => reload = TRUE
  /\ part # "database" =>
       form = [c \in Callers |-> "run"] /\ where = [c \in Callers |-> "inline"]
  /\ Init /\ Queueing!Init /\ ScheduleStarts /\ Calling!Init /\ ServerInit /\ UploadInit
  /\ Streaming!Init /\ DevInit

MCNext ==
  /\ \/ part = "database" /\ Next
     \/ part = "queue" /\ Queueing!Next
     \/ part = "retry" /\ Retry
     \/ part = "call" /\ Calling!Next
     \/ part = "server" /\ ServerNext
     \/ part = "upload" /\ UploadNext
     \/ part = "stream" /\ Streaming!Next
     \/ part = "dev" /\ DevNext
  /\ part # "database" => UNCHANGED dbVars
  /\ part # "queue" => UNCHANGED queueVars
  /\ part # "retry" => UNCHANGED retryVars
  /\ part # "call" => UNCHANGED callVars
  /\ part # "server" => UNCHANGED serverVars
  /\ part # "upload" => UNCHANGED uploadVars
  /\ part # "stream" => UNCHANGED streamVars
  /\ part # "dev" => UNCHANGED devVars
  /\ UNCHANGED part

\* The fairness each module states and justifies, of the part that runs.
MCFairness ==
  /\ WF_queueVars(part = "queue" /\ Queueing!Advance)
  /\ WF_queueVars(part = "queue" /\ Queueing!WorkerStep("w1"))
  /\ WF_callVars(part = "call" /\ Calling!Poll("t"))
  /\ WF_callVars(part = "call" /\ Calling!WakesCaller("t"))
  /\ \A k \in Threads : WF_callVars(part = "call" /\ Calling!CancelDrains(k))
  /\ WF_serverVars(part = "server" /\ AcceptLoop)
  /\ WF_serverVars(part = "server" /\ TakeWaker)
  /\ WF_serverVars(part = "server" /\ DeadlinePasses)
  /\ \A w \in 1 .. 2 : WF_serverVars(part = "server" /\ Lifecycle(w))
  /\ \A c \in Conns : WF_serverVars(part = "server" /\ BeginConnection(c))
  /\ WF_uploadVars(part = "upload" /\ Relay)
  /\ WF_uploadVars(part = "upload" /\ Respond)
  /\ WF_uploadVars(part = "upload" /\ Read)
  /\ WF_streamVars(part = "stream" /\ Streaming!LoopTop)
  /\ SF_streamVars(part = "stream" /\ Streaming!Ends("s"))
  /\ SF_streamVars(part = "stream" /\ Streaming!WorkCancelled("s"))
  /\ SF_streamVars(part = "stream" /\ Streaming!CreditPolled("s"))
  /\ WF_devVars(part = "dev" /\ DevStep)

MCSpec == MCInit /\ [][MCNext]_mcVars /\ MCFairness

------------------------------------------------------------------------------
(* The properties, each stated and explained in its module, but that of the  *)
(* schedule; what must happen is asked of the part that runs, with its type  *)
(* invariant.                                                                *)

\* Waiting never gets shorter from one attempt to the next, in particular not
\* when the power overflows its machine integer.
NeverShorter ==
  [][Retrying!Backoff(policy, attempt) <= Retrying!Backoff(policy, attempt')]_retryVars

\* As long as the power fits the machine integer, the delay is the exact
\* exponential, cut at the cap: no clamp of the implementation shows.
ExactUntilOverflow ==
  LET power == policy.multiplier ^ (attempt - 1)
      exact == policy.initial_backoff * power
  IN  power <= Retrying!MaxUnsigned /\ policy.max_backoff <= 20 =>
        Retrying!Backoff(policy, attempt) =
          IF exact <= policy.max_backoff THEN exact ELSE policy.max_backoff

\* RetryPolicy::backoff is right along the whole schedule of a delivery that
\* keeps failing.
BackoffIsRight == []ExactUntilOverflow /\ NeverShorter

\* What waits for another's work is released or settled in the end: a blocking
\* call, a stream's credit, a message and the relay of an upload; and the
\* server and the development command return when they are told to.
WaitsEnd ==
  /\ part = "call" => []Calling!TypeOK /\ Calling!InvocationsEnd
  /\ part = "stream" => []Streaming!TypeOK /\ Streaming!CreditReturns
  /\ part = "queue" => []Queueing!TypeOK /\ Queueing!EveryMessageSettles
  /\ part = "upload" => UploadSettles
  /\ part = "server" => ShutdownReturns
  /\ part = "dev" => DevReturns
==============================================================================
