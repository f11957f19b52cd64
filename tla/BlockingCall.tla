----------------------------- MODULE BlockingCall -----------------------------
(***************************************************************************)
(* A task that awaits a blocking handler under an InvocationControl, in    *)
(* crates/blazingly-executor/src/lib.rs: CancellationToken and its         *)
(* Cancelled future, run_blocking and its BlockingFuture, and the race for *)
(* the process-wide pool.                                                  *)
(*                                                                         *)
(* Tasks share one token.  Async threads poll them, pool workers finish    *)
(* their jobs and other threads cancel; every section under a mutex is one *)
(* step.  A task is scheduled again only by a wake of the waker of its     *)
(* latest poll, which is all a waker promises.                             *)
(***************************************************************************)
EXTENDS FiniteSets

CONSTANTS Tasks,
          Cancellers,  \* threads that call cancel
          Wakers,      \* the wakers an executor may poll a task with
          Installer,   \* the thread that calls install_global_blocking_pool
          None

ASSUME InstallerAssumption == Installer \notin Tasks

VARIABLES cancelled,  \* CancellationState::cancelled
          waiting,    \* CancellationState::wakers, pairs of task and waker
          kpc,        \* where each canceller is in cancel
          result,     \* BlockingState::result of each task's job
          slot,       \* BlockingState::waker
          job,        \* where each task's job is
          taken,      \* the waker complete_blocking took out
          tpc,        \* where each task is in its poll
          mine,       \* the waker of its latest poll
          woken,      \* the task is scheduled
          outcome,    \* what its invocation ended with
          global,     \* GLOBAL_BLOCKING_POOL: who created the pool
          ipc,        \* where the installer is
          via         \* the pool each job was submitted to (history)

tokenVars == <<cancelled, waiting, kpc>>
jobVars == <<result, slot, job, taken>>
taskVars == <<tpc, mine, woken, outcome>>
poolVars == <<global, ipc, via>>
vars == <<tokenVars, jobVars, taskVars, poolVars>>

Results == {"value", "panicked", "refused"}

ASSUME NoneAssumption == None \notin Wakers \cup Results

Init ==
  /\ cancelled = FALSE
  /\ waiting = {}
  /\ kpc = [k \in Cancellers |-> "idle"]
  /\ result = [t \in Tasks |-> None]
  /\ slot = [t \in Tasks |-> None]
  /\ job = [t \in Tasks |-> "none"]
  /\ taken = [t \in Tasks |-> None]
  /\ tpc = [t \in Tasks |-> "asleep"]
  /\ mine = [t \in Tasks |-> None]
  /\ woken = [t \in Tasks |-> TRUE]
  /\ outcome = [t \in Tasks |-> None]
  /\ global = None
  /\ ipc = "idle"
  /\ via = [t \in Tasks |-> None]

At(t, from, to) == tpc[t] = from /\ tpc' = [tpc EXCEPT ![t] = to]

\* Waking reaches the tasks whose latest poll used one of these wakers.
Wake(pairs) ==
  woken' = [t \in Tasks |-> woken[t] \/ <<t, mine[t]>> \in pairs]

------------------------------------------------------------------------------
(* CancellationToken::cancel *)

CancelSwaps(k) ==
  /\ kpc[k] = "idle"
  /\ kpc' = [kpc EXCEPT ![k] = IF cancelled THEN "done" ELSE "drain"]
  /\ cancelled' = TRUE
  /\ UNCHANGED <<waiting, jobVars, taskVars, poolVars>>

CancelDrains(k) ==
  /\ kpc[k] = "drain"
  /\ kpc' = [kpc EXCEPT ![k] = "done"]
  /\ Wake(waiting)
  /\ waiting' = {}
  /\ UNCHANGED <<cancelled, jobVars, tpc, mine, outcome, poolVars>>

------------------------------------------------------------------------------
(* One poll of InvocationControl::run: the signal first, then the handler. *)

\* The executor polls a scheduled task, with any waker.
PollStarts(t) ==
  /\ woken[t] /\ At(t, "asleep", "signal")
  /\ woken' = [woken EXCEPT ![t] = FALSE]
  /\ \E w \in Wakers : mine' = [mine EXCEPT ![t] = w]
  /\ UNCHANGED <<tokenVars, jobVars, outcome, poolVars>>

\* Something else wakes the task: its timeout's timer, or the executor itself.
OtherWake(t) ==
  /\ tpc[t] = "asleep" /\ ~woken[t]
  /\ woken' = [woken EXCEPT ![t] = TRUE]
  /\ UNCHANGED <<tokenVars, jobVars, tpc, mine, outcome, poolVars>>

Ends(t, from, o) ==
  /\ At(t, from, "ended")
  /\ outcome' = [outcome EXCEPT ![t] = o]
  /\ UNCHANGED <<tokenVars, mine, woken, poolVars>>

\* Cancelled::poll before and after it takes the lock.
SeesCancelled(t) ==
  \E s \in {"signal", "register"} :
    cancelled /\ Ends(t, s, "cancelled") /\ UNCHANGED jobVars

NotCancelled(t) ==
  /\ ~cancelled
  /\ At(t, "signal", "register")
  /\ UNCHANGED <<tokenVars, jobVars, mine, woken, outcome, poolVars>>

\* Mutant: the flag is not read again under the lock.
RegistersUnchecked(t) ==
  /\ At(t, "register", IF job[t] = "none" THEN "lookup" ELSE "future")
  /\ waiting' = waiting \cup {<<t, mine[t]>>}
  /\ UNCHANGED <<cancelled, kpc, jobVars, mine, woken, outcome, poolVars>>

\* Under the lock: check again, then push the waker unless one like it is there.
Registers(t) ==
  /\ ~cancelled
  /\ At(t, "register", IF job[t] = "none" THEN "lookup" ELSE "future")
  /\ waiting' = waiting \cup {<<t, mine[t]>>}
  /\ UNCHANGED <<cancelled, kpc, jobVars, mine, woken, outcome, poolVars>>

------------------------------------------------------------------------------
(* run_blocking and global_blocking_pool *)

FindsPool(t) ==
  /\ At(t, "lookup", IF global = None THEN "create" ELSE "submit")
  /\ UNCHANGED <<tokenVars, jobVars, mine, woken, outcome, poolVars>>

\* OnceLock::set keeps the pool that is set first; the other is dropped.
SetsPool(who) == global' = IF global = None THEN who ELSE global

CreatesPool(t) ==
  /\ At(t, "create", "submit")
  /\ SetsPool(t)
  /\ UNCHANGED <<tokenVars, jobVars, mine, woken, outcome, ipc, via>>

\* install_global_blocking_pool
Installs ==
  /\ ipc = "idle"
  /\ ipc' = IF global = None THEN "installed" ELSE "already configured"
  /\ SetsPool(Installer)
  /\ UNCHANGED <<tokenVars, jobVars, taskVars, via>>

Submits(t) ==
  /\ At(t, "submit", "future")
  /\ via' = [via EXCEPT ![t] = global]
  /\ job' = [job EXCEPT ![t] = "queued"]
  /\ UNCHANGED <<tokenVars, result, slot, taken, mine, woken, outcome, global, ipc>>

\* No pool can be started or its queue is full: the future is complete before
\* anybody polls it.
Refuses(t) ==
  /\ \E s \in {"create", "submit"} : At(t, s, "future")
  /\ job' = [job EXCEPT ![t] = "done"]
  /\ result' = [result EXCEPT ![t] = "refused"]
  /\ UNCHANGED <<tokenVars, slot, taken, mine, woken, outcome, poolVars>>

\* BlockingFuture::poll
TakesResult(t) ==
  /\ result[t] # None
  /\ Ends(t, "future", result[t])
  /\ result' = [result EXCEPT ![t] = None]
  /\ UNCHANGED <<slot, job, taken>>

StaysPending(t) ==
  /\ result[t] = None
  /\ At(t, "future", "asleep")
  /\ slot' = [slot EXCEPT ![t] = mine[t]]
  /\ UNCHANGED <<tokenVars, result, job, taken, mine, woken, outcome, poolVars>>

------------------------------------------------------------------------------
(* The job on its worker: complete_blocking under the lock, then the wake. *)

Completes(t) ==
  /\ job[t] = "queued"
  /\ job' = [job EXCEPT ![t] = "wake"]
  /\ \E r \in {"value", "panicked"} : result' = [result EXCEPT ![t] = r]
  /\ taken' = [taken EXCEPT ![t] = slot[t]]
  /\ slot' = [slot EXCEPT ![t] = None]
  /\ UNCHANGED <<tokenVars, taskVars, poolVars>>

WakesCaller(t) ==
  /\ job[t] = "wake"
  /\ job' = [job EXCEPT ![t] = "done"]
  /\ Wake({<<t, taken[t]>>} \ {<<t, None>>})
  /\ taken' = [taken EXCEPT ![t] = None]
  /\ UNCHANGED <<tokenVars, result, slot, tpc, mine, outcome, poolVars>>

------------------------------------------------------------------------------
Cancel(k) == CancelSwaps(k) \/ CancelDrains(k)

Poll(t) ==
  \/ PollStarts(t) \/ SeesCancelled(t) \/ NotCancelled(t) \/ Registers(t)
  \/ FindsPool(t) \/ CreatesPool(t) \/ Submits(t) \/ Refuses(t)
  \/ TakesResult(t) \/ StaysPending(t)

Next ==
  \/ \E k \in Cancellers : Cancel(k)
  \/ \E t \in Tasks : Poll(t) \/ OtherWake(t) \/ Completes(t) \/ WakesCaller(t)
  \/ Installs

\* Scheduled tasks are polled and threads run; a job may run for ever, and
\* nobody has to cancel.
Fairness ==
  /\ \A t \in Tasks : WF_vars(Poll(t)) /\ WF_vars(WakesCaller(t))
  /\ \A k \in Cancellers : WF_vars(CancelDrains(k))

Spec == Init /\ [][Next]_vars
FairSpec == Spec /\ Fairness

------------------------------------------------------------------------------
(* Properties *)

\* Types of the variables.
TypeOK ==
  /\ cancelled \in BOOLEAN
  /\ waiting \subseteq Tasks \X Wakers
  /\ kpc \in [Cancellers -> {"idle", "drain", "done"}]
  /\ result \in [Tasks -> Results \cup {None}]
  /\ slot \in [Tasks -> Wakers \cup {None}]
  /\ job \in [Tasks -> {"none", "queued", "wake", "done"}]
  /\ taken \in [Tasks -> Wakers \cup {None}]
  /\ tpc \in [Tasks -> {"asleep", "signal", "register", "lookup", "create",
                        "submit", "future", "ended"}]
  /\ mine \in [Tasks -> Wakers \cup {None}]
  /\ woken \in [Tasks -> BOOLEAN]
  /\ outcome \in [Tasks -> Results \cup {"cancelled", None}]
  /\ global \in Tasks \cup {Installer, None}
  /\ ipc \in {"idle", "installed", "already configured"}
  /\ via \in [Tasks -> Tasks \cup {Installer, None}]

\* A task that sleeps unscheduled is still going to be woken by whatever has
\* happened: the cancellation is about to drain its waker, and the finished
\* job is about to wake it.
NoLostWakeup ==
  \A t \in Tasks : tpc[t] = "asleep" /\ ~woken[t] =>
    /\ cancelled => /\ <<t, mine[t]>> \in waiting
                    /\ \E k \in Cancellers : kpc[k] = "drain"
    /\ job[t] \in {"wake", "done"} => job[t] = "wake" /\ taken[t] = mine[t]

\* A finished job's result is either still there for its task or was handed
\* out once; it is never lost, overwritten or given to an aborted invocation.
ResultIsDelivered ==
  \A t \in Tasks :
    /\ job[t] \in {"wake", "done"} =>
         (result[t] = None <=> outcome[t] \in Results)
    /\ outcome[t] \in Results => job[t] \in {"wake", "done"}

\* Every job goes to the one pool that stays installed.
OnePool == \A t \in Tasks : via[t] # None => via[t] = global

\* Together: a job goes to the pool that stays, and whoever ends its await, the
\* task is woken for it and learns of it.
AwaitIsSound == NoLostWakeup /\ ResultIsDelivered /\ OnePool

\* An invocation ends once its token is cancelled, also when its job runs for
\* ever, and once its job has finished, also when it was polled with another
\* waker in between.
InvocationsEnd ==
  \A t \in Tasks : cancelled \/ job[t] = "wake" ~> tpc[t] = "ended"
==============================================================================
