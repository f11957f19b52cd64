---------------------------- MODULE BlockingPool ----------------------------
(***************************************************************************)
(* The bounded pool for synchronous handlers of                            *)
(* crates/blazingly-executor/src/lib.rs: BlockingPool, PoolHandle and      *)
(* BlockingShared.  Submitters enqueue on a bounded channel and wake a     *)
(* parked worker outside every lock; workers try the queue, register as    *)
(* idle, try again and park.  Every region the code runs under one mutex   *)
(* is one step here; what lies between two regions is a program counter.   *)
(*                                                                         *)
(* The atomic counter `idle` is stored, always under the `parked` mutex,   *)
(* as the length of the vector `parked.idle` in the same region that       *)
(* changes it, and is the only part read without the mutex: the variable   *)
(* idle below is that vector and the counter is its length.  All its       *)
(* accesses are SeqCst, so an interleaving model is exact.                 *)
(***************************************************************************)
EXTENDS Naturals, Sequences, Functions

CONSTANTS Calls,    \* callers of run_blocking; each submits one job
          Workers,  \* the worker threads the configuration asks for
          Capacity, \* queue_capacity
          None

ASSUME CapacityAssumption == Capacity \in Nat \ {0}
ASSUME WorkersAssumption == Workers # {}
ASSUME NoneAssumption == None \notin Calls \cup Workers

VARIABLES queue,  \* jobs in the sync_channel, oldest first
          sender, \* the SyncSender exists
          idle,   \* parked.idle
          token,  \* the unpark token of each worker thread
          wpc,    \* where each worker is in run_worker
          job,    \* the job a worker holds, or None
          cpc,    \* where each caller is in submit
          target, \* the thread a caller cloned in wake_one, or None
          owner,  \* where the owner is in new and in PoolHandle::drop
          toWake, \* threads wake_all collected and has not unparked yet
          done    \* jobs executed (history)

workerVars == <<wpc, job, token>>
callVars == <<cpc, target>>
ownerVars == <<sender, owner, toWake>>
vars == <<queue, idle, done, workerVars, callVars, ownerVars>>

Init ==
  /\ queue = <<>>
  /\ sender = TRUE
  /\ idle = <<>>
  /\ token = [w \in Workers |-> FALSE]
  /\ wpc = [w \in Workers |-> "unborn"]
  /\ job = [w \in Workers |-> None]
  /\ cpc = [c \in Calls |-> "new"]
  /\ target = [c \in Calls |-> None]
  /\ owner = "spawning"
  /\ toWake = {}
  /\ done = {}

------------------------------------------------------------------------------
(* Submission.  A caller borrows a clone of the handle while it submits.   *)

\* sender.try_send(job) when the channel has room.
TrySend(c) ==
  /\ owner = "ready" /\ cpc[c] = "new" /\ Len(queue) < Capacity
  /\ queue' = Append(queue, c)
  /\ cpc' = [cpc EXCEPT ![c] = "sent"]
  /\ UNCHANGED <<idle, done, workerVars, target, ownerVars>>

\* try_send answers Full: BlockingError::Saturated.
SendFull(c) ==
  /\ owner = "ready" /\ cpc[c] = "new" /\ Len(queue) >= Capacity
  /\ cpc' = [cpc EXCEPT ![c] = "refused"]
  /\ UNCHANGED <<queue, idle, done, workerVars, target, ownerVars>>

\* wake_one reads the idle counter without the mutex.
ReadIdle(c) ==
  /\ cpc[c] = "sent"
  /\ cpc' = [cpc EXCEPT ![c] = IF idle = <<>> THEN "accepted" ELSE "pop"]
  /\ UNCHANGED <<queue, idle, done, workerVars, target, ownerVars>>

AllButLast(s) == [i \in 1 .. Len(s) - 1 |-> s[i]]

\* Mutant: the claimed worker is never unparked.
PopIdleForgets(c) ==
  /\ cpc[c] = "pop"
  /\ idle' = IF idle = <<>> THEN idle ELSE AllButLast(idle)
  /\ cpc' = [cpc EXCEPT ![c] = "accepted"]
  /\ UNCHANGED <<queue, done, workerVars, target, ownerVars>>

\* wake_one under the parked mutex: claim the most recently registered worker.
PopIdle(c) ==
  /\ cpc[c] = "pop"
  /\ \/ /\ idle = <<>>
        /\ cpc' = [cpc EXCEPT ![c] = "accepted"]
        /\ UNCHANGED <<idle, target>>
     \/ /\ idle # <<>>
        /\ idle' = AllButLast(idle)
        /\ target' = [target EXCEPT ![c] = idle[Len(idle)]]
        /\ cpc' = [cpc EXCEPT ![c] = "unpark"]
  /\ UNCHANGED <<queue, done, workerVars, ownerVars>>

\* thread.unpark() after the mutex is released.
Unpark(c) ==
  /\ cpc[c] = "unpark"
  /\ token' = [token EXCEPT ![target[c]] = TRUE]
  /\ target' = [target EXCEPT ![c] = None]
  /\ cpc' = [cpc EXCEPT ![c] = "accepted"]
  /\ UNCHANGED <<queue, idle, done, wpc, job, ownerVars>>

------------------------------------------------------------------------------
(* run_worker *)

\* parked.threads[index] = Some(current()): from here on wake_all sees it.
PublishThread(w) ==
  /\ wpc[w] = "boot"
  /\ wpc' = [wpc EXCEPT ![w] = "take"]
  /\ UNCHANGED <<queue, idle, done, job, token, callVars, ownerVars>>

Goto(w, from, to) == wpc[w] = from /\ wpc' = [wpc EXCEPT ![w] = to]

\* take_job: Ok, Disconnected and Empty, in the order try_recv decides them.
TakeJob(w, from, got, gone, empty) ==
  \/ /\ Goto(w, from, got)
     /\ queue # <<>>
     /\ job' = [job EXCEPT ![w] = Head(queue)]
     /\ queue' = Tail(queue)
     /\ UNCHANGED <<idle, done, token, callVars, ownerVars>>
  \/ /\ Goto(w, from, gone)
     /\ queue = <<>> /\ ~sender
     /\ UNCHANGED <<queue, idle, done, job, token, callVars, ownerVars>>
  \/ /\ Goto(w, from, empty)
     /\ queue = <<>> /\ sender
     /\ UNCHANGED <<queue, idle, done, job, token, callVars, ownerVars>>

FirstTake(w) == TakeJob(w, "take", "run", "exit", "register")

\* Mutant: the worker parks without looking at the queue again.
RegisterThenPark(w) ==
  /\ Goto(w, "register", "park")
  /\ idle' = IF w \in Range(idle) THEN idle ELSE Append(idle, w)
  /\ UNCHANGED <<queue, done, job, token, callVars, ownerVars>>

Register(w) ==
  /\ Goto(w, "register", "retake")
  /\ idle' = IF w \in Range(idle) THEN idle ELSE Append(idle, w)
  /\ UNCHANGED <<queue, done, job, token, callVars, ownerVars>>

\* Mutant: the job found by the second try is dropped on the way to park.
RetakeDropsJob(w) ==
  /\ Goto(w, "retake", "park")
  /\ queue' = IF queue = <<>> THEN queue ELSE Tail(queue)
  /\ UNCHANGED <<idle, done, job, token, callVars, ownerVars>>

Retake(w) == TakeJob(w, "retake", "claimed", "leaving", "park")

\* Vec::swap_remove
SwapRemove(s, p) == [i \in 1 .. Len(s) - 1 |-> IF i = p THEN s[Len(s)] ELSE s[i]]

\* Takes w out of parked.idle, where it stands at most once (see Register).
RemoveIdle(w) ==
  \/ w \notin Range(idle) /\ UNCHANGED idle
  \/ \E p \in 1 .. Len(idle) : idle[p] = w /\ idle' = SwapRemove(idle, p)

\* The three calls of unregister: with a job in hand, on the way out, after park.
Unregister(w) ==
  /\ \/ Goto(w, "claimed", "run")
     \/ Goto(w, "leaving", "exit")
     \/ Goto(w, "woken", "take")
  /\ RemoveIdle(w)
  /\ UNCHANGED <<queue, done, job, token, callVars, ownerVars>>

\* thread::park returns when the token is set, and may return without it.
Park(w) ==
  /\ token[w]
  /\ Goto(w, "park", "woken")
  /\ token' = [token EXCEPT ![w] = FALSE]
  /\ UNCHANGED <<queue, idle, done, job, callVars, ownerVars>>

SpuriousReturn(w) ==
  /\ ~token[w]
  /\ Goto(w, "park", "woken")
  /\ UNCHANGED <<queue, idle, done, job, token, callVars, ownerVars>>

\* catch_unwind(job): returned or unwound, the worker goes on.
RunJob(w) ==
  /\ Goto(w, "run", "take")
  /\ done' = done \cup {job[w]}
  /\ job' = [job EXCEPT ![w] = None]
  /\ UNCHANGED <<queue, idle, token, callVars, ownerVars>>

------------------------------------------------------------------------------
(* BlockingPool::new and PoolHandle::drop *)

SpawnWorker(w) ==
  /\ owner = "spawning"
  /\ Goto(w, "unborn", "boot")
  /\ UNCHANGED <<queue, idle, done, job, token, callVars, ownerVars>>

\* Every worker was spawned: the handle is returned to the application.
HandOut ==
  /\ owner = "spawning"
  /\ \A w \in Workers : wpc[w] # "unborn"
  /\ owner' = "ready"
  /\ UNCHANGED <<queue, idle, done, workerVars, callVars, sender, toWake>>

\* A thread could not be started, or the last clone of the handle is dropped
\* (no caller is inside submit then): drop(sender).
DropSender ==
  /\ \/ owner = "spawning" /\ \E w \in Workers : wpc[w] = "unborn"
     \/ owner = "ready" /\ \A c \in Calls : cpc[c] \notin {"sent", "pop", "unpark"}
  /\ sender' = FALSE
  /\ owner' = "disconnected"
  /\ UNCHANGED <<queue, idle, done, workerVars, callVars, toWake>>

Published(w) == wpc[w] \notin {"unborn", "boot"}

\* wake_all under the parked mutex.
CollectParked ==
  /\ owner = "disconnected"
  /\ idle' = <<>>
  /\ toWake' = {w \in Workers : Published(w)}
  /\ owner' = "waking"
  /\ UNCHANGED <<queue, done, workerVars, callVars, sender>>

\* wake_all after the mutex is released.
UnparkNext(w) ==
  /\ owner = "waking" /\ w \in toWake
  /\ token' = [token EXCEPT ![w] = TRUE]
  /\ toWake' = toWake \ {w}
  /\ UNCHANGED <<queue, idle, done, wpc, job, callVars, sender, owner>>

WakeAllReturns ==
  /\ owner = "waking" /\ toWake = {}
  /\ owner' = "gone"
  /\ UNCHANGED <<queue, idle, done, workerVars, callVars, sender, toWake>>

------------------------------------------------------------------------------
CallStep(c) == ReadIdle(c) \/ PopIdle(c) \/ Unpark(c)

WorkerStep(w) ==
  \/ PublishThread(w) \/ FirstTake(w) \/ Register(w) \/ Retake(w)
  \/ Unregister(w) \/ Park(w) \/ RunJob(w)

OwnerStep ==
  \/ CollectParked \/ (\E w \in Workers : UnparkNext(w)) \/ WakeAllReturns

Next ==
  \/ \E c \in Calls : TrySend(c) \/ SendFull(c) \/ CallStep(c)
  \/ \E w \in Workers : SpawnWorker(w) \/ WorkerStep(w) \/ SpuriousReturn(w)
  \/ HandOut \/ DropSender \/ OwnerStep

\* Threads are scheduled and jobs return or unwind; nothing says that callers
\* submit, that the pool is dropped or that park returns spuriously.
Fairness ==
  /\ \A c \in Calls : WF_vars(CallStep(c))
  /\ \A w \in Workers : WF_vars(WorkerStep(w))
  /\ WF_vars(OwnerStep)

Spec == Init /\ [][Next]_vars
FairSpec == Spec /\ Fairness

------------------------------------------------------------------------------
(* Properties *)

WorkerPlaces == {"unborn", "boot", "take", "register", "retake", "claimed",
                 "leaving", "park", "woken", "run", "exit"}
CallPlaces == {"new", "sent", "pop", "unpark", "accepted", "refused"}
OwnerPlaces == {"spawning", "ready", "disconnected", "waking", "gone"}

\* Types of the variables; the queue never exceeds its configured capacity.
TypeOK ==
  /\ queue \in Seq(Calls) /\ Len(queue) <= Capacity
  /\ sender \in BOOLEAN
  /\ idle \in Seq(Workers)
  /\ token \in [Workers -> BOOLEAN]
  /\ wpc \in [Workers -> WorkerPlaces]
  /\ job \in [Workers -> Calls \cup {None}]
  /\ cpc \in [Calls -> CallPlaces]
  /\ target \in [Calls -> Workers \cup {None}]
  /\ owner \in OwnerPlaces
  /\ toWake \subseteq Workers
  /\ done \subseteq Calls

\* The thread is blocked in thread::park and nothing has unparked it yet.
Asleep(w) == wpc[w] = "park" /\ ~token[w]

Submitting(c) == cpc[c] \in {"sent", "pop", "unpark"}

\* The comment on wake_one: a job is never left in the queue with every worker
\* asleep or gone and no submitter or owner still on its way to wake one.
NoLostWakeup ==
  queue # <<>> =>
    \/ \E w \in Workers : ~Asleep(w) /\ wpc[w] \notin {"unborn", "exit"}
    \/ \E c \in Calls : Submitting(c)
    \/ owner \in {"disconnected", "waking"}

\* PoolHandle::drop: once wake_all returned, no worker sleeps through the
\* shutdown, whichever step of its loop the disconnect met it in.
NoSleeperAfterShutdown == owner = "gone" => \A w \in Workers : ~Asleep(w)

\* Both: nobody sleeps beside a job, and nobody sleeps through the shutdown.
NobodyIsStranded == NoLostWakeup /\ NoSleeperAfterShutdown

\* A worker leaves only when nothing is queued and nothing can be any more.
DrainedBeforeExit ==
  (\E w \in Workers : wpc[w] \in {"leaving", "exit"}) => queue = <<>> /\ ~sender

\* The pool implements its promise: see JobPool.
Promise == INSTANCE JobPool WITH
  waiting <- queue, hands <- job, open <- sender,
  refused <- {c \in Calls : cpc[c] = "refused"}
ImplementsJobPool == Promise!Spec

\* A job the channel accepted is executed, also when the pool is dropped first.
AcceptedJobsRun == \A c \in Calls : (cpc[c] = "sent") ~> (c \in done)

\* A dropped pool leaves no worker thread behind.
WorkersLeave ==
  (owner = "gone") ~> (\A w \in Workers : wpc[w] \in {"unborn", "exit"})

\* Both: what was accepted is executed, and then the threads end.
PoolDrains == AcceptedJobsRun /\ WorkersLeave

==============================================================================
