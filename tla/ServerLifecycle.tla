--------------------------- MODULE ServerLifecycle ---------------------------
(***************************************************************************)
(* How the native server starts, accepts, drains and stops                 *)
(* (crates/blazingly-native/src/lib.rs): Server::serve_listener (kind      *)
(* "local": one thread, one application) and MulticoreServer::serve_inner  *)
(* (kind "multicore": an accept loop on its own thread and one worker      *)
(* thread per application).  The two share the counters, their guards      *)
(* ActiveWork and WorkerSlot, the shutdown flag and the drain.             *)
(*                                                                         *)
(* A connection is opaque here (its inside is Http1Connection and          *)
(* Http2Streams): it starts, may schedule one batch of background tasks    *)
(* and ends.  The guards of one connection fall in one step: they are      *)
(* decrements of different counters and every test of the accept loop      *)
(* reads one of them.  Of the Dispatcher (external) the model keeps what   *)
(* the code relies on: one FIFO channel per worker, dispatch fails when    *)
(* the worker is gone, a worker that leaves drops what it was running.     *)
(***************************************************************************)
EXTENDS Naturals, Sequences, FiniteSets

CONSTANTS Conns,      \* connections that clients open
          N,          \* worker threads; the local server uses worker 1
          Hooks,      \* startup hooks, and shutdown hooks, of an application
          MaxConnections, \* the connection cap
          Kinds,      \* which of the two servers runs
          MayDie,     \* worker threads that may stop by themselves
          None

ASSUME NAssumption == N \in Nat \ {0}
ASSUME HooksAssumption == Hooks \in Nat \ {0}
ASSUME CapAssumption == MaxConnections \in Nat \ {0}
ASSUME ConnsAssumption == IsFiniteSet(Conns) /\ None \notin Conns
                            /\ Conns \cap {"startup", "stop"} = {}
ASSUME KindsAssumption == Kinds \subseteq {"local", "multicore"}

Workers == 1 .. N

VARIABLES kind,
          \* ShutdownState and its two users
          requested, waker, woken, stopper,
          \* the accept loop
          pc, at, held, verdict, expired, cursor,
          \* the workers: channel, thread, application, drain counter
          inbox, alive, app, up, down, installed,
          \* connections and their background tasks
          conn, owner, task, counted,
          \* the shared counters
          active, connections, loads

signal == <<requested, waker, woken, stopper>>
loop == <<pc, at, held, verdict, expired, cursor>>
workers == <<inbox, alive, app, up, down, installed>>
handling == <<conn, owner, task, counted>>
counters == <<active, connections, loads>>
serverVars == <<kind, signal, loop, workers, handling, counters>>

ServerInit ==
  /\ kind \in Kinds
  /\ requested = FALSE /\ waker = FALSE /\ woken = FALSE /\ stopper = "idle"
  /\ pc = "launch" /\ at = 1 /\ held = None /\ verdict = "ok"
  /\ expired = FALSE /\ cursor = 0
  /\ inbox = [w \in Workers |-> <<>>]
  /\ alive = [w \in Workers |-> TRUE]
  /\ app = [w \in Workers |-> "none"]
  /\ up = [w \in Workers |-> 0]
  /\ down = [w \in Workers |-> 0]
  /\ installed = [w \in Workers |-> FALSE]
  /\ conn = [c \in Conns |-> "waiting"]
  /\ owner = [c \in Conns |-> 1]
  /\ task = [c \in Conns |-> "none"]
  /\ counted = [c \in Conns |-> FALSE]
  /\ active = 0 /\ connections = 0
  /\ loads = [w \in Workers |-> 0]

Return(v) == pc' = "returned" /\ verdict' = v

\* The next worker in a `for` over the dispatchers, then the phase after it.
NextWorker(phase) ==
  IF at < N THEN at' = at + 1 /\ pc' = pc ELSE at' = 1 /\ pc' = phase

------------------------------------------------------------------------------
(* ShutdownHandle::shutdown, on a thread of its own. *)

RequestShutdown ==
  /\ stopper = "idle"
  /\ requested' = TRUE /\ stopper' = "stored"
  /\ UNCHANGED <<kind, waker, woken, loop, workers, handling, counters>>

\* waker.lock().take(), then wake().
TakeWaker ==
  /\ stopper = "stored"
  /\ stopper' = "done" /\ waker' = FALSE /\ woken' = (woken \/ waker)
  /\ UNCHANGED <<kind, requested, loop, workers, handling, counters>>

------------------------------------------------------------------------------
(* Starting the applications. *)

\* The single application starts on the server's own thread.
LaunchLocal ==
  /\ kind = "local" /\ pc = "launch"
  /\ app' = [app EXCEPT ![1] = "starting"] /\ pc' = "confirm"
  /\ UNCHANGED <<kind, signal, at, held, verdict, expired, cursor, inbox,
                 alive, up, down, installed, handling, counters>>

\* start_workers, first loop: dispatch the startup future to each worker.
LaunchWorker ==
  /\ kind = "multicore" /\ pc = "launch"
  /\ IF alive[at]
     THEN /\ inbox' = [inbox EXCEPT ![at] = Append(@, "startup")]
          /\ NextWorker("confirm") /\ UNCHANGED verdict
     ELSE /\ pc' = "join" /\ at' = 1 /\ verdict' = "err" /\ UNCHANGED inbox
  /\ UNCHANGED <<kind, signal, held, expired, cursor, alive, app, up, down,
                 installed, handling, counters>>

\* The startup future: the drain counter, then worker_app, which may refuse
\* the application (check_security_coverage).
BeginStartup(w) ==
  /\ kind = "multicore" /\ alive[w]
  /\ inbox[w] # <<>> /\ Head(inbox[w]) = "startup"
  /\ inbox' = [inbox EXCEPT ![w] = Tail(@)]
  /\ installed' = [installed EXCEPT ![w] = TRUE]
  /\ \E s \in {"starting", "failed"} : app' = [app EXCEPT ![w] = s]
  /\ UNCHANGED <<kind, signal, loop, alive, up, down, handling, counters>>

\* ExecutableApp::startup: hooks in order, the first failure stops them.
StartupHook(w) ==
  /\ alive[w] /\ app[w] = "starting"
  /\ \/ /\ up' = [up EXCEPT ![w] = @ + 1]
        /\ app' = IF up[w] + 1 = Hooks THEN [app EXCEPT ![w] = "started"]
                                       ELSE app
     \/ app' = [app EXCEPT ![w] = "failed"] /\ UNCHANGED up
  /\ UNCHANGED <<kind, signal, loop, inbox, alive, down, installed, handling,
                 counters>>

\* serve_listener installs the drain counter once its application is up.
ConfirmLocal ==
  /\ kind = "local" /\ pc = "confirm"
  /\ \/ /\ app[1] = "started"
        /\ installed' = [installed EXCEPT ![1] = TRUE]
        /\ pc' = "poll" /\ UNCHANGED verdict
     \/ /\ app[1] = "failed"
        /\ Return("err") /\ UNCHANGED installed
  /\ UNCHANGED <<kind, signal, at, held, expired, cursor, inbox, alive, app,
                 up, down, handling, counters>>

\* Mutant: the accept loop starts as soon as the startups are dispatched.
ConfirmEarly ==
  /\ kind = "multicore" /\ pc = "confirm"
  /\ NextWorker("loop")
  /\ UNCHANGED <<kind, signal, held, verdict, expired, cursor, workers, handling,
                 counters>>

\* start_workers, second loop: the first failure joins every dispatcher.
ConfirmWorker ==
  /\ kind = "multicore" /\ pc = "confirm"
  /\ \/ app[at] = "started" /\ alive[at] /\ NextWorker("loop") /\ UNCHANGED verdict
     \/ /\ app[at] = "failed" \/ ~alive[at]
        /\ pc' = "join" /\ at' = 1 /\ verdict' = "err"
  /\ UNCHANGED <<kind, signal, held, expired, cursor, workers, handling, counters>>

------------------------------------------------------------------------------
(* The accept loop of the local server: a race of accept and the signal. *)

\* ShutdownSignal::poll: the first load of the flag.
PollFlag ==
  /\ kind = "local" /\ pc = "poll"
  /\ pc' = IF requested THEN "drain" ELSE "store"
  /\ UNCHANGED <<kind, signal, at, held, verdict, expired, cursor, workers,
                 handling, counters>>

PollStore ==
  /\ kind = "local" /\ pc = "store"
  /\ waker' = TRUE /\ pc' = "reload"
  /\ UNCHANGED <<kind, requested, woken, stopper, at, held, verdict, expired,
                 cursor, workers, handling, counters>>

\* Mutant: the flag is not read again after the waker is stored.
PollBlind ==
  /\ kind = "local" /\ pc = "reload"
  /\ pc' = "asleep"
  /\ UNCHANGED <<kind, signal, at, held, verdict, expired, cursor, workers,
                 handling, counters>>

\* The second load of the flag, after the waker is in its slot.
PollReload ==
  /\ kind = "local" /\ pc = "reload"
  /\ pc' = IF requested THEN "drain" ELSE "asleep"
  /\ UNCHANGED <<kind, signal, at, held, verdict, expired, cursor, workers,
                 handling, counters>>

PollWoken ==
  /\ kind = "local" /\ pc = "asleep" /\ woken
  /\ woken' = FALSE /\ pc' = "poll"
  /\ UNCHANGED <<kind, requested, waker, stopper, at, held, verdict, expired,
                 cursor, workers, handling, counters>>

\* accept wins the race: the cap, the counters and the spawn are one step,
\* the thread does not yield between them.
AcceptLocal(c) ==
  /\ kind = "local" /\ pc \in {"poll", "asleep"} /\ conn[c] = "waiting"
  /\ pc' = "poll"
  /\ IF connections >= MaxConnections
     THEN /\ conn' = [conn EXCEPT ![c] = "refused"]
          /\ UNCHANGED <<inbox, active, connections>>
     ELSE /\ conn' = [conn EXCEPT ![c] = "queued"]
          /\ inbox' = [inbox EXCEPT ![1] = Append(@, c)]
          /\ active' = active + 1 /\ connections' = connections + 1
  /\ UNCHANGED <<kind, signal, at, held, verdict, expired, cursor, alive, app,
                 up, down, installed, owner, task, counted, loads>>

\* accept fails: the error leaves the server at once, in both servers.
AcceptFails ==
  /\ \/ kind = "local" /\ pc \in {"poll", "asleep"}
     \/ kind = "multicore" /\ pc = "accept"
  /\ Return("err")
  /\ UNCHANGED <<kind, signal, at, held, expired, cursor, workers, handling,
                 counters>>

------------------------------------------------------------------------------
(* The accept loop of the multicore server. *)

\* The flag is tested before each accept; no waker is involved.
TestRequested ==
  /\ kind = "multicore" /\ pc = "loop"
  /\ pc' = IF requested THEN "drain" ELSE "accept"
  /\ UNCHANGED <<kind, signal, at, held, verdict, expired, cursor, workers,
                 handling, counters>>

\* accept would block: sleep and test the flag again.
AcceptNothing ==
  /\ kind = "multicore" /\ pc = "accept"
  /\ pc' = "loop"
  /\ UNCHANGED <<kind, signal, at, held, verdict, expired, cursor, workers,
                 handling, counters>>

Accept(c) ==
  /\ kind = "multicore" /\ pc = "accept" /\ conn[c] = "waiting"
  /\ conn' = [conn EXCEPT ![c] = "held"] /\ held' = c /\ pc' = "limit"
  /\ UNCHANGED <<kind, signal, at, verdict, expired, cursor, workers, owner,
                 task, counted, counters>>

\* The k-th worker of the scan that starts at the cursor.
Scanned(k) == ((cursor + k) % N) + 1

\* least_loaded_worker: the first lightest worker of the scan.
LeastLoaded(k) ==
  \A j \in 0 .. N - 1 :
     /\ loads[Scanned(k)] <= loads[Scanned(j)]
     /\ j < k => loads[Scanned(k)] < loads[Scanned(j)]

\* The cap, then the three counters, all before the dispatch.
CountConnection ==
  /\ kind = "multicore" /\ pc = "limit"
  /\ IF connections >= MaxConnections
     THEN /\ conn' = [conn EXCEPT ![held] = "refused"]
          /\ held' = None /\ pc' = "loop"
          /\ UNCHANGED <<cursor, owner, counters>>
     ELSE \E k \in 0 .. N - 1 :
          /\ LeastLoaded(k)
          /\ conn' = [conn EXCEPT ![held] = "counted"]
          /\ owner' = [owner EXCEPT ![held] = Scanned(k)]
          /\ loads' = [loads EXCEPT ![Scanned(k)] = @ + 1]
          /\ active' = active + 1 /\ connections' = connections + 1
          /\ cursor' = Scanned(k) % N /\ pc' = "dispatch" /\ UNCHANGED held
  /\ UNCHANGED <<kind, signal, at, verdict, expired, workers, task, counted>>

\* dispatch; when the worker is gone the counts are rolled back and the
\* server returns.
DispatchConnection ==
  /\ kind = "multicore" /\ pc = "dispatch"
  /\ held' = None
  /\ IF alive[owner[held]]
     THEN /\ inbox' = [inbox EXCEPT ![owner[held]] = Append(@, held)]
          /\ conn' = [conn EXCEPT ![held] = "queued"]
          /\ pc' = "loop" /\ UNCHANGED <<verdict, counters>>
     ELSE /\ conn' = [conn EXCEPT ![held] = "refused"]
          /\ active' = active - 1 /\ connections' = connections - 1
          /\ loads' = [loads EXCEPT ![owner[held]] = @ - 1]
          /\ Return("err") /\ UNCHANGED inbox
  /\ UNCHANGED <<kind, signal, at, expired, cursor, alive, app, up, down,
                 installed, owner, task, counted>>

------------------------------------------------------------------------------
(* Connections and background tasks, on their worker's thread. *)

\* The tasks of the local server run when its own future is suspended.
Running(w) ==
  /\ alive[w]
  /\ kind = "local" => pc \in {"asleep", "drain", "await"}

\* The connection task is polled for the first time and adopts its guards.
BeginConnection(c) ==
  LET w == owner[c] IN
  /\ conn[c] = "queued" /\ Running(w)
  /\ inbox[w] # <<>> /\ Head(inbox[w]) = c
  /\ inbox' = [inbox EXCEPT ![w] = Tail(@)]
  /\ conn' = [conn EXCEPT ![c] = "live"]
  /\ UNCHANGED <<kind, signal, loop, alive, app, up, down, installed, owner,
                 task, counted, counters>>

\* schedule_background: the batch joins the drain counter, if there is one,
\* while the connection that schedules it still holds its own count.
ScheduleBackground(c) ==
  /\ conn[c] = "live" /\ Running(owner[c]) /\ task[c] = "none"
  /\ task' = [task EXCEPT ![c] = "spawned"]
  /\ counted' = [counted EXCEPT ![c] = installed[owner[c]]]
  /\ active' = IF installed[owner[c]] THEN active + 1 ELSE active
  /\ UNCHANGED <<kind, signal, loop, workers, conn, owner, connections, loads>>

\* serve_accepted returns: _load, _slot and _work are dropped.
EndConnection(c) ==
  /\ conn[c] = "live" /\ Running(owner[c])
  /\ conn' = [conn EXCEPT ![c] = "ended"]
  /\ active' = active - 1 /\ connections' = connections - 1
  /\ loads' = IF kind = "local" THEN loads
              ELSE [loads EXCEPT ![owner[c]] = @ - 1]
  /\ UNCHANGED <<kind, signal, loop, workers, owner, task, counted>>

EndBackground(c) ==
  /\ task[c] = "spawned" /\ Running(owner[c])
  /\ task' = [task EXCEPT ![c] = "ended"]
  /\ active' = IF counted[c] THEN active - 1 ELSE active
  /\ UNCHANGED <<kind, signal, loop, workers, conn, owner, counted,
                 connections, loads>>

------------------------------------------------------------------------------
(* Draining and stopping. *)

\* drain_timeout has passed.
DeadlinePasses ==
  /\ pc = "drain" /\ ~expired
  /\ expired' = TRUE
  /\ UNCHANGED <<kind, signal, pc, at, held, verdict, cursor, workers, handling,
                 counters>>

\* The drain ends at zero or at the deadline; the local server then runs the
\* shutdown hooks itself, the multicore one sends each worker a stop future.
DrainEnds ==
  /\ pc = "drain"
  /\ active = 0 \/ expired
  /\ IF kind = "local"
     THEN app' = [app EXCEPT ![1] = "stopping"] /\ pc' = "await"
     ELSE pc' = "stop" /\ UNCHANGED app
  /\ UNCHANGED <<kind, signal, at, held, verdict, expired, cursor, inbox,
                 alive, up, down, installed, handling, counters>>

\* A worker that is gone ends the whole sequence: no join, no later worker.
DispatchStop ==
  /\ kind = "multicore" /\ pc = "stop"
  /\ IF alive[at]
     THEN /\ inbox' = [inbox EXCEPT ![at] = Append(@, "stop")]
          /\ NextWorker("await") /\ UNCHANGED verdict
     ELSE Return("err") /\ UNCHANGED <<inbox, at>>
  /\ UNCHANGED <<kind, signal, held, expired, cursor, alive, app, up, down,
                 installed, handling, counters>>

\* The stop future: clear_drain_counter, take_worker_app, app.shutdown().
BeginStop(w) ==
  /\ kind = "multicore" /\ alive[w]
  /\ inbox[w] # <<>> /\ Head(inbox[w]) = "stop"
  /\ inbox' = [inbox EXCEPT ![w] = Tail(@)]
  /\ installed' = [installed EXCEPT ![w] = FALSE]
  /\ app' = [app EXCEPT ![w] = "stopping"]
  /\ UNCHANGED <<kind, signal, loop, alive, up, down, handling, counters>>

\* ExecutableApp::shutdown: every hook runs, whatever the earlier ones
\* answered; only the local server reports a failure.
ShutdownHook(w) ==
  /\ alive[w] /\ app[w] = "stopping"
  /\ down' = [down EXCEPT ![w] = @ + 1]
  /\ app' = IF down[w] + 1 = Hooks THEN [app EXCEPT ![w] = "stopped"] ELSE app
  /\ verdict' \in IF kind = "local" THEN {verdict, "err"} ELSE {verdict}
  /\ UNCHANGED <<kind, signal, pc, at, held, expired, cursor, inbox, alive,
                 up, installed, handling, counters>>

StoppedLocal ==
  /\ kind = "local" /\ pc = "await" /\ app[1] = "stopped"
  /\ Return(verdict)
  /\ UNCHANGED <<kind, signal, at, held, expired, cursor, workers, handling,
                 counters>>

AwaitStop ==
  /\ kind = "multicore" /\ pc = "await"
  /\ \/ app[at] = "stopped" /\ NextWorker("join") /\ UNCHANGED verdict
     \/ app[at] # "stopped" /\ ~alive[at] /\ Return("err") /\ UNCHANGED at
  /\ UNCHANGED <<kind, signal, held, expired, cursor, workers, handling, counters>>

\* What a worker thread drops when it leaves: connections it runs give their
\* counts back, a connection still in the channel never adopted its own.
Dropped(w) == {c \in Conns : owner[c] = w /\ conn[c] = "live"}
DroppedTasks(w) == {c \in Conns : owner[c] = w /\ task[c] = "spawned"}

Leave(w) ==
  /\ alive[w]
  /\ alive' = [alive EXCEPT ![w] = FALSE]
  /\ inbox' = [inbox EXCEPT ![w] = <<>>]
  /\ conn' = [c \in Conns |->
                IF c \in Dropped(w) THEN "ended"
                ELSE IF owner[c] = w /\ conn[c] = "queued" THEN "lost"
                ELSE conn[c]]
  /\ task' = [c \in Conns |-> IF c \in DroppedTasks(w) THEN "ended" ELSE task[c]]
  /\ active' = active - Cardinality(Dropped(w))
                      - Cardinality({c \in DroppedTasks(w) : counted[c]})
  /\ connections' = connections - Cardinality(Dropped(w))
  /\ loads' = [loads EXCEPT ![w] = @ - Cardinality(Dropped(w))]
  /\ UNCHANGED <<kind, signal, held, expired, cursor, app, up, down,
                 installed, owner, counted>>

\* dispatcher.join(): the channel closes and the thread ends; a thread that
\* had stopped by itself makes the join fail.
JoinWorker ==
  /\ kind = "multicore" /\ pc = "join"
  /\ IF at < N THEN at' = at + 1 /\ pc' = pc ELSE at' = 1 /\ pc' = "returned"
  /\ \/ Leave(at) /\ UNCHANGED verdict
     \/ /\ ~alive[at]
        /\ verdict' = "err"
        /\ UNCHANGED <<kind, signal, held, expired, cursor, workers, handling,
                       counters>>

\* A worker thread ends by itself, or because a failed server dropped its
\* channel without joining it.
WorkerLeaves(w) ==
  /\ kind = "multicore"
  /\ w \in MayDie \/ pc = "returned"
  /\ Leave(w)
  /\ UNCHANGED <<pc, at, verdict>>

------------------------------------------------------------------------------
AcceptLoop ==
  \/ LaunchLocal \/ LaunchWorker \/ ConfirmLocal \/ ConfirmWorker
  \/ PollFlag \/ PollStore \/ PollReload \/ PollWoken
  \/ TestRequested \/ AcceptNothing \/ CountConnection \/ DispatchConnection
  \/ DrainEnds \/ DispatchStop \/ StoppedLocal \/ AwaitStop \/ JoinWorker

Lifecycle(w) ==
  BeginStartup(w) \/ StartupHook(w) \/ BeginStop(w) \/ ShutdownHook(w)

Serve(c) ==
  \/ BeginConnection(c) \/ ScheduleBackground(c) \/ EndConnection(c)
  \/ EndBackground(c)

ServerNext ==
  \/ AcceptLoop \/ AcceptFails \/ DeadlinePasses
  \/ RequestShutdown \/ TakeWaker
  \/ \E c \in Conns : AcceptLocal(c) \/ Accept(c) \/ Serve(c)
  \/ \E w \in Workers : Lifecycle(w) \/ WorkerLeaves(w)

ServerSpec == ServerInit /\ [][ServerNext]_serverVars

\* The loop, the handle and each worker's channel make progress, hooks end
\* and time passes.  Nothing is assumed of connections and their tasks.
FairServerSpec ==
  /\ ServerSpec
  /\ WF_serverVars(AcceptLoop) /\ WF_serverVars(TakeWaker) /\ WF_serverVars(DeadlinePasses)
  /\ \A w \in Workers : WF_serverVars(Lifecycle(w))
  /\ \A c \in Conns : WF_serverVars(BeginConnection(c))

------------------------------------------------------------------------------
ServerTypeOK ==
  /\ kind \in {"local", "multicore"}
  /\ requested \in BOOLEAN /\ waker \in BOOLEAN /\ woken \in BOOLEAN
  /\ stopper \in {"idle", "stored", "done"}
  /\ pc \in {"launch", "confirm", "poll", "store", "reload", "asleep", "loop",
             "accept", "limit", "dispatch", "drain", "stop", "await", "join",
             "returned"}
  /\ at \in Workers /\ held \in Conns \cup {None}
  /\ verdict \in {"ok", "err"} /\ expired \in BOOLEAN /\ cursor \in 0 .. N - 1
  /\ inbox \in [Workers -> Seq(Conns \cup {"startup", "stop"})]
  /\ alive \in [Workers -> BOOLEAN] /\ installed \in [Workers -> BOOLEAN]
  /\ app \in [Workers -> {"none", "starting", "started", "failed", "stopping",
                          "stopped"}]
  /\ up \in [Workers -> 0 .. Hooks] /\ down \in [Workers -> 0 .. Hooks]
  /\ conn \in [Conns -> {"waiting", "held", "refused", "counted", "queued",
                         "live", "ended", "lost"}]
  /\ owner \in [Conns -> Workers]
  /\ task \in [Conns -> {"none", "spawned", "ended"}]
  /\ counted \in [Conns -> BOOLEAN]
  /\ active \in Nat /\ connections \in Nat /\ loads \in [Workers -> Nat]

\* Connections the counters stand for, and background batches they count.
Admitted == {c \in Conns : conn[c] \in {"counted", "queued", "live", "lost"}}
CountedTasks == {c \in Conns : task[c] = "spawned" /\ counted[c]}

\* Every counter equals the work it stands for, through accept, refusal,
\* failed dispatch, background batches and the end of a worker thread
\* (a connection lost in a dead worker's channel stays counted).
CountsAgree ==
  /\ connections = Cardinality(Admitted)
  /\ active = connections + Cardinality(CountedTasks)
  /\ kind = "multicore" =>
       \A w \in Workers :
         loads[w] = Cardinality({c \in Admitted : owner[c] = w})

\* The connections dispatched or running never exceed max_connections.
CapIsKept ==
  Cardinality({c \in Conns : conn[c] \in {"queued", "live"}}) <= MaxConnections

\* Both: the counters tell the truth, and the cap they serve is kept.
CountsAreKept == CountsAgree /\ CapIsKept

\* A connection or a background task only runs on an application whose every
\* startup hook has succeeded, and no shutdown hook runs under it unless the
\* drain deadline has passed.
ServedWhileOpen ==
  \A c \in Conns :
    conn[c] = "live" \/ task[c] = "spawned" =>
      /\ up[owner[c]] = Hooks
      /\ app[owner[c]] = "started" \/ expired

\* A server that returns success has run every shutdown hook of every
\* application and has left no connection on a worker.
SuccessIsClean ==
  pc = "returned" /\ verdict = "ok" =>
    /\ \A w \in Workers : (kind = "local" => w = 1) => down[w] = Hooks
    /\ kind = "multicore" =>
         \A c \in Conns : conn[c] \notin {"queued", "live"} /\ task[c] # "spawned"

\* Both: startup is complete before the work, and the work before shutdown.
HooksFrameTheWork == ServedWhileOpen /\ SuccessIsClean

\* Both: the counts that admit and drain connections are right, and the hooks
\* run around the work.
LifecycleIsSound == ServerTypeOK /\ CountsAreKept /\ HooksFrameTheWork

\* Once shutdown is requested the server returns: whatever the connections
\* do, and whichever of the two sides of the waker slot moves first.
ShutdownReturns == requested ~> (pc = "returned")
==============================================================================
