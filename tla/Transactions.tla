---------------------------- MODULE Transactions ----------------------------
(***************************************************************************)
(* Database work of crates/blazingly-database/src/lib.rs: Database::run    *)
(* and Database::transaction, their _sync forms, run_on and                *)
(* transaction_on.  Callers share one connection pool.  A caller on an     *)
(* executor thread submits a job to the blocking pool (BlockingPool models *)
(* it: here it may refuse the job) and may give up while the job runs on;  *)
(* a caller that is already on a pool worker runs the job inline.          *)
(*                                                                         *)
(* Each driver call is one step, and it may fail.  External: the pool that *)
(* hands out connections, and the driver, whose failed commit may have     *)
(* taken effect or not, and whose connection is discarded rather than      *)
(* reused when its commit or rollback failed.                              *)
(***************************************************************************)
EXTENDS Naturals, FiniteSets

CONSTANTS Callers,     \* the calls of run and transaction
          Connections, \* the connections of the pool
          NoConnection

ASSUME NoConnectionAssumption == NoConnection \notin Connections

VARIABLES form,      \* "run" or "transaction", the call made
          where,     \* "inline" or "queued", where its job runs
          phase,     \* where each job is
          gone,      \* the caller dropped its future
          lease,     \* the connection a job holds
          answer,    \* what the caller is told
          free,      \* connections in the pool
          open,      \* the jobs that have begun in each connection's
                     \* open transaction
          pending,   \* the jobs whose writes each connection holds uncommitted
          committed, \* the jobs whose writes are durable
          doubtful   \* the jobs whose commit failed

job == <<form, where, phase, gone, lease, answer>>
database == <<free, open, pending, committed, doubtful>>
dbVars == <<job, database>>

Init ==
  /\ form \in [Callers -> {"run", "transaction"}]
  /\ where \in [Callers -> {"inline", "queued"}]
  /\ phase = [c \in Callers |-> "called"]
  /\ gone = [c \in Callers |-> FALSE]
  /\ lease = [c \in Callers |-> NoConnection]
  /\ answer = [c \in Callers |-> "none"]
  /\ free = Connections
  /\ open = [k \in Connections |-> {}]
  /\ pending = [k \in Connections |-> {}]
  /\ committed = {} /\ doubtful = {}

Move(c, from, to) == phase[c] = from /\ phase' = [phase EXCEPT ![c] = to]

\* The job ends: its connection is dropped and the answer delivered.
Finish(c, from, result) ==
  /\ Move(c, from, "ended")
  /\ answer' = [answer EXCEPT ![c] = result]
  /\ lease' = [lease EXCEPT ![c] = NoConnection]

\* Dropping the connection gives it back to the pool.
Reuse(c) == free' = free \cup ({lease[c]} \ {NoConnection})

\* Only run and transaction queue; on_blocking_worker() decides.  A full
\* queue answers Saturated without touching the database.
Submit(c) ==
  /\ \/ Move(c, "called", "acquire") /\ UNCHANGED <<lease, answer>>
     \/ where[c] = "queued" /\ Finish(c, "called", "saturated")
  /\ UNCHANGED <<form, where, gone, database>>

\* The caller's future is dropped; the job is not.
GiveUp(c) ==
  /\ where[c] = "queued" /\ phase[c] # "ended" /\ ~gone[c]
  /\ gone' = [gone EXCEPT ![c] = TRUE]
  /\ UNCHANGED <<form, where, phase, lease, answer, database>>

Acquire(c) ==
  /\ \E k \in free :
       /\ free' = free \ {k}
       /\ lease' = [lease EXCEPT ![c] = k]
  /\ Move(c, "acquire", IF form[c] = "run" THEN "operate" ELSE "begin")
  /\ UNCHANGED <<form, where, gone, answer, open, pending, committed, doubtful>>

\* acquire_timeout, or the pool's own failure.
AcquireFails(c) ==
  /\ Finish(c, "acquire", "acquire_error")
  /\ UNCHANGED <<form, where, gone, database>>

Begin(c) ==
  /\ Move(c, "begin", "operate")
  /\ open' = [open EXCEPT ![lease[c]] = @ \cup {c}]
  /\ UNCHANGED <<form, where, gone, lease, answer, free, pending, committed,
                 doubtful>>

BeginFails(c) ==
  /\ Finish(c, "begin", "operation_error") /\ Reuse(c)
  /\ UNCHANGED <<form, where, gone, open, pending, committed, doubtful>>

\* run_on: the statements of a plain run commit one by one.
RunOperation(c) ==
  /\ form[c] = "run"
  /\ \/ Finish(c, "operate", "ok") /\ committed' = committed \cup {c}
     \/ /\ \E e \in {"operation_error", "panic"} : Finish(c, "operate", e)
        /\ committed' \in {committed, committed \cup {c}}
  /\ Reuse(c)
  /\ UNCHANGED <<form, where, gone, open, pending, doubtful>>

\* Mutant: a panic goes straight to the caller.
OperatePanics(c) ==
  /\ form[c] = "transaction"
  /\ pending' = [pending EXCEPT ![lease[c]] = @ \cup {c}]
  /\ \/ Move(c, "operate", "commit") /\ UNCHANGED <<lease, answer, free>>
     \/ Move(c, "operate", "rollback") /\ UNCHANGED <<lease, answer, free>>
     \/ Finish(c, "operate", "panic") /\ Reuse(c)
  /\ UNCHANGED <<form, where, gone, open, committed, doubtful>>

\* transaction_on: the closure writes, then returns Ok, returns Err or
\* panics; the last two both roll back.
Operate(c) ==
  /\ form[c] = "transaction"
  /\ pending' = [pending EXCEPT ![lease[c]] = @ \cup {c}]
  /\ \E next \in {"commit", "rollback", "rollback_panic"} :
        Move(c, "operate", next)
  /\ UNCHANGED <<form, where, gone, lease, answer, free, open, committed,
                 doubtful>>

Commit(c) ==
  /\ Finish(c, "commit", "ok") /\ Reuse(c)
  /\ committed' = committed \cup pending[lease[c]]
  /\ pending' = [pending EXCEPT ![lease[c]] = {}]
  /\ open' = [open EXCEPT ![lease[c]] = {}]
  /\ UNCHANGED <<form, where, gone, doubtful>>

\* No rollback follows a failed commit.
CommitFails(c) ==
  /\ Finish(c, "commit", "operation_error")
  /\ committed' \in {committed, committed \cup pending[lease[c]]}
  /\ doubtful' = doubtful \cup {c}
  /\ UNCHANGED <<form, where, gone, free, open, pending>>

RollbackError(c) ==
  IF phase[c] = "rollback" THEN "operation_error" ELSE "panic"

Rollback(c) ==
  /\ phase[c] \in {"rollback", "rollback_panic"}
  /\ Finish(c, phase[c], RollbackError(c)) /\ Reuse(c)
  /\ pending' = [pending EXCEPT ![lease[c]] = {}]
  /\ open' = [open EXCEPT ![lease[c]] = {}]
  /\ UNCHANGED <<form, where, gone, committed, doubtful>>

\* rolled_back_error: RollbackFailure, under the class of the first error.
RollbackFails(c) ==
  /\ phase[c] \in {"rollback", "rollback_panic"}
  /\ Finish(c, phase[c], "rollback_failure")
  /\ UNCHANGED <<form, where, gone, database>>

Step(c) ==
  \/ Submit(c) \/ Acquire(c) \/ AcquireFails(c) \/ Begin(c) \/ BeginFails(c)
  \/ RunOperation(c) \/ Operate(c) \/ Commit(c) \/ CommitFails(c)
  \/ Rollback(c) \/ RollbackFails(c)

Next == \E c \in Callers : Step(c) \/ GiveUp(c)

Spec == Init /\ [][Next]_dbVars

------------------------------------------------------------------------------
TypeOK ==
  /\ form \in [Callers -> {"run", "transaction"}]
  /\ where \in [Callers -> {"inline", "queued"}]
  /\ phase \in [Callers -> {"called", "acquire", "begin", "operate", "commit",
                            "rollback", "rollback_panic", "ended"}]
  /\ gone \in [Callers -> BOOLEAN]
  /\ lease \in [Callers -> Connections \cup {NoConnection}]
  /\ answer \in [Callers -> {"none", "ok", "saturated", "acquire_error",
                             "operation_error", "panic", "rollback_failure"}]
  /\ free \subseteq Connections
  /\ open \in [Connections -> SUBSET Callers]
  /\ pending \in [Connections -> SUBSET Callers]
  /\ committed \subseteq Callers /\ doubtful \subseteq Callers

\* A transaction is all or nothing and the caller is told which: success means
\* its writes are durable, every other answer means they are not, except that
\* a failed commit leaves it open.  A connection never goes back to the pool
\* with a transaction in it, so that no caller's writes ride on the commit of
\* another one.
AnswersMatchTheDatabase ==
  /\ \A c \in Callers :
       /\ answer[c] = "ok" => c \in committed
       /\ c \in committed /\ form[c] = "transaction" =>
            answer[c] = "ok" \/ c \in doubtful
  /\ \A k \in free : open[k] = {} /\ pending[k] = {}
==============================================================================
