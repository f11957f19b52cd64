----------------------------- MODULE ServerProofs -----------------------------
(***************************************************************************)
(* A transaction is all or nothing and its caller is told which, for every *)
(* number of callers and connections.  The invariant says what a lease is  *)
(* worth: it is exclusive, its connection is out of the pool, and what the *)
(* connection holds is known from the phase of the job that leases it.     *)
(* Behind it, the migrators of the same database, and the life of the      *)
(* server around them: its invariant relates the position of the accept    *)
(* loop to the state of each application and of each worker's channel.     *)
(* Then the body of a streaming upload, whose invariant says what the      *)
(* relay holds in terms of the last byte that it queued; and the loop that *)
(* rebuilds and restarts an application while it is developed.             *)
(***************************************************************************)
EXTENDS Transactions, Migrations, ServerLifecycle, UploadChannel, DevLoop, Integers,
        Sequences, FiniteSetTheorems, WellFoundedInduction, TLAPS

Leasing == {"begin", "operate", "commit", "rollback", "rollback_panic"}

\* A job has a lease while it is in one of these phases, and to itself.
LeaseOK ==
  \A c \in Callers :
    /\ lease[c] # NoConnection <=> phase[c] \in Leasing
    /\ lease[c] \notin free
    /\ \A d \in Callers : lease[c] # NoConnection /\ lease[c] = lease[d] => c = d

\* What its connection holds in each of them.
HeldOK ==
  \A c \in Callers :
    /\ phase[c] \in Leasing \ {"operate"} => form[c] = "transaction"
    /\ phase[c] = "begin" => open[lease[c]] = {}
    /\ phase[c] = "operate" /\ form[c] = "run" => open[lease[c]] = {}
    /\ phase[c] \in {"begin", "operate"} => pending[lease[c]] = {}
    /\ phase[c] = "commit" => pending[lease[c]] = {c}

FreeOK == \A k \in free : open[k] = {} /\ pending[k] = {}

\* Nothing is durable before the job has ended, and then as it was answered.
AnswerOK ==
  \A c \in Callers :
    /\ phase[c] # "ended" => answer[c] = "none" /\ c \notin committed
    /\ answer[c] = "ok" => c \in committed
    /\ c \in committed /\ form[c] = "transaction" => answer[c] = "ok" \/ c \in doubtful

IInv == TypeOK /\ LeaseOK /\ HeldOK /\ FreeOK /\ AnswerOK

------------------------------------------------------------------------------
LEMMA InitIInv == Init => IInv
<1> SUFFICES ASSUME Init PROVE IInv
  OBVIOUS
<1> USE NoConnectionAssumption DEF Init
<1>1. TypeOK
  BY DEF TypeOK
<1>2. LeaseOK
  BY DEF LeaseOK, Leasing
<1>3. HeldOK
  BY DEF HeldOK, Leasing
<1>4. FreeOK
  BY DEF FreeOK
<1>5. AnswerOK
  BY DEF AnswerOK
<1>6. QED
  BY <1>1, <1>2, <1>3, <1>4, <1>5 DEF IInv

LEMMA NextIInv == IInv /\ [Next]_dbVars => IInv'
<1> SUFFICES ASSUME IInv, [Next]_dbVars PROVE IInv'
  OBVIOUS
<1> USE NoConnectionAssumption
<1>1. ASSUME NEW c \in Callers, Submit(c) PROVE IInv'
  <2> USE <1>1 DEF Submit, Finish, Move, database
  <2>1. TypeOK'
    BY DEF IInv, TypeOK
  <2>2. LeaseOK'
    BY DEF IInv, TypeOK, LeaseOK, Leasing
  <2>3. HeldOK'
    BY DEF IInv, TypeOK, LeaseOK, HeldOK, Leasing
  <2>4. FreeOK'
    BY DEF IInv, FreeOK
  <2>5. AnswerOK'
    BY DEF IInv, TypeOK, AnswerOK
  <2>6. QED
    BY <2>1, <2>2, <2>3, <2>4, <2>5 DEF IInv
<1>2. ASSUME NEW c \in Callers, Acquire(c) PROVE IInv'
  <2> USE <1>2 DEF Acquire, Finish, Move, database
  <2>1. TypeOK'
    BY DEF IInv, TypeOK, LeaseOK, Leasing
  <2>2. LeaseOK'
    BY DEF IInv, TypeOK, LeaseOK, HeldOK, Leasing
  <2>3. HeldOK'
    BY DEF IInv, TypeOK, LeaseOK, HeldOK, FreeOK, Leasing
  <2>4. FreeOK'
    BY DEF IInv, TypeOK, LeaseOK, HeldOK, FreeOK, Leasing
  <2>5. AnswerOK'
    BY DEF IInv, TypeOK, LeaseOK, HeldOK, AnswerOK, Leasing
  <2>6. QED
    BY <2>1, <2>2, <2>3, <2>4, <2>5 DEF IInv
<1>3. ASSUME NEW c \in Callers, AcquireFails(c) PROVE IInv'
  <2> USE <1>3 DEF AcquireFails, Finish, Move, database
  <2>1. TypeOK'
    BY DEF IInv, TypeOK, LeaseOK, Leasing
  <2>2. LeaseOK'
    BY DEF IInv, TypeOK, LeaseOK, HeldOK, Leasing
  <2>3. HeldOK'
    BY DEF IInv, TypeOK, LeaseOK, HeldOK, FreeOK, Leasing
  <2>4. FreeOK'
    BY DEF IInv, TypeOK, LeaseOK, HeldOK, FreeOK, Leasing
  <2>5. AnswerOK'
    BY DEF IInv, TypeOK, LeaseOK, HeldOK, AnswerOK, Leasing
  <2>6. QED
    BY <2>1, <2>2, <2>3, <2>4, <2>5 DEF IInv
<1>4. ASSUME NEW c \in Callers, Begin(c) PROVE IInv'
  <2> USE <1>4 DEF Begin, Finish, Move, database
  <2>1. TypeOK'
    BY DEF IInv, TypeOK, LeaseOK, Leasing
  <2>2. LeaseOK'
    BY DEF IInv, TypeOK, LeaseOK, HeldOK, Leasing
  <2>3. HeldOK'
    BY DEF IInv, TypeOK, LeaseOK, HeldOK, FreeOK, Leasing
  <2>4. FreeOK'
    BY DEF IInv, TypeOK, LeaseOK, HeldOK, FreeOK, Leasing
  <2>5. AnswerOK'
    BY DEF IInv, TypeOK, LeaseOK, HeldOK, AnswerOK, Leasing
  <2>6. QED
    BY <2>1, <2>2, <2>3, <2>4, <2>5 DEF IInv
<1>5. ASSUME NEW c \in Callers, BeginFails(c) PROVE IInv'
  <2> USE <1>5 DEF BeginFails, Finish, Move, database, Reuse
  <2>1. TypeOK'
    BY DEF IInv, TypeOK, LeaseOK, Leasing
  <2>2. LeaseOK'
    BY DEF IInv, TypeOK, LeaseOK, HeldOK, Leasing
  <2>3. HeldOK'
    BY DEF IInv, TypeOK, LeaseOK, HeldOK, FreeOK, Leasing
  <2>4. FreeOK'
    BY DEF IInv, TypeOK, LeaseOK, HeldOK, FreeOK, Leasing
  <2>5. AnswerOK'
    BY DEF IInv, TypeOK, LeaseOK, HeldOK, AnswerOK, Leasing
  <2>6. QED
    BY <2>1, <2>2, <2>3, <2>4, <2>5 DEF IInv
<1>6. ASSUME NEW c \in Callers, RunOperation(c) PROVE IInv'
  <2> USE <1>6 DEF RunOperation, Finish, Move, database, Reuse
  <2>1. TypeOK'
    BY DEF IInv, TypeOK, LeaseOK, Leasing
  <2>2. LeaseOK'
    BY DEF IInv, TypeOK, LeaseOK, HeldOK, Leasing
  <2>3. HeldOK'
    BY DEF IInv, TypeOK, LeaseOK, HeldOK, FreeOK, Leasing
  <2>4. FreeOK'
    BY DEF IInv, TypeOK, LeaseOK, HeldOK, FreeOK, Leasing
  <2>5. AnswerOK'
    BY DEF IInv, TypeOK, LeaseOK, HeldOK, AnswerOK, Leasing
  <2>6. QED
    BY <2>1, <2>2, <2>3, <2>4, <2>5 DEF IInv
<1>7. ASSUME NEW c \in Callers, Operate(c) PROVE IInv'
  <2> USE <1>7 DEF Operate, Finish, Move, database
  <2>1. TypeOK'
    BY DEF IInv, TypeOK, LeaseOK, Leasing
  <2>2. LeaseOK'
    BY DEF IInv, TypeOK, LeaseOK, HeldOK, Leasing
  <2>3. HeldOK'
    BY DEF IInv, TypeOK, LeaseOK, HeldOK, FreeOK, Leasing
  <2>4. FreeOK'
    BY DEF IInv, TypeOK, LeaseOK, HeldOK, FreeOK, Leasing
  <2>5. AnswerOK'
    BY DEF IInv, TypeOK, LeaseOK, HeldOK, AnswerOK, Leasing
  <2>6. QED
    BY <2>1, <2>2, <2>3, <2>4, <2>5 DEF IInv
<1>8. ASSUME NEW c \in Callers, Commit(c) PROVE IInv'
  <2> USE <1>8 DEF Commit, Finish, Move, database, Reuse
  <2>1. TypeOK'
    BY DEF IInv, TypeOK, LeaseOK, Leasing
  <2>2. LeaseOK'
    BY DEF IInv, TypeOK, LeaseOK, HeldOK, Leasing
  <2>3. HeldOK'
    BY DEF IInv, TypeOK, LeaseOK, HeldOK, FreeOK, Leasing
  <2>4. FreeOK'
    BY DEF IInv, TypeOK, LeaseOK, HeldOK, FreeOK, Leasing
  <2>5. AnswerOK'
    BY DEF IInv, TypeOK, LeaseOK, HeldOK, AnswerOK, Leasing
  <2>6. QED
    BY <2>1, <2>2, <2>3, <2>4, <2>5 DEF IInv
<1>9. ASSUME NEW c \in Callers, CommitFails(c) PROVE IInv'
  <2> USE <1>9 DEF CommitFails, Finish, Move, database
  <2>1. TypeOK'
    BY DEF IInv, TypeOK, LeaseOK, Leasing
  <2>2. LeaseOK'
    BY DEF IInv, TypeOK, LeaseOK, HeldOK, Leasing
  <2>3. HeldOK'
    BY DEF IInv, TypeOK, LeaseOK, HeldOK, FreeOK, Leasing
  <2>4. FreeOK'
    BY DEF IInv, TypeOK, LeaseOK, HeldOK, FreeOK, Leasing
  <2>5. AnswerOK'
    BY DEF IInv, TypeOK, LeaseOK, HeldOK, AnswerOK, Leasing
  <2>6. QED
    BY <2>1, <2>2, <2>3, <2>4, <2>5 DEF IInv
<1>10. ASSUME NEW c \in Callers, Rollback(c) PROVE IInv'
  <2> USE <1>10 DEF Rollback, Finish, Move, database, Reuse, RollbackError
  <2>1. TypeOK'
    BY DEF IInv, TypeOK, LeaseOK, Leasing
  <2>2. LeaseOK'
    BY DEF IInv, TypeOK, LeaseOK, HeldOK, Leasing
  <2>3. HeldOK'
    BY DEF IInv, TypeOK, LeaseOK, HeldOK, FreeOK, Leasing
  <2>4. FreeOK'
    BY DEF IInv, TypeOK, LeaseOK, HeldOK, FreeOK, Leasing
  <2>5. AnswerOK'
    BY DEF IInv, TypeOK, LeaseOK, HeldOK, AnswerOK, Leasing
  <2>6. QED
    BY <2>1, <2>2, <2>3, <2>4, <2>5 DEF IInv
<1>11. ASSUME NEW c \in Callers, RollbackFails(c) PROVE IInv'
  <2> USE <1>11 DEF RollbackFails, Finish, Move, database
  <2>1. TypeOK'
    BY DEF IInv, TypeOK, LeaseOK, Leasing
  <2>2. LeaseOK'
    BY DEF IInv, TypeOK, LeaseOK, HeldOK, Leasing
  <2>3. HeldOK'
    BY DEF IInv, TypeOK, LeaseOK, HeldOK, FreeOK, Leasing
  <2>4. FreeOK'
    BY DEF IInv, TypeOK, LeaseOK, HeldOK, FreeOK, Leasing
  <2>5. AnswerOK'
    BY DEF IInv, TypeOK, LeaseOK, HeldOK, AnswerOK, Leasing
  <2>6. QED
    BY <2>1, <2>2, <2>3, <2>4, <2>5 DEF IInv
<1>12. ASSUME NEW c \in Callers, GiveUp(c) PROVE IInv'
  BY <1>12 DEF GiveUp, database, IInv, TypeOK, LeaseOK, HeldOK, FreeOK, AnswerOK
<1>13. ASSUME UNCHANGED dbVars PROVE IInv'
  BY <1>13 DEF dbVars, job, database, IInv, TypeOK, LeaseOK, HeldOK, FreeOK, AnswerOK
<1>14. QED
  BY <1>1, <1>2, <1>3, <1>4, <1>5, <1>6, <1>7, <1>8, <1>9, <1>10, <1>11, <1>12,
     <1>13 DEF Next, Step

LEMMA AlwaysIInv == Spec => []IInv
<1> QED
  BY InitIInv, NextIInv, PTL DEF Spec

------------------------------------------------------------------------------
\* Every variable keeps its type.
THEOREM TypeCorrect == Spec => []TypeOK
<1>1. IInv => TypeOK
  BY DEF IInv
<1>2. QED
  BY <1>1, AlwaysIInv, PTL

\* The answer of run and transaction is the truth about the database, and a
\* connection is clean when it is used again.
THEOREM TransactionsAreAtomic == Spec => []AnswersMatchTheDatabase
<1>1. IInv => AnswersMatchTheDatabase
  BY DEF IInv, FreeOK, AnswerOK, AnswersMatchTheDatabase
<1>2. QED
  BY <1>1, AlwaysIInv, PTL

\* No two jobs use one connection at a time.
THEOREM LeasesAreExclusive == Spec => [](\A c, d \in Callers :
                    lease[c] # NoConnection /\ lease[c] = lease[d] => c = d)
<1>1. IInv => \A c, d \in Callers : lease[c] # NoConnection /\ lease[c] = lease[d] => c = d
  BY DEF IInv, LeaseOK
<1>2. QED
  BY <1>1, AlwaysIInv, PTL

------------------------------------------------------------------------------
(* Migrations: the invariant says that the ledger is a beginning of every    *)
(* release's set, or extends it, and what a process knows of it at each of   *)
(* its statements.                                                           *)

\* A set of numbers that is not empty has a least one.
Below == {pair \in Nat \X Nat : pair[1] < pair[2]}

LEMMA LeastNumber ==
  ASSUME NEW S \in SUBSET Nat, S # {}
  PROVE  \E n \in S : \A m \in S : n <= m
<1>1. IsWellFoundedOn(Below, Nat)
  <2>1. Below = OpToRel(<, Nat)
    BY DEF Below, OpToRel
  <2> QED BY <2>1, NatLessThanWellFounded
<1>2. PICK n \in S : \A m \in S : <<m, n>> \notin Below
  BY <1>1, WFMin
<1>3. \A m \in S : ~(m < n)
  BY <1>2 DEF Below
<1> QED
  BY <1>3

MigrationAssumptions ==
  /\ VersionsAssumption /\ NoVersionAssumption
  /\ SetsAssumption /\ HistoryAssumption

Defined(p) == {SetOf[p][i] : i \in 1 .. Len(SetOf[p])}
Recorded(p, v) == v \in DOMAIN ledger /\ ledger[v] = SumOf[p][v]
Ran == {scripts[i] : i \in 1 .. Len(scripts)}

\* The scripts that ran are the rows, in order, and the beginning of every
\* release's set, or the whole of it.
LedgerOK ==
  /\ scripts \in Seq(Versions)
  /\ \A i, j \in 1 .. Len(scripts) : i < j => scripts[i] < scripts[j]
  /\ DOMAIN ledger = Ran /\ IsFiniteSet(Ran) /\ Cardinality(Ran) = Len(scripts)
  /\ \A p \in Processes : \A i \in 1 .. Len(scripts) :
       i <= Len(SetOf[p]) => scripts[i] = SetOf[p][i]

ProcessesTyped ==
  /\ stepAt \in [Processes -> {"stopped", "read", "apply"}]
  /\ mode \in [Processes -> {"migrate", "verify"}]
  /\ seen \in [Processes -> Versions \cup {NoVersion}]
  /\ report \in [Processes -> [applied : Seq(Versions), current : Versions \cup {NoVersion}]]
  /\ outcome \in [Processes -> {"none", "disagrees", "verified", "pending", "failed", "migrated"}]
  /\ runs \in [Processes -> 0 .. MaxRuns]

\* What a process has still to apply is what is above its current version, and
\* the rest of its set is recorded with its checksums.
Applying(p) ==
  /\ report[p].current \in Defined(p) \cup {NoVersion}
  /\ ToApply(p) = Pending(p, report[p].current)
  /\ \A v \in Defined(p) \ ToApply(p) : Recorded(p, v)

Succeeded(p) ==
  /\ \A v \in Defined(p) : Recorded(p, v)
  /\ outcome[p] = "migrated" /\ report[p].current # NoVersion =>
       report[p].current = SetOf[p][Len(SetOf[p])]

ProcessOK(p) ==
  /\ stepAt[p] # "stopped" => outcome[p] = "none"
  /\ stepAt[p] = "read" => report[p].applied = <<>>
  /\ stepAt[p] = "apply" => Applying(p)
  /\ outcome[p] \in {"migrated", "verified"} => Succeeded(p)

MigrationInv == LedgerOK /\ ProcessesTyped /\ \A p \in Processes : ProcessOK(p)

\* The ascending enumeration of the ledger that `applied` returns exists.
LEMMA AppliedIs ==
  ASSUME LedgerOK, VersionsAssumption
  PROVE  /\ Applied \in [1 .. Len(scripts) -> Ran]
         /\ \A i, j \in 1 .. Len(scripts) : i < j => Applied[i] < Applied[j]
<1>1. /\ Cardinality(DOMAIN ledger) = Len(scripts) /\ DOMAIN ledger = Ran
      /\ scripts \in [1 .. Len(scripts) -> Ran] /\ Len(scripts) \in Nat
  <2>1. scripts \in Seq(Versions) /\ DOMAIN ledger = Ran /\ Cardinality(Ran) = Len(scripts)
    BY DEF LedgerOK
  <2>2. scripts = [i \in 1 .. Len(scripts) |-> scripts[i]] /\ Len(scripts) \in Nat
    BY <2>1
  <2>3. \A i \in 1 .. Len(scripts) : scripts[i] \in Ran
    BY DEF Ran
  <2> QED BY <2>1, <2>2, <2>3
<1>2. \A i, j \in DOMAIN scripts : i < j => scripts[i] < scripts[j]
  BY <1>1 DEF LedgerOK
<1>3. \E s \in [1 .. Cardinality(DOMAIN ledger) -> DOMAIN ledger] :
        \A i, j \in DOMAIN s : i < j => s[i] < s[j]
  BY <1>1, <1>2
<1> QED
  BY <1>1, <1>3 DEF Applied

LEMMA RanVersions ==
  ASSUME LedgerOK PROVE Ran \subseteq Versions
<1>1. \A i \in 1 .. Len(scripts) : scripts[i] \in Versions
  BY DEF LedgerOK
<1> QED
  BY <1>1 DEF Ran

LEMMA InitMigration ==
  ASSUME MigrationAssumptions, MigrationsInit PROVE MigrationInv
<1>1. scripts = <<>> /\ Len(scripts) = 0 /\ Ran = {} /\ DOMAIN ledger = {}
  BY DEF MigrationsInit, Ran
<1>2. LedgerOK
  BY <1>1, FS_EmptySet DEF LedgerOK
<1>3. ProcessesTyped
  BY DEF MigrationsInit, ProcessesTyped, EmptyReport, MigrationAssumptions,
     VersionsAssumption
<1>4. \A p \in Processes : ProcessOK(p)
  BY DEF MigrationsInit, ProcessOK
<1> QED
  BY <1>2, <1>3, <1>4 DEF MigrationInv

LEMMA DefinedIs ==
  ASSUME SetsAssumption, VersionsAssumption, NEW p \in Processes
  PROVE  /\ ToSet(SetOf[p]) = Defined(p) /\ Defined(p) \subseteq Versions
         /\ Versions \subseteq Nat /\ SetOf[p] \in Seq(Versions)
         /\ \A i, j \in 1 .. Len(SetOf[p]) : i < j => SetOf[p][i] < SetOf[p][j]
<1>1. SetOf[p] \in Seq(Versions)
  BY DEF SetsAssumption
<1>2. DOMAIN SetOf[p] = 1 .. Len(SetOf[p]) /\ \A i \in 1 .. Len(SetOf[p]) : SetOf[p][i] \in Versions
  BY <1>1
<1> QED
  BY <1>1, <1>2 DEF SetsAssumption, VersionsAssumption, ToSet, Defined

\* Rows are only added, so that what was recorded stays recorded.
Grows == \A v \in DOMAIN ledger : v \in DOMAIN ledger' /\ ledger'[v] = ledger[v]

LEMMA OthersStayOK ==
  ASSUME MigrationInv, Grows, NEW p \in Processes,
         stepAt'[p] = stepAt[p], outcome'[p] = outcome[p], report'[p] = report[p], seen'[p] = seen[p]
  PROVE  ProcessOK(p)'
<1>1. \A v : Recorded(p, v) => Recorded(p, v)'
  BY DEF Grows, Recorded
<1>2. ToApply(p)' = ToApply(p)
      /\ Pending(p, report[p].current)' = Pending(p, report[p].current)
  BY DEF ToApply, Pending
<1>3. ProcessOK(p)
  BY DEF MigrationInv
<1>4. Applying(p) => Applying(p)'
  BY <1>1, <1>2 DEF Applying, Defined
<1>5. Succeeded(p) => Succeeded(p)'
  BY <1>1 DEF Succeeded, Defined
<1> QED
  BY <1>3, <1>4, <1>5 DEF ProcessOK

LEMMA ReadLedgerOK ==
  ASSUME MigrationAssumptions, MigrationInv, NEW p \in Processes, ReadLedger(p)
  PROVE  ProcessOK(p)'
<1> USE DEF MigrationAssumptions
<1> DEFINE applied == Applied
          last == IF applied = <<>> THEN NoVersion ELSE applied[Len(applied)]
          n == Len(scripts)
<1>0. /\ n \in Nat /\ applied \in [1 .. n -> Ran] /\ DOMAIN ledger = Ran
      /\ ledger' = ledger /\ stepAt[p] = "read" /\ outcome[p] = "none"
      /\ report[p].applied = <<>>
  BY AppliedIs DEF MigrationInv, LedgerOK, ReadLedger, ProcessOK
<1>1. applied \in Seq(Ran) /\ Len(applied) = n /\ (applied = <<>> <=> n = 0)
  BY <1>0
<1>t. /\ stepAt \in [Processes -> {"stopped", "read", "apply"}]
      /\ outcome \in [Processes -> {"none", "disagrees", "verified", "pending", "failed", "migrated"}]
      /\ seen \in [Processes -> Versions \cup {NoVersion}]
      /\ report \in [Processes -> [applied : Seq(Versions), current : Versions \cup {NoVersion}]]
  BY DEF MigrationInv, ProcessesTyped
<1>2. CASE ~Verify(p)
  BY <1>2, <1>t DEF ReadLedger, ProcessOK
<1>3. CASE Verify(p)
  <2>1. \A i \in 1 .. n : /\ i <= Len(SetOf[p]) /\ SetOf[p][i] = applied[i]
                          /\ Recorded(p, SetOf[p][i])
    BY <1>0, <1>1, <1>3 DEF Verify, Recorded
  <2>2. last = IF n = 0 THEN NoVersion ELSE SetOf[p][n]
    BY <1>0, <1>1, <2>1
  <2>3. n <= Len(SetOf[p]) /\ Len(SetOf[p]) \in Nat
    BY <1>0, <2>1, DefinedIs
  <2>4. last \in Defined(p) \cup {NoVersion}
    BY <1>0, <2>2, <2>3 DEF Defined
  <2>5. \A v \in Defined(p) \ Pending(p, last) : Recorded(p, v)
    <3> SUFFICES ASSUME NEW i \in 1 .. Len(SetOf[p]), SetOf[p][i] \notin Pending(p, last)
                 PROVE  Recorded(p, SetOf[p][i])
      BY DEF Defined
    <3>1. SetOf[p][i] \in Defined(p)
      BY DEF Defined
    <3>2. last # NoVersion /\ ~(SetOf[p][i] > last)
      BY <3>1, DefinedIs DEF Pending
    <3>3. n # 0 /\ ~(SetOf[p][i] > SetOf[p][n])
      BY <2>2, <3>2
    <3>4. i <= n
      BY <1>0, <2>3, <3>3, DefinedIs
    <3> QED BY <2>1, <3>4
  <2>6. CASE mode[p] = "migrate"
    <3>1. /\ stepAt'[p] = "apply" /\ outcome'[p] = "none" /\ seen'[p] = last
          /\ report'[p].current = last /\ report'[p].applied = report[p].applied
      BY <1>0, <1>3, <1>t, <2>6 DEF ReadLedger
    <3>2. ToApply(p)' = Pending(p, last)
      BY <1>0, <3>1 DEF ToApply, Pending, ToSet
    <3>3. Pending(p, report[p].current)' = Pending(p, last)
      BY <3>1 DEF Pending
    <3>4. \A v \in Defined(p)' \ ToApply(p)' : Recorded(p, v)'
      BY <1>0, <2>5, <3>2 DEF Recorded, Defined
    <3>5. Applying(p)'
      BY <2>4, <3>1, <3>2, <3>3, <3>4 DEF Applying, Defined
    <3> QED BY <3>1, <3>5 DEF ProcessOK
  <2>7. CASE mode[p] = "verify"
    <3>1. /\ stepAt'[p] = "stopped"
          /\ outcome'[p] = IF Pending(p, last) = {} THEN "verified" ELSE "pending"
      BY <1>0, <1>3, <1>t, <2>7 DEF ReadLedger
    <3> QED BY <1>0, <2>5, <3>1 DEF ProcessOK, Succeeded, Recorded, Defined
  <2> QED BY <2>6, <2>7 DEF MigrationInv, ProcessesTyped
<1> QED
  BY <1>2, <1>3

\* The version a process applies next is the one after the rows, and what is
\* below it in the process's set is recorded.
LEMMA NextVersion ==
  ASSUME MigrationAssumptions, MigrationInv, NEW p \in Processes, Applying(p),
         ToApply(p) # {}, NEW v, v = Lowest(ToApply(p)),
         v \notin DOMAIN ledger
  PROVE  /\ v \in Versions /\ Len(scripts) + 1 <= Len(SetOf[p])
         /\ SetOf[p][Len(scripts) + 1] = v
<1> USE DEF MigrationAssumptions
<1>d. /\ ToSet(SetOf[p]) = Defined(p) /\ Defined(p) \subseteq Versions
      /\ Versions \subseteq Nat /\ SetOf[p] \in Seq(Versions)
      /\ \A i, j \in 1 .. Len(SetOf[p]) : i < j => SetOf[p][i] < SetOf[p][j]
  BY DefinedIs
<1>0. /\ scripts \in Seq(Versions) /\ DOMAIN ledger = Ran
      /\ \A i \in 1 .. Len(scripts) : i <= Len(SetOf[p]) => scripts[i] = SetOf[p][i]
      /\ Len(scripts) \in Nat /\ Len(SetOf[p]) \in Nat
  BY <1>d DEF MigrationInv, LedgerOK
<1>1. ToApply(p) \in SUBSET Defined(p) /\ ToApply(p) \in SUBSET Nat
  BY <1>d DEF ToApply, Pending
<1>2. v \in ToApply(p) /\ \A w \in ToApply(p) : v <= w
  BY <1>1, LeastNumber DEF Lowest
<1>3. PICK k \in 1 .. Len(SetOf[p]) : v = SetOf[p][k]
  BY <1>1, <1>2 DEF Defined
<1>4. k > Len(scripts)
  <2> SUFFICES ASSUME k <= Len(scripts) PROVE FALSE
    BY <1>0, <1>3
  <2>1. k \in 1 .. Len(scripts) /\ scripts[k] = v
    BY <1>0, <1>3
  <2> QED BY <1>0, <2>1 DEF Ran
<1>5. ASSUME k > Len(scripts) + 1 PROVE FALSE
  <2> DEFINE m == Len(scripts) + 1
             w == SetOf[p][m]
  <2>1. m \in 1 .. Len(SetOf[p]) /\ w \in Defined(p) /\ w < v
    BY <1>0, <1>3, <1>5, <1>d DEF Defined
  <2>2. w \notin ToApply(p)
    BY <1>1, <1>2, <2>1
  <2>3. w \in Ran
    BY <1>0, <2>1, <2>2 DEF Applying, Recorded
  <2>4. PICK j \in 1 .. Len(scripts) : w = scripts[j]
    BY <2>3 DEF Ran
  <2>5. j \in 1 .. Len(SetOf[p]) /\ w = SetOf[p][j] /\ j < m
    BY <1>0, <2>1, <2>4
  <2>6. SetOf[p][j] < SetOf[p][m]
    BY <1>d, <2>1, <2>5
  <2>7. SetOf[p][m] \in Nat /\ SetOf[p][j] = SetOf[p][m]
    BY <1>d, <2>1, <2>5
  <2> QED BY <2>6, <2>7
<1> QED
  BY <1>0, <1>1, <1>2, <1>3, <1>4, <1>5, <1>d

LEMMA ApplyOK ==
  ASSUME MigrationAssumptions, MigrationInv, NEW p \in Processes, Apply(p),
         Lowest(ToApply(p)) \notin DOMAIN ledger
  PROVE  LedgerOK' /\ Grows /\ ProcessOK(p)'
<1> USE DEF MigrationAssumptions
<1> DEFINE v == Lowest(ToApply(p))
          n == Len(scripts)
<1>a. /\ ToApply(p) # {} /\ stepAt[p] = "apply" /\ Applying(p)
      /\ ledger' = [w \in DOMAIN ledger \cup {v} |->
                      IF w = v THEN SumOf[p][v] ELSE ledger[w]]
      /\ scripts' = Append(scripts, v)
      /\ report' = [report EXCEPT ![p] = [applied |-> Append(@.applied, v), current |-> v]]
      /\ UNCHANGED <<stepAt, outcome, seen, mode>>
  BY DEF Apply, MigrationInv, ProcessOK
<1>b. v \in Versions /\ n + 1 <= Len(SetOf[p]) /\ SetOf[p][n + 1] = v
  BY <1>a, NextVersion
<1>d. \A q \in Processes :
        /\ ToSet(SetOf[q]) = Defined(q) /\ Defined(q) \subseteq Versions
        /\ Versions \subseteq Nat /\ SetOf[q] \in Seq(Versions)
        /\ \A i, j \in 1 .. Len(SetOf[q]) : i < j => SetOf[q][i] < SetOf[q][j]
  BY DefinedIs
<1>l. /\ scripts \in Seq(Versions) /\ n \in Nat
      /\ \A i, j \in 1 .. n : i < j => scripts[i] < scripts[j]
      /\ DOMAIN ledger = Ran /\ IsFiniteSet(Ran) /\ Cardinality(Ran) = n
      /\ \A q \in Processes : \A i \in 1 .. n :
           i <= Len(SetOf[q]) => scripts[i] = SetOf[q][i]
  BY DEF MigrationInv, LedgerOK
<1>m. v \notin DOMAIN ledger
  OBVIOUS
<1> HIDE DEF v
<1>1. Grows /\ DOMAIN ledger' = DOMAIN ledger \cup {v} /\ ledger'[v] = SumOf[p][v]
  BY <1>a, <1>m DEF Grows
<1>2. /\ scripts' \in Seq(Versions) /\ Len(scripts') = n + 1 /\ scripts'[n + 1] = v
      /\ \A i \in 1 .. n : scripts'[i] = scripts[i]
  BY <1>a, <1>b, <1>l
<1>3. Ran' = Ran \cup {v}
  <2>1. 1 .. n + 1 = 1 .. n \cup {n + 1}
    BY <1>l
  <2>2. Ran' = {scripts'[i] : i \in 1 .. n + 1}
    BY <1>2 DEF Ran
  <2>3. Ran' = {scripts'[i] : i \in 1 .. n} \cup {scripts'[n + 1]}
    BY <2>1, <2>2
  <2>4. {scripts'[i] : i \in 1 .. n} = {scripts[i] : i \in 1 .. n}
    BY <1>2
  <2> QED BY <1>2, <2>3, <2>4 DEF Ran
<1>4. DOMAIN ledger' = Ran' /\ IsFiniteSet(Ran') /\ Cardinality(Ran') = n + 1
  BY <1>1, <1>3, <1>l, <1>m, FS_AddElement
<1>5. \A i \in 1 .. n : scripts[i] < v
  <2> SUFFICES ASSUME NEW i \in 1 .. n PROVE scripts[i] < v
    OBVIOUS
  <2>1. i \in 1 .. Len(SetOf[p]) /\ n + 1 \in 1 .. Len(SetOf[p]) /\ i < n + 1
    BY <1>b, <1>d, <1>l
  <2>2. scripts[i] = SetOf[p][i]
    BY <1>l, <2>1
  <2> QED BY <1>b, <1>d, <2>1, <2>2
<1>6. \A i, j \in 1 .. Len(scripts') : i < j => scripts'[i] < scripts'[j]
  <2> SUFFICES ASSUME NEW i \in 1 .. n + 1, NEW j \in 1 .. n + 1, i < j
               PROVE  scripts'[i] < scripts'[j]
    BY <1>2
  <2>1. i \in 1 .. n
    BY <1>l
  <2>2. CASE j = n + 1
    BY <1>2, <1>5, <2>1, <2>2
  <2>3. CASE j \in 1 .. n
    BY <1>2, <1>l, <2>1, <2>3
  <2> QED BY <1>l, <2>2, <2>3
<1>7. \A q \in Processes : \A i \in 1 .. Len(scripts') :
        i <= Len(SetOf[q]) => scripts'[i] = SetOf[q][i]
  <2> SUFFICES ASSUME NEW q \in Processes, NEW i \in 1 .. n + 1, i <= Len(SetOf[q])
               PROVE  scripts'[i] = SetOf[q][i]
    BY <1>2
  <2>1. CASE i \in 1 .. n
    BY <1>2, <1>l, <2>1
  <2>2. CASE i = n + 1
    <3>1. n + 1 \in 1 .. Len(SetOf[p])
      BY <1>b, <1>d, <1>l
    <3>2. SetOf[p][n + 1] = SetOf[q][n + 1]
      BY <2>2, <3>1 DEF HistoryAssumption
    <3> QED BY <1>2, <1>b, <2>2, <3>2
  <2> QED BY <1>l, <2>1, <2>2
<1>8. LedgerOK'
  BY <1>2, <1>4, <1>6, <1>7 DEF LedgerOK
<1>9. ProcessOK(p)'
  <2> DEFINE r == report[p]
  <2>0. r.applied \in Seq(Versions) /\ report \in [Processes -> [applied : Seq(Versions), current : Versions \cup {NoVersion}]]
    BY DEF MigrationInv, ProcessesTyped
  <2>1. report'[p].current = v /\ report'[p].applied = Append(r.applied, v)
    BY <1>a, <2>0
  <2>2. ToSet(Append(r.applied, v)) = ToSet(r.applied) \cup {v}
    <3>1. DOMAIN Append(r.applied, v) = DOMAIN r.applied \cup {Len(r.applied) + 1}
      BY <1>b, <2>0
    <3>2. /\ Append(r.applied, v)[Len(r.applied) + 1] = v
          /\ \A i \in DOMAIN r.applied : Append(r.applied, v)[i] = r.applied[i]
      BY <1>b, <2>0
    <3> QED BY <3>1, <3>2 DEF ToSet
  <2>3. ToApply(p)' = ToApply(p) \ {v}
    <3>1. ToApply(p)'
            = Pending(p, seen[p]) \ ToSet(report'[p].applied)
      BY <1>a DEF ToApply, Pending, ToSet
    <3>2. ToApply(p) = Pending(p, seen[p]) \ ToSet(r.applied)
      BY DEF ToApply
    <3> QED BY <2>1, <2>2, <3>1, <3>2
  <2>4. ToApply(p) \in SUBSET Nat /\ ToApply(p) \subseteq Defined(p)
    BY <1>d DEF ToApply, Pending
  <2>5. v \in ToApply(p) /\ \A w \in ToApply(p) : v <= w
    BY <1>a, <2>4, LeastNumber DEF Lowest, v
  <2>6. ToApply(p) = Pending(p, r.current)
    BY <1>a DEF Applying
  <2>7. ToApply(p) \ {v} = Pending(p, v)
    <3>1. ASSUME NEW w \in Pending(p, v) PROVE w \in ToApply(p) \ {v}
      <4>1. w \in Defined(p) /\ w > v /\ v \in Nat /\ w \in Nat /\ v # NoVersion
        BY <1>b, <1>d, <3>1 DEF Pending, NoVersionAssumption
      <4>2. r.current = NoVersion \/ v > r.current
        BY <2>5, <2>6 DEF Pending
      <4>3. r.current \in Versions \cup {NoVersion}
        BY <2>0
      <4>4. r.current = NoVersion \/ w > r.current
        BY <1>d, <4>1, <4>2, <4>3
      <4> QED BY <1>d, <2>6, <4>1, <4>4 DEF Pending
    <3>2. ASSUME NEW w \in ToApply(p) \ {v} PROVE w \in Pending(p, v)
      <4>1. w > v /\ w \in Defined(p)
        BY <1>b, <1>d, <2>4, <2>5, <3>2
      <4> QED BY <1>d, <4>1 DEF Pending
    <3> QED BY <3>1, <3>2
  <2>8. Pending(p, report[p].current)' = Pending(p, v)
    BY <2>1 DEF Pending
  <2>9. \A w \in Defined(p)' \ ToApply(p)' : Recorded(p, w)'
    BY <1>1, <1>a, <2>3 DEF Applying, Recorded, Grows, Defined
  <2>10. Applying(p)'
    BY <2>1, <2>3, <2>4, <2>5, <2>7, <2>8, <2>9 DEF Applying, Defined
  <2> QED
    BY <1>a, <2>10 DEF ProcessOK, MigrationInv
<1> QED
  BY <1>1, <1>8, <1>9

LEMMA ReportOK ==
  ASSUME MigrationAssumptions, MigrationInv, NEW p \in Processes, Report(p)
  PROVE  ProcessOK(p)'
<1> USE DEF MigrationAssumptions
<1>1. /\ stepAt[p] = "apply" /\ ToApply(p) = {} /\ Applying(p)
      /\ stepAt'[p] = "stopped" /\ outcome'[p] = "migrated" /\ UNCHANGED <<ledger, report>>
  BY DEF Report, MigrationInv, ProcessOK, ProcessesTyped
<1>2. \A v \in Defined(p) : Recorded(p, v)
  BY <1>1 DEF Applying
<1>3. ASSUME report[p].current # NoVersion
      PROVE  report[p].current = SetOf[p][Len(SetOf[p])]
  <2>1. PICK k \in 1 .. Len(SetOf[p]) : report[p].current = SetOf[p][k]
    BY <1>1, <1>3 DEF Applying, Defined
  <2>2. Len(SetOf[p]) \in Nat /\ Len(SetOf[p]) \in 1 .. Len(SetOf[p])
    BY <2>1, DefinedIs
  <2>3. SetOf[p][Len(SetOf[p])] \in Defined(p)
    BY <2>2 DEF Defined
  <2>4. ~(SetOf[p][Len(SetOf[p])] > SetOf[p][k])
    BY <1>1, <2>1, <2>3, DefinedIs DEF Applying, Pending
  <2>5. k = Len(SetOf[p])
    <3>1. k < Len(SetOf[p]) => SetOf[p][k] < SetOf[p][Len(SetOf[p])]
      BY <2>2, DefinedIs
    <3> QED BY <2>2, <2>4, <3>1
  <2> QED BY <2>1, <2>5
<1> QED
  BY <1>1, <1>2, <1>3 DEF ProcessOK, Succeeded, Recorded, Defined

LEMMA MigrationStepTyped ==
  ASSUME MigrationAssumptions, MigrationInv, NEW p \in Processes,
         \/ Start(p) \/ ReadLedger(p) \/ Apply(p)
         \/ Report(p) \/ Halt(p)
  PROVE  /\ ProcessesTyped'
         /\ \A q \in Processes \ {p} :
              /\ stepAt'[q] = stepAt[q] /\ outcome'[q] = outcome[q]
              /\ report'[q] = report[q] /\ seen'[q] = seen[q]
<1> USE DEF MigrationAssumptions, ProcessesTyped
<1>t. ProcessesTyped /\ MaxRuns \in Nat
  BY DEF MigrationInv, VersionsAssumption
<1>1. CASE Start(p)
  <2>1. EmptyReport \in [applied : Seq(Versions), current : Versions \cup {NoVersion}]
    BY DEF EmptyReport
  <2>2. report' \in [Processes -> [applied : Seq(Versions), current : Versions \cup {NoVersion}]]
    BY <1>1, <1>t, <2>1 DEF Start
  <2> QED BY <1>1, <1>t, <2>2 DEF Start
<1>2. CASE ReadLedger(p)
  <2> DEFINE applied == Applied
             last == IF applied = <<>> THEN NoVersion ELSE applied[Len(applied)]
  <2>1. last \in Versions \cup {NoVersion}
    <3>a. LedgerOK
      BY DEF MigrationInv
    <3>b. applied \in [1 .. Len(scripts) -> Ran]
      BY AppliedIs, <3>a
    <3>c. Len(scripts) \in Nat
      BY <3>a DEF LedgerOK
    <3>d. Ran \subseteq Versions
      BY RanVersions, <3>a
    <3>1. applied \in [1 .. Len(scripts) -> Ran] /\ Len(scripts) \in Nat /\ Ran \subseteq Versions
      BY <3>b, <3>c, <3>d
    <3> HIDE DEF applied
    <3>2. applied \in Seq(Ran)
      BY <3>1
    <3>3. Len(applied) = Len(scripts)
      BY <3>1
    <3>4. applied = <<>> <=> Len(applied) = 0
      BY <3>2
    <3>5. applied # <<>> => applied[Len(applied)] \in Ran
      BY <3>1, <3>3, <3>4
    <3> QED BY <3>1, <3>5
  <2>2. /\ \E x \in {"stopped", "apply"} : stepAt' = [stepAt EXCEPT ![p] = x]
        /\ \E x \in {"none", "disagrees", "verified", "pending"} :
             outcome' = [outcome EXCEPT ![p] = x] \/ outcome' = outcome
        /\ \/ UNCHANGED <<seen, report>>
           \/ seen' = [seen EXCEPT ![p] = last] /\ report' = [report EXCEPT ![p].current = last]
        /\ UNCHANGED <<mode, runs>>
    BY <1>2 DEF ReadLedger
  <2> HIDE DEF last
  <2>3. stepAt' \in [Processes -> {"stopped", "read", "apply"}]
    BY <1>t, <2>2
  <2>4. outcome' \in [Processes -> {"none", "disagrees", "verified", "pending", "failed", "migrated"}]
    BY <1>t, <2>2
  <2>5. seen' \in [Processes -> Versions \cup {NoVersion}]
    BY <1>t, <2>1, <2>2
  <2>6. report' \in [Processes -> [applied : Seq(Versions), current : Versions \cup {NoVersion}]]
    <3>1. [report[p] EXCEPT !.current = last]
            \in [applied : Seq(Versions), current : Versions \cup {NoVersion}]
      BY <1>t, <2>1
    <3>2. CASE report' = [report EXCEPT ![p].current = last]
      BY <1>t, <3>1, <3>2
    <3> QED BY <1>t, <2>2, <3>2
  <2> QED BY <1>t, <2>2, <2>3, <2>4, <2>5, <2>6
<1>3. CASE Apply(p)
  <2>1. CASE UNCHANGED report
    BY <1>3, <1>t, <2>1 DEF Apply
  <2>2. CASE Lowest(ToApply(p)) \notin DOMAIN ledger
    <3> DEFINE v == Lowest(ToApply(p))
    <3>1. v \in Versions
      <4>1. Applying(p) /\ ToApply(p) # {}
        BY <1>3 DEF Apply, MigrationInv, ProcessOK
      <4> QED BY <2>2, <4>1, NextVersion
    <3>2. /\ report' = [report EXCEPT ![p] = [applied |-> Append(@.applied, v), current |-> v]]
          /\ UNCHANGED <<stepAt, outcome, seen, mode, runs>>
      BY <1>3, <2>2 DEF Apply
    <3> HIDE DEF v
    <3>3. [applied |-> Append(report[p].applied, v), current |-> v]
            \in [applied : Seq(Versions), current : Versions \cup {NoVersion}]
      <4>1. report[p].applied \in Seq(Versions)
        BY <1>t
      <4> QED BY <3>1, <4>1
    <3> QED BY <1>t, <3>2, <3>3
  <2> QED BY <1>3, <2>1, <2>2 DEF Apply
<1>4. CASE Report(p)
  BY <1>4, <1>t DEF Report
<1>5. CASE Halt(p)
  BY <1>5, <1>t DEF Halt
<1> QED
  BY <1>1, <1>2, <1>3, <1>4, <1>5

LEMMA NextMigration ==
  ASSUME MigrationAssumptions, MigrationInv, [MigrationsNext]_(migrationVars)
  PROVE  MigrationInv'
<1>0. CASE UNCHANGED migrationVars
  <2>0. UNCHANGED <<ledger, scripts, stepAt, mode, seen, report, outcome, runs>>
    BY <1>0 DEF migrationVars, process
  <2>1. LedgerOK' /\ ProcessesTyped' /\ Grows
    <3>1. LedgerOK'
      BY <2>0 DEF MigrationInv, LedgerOK, Ran
    <3>2. ProcessesTyped'
      BY <2>0 DEF MigrationInv, ProcessesTyped
    <3> QED BY SMTT(30), <2>0, <3>1, <3>2 DEF Grows
  <2>2. \A p \in Processes : ProcessOK(p)'
    BY <1>0, <2>1, OthersStayOK DEF migrationVars, process
  <2> QED BY <2>1, <2>2 DEF MigrationInv
<1> SUFFICES ASSUME NEW p \in Processes,
         \/ Start(p) \/ ReadLedger(p) \/ Apply(p)
         \/ Report(p) \/ Halt(p)
       PROVE MigrationInv'
  BY <1>0 DEF MigrationsNext
<1>t. ProcessesTyped' /\ ProcessesTyped
  BY SMTT(30), MigrationStepTyped DEF MigrationInv
<1>l. UNCHANGED <<ledger, scripts>> => LedgerOK' /\ Grows
  BY DEF MigrationInv, LedgerOK, Ran, Grows
<1>p. ASSUME ProcessOK(p)', LedgerOK', Grows PROVE MigrationInv'
  <2>1. \A q \in Processes \ {p} : ProcessOK(q)'
    BY <1>p, OthersStayOK, MigrationStepTyped
  <2> QED BY <1>p, <1>t, <2>1 DEF MigrationInv
<1>1. CASE Start(p)
  <2>1. stepAt'[p] = "read" /\ outcome'[p] = "none" /\ report'[p].applied = <<>>
        /\ UNCHANGED <<ledger, scripts>>
    BY <1>1, <1>t DEF Start, ProcessesTyped, EmptyReport
  <2> QED BY <1>l, <1>p, <2>1 DEF ProcessOK
<1>2. CASE ReadLedger(p)
  BY <1>2, <1>l, <1>p, ReadLedgerOK DEF ReadLedger
<1>3. CASE Apply(p)
  <2>1. CASE Lowest(ToApply(p)) \in DOMAIN ledger
    <3>1. stepAt'[p] = "stopped" /\ outcome'[p] = "failed" /\ UNCHANGED <<ledger, scripts>>
      BY <1>3, <1>t, <2>1 DEF Apply, ProcessesTyped
    <3> QED BY <1>l, <1>p, <3>1 DEF ProcessOK
  <2>2. CASE Lowest(ToApply(p)) \notin DOMAIN ledger
    BY <1>3, <1>p, <2>2, ApplyOK
  <2> QED BY <2>1, <2>2
<1>4. CASE Report(p)
  BY <1>4, <1>l, <1>p, ReportOK DEF Report
<1>5. CASE Halt(p)
  <2>1. stepAt'[p] = "stopped" /\ outcome'[p] = "failed" /\ UNCHANGED <<ledger, scripts>>
    BY <1>5, <1>t DEF Halt, ProcessesTyped
  <2> QED BY <1>l, <1>p, <2>1 DEF ProcessOK
<1> QED
  BY <1>1, <1>2, <1>3, <1>4, <1>5

LEMMA MigrationInvAgrees ==
  ASSUME MigrationAssumptions, MigrationInv
  PROVE  MigrationsAgree /\ MigrationsTypeOK
<1>1. scripts \in Seq(Versions) /\ DOMAIN scripts = 1 .. Len(scripts)
  BY DEF MigrationInv, LedgerOK
<1>2. ToSet(scripts) = Ran
  BY <1>1 DEF ToSet, Ran
<1>3. \A p \in Processes : outcome[p] \in {"migrated", "verified"} =>
        /\ \A i \in 1 .. Len(SetOf[p]) :
             SetOf[p][i] \in DOMAIN ledger /\ ledger[SetOf[p][i]] = SumOf[p][SetOf[p][i]]
        /\ outcome[p] = "migrated" /\ report[p].current # NoVersion =>
             report[p].current = SetOf[p][Len(SetOf[p])]
  BY DEF MigrationInv, ProcessOK, Succeeded, Recorded, Defined
<1>4. MigrationsAgree
  BY <1>2, <1>3 DEF MigrationInv, LedgerOK, MigrationsAgree
<1>5. DOMAIN ledger \subseteq Versions
  BY RanVersions DEF MigrationInv, LedgerOK
<1>6. MigrationsTypeOK
  BY <1>5 DEF MigrationInv, ProcessesTyped, MigrationsTypeOK
<1> QED
  BY <1>4, <1>6

\* For any processes, releases whose sets extend one another and stops between
\* two statements: the type invariant, and the scripts that ran are the rows of
\* the ledger, once each and in ascending order, and a migrator that reports
\* success has every migration of its set recorded with its own checksum.
THEOREM MigratorsAgree ==
  ASSUME MigrationAssumptions
  PROVE  MigrationsSpec => [](MigrationsTypeOK /\ MigrationsAgree)
<1>1. MigrationsInit => MigrationInv
  BY InitMigration
<1>2. MigrationInv /\ [MigrationsNext]_(migrationVars) => MigrationInv'
  BY NextMigration
<1>3. MigrationInv => MigrationsTypeOK /\ MigrationsAgree
  BY MigrationInvAgrees
<1> QED
  BY <1>1, <1>2, <1>3, PTL DEF MigrationsSpec
------------------------------------------------------------------------------
(* The server's life. *)

\* The accept loop is past the startup and before the end, or past its drain.
Accepting == {"poll", "store", "reload", "asleep", "loop", "accept", "limit",
              "dispatch", "drain"}
Ending == {"stop", "await", "join", "returned"}
Opened == {"started", "stopping", "stopped"}

\* The workers of the server that runs.
Used == IF kind = "local" THEN {1} ELSE Workers

\* Drained for good: nothing that the counters stand for is left, or the
\* deadline has passed.
Drained == expired \/ active = 0

\* The hooks an application has run, from its state.
HooksRun ==
  \A w \in Workers :
    /\ app[w] = "none" => up[w] = 0
    /\ app[w] = "starting" => up[w] < Hooks
    /\ app[w] \in Opened => up[w] = Hooks
    /\ app[w] \notin {"stopping", "stopped"} => down[w] = 0
    /\ app[w] = "stopping" => down[w] < Hooks
    /\ app[w] = "stopped" => down[w] = Hooks

\* The two futures of the lifecycle in the channels: the startup is the first
\* thing a worker is sent, the stop the last.
ChannelsOK ==
  \A w \in Workers : \A i \in 1 .. Len(inbox[w]) :
    /\ inbox[w][i] \in {"startup", "stop"} => kind = "multicore"
    /\ inbox[w][i] = "startup" => i = 1 /\ app[w] = "none"
    /\ inbox[w][i] = "stop" =>
         i = Len(inbox[w]) /\ app[w] = "started" /\ pc \in Ending /\ Drained

Unlaunched(w) == inbox[w] = <<>> /\ app[w] = "none"
Unstopped(w) ==
  app[w] = "started" /\ \A i \in 1 .. Len(inbox[w]) : inbox[w][i] # "stop"

\* What the position of the accept loop says of the applications.
LoopOK ==
  /\ pc = "launch" => \A w \in Workers : at <= w => Unlaunched(w)
  /\ pc = "confirm" /\ kind = "multicore" => \A w \in Workers : w < at => app[w] = "started"
  /\ pc \in Accepting => \A w \in Used : app[w] = "started"
  /\ pc = "stop" => \A w \in Workers : at <= w => Unstopped(w)
  /\ pc \in {"stop", "await"} => Drained /\ \A w \in Used : app[w] \in Opened
  /\ pc = "await" /\ kind = "multicore" => \A w \in Workers : w < at => app[w] = "stopped"
  /\ pc \in {"join", "returned"} /\ verdict = "ok" => \A w \in Used : app[w] = "stopped"
  /\ pc = "join" /\ verdict = "ok" => \A w \in Workers : w < at => ~alive[w]
  /\ pc = "returned" /\ verdict = "ok" /\ kind = "multicore" => \A w \in Workers : ~alive[w]
  /\ pc \in {"loop", "accept", "limit", "dispatch", "stop", "join"} => kind = "multicore"
  /\ pc = "launch" /\ kind = "local" => at = 1

StoppedLate ==
  \A w \in Workers : app[w] \in {"stopping", "stopped"} => pc \in Ending /\ Drained

\* A connection is accepted only when the applications have started, and what
\* the loop holds is what it has accepted and not yet dispatched.
ConnsOK ==
  \A c \in Conns :
    /\ conn[c] # "waiting" =>
         pc \notin {"launch", "confirm"} /\ \A w \in Used : app[w] \in Opened
    /\ conn[c] \in {"waiting", "held"} => task[c] = "none"
    /\ task[c] = "spawned" => counted[c] \/ expired
    /\ kind = "local" => owner[c] = 1
    /\ ~alive[owner[c]] => conn[c] \notin {"queued", "live"} /\ task[c] # "spawned"

HeldByLoop ==
  /\ pc = "limit" => held \in Conns /\ conn[held] = "held"
  /\ pc = "dispatch" => held \in Conns /\ conn[held] = "counted"

CounterInstalled ==
  /\ kind = "local" =>
       /\ alive[1]
       /\ pc \notin {"launch", "confirm"} =>
            app[1] \notin {"none", "starting"} /\ (app[1] = "started" => installed[1])
  /\ kind = "multicore" =>
       \A w \in Workers : app[w] \in {"starting", "started"} => installed[w]

Phases == HooksRun /\ ChannelsOK /\ LoopOK /\ StoppedLate
Counts == ConnsOK /\ HeldByLoop /\ CounterInstalled /\ CountsAgree /\ connections <= MaxConnections

LifeInv == ServerTypeOK /\ Phases /\ Counts

\* A finite set less a part of it.
LEMMA CardLess ==
  ASSUME NEW S, IsFiniteSet(S), NEW T \in SUBSET S
  PROVE  /\ IsFiniteSet(T) /\ Cardinality(T) \in Nat /\ Cardinality(S) \in Nat
         /\ Cardinality(S \ T) = Cardinality(S) - Cardinality(T)
         /\ Cardinality(T) <= Cardinality(S)
<1>1. IsFiniteSet(T) /\ Cardinality(T) <= Cardinality(S)
  BY FS_Subset
<1>2. Cardinality(S \ T) = Cardinality(S) - Cardinality(S \cap T) /\ S \cap T = T
  BY FS_Difference
<1> QED BY <1>1, <1>2, FS_CardinalityType

\* A finite set and one more.
LEMMA CardMore ==
  ASSUME NEW S, IsFiniteSet(S), NEW x, x \notin S
  PROVE  Cardinality(S \cup {x}) = Cardinality(S) + 1 /\ Cardinality(S) \in Nat
BY FS_AddElement, FS_CardinalityType

\* A finite set less one.
LEMMA CardFewer ==
  ASSUME NEW S, IsFiniteSet(S), NEW x \in S
  PROVE  /\ Cardinality(S \ {x}) = Cardinality(S) - 1
         /\ Cardinality(S) \in Nat \ {0} /\ Cardinality(S) - 1 \in Nat
<1>1. Cardinality(S \ {x}) = Cardinality(S) - 1 /\ IsFiniteSet(S \ {x})
  BY FS_RemoveElement
<1>2. Cardinality(S \ {x}) \in Nat /\ Cardinality(S) \in Nat
  BY <1>1, FS_CardinalityType
<1> QED BY <1>1, <1>2

CountedOn(w) == {c \in Admitted : owner[c] = w}

\* What the counters stand for is finite.
LEMMA Finite ==
  /\ IsFiniteSet(Admitted) /\ IsFiniteSet(CountedTasks)
  /\ \A w : IsFiniteSet(CountedOn(w))
  /\ Cardinality(Admitted) \in Nat /\ Cardinality(CountedTasks) \in Nat
  /\ \A w : Cardinality(CountedOn(w)) \in Nat
<1>1. /\ Admitted \subseteq Conns /\ CountedTasks \subseteq Conns
      /\ \A w : CountedOn(w) \subseteq Conns
  BY DEF Admitted, CountedTasks, CountedOn
<1>2. IsFiniteSet(Conns)
  BY ConnsAssumption
<1> QED BY <1>1, <1>2, FS_Subset, FS_CardinalityType

\* When nothing is counted nothing is left.
LEMMA NothingLeft ==
  ASSUME LifeInv, active = 0
  PROVE  \A c \in Conns : /\ conn[c] \notin {"counted", "queued", "live", "lost"}
                          /\ task[c] = "spawned" => ~counted[c]
<1>1. Cardinality(Admitted) = 0 /\ Cardinality(CountedTasks) = 0
  BY Finite DEF LifeInv, Counts, CountsAgree
<1>2. Admitted = {} /\ CountedTasks = {}
  BY <1>1, Finite, FS_EmptySet
<1> QED BY <1>2 DEF Admitted, CountedTasks

\* Once the drain has ended it stays so: nothing is admitted any more.
LEMMA DrainedStays ==
  ASSUME LifeInv, ServerNext, pc \in Ending, Drained
  PROVE  Drained' /\ pc' \in Ending
<1> USE DEF Ending
<1>1. pc' \in Ending
  BY DEF ServerNext, AcceptLoop, LaunchLocal, LaunchWorker, ConfirmLocal, ConfirmWorker,
         PollFlag, PollStore, PollReload, PollWoken, TestRequested, AcceptNothing,
         CountConnection, DispatchConnection, DrainEnds, DispatchStop, StoppedLocal,
         AwaitStop, JoinWorker, AcceptFails, DeadlinePasses, RequestShutdown, TakeWaker,
         AcceptLocal, Accept, Serve, BeginConnection, ScheduleBackground, EndConnection,
         EndBackground, Lifecycle, BeginStartup, StartupHook, BeginStop, ShutdownHook,
         WorkerLeaves, Leave, Return, NextWorker, loop, signal
<1>2. CASE expired
  BY <1>2 DEF Drained, ServerNext, AcceptLoop, LaunchLocal, LaunchWorker, ConfirmLocal,
     ConfirmWorker,
         PollFlag, PollStore, PollReload, PollWoken, TestRequested, AcceptNothing,
         CountConnection, DispatchConnection, DrainEnds, DispatchStop, StoppedLocal,
         AwaitStop, JoinWorker, AcceptFails, DeadlinePasses, RequestShutdown, TakeWaker,
         AcceptLocal, Accept, Serve, BeginConnection, ScheduleBackground, EndConnection,
         EndBackground, Lifecycle, BeginStartup, StartupHook, BeginStop, ShutdownHook,
         WorkerLeaves, Leave, Return, NextWorker, loop, signal
<1>3. CASE active = 0
  <2>1. \A c \in Conns : conn[c] # "live" /\ (task[c] = "spawned" => ~counted[c])
    BY <1>3, NothingLeft
  <2>2. ASSUME NEW w \in Workers, Leave(w) PROVE active' = 0
    <3>1. Dropped(w) = {} /\ {c \in DroppedTasks(w) : counted[c]} = {}
      BY <2>1 DEF Dropped, DroppedTasks
    <3>2. active' = active - Cardinality(Dropped(w))
                           - Cardinality({c \in DroppedTasks(w) : counted[c]})
      BY <2>2 DEF Leave
    <3>3. Cardinality(Dropped(w)) = 0 /\ Cardinality({c \in DroppedTasks(w) : counted[c]}) = 0
      BY <3>1, FS_EmptySet
    <3> QED BY <3>2, <3>3, <1>3
  <2>3. ASSUME NEW c \in Conns, Serve(c) PROVE active' = 0
    BY <2>3, <2>1, <1>3 DEF Serve, BeginConnection, ScheduleBackground, EndConnection,
       EndBackground, counters
  <2>4. at \in Workers
    BY DEF LifeInv, ServerTypeOK
  <2>5. active' = active \/ (\E w \in Workers : Leave(w)) \/ (\E c \in Conns : Serve(c))
    BY <2>4 DEF ServerNext, AcceptLoop, LaunchLocal, LaunchWorker, ConfirmLocal,
       ConfirmWorker,
         PollFlag, PollStore, PollReload, PollWoken, TestRequested, AcceptNothing,
         CountConnection, DispatchConnection, DrainEnds, DispatchStop, StoppedLocal,
         AwaitStop, JoinWorker, AcceptFails, DeadlinePasses, RequestShutdown, TakeWaker,
         AcceptLocal, Accept, Lifecycle, BeginStartup, StartupHook, BeginStop, ShutdownHook,
         WorkerLeaves, counters
  <2>6. active' = 0
    BY <2>2, <2>3, <2>5, <1>3
  <2> QED BY <1>1, <2>6 DEF Drained
<1> QED BY SMTT(30), <1>1, <1>2, <1>3 DEF Drained

\* The scan of least_loaded_worker visits workers.
LEMMA ScannedType == ASSUME cursor \in 0 .. N - 1, NEW k \in 0 .. N - 1
                     PROVE  Scanned(k) \in Workers /\ Scanned(k) % N \in 0 .. N - 1
<1>1. N \in Nat /\ N > 0 /\ cursor + k \in Nat
  BY NAssumption
<1>2. \A n \in Nat : n % N \in 0 .. N - 1
  BY <1>1
<1>3. (cursor + k) % N \in 0 .. N - 1
  BY <1>1, <1>2
<1>4. Scanned(k) \in Workers /\ Scanned(k) \in Nat
  BY <1>1, <1>3 DEF Scanned, Workers
<1> QED BY <1>2, <1>4

TypedLoop ==
  /\ kind \in {"local", "multicore"}
  /\ requested \in BOOLEAN /\ waker \in BOOLEAN /\ woken \in BOOLEAN
  /\ stopper \in {"idle", "stored", "done"}
  /\ pc \in {"launch", "confirm", "poll", "store", "reload", "asleep", "loop",
             "accept", "limit", "dispatch", "drain", "stop", "await", "join",
             "returned"}
  /\ at \in Workers /\ held \in Conns \cup {None}
  /\ verdict \in {"ok", "err"} /\ expired \in BOOLEAN /\ cursor \in 0 .. N - 1
Items == Conns \cup {"startup", "stop"}
TypedWorkers ==
  /\ inbox \in [Workers -> Seq(Items)]
  /\ alive \in [Workers -> BOOLEAN] /\ installed \in [Workers -> BOOLEAN]
  /\ app \in [Workers -> {"none", "starting", "started", "failed", "stopping",
                          "stopped"}]
  /\ up \in [Workers -> 0 .. Hooks] /\ down \in [Workers -> 0 .. Hooks]
TypedHandling ==
  /\ conn \in [Conns -> {"waiting", "held", "refused", "counted", "queued",
                         "live", "ended", "lost"}]
  /\ owner \in [Conns -> Workers]
  /\ task \in [Conns -> {"none", "spawned", "ended"}]
  /\ counted \in [Conns -> BOOLEAN]

\* What the assumptions on the constants give.
LEMMA Constants == /\ N \in Nat \ {0} /\ 1 \in Workers /\ N \in Workers
                   /\ Hooks \in Nat \ {0} /\ Workers = 1 .. N
                   /\ \A w \in Workers : w < N => w + 1 \in Workers
BY NAssumption, HooksAssumption DEF Workers

\* The type invariant in three parts.
LEMMA TypedParts == ServerTypeOK => TypedLoop /\ TypedWorkers /\ TypedHandling
BY DEF ServerTypeOK, TypedLoop, TypedWorkers, TypedHandling, Items

\* The variables of the accept loop and the signal keep their types.
LEMMA LoopTyped == ASSUME LifeInv, ServerNext PROVE TypedLoop'
<1>1. TypedLoop
  BY TypedParts DEF LifeInv
<1>2. ASSUME CountConnection PROVE TypedLoop'
  <2>1. cursor' \in 0 .. N - 1
    BY <1>1, <1>2, ScannedType DEF CountConnection, TypedLoop
  <2> QED BY <1>1, <1>2, <2>1 DEF CountConnection, TypedLoop, signal
<1>3. ASSUME AcceptLoop, ~CountConnection PROVE TypedLoop'
  BY ZenonT(40), <1>1, <1>3, Constants DEF TypedLoop, AcceptLoop, LaunchLocal, LaunchWorker,
     ConfirmLocal,
     ConfirmWorker, PollFlag, PollStore, PollReload, PollWoken, TestRequested,
     AcceptNothing,
     DispatchConnection, DrainEnds, DispatchStop, StoppedLocal, AwaitStop, JoinWorker,
     Leave, Return,
     NextWorker, signal
<1>4. CASE AcceptFails \/ DeadlinePasses \/ RequestShutdown \/ TakeWaker
  BY <1>1, <1>4 DEF TypedLoop, AcceptFails, DeadlinePasses, RequestShutdown, TakeWaker,
     Return, signal, loop
<1>5. ASSUME NEW c \in Conns, AcceptLocal(c) \/ Accept(c) \/ Serve(c) PROVE TypedLoop'
  BY <1>1, <1>5 DEF TypedLoop, AcceptLocal, Accept, Serve, BeginConnection,
     ScheduleBackground, EndConnection,
     EndBackground, signal, loop
<1>6. ASSUME NEW w \in Workers, Lifecycle(w) PROVE TypedLoop'
  BY <1>1, <1>6 DEF TypedLoop, Lifecycle, BeginStartup, StartupHook, BeginStop,
     ShutdownHook, signal, loop
<1>7. ASSUME NEW w \in Workers, WorkerLeaves(w) PROVE TypedLoop'
  BY <1>1, <1>7 DEF TypedLoop, WorkerLeaves, Leave, signal
<1> QED BY <1>2, <1>3, <1>4, <1>5, <1>6, <1>7 DEF ServerNext

WorkersMove ==
  \/ LaunchLocal \/ LaunchWorker \/ ConfirmLocal \/ DispatchConnection \/ DrainEnds \/ DispatchStop
  \/ \E c \in Conns : AcceptLocal(c) \/ BeginConnection(c)
  \/ \E w \in Workers : Lifecycle(w) \/ Leave(w)

\* Only these steps touch a worker.
LEMMA WorkersRest ==
  ASSUME LifeInv, ServerNext, ~WorkersMove
  PROVE  UNCHANGED <<inbox, alive, app, up, down, installed>>
<1>1. at \in Workers
  BY DEF LifeInv, ServerTypeOK
<1> QED
  BY SMTT(30), <1>1 DEF workers, WorkersMove, ServerNext, AcceptLoop, Lifecycle, Serve, LaunchLocal,
     LaunchWorker,
     ConfirmLocal, ConfirmWorker, PollFlag, PollStore, PollReload, PollWoken,
     TestRequested, AcceptNothing, CountConnection, DispatchConnection,
     DrainEnds, DispatchStop, StoppedLocal, AwaitStop, JoinWorker,
     AcceptFails, DeadlinePasses, RequestShutdown, TakeWaker, AcceptLocal,
     Accept, BeginConnection, ScheduleBackground, EndConnection,
     EndBackground, BeginStartup, StartupHook, BeginStop, ShutdownHook,
     WorkerLeaves

HandlingMoves ==
  \/ CountConnection \/ DispatchConnection
  \/ \E c \in Conns : AcceptLocal(c) \/ Accept(c) \/ Serve(c)
  \/ \E w \in Workers : Leave(w)

\* Only these steps touch a connection or a counter.
LEMMA HandlingRests ==
  ASSUME LifeInv, ServerNext, ~HandlingMoves
  PROVE  UNCHANGED <<conn, owner, task, counted, active, connections, loads>>
<1>1. at \in Workers
  BY DEF LifeInv, ServerTypeOK
<1> QED
  BY <1>1 DEF handling, counters, HandlingMoves, ServerNext, AcceptLoop, Lifecycle, Serve,
     LaunchLocal, LaunchWorker,
     ConfirmLocal, ConfirmWorker, PollFlag, PollStore, PollReload, PollWoken,
     TestRequested, AcceptNothing, CountConnection, DispatchConnection,
     DrainEnds, DispatchStop, StoppedLocal, AwaitStop, JoinWorker,
     AcceptFails, DeadlinePasses, RequestShutdown, TakeWaker, AcceptLocal,
     Accept, BeginConnection, ScheduleBackground, EndConnection,
     EndBackground, BeginStartup, StartupHook, BeginStop, ShutdownHook,
     WorkerLeaves

\* A message is sent to the channel of one worker.
LEMMA Sent ==
  ASSUME NEW w \in Workers, NEW m \in Items, inbox \in [Workers -> Seq(Items)],
         inbox' = [inbox EXCEPT ![w] = Append(@, m)]
  PROVE  /\ inbox' \in [Workers -> Seq(Items)]
         /\ inbox'[w] = Append(inbox[w], m) /\ \A v \in Workers \ {w} : inbox'[v] = inbox[v]
         /\ Len(inbox[w]) \in Nat /\ Len(inbox'[w]) = Len(inbox[w]) + 1
         /\ \A i \in 1 .. Len(inbox[w]) : inbox'[w][i] = inbox[w][i]
         /\ inbox'[w][Len(inbox[w]) + 1] = m
<1>1. inbox[w] \in Seq(Items) /\ inbox'[w] = Append(inbox[w], m)
  OBVIOUS
<1>2. Append(inbox[w], m) \in Seq(Items) /\ Len(inbox[w]) \in Nat
  BY <1>1
<1> QED BY <1>1, <1>2

\* A worker takes the first message of its channel.
LEMMA Received ==
  ASSUME NEW w \in Workers, inbox[w] # <<>>, inbox \in [Workers -> Seq(Items)],
         inbox' = [inbox EXCEPT ![w] = Tail(@)]
  PROVE  /\ inbox' \in [Workers -> Seq(Items)]
         /\ \A v \in Workers \ {w} : inbox'[v] = inbox[v]
         /\ Len(inbox[w]) \in Nat \ {0} /\ Head(inbox[w]) = inbox[w][1]
         /\ Len(inbox'[w]) = Len(inbox[w]) - 1
         /\ \A i \in 1 .. Len(inbox'[w]) : i + 1 \in 1 .. Len(inbox[w]) /\ inbox'[w][i] = inbox[w][i + 1]
<1>1. inbox[w] \in Seq(Items) /\ inbox'[w] = Tail(inbox[w])
  OBVIOUS
<1>2. Tail(inbox[w]) \in Seq(Items) /\ Len(inbox[w]) \in Nat \ {0} /\ Len(Tail(inbox[w])) = Len(inbox[w]) - 1
  BY <1>1
<1> QED BY <1>1, <1>2

\* The workers keep their types.
LEMMA WorkersTyped == ASSUME LifeInv, ServerNext PROVE TypedWorkers'
<1>1. TypedWorkers /\ TypedLoop /\ TypedHandling /\ HooksRun
  BY TypedParts DEF LifeInv, Phases
<1>2. CASE LaunchLocal
  BY <1>1, <1>2, Constants DEF TypedWorkers, LaunchLocal
<1>3. CASE LaunchWorker
  <2>1. CASE inbox' = inbox
    BY <1>1, <1>3, <2>1 DEF TypedWorkers, LaunchWorker
  <2>2. CASE inbox' = [inbox EXCEPT ![at] = Append(@, "startup")]
    <3>1. inbox' \in [Workers -> Seq(Items)]
      BY <1>1, <2>2, Sent DEF TypedWorkers, TypedLoop, Items
    <3> QED BY <1>1, <1>3, <3>1 DEF TypedWorkers, LaunchWorker
  <2> QED BY <1>3, <2>1, <2>2 DEF LaunchWorker
<1>4. CASE ConfirmLocal
  BY <1>1, <1>4, Constants DEF TypedWorkers, ConfirmLocal
<1>5. CASE DispatchConnection
  <2>1. pc = "dispatch" /\ held \in Conns
    BY <1>5 DEF DispatchConnection, LifeInv, Counts, HeldByLoop
  <2>2. owner[held] \in Workers /\ held \in Items
    BY <1>1, <2>1 DEF TypedHandling, Items
  <2>3. CASE inbox' = inbox
    BY <1>1, <1>5, <2>3 DEF TypedWorkers, DispatchConnection
  <2>4. CASE inbox' = [inbox EXCEPT ![owner[held]] = Append(@, held)]
    <3>1. inbox' \in [Workers -> Seq(Items)]
      BY <1>1, <2>2, <2>4, Sent DEF TypedWorkers
    <3> QED BY <1>1, <1>5, <3>1 DEF TypedWorkers, DispatchConnection
  <2> QED BY <1>5, <2>3, <2>4 DEF DispatchConnection
<1>6. CASE DrainEnds
  BY <1>1, <1>6, Constants DEF TypedWorkers, DrainEnds
<1>7. CASE DispatchStop
  <2>1. CASE inbox' = inbox
    BY <1>1, <1>7, <2>1 DEF TypedWorkers, DispatchStop
  <2>2. CASE inbox' = [inbox EXCEPT ![at] = Append(@, "stop")]
    <3>1. inbox' \in [Workers -> Seq(Items)]
      BY <1>1, <2>2, Sent DEF TypedWorkers, TypedLoop, Items
    <3> QED BY <1>1, <1>7, <3>1 DEF TypedWorkers, DispatchStop
  <2> QED BY <1>7, <2>1, <2>2 DEF DispatchStop
<1>8. ASSUME NEW c \in Conns, AcceptLocal(c) \/ BeginConnection(c) PROVE TypedWorkers'
  <2>1. CASE AcceptLocal(c)
    <3>1. CASE inbox' = inbox
      BY <1>1, <2>1, <3>1 DEF TypedWorkers, AcceptLocal
    <3>2. CASE inbox' = [inbox EXCEPT ![1] = Append(@, c)]
      <4>1. inbox' \in [Workers -> Seq(Items)]
        BY <1>1, <3>2, Sent, Constants DEF TypedWorkers, Items
      <4> QED BY <1>1, <2>1, <4>1 DEF TypedWorkers, AcceptLocal
    <3> QED BY <2>1, <3>1, <3>2 DEF AcceptLocal
  <2>2. CASE BeginConnection(c)
    <3>1. owner[c] \in Workers /\ inbox \in [Workers -> Seq(Items)]
      BY <1>1 DEF TypedHandling, TypedWorkers
    <3>2. /\ inbox[owner[c]] # <<>> /\ inbox' = [inbox EXCEPT ![owner[c]] = Tail(@)]
          /\ UNCHANGED <<alive, app, up, down, installed>>
      BY <2>2 DEF BeginConnection
    <3>3. inbox' \in [Workers -> Seq(Items)]
      BY <3>1, <3>2, Received
    <3> QED BY <1>1, <3>2, <3>3 DEF TypedWorkers
  <2> QED BY <1>8, <2>1, <2>2
<1>9. ASSUME NEW w \in Workers, Lifecycle(w) PROVE TypedWorkers'
  <2>1. CASE BeginStartup(w)
    BY <1>1, <2>1 DEF TypedWorkers, BeginStartup
  <2>2. CASE StartupHook(w)
    <3>1. up[w] + 1 \in 0 .. Hooks
      BY <1>1, <2>2, Constants DEF TypedWorkers, StartupHook, HooksRun
    <3> QED BY <1>1, <2>2, <3>1 DEF TypedWorkers, StartupHook
  <2>3. CASE BeginStop(w)
    BY <1>1, <2>3 DEF TypedWorkers, BeginStop
  <2>4. CASE ShutdownHook(w)
    <3>1. down[w] + 1 \in 0 .. Hooks
      BY SMTT(30), <1>1, <2>4, Constants DEF TypedWorkers, ShutdownHook, HooksRun
    <3> QED BY <1>1, <2>4, <3>1 DEF TypedWorkers, ShutdownHook
  <2> QED BY <1>9, <2>1, <2>2, <2>3, <2>4 DEF Lifecycle
<1>10. ASSUME NEW w \in Workers, Leave(w) PROVE TypedWorkers'
  BY <1>1, <1>10 DEF TypedWorkers, Leave
<1>11. CASE ~WorkersMove
  BY <1>1, <1>11, WorkersRest DEF TypedWorkers
<1> QED BY <1>2, <1>3, <1>4, <1>5, <1>6, <1>7, <1>8, <1>9, <1>10, <1>11 DEF WorkersMove

\* The connections keep their types.
LEMMA HandlingTyped == ASSUME LifeInv, ServerNext PROVE TypedHandling'
<1>1. TypedHandling /\ TypedLoop
  BY TypedParts DEF LifeInv
<1>2. CASE CountConnection
  BY <1>1, <1>2, ScannedType DEF TypedLoop, TypedHandling, CountConnection
<1>3. CASE DispatchConnection
  BY <1>1, <1>3 DEF TypedLoop, TypedHandling, DispatchConnection
<1>4. ASSUME NEW c \in Conns, AcceptLocal(c) \/ Accept(c) \/ Serve(c) PROVE TypedHandling'
  <2>1. CASE AcceptLocal(c) \/ Accept(c)
    BY <1>1, <2>1 DEF TypedHandling, AcceptLocal, Accept
  <2>2. CASE BeginConnection(c) \/ EndConnection(c)
    BY <1>1, <2>2 DEF TypedHandling, BeginConnection, EndConnection
  <2>3. CASE ScheduleBackground(c)
    <3>1. installed[owner[c]] \in BOOLEAN
      BY <1>1, TypedParts DEF LifeInv, TypedHandling, TypedWorkers
    <3> QED BY <1>1, <2>3, <3>1 DEF TypedHandling, ScheduleBackground
  <2>4. CASE EndBackground(c)
    BY <1>1, <2>4 DEF TypedHandling, EndBackground
  <2> QED BY <1>4, <2>1, <2>2, <2>3, <2>4 DEF Serve
<1>5. ASSUME NEW w \in Workers, Leave(w) PROVE TypedHandling'
  BY <1>1, <1>5 DEF TypedHandling, Leave
<1>6. CASE ~HandlingMoves
  BY SMTT(30), <1>1, <1>6, HandlingRests DEF TypedHandling
<1> QED BY <1>2, <1>3, <1>4, <1>5, <1>6 DEF HandlingMoves

AppsMove == LaunchLocal \/ DrainEnds \/ \E w \in Workers : Lifecycle(w)

\* Only these steps touch an application.
LEMMA AppsRest ==
  ASSUME LifeInv, ServerNext, ~AppsMove
  PROVE  UNCHANGED <<app, up, down>>
<1>1. at \in Workers
  BY DEF LifeInv, ServerTypeOK
<1> QED
  BY <1>1 DEF workers, AppsMove, Leave, ServerNext, AcceptLoop, Lifecycle, Serve,
     LaunchLocal, LaunchWorker,
     ConfirmLocal, ConfirmWorker, PollFlag, PollStore, PollReload, PollWoken,
     TestRequested, AcceptNothing, CountConnection, DispatchConnection,
     DrainEnds, DispatchStop, StoppedLocal, AwaitStop, JoinWorker,
     AcceptFails, DeadlinePasses, RequestShutdown, TakeWaker, AcceptLocal,
     Accept, BeginConnection, ScheduleBackground, EndConnection,
     EndBackground, BeginStartup, StartupHook, BeginStop, ShutdownHook,
     WorkerLeaves

\* A server does not change its kind.
LEMMA KindStays == ASSUME ServerNext PROVE kind' = kind
BY DEF workers, Leave, ServerNext, AcceptLoop, Lifecycle, Serve, LaunchLocal, LaunchWorker,
     ConfirmLocal, ConfirmWorker, PollFlag, PollStore, PollReload, PollWoken,
     TestRequested, AcceptNothing, CountConnection, DispatchConnection,
     DrainEnds, DispatchStop, StoppedLocal, AwaitStop, JoinWorker,
     AcceptFails, DeadlinePasses, RequestShutdown, TakeWaker, AcceptLocal,
     Accept, BeginConnection, ScheduleBackground, EndConnection,
     EndBackground, BeginStartup, StartupHook, BeginStop, ShutdownHook,
     WorkerLeaves

\* What a step does to one application.
LEMMA AppSteps ==
  ASSUME LifeInv, ServerNext, NEW w \in Workers
  PROVE  \/ app'[w] = app[w] /\ up'[w] = up[w] /\ down'[w] = down[w]
         \/ /\ app[w] = "none" /\ app'[w] \in {"starting", "failed"}
            /\ up'[w] = up[w] /\ down'[w] = down[w]
            /\ \/ pc = "launch" /\ kind = "local" /\ pc' = "confirm"
               \/ /\ kind = "multicore" /\ alive[w] /\ inbox[w] # <<>> /\ inbox[w][1] = "startup"
                  /\ installed'[w]
         \/ /\ app[w] = "starting" /\ down'[w] = down[w] /\ installed'[w] = installed[w]
            /\ \/ app'[w] = "failed" /\ up'[w] = up[w]
               \/ /\ app'[w] \in {"starting", "started"} /\ up'[w] = up[w] + 1
                  /\ app'[w] = "started" <=> up'[w] = Hooks
         \/ /\ app[w] = "started" /\ app'[w] = "stopping" /\ up'[w] = up[w] /\ down'[w] = down[w]
            /\ \/ pc = "drain" /\ kind = "local" /\ pc' = "await" /\ Drained
               \/ kind = "multicore" /\ inbox[w] # <<>> /\ inbox[w][1] = "stop" /\ pc' = pc
         \/ /\ app[w] = "stopping" /\ up'[w] = up[w] /\ down'[w] = down[w] + 1
            /\ app'[w] = IF down'[w] = Hooks THEN "stopped" ELSE "stopping"
<1>1. TypedWorkers /\ TypedLoop
  BY TypedParts DEF LifeInv
<1>2. CASE LaunchLocal
  <2>1. app[1] = "none"
    BY <1>2, Constants DEF LaunchLocal, LifeInv, Phases, LoopOK, Unlaunched
  <2>2. up' = up /\ down' = down /\ pc = "launch" /\ pc' = "confirm" /\ kind = "local" /\ app' = [app EXCEPT ![1] = "starting"]
    BY <1>2 DEF LaunchLocal
  <2>3. CASE w = 1
    BY <1>1, <2>1, <2>2, <2>3 DEF TypedWorkers
  <2>4. CASE w # 1
    BY <1>1, <2>2, <2>4 DEF TypedWorkers
  <2> QED BY <2>3, <2>4
<1>3. CASE DrainEnds
  <2>1. CASE kind = "local"
    <3>1. app[1] = "started"
      BY <1>3, <2>1 DEF DrainEnds, LifeInv, Phases, LoopOK, Accepting, Used
    <3> QED BY <1>1, <1>3, <2>1, <3>1 DEF DrainEnds, TypedWorkers, Drained
  <2>2. CASE kind # "local"
    BY <1>3, <2>2 DEF DrainEnds
  <2> QED BY <2>1, <2>2
<1>4. ASSUME NEW v \in Workers, BeginStartup(v) PROVE v # w \/ (app[w] = "none" /\ inbox[w][1] = "startup")
  <2>1. Len(inbox[v]) \in Nat \ {0} /\ inbox[v][1] = "startup"
    BY <1>1, <1>4, Received DEF TypedWorkers, BeginStartup
  <2> QED BY <2>1 DEF LifeInv, Phases, ChannelsOK
<1>5. ASSUME NEW v \in Workers, BeginStop(v) PROVE v # w \/ (app[w] = "started" /\ inbox[w][1] = "stop")
  <2>1. Len(inbox[v]) \in Nat \ {0} /\ inbox[v][1] = "stop"
    BY <1>1, <1>5, Received DEF TypedWorkers, BeginStop
  <2> QED BY <2>1 DEF LifeInv, Phases, ChannelsOK
<1>6. ASSUME NEW v \in Workers, Lifecycle(v), v = w PROVE
         \/ BeginStartup(w) \/ StartupHook(w) \/ BeginStop(w) \/ ShutdownHook(w)
  BY <1>6 DEF Lifecycle
<1>7. ASSUME NEW v \in Workers, Lifecycle(v), v # w
      PROVE  app'[w] = app[w] /\ up'[w] = up[w] /\ down'[w] = down[w]
  BY <1>1, <1>7 DEF Lifecycle, BeginStartup, StartupHook, BeginStop, ShutdownHook,
     TypedWorkers
<1>8. CASE BeginStartup(w)
  BY <1>1, <1>4, <1>8 DEF BeginStartup, TypedWorkers
<1>9. CASE StartupHook(w)
  BY <1>1, <1>9, Constants DEF StartupHook, TypedWorkers
<1>10. CASE BeginStop(w)
  BY <1>1, <1>5, <1>10 DEF BeginStop, TypedWorkers, loop
<1>11. CASE ShutdownHook(w)
  BY <1>1, <1>11 DEF ShutdownHook, TypedWorkers
<1>12. CASE ~AppsMove
  BY <1>12, AppsRest
<1> QED BY <1>2, <1>3, <1>6, <1>7, <1>8, <1>9, <1>10, <1>11, <1>12 DEF AppsMove

\* Every step keeps HooksRun.
LEMMA HooksStep == ASSUME LifeInv, ServerNext PROVE HooksRun'
<1> SUFFICES ASSUME NEW w \in Workers
             PROVE  /\ app'[w] = "none" => up'[w] = 0
                    /\ app'[w] = "starting" => up'[w] < Hooks
                    /\ app'[w] \in Opened => up'[w] = Hooks
                    /\ app'[w] \notin {"stopping", "stopped"} => down'[w] = 0
                    /\ app'[w] = "stopping" => down'[w] < Hooks
                    /\ app'[w] = "stopped" => down'[w] = Hooks
  BY DEF HooksRun
<1>1. /\ up[w] \in 0 .. Hooks /\ down[w] \in 0 .. Hooks /\ Hooks \in Nat \ {0}
      /\ up'[w] \in 0 .. Hooks /\ down'[w] \in 0 .. Hooks
  BY TypedParts, WorkersTyped, Constants DEF LifeInv, TypedWorkers
<1>2. /\ app[w] = "none" => up[w] = 0
      /\ app[w] = "starting" => up[w] < Hooks
      /\ app[w] \in Opened => up[w] = Hooks
      /\ app[w] \notin {"stopping", "stopped"} => down[w] = 0
      /\ app[w] = "stopping" => down[w] < Hooks
      /\ app[w] = "stopped" => down[w] = Hooks
  BY DEF LifeInv, Phases, HooksRun
<1> QED BY <1>1, <1>2, AppSteps DEF Opened

Appended(w, m) ==
  /\ Len(inbox[w]) \in Nat /\ Len(inbox'[w]) = Len(inbox[w]) + 1
  /\ \A i \in 1 .. Len(inbox[w]) : inbox'[w][i] = inbox[w][i]
  /\ inbox'[w][Len(inbox[w]) + 1] = m
Popped(w) ==
  /\ Len(inbox[w]) \in Nat \ {0} /\ Len(inbox'[w]) = Len(inbox[w]) - 1
  /\ \A i \in 1 .. Len(inbox'[w]) : i + 1 \in 1 .. Len(inbox[w]) /\ inbox'[w][i] = inbox[w][i + 1]
AppKept(w) == kind = "multicore" /\ app[w] \in {"none", "started"} => app'[w] = app[w]

\* What a step does to one channel.
LEMMA ChannelSteps ==
  ASSUME LifeInv, ServerNext, NEW w \in Workers
  PROVE  \/ inbox'[w] = inbox[w] /\ AppKept(w)
         \/ inbox'[w] = <<>>
         \/ Popped(w) /\ (inbox[w][1] \in {"startup", "stop"} \/ AppKept(w))
         \/ Appended(w, "startup") /\ LaunchWorker /\ w = at
         \/ /\ pc \in {"poll", "asleep", "dispatch"} /\ app' = app
            /\ \E m \in Conns : Appended(w, m)
         \/ Appended(w, "stop") /\ DispatchStop /\ w = at
<1>1. TypedWorkers /\ TypedLoop /\ TypedHandling
  BY TypedParts DEF LifeInv
<1>s. inbox \in [Workers -> Seq(Items)]
  BY <1>1 DEF TypedWorkers
<1>k. app' = app => AppKept(w)
  BY DEF AppKept
<1>2. ASSUME NEW v \in Workers, NEW m \in Items, inbox' = [inbox EXCEPT ![v] = Append(@, m)]
      PROVE  inbox'[w] = inbox[w] \/ (v = w /\ Appended(w, m))
  BY <1>s, <1>2, Sent DEF Appended
<1>3. ASSUME NEW v \in Workers, inbox[v] # <<>>, inbox' = [inbox EXCEPT ![v] = Tail(@)]
      PROVE  inbox'[w] = inbox[w] \/ (v = w /\ Popped(w) /\ Head(inbox[w]) = inbox[w][1])
  BY <1>s, <1>3, Received DEF Popped
<1>4. at \in Workers /\ "startup" \in Items /\ "stop" \in Items /\ 1 \in Workers
  BY <1>1, Constants DEF TypedLoop, Items
<1>5. CASE LaunchWorker
  <2>1. /\ pc = "launch" /\ kind = "multicore" /\ app' = app
        /\ inbox' = inbox \/ inbox' = [inbox EXCEPT ![at] = Append(@, "startup")]
    BY <1>5 DEF LaunchWorker
  <2>2. inbox'[w] = inbox[w] \/ (at = w /\ Appended(w, "startup"))
    BY <1>2, <1>4, <2>1
  <2> QED BY <1>5, <1>k, <2>1, <2>2
<1>6. CASE DispatchConnection
  <2>1. held \in Conns /\ held \in Items /\ owner[held] \in Workers
    BY <1>1, <1>6 DEF DispatchConnection, LifeInv, Counts, HeldByLoop, TypedHandling, Items
  <2>2. /\ pc = "dispatch" /\ app' = app
        /\ inbox' = inbox \/ inbox' = [inbox EXCEPT ![owner[held]] = Append(@, held)]
    BY <1>6 DEF DispatchConnection
  <2>3. inbox'[w] = inbox[w] \/ Appended(w, held)
    BY <1>2, <2>1, <2>2
  <2> QED BY <1>k, <2>1, <2>2, <2>3
<1>7. CASE DispatchStop
  <2>1. /\ pc = "stop" /\ kind = "multicore" /\ app' = app
        /\ inbox' = inbox \/ inbox' = [inbox EXCEPT ![at] = Append(@, "stop")]
    BY <1>7 DEF DispatchStop
  <2>2. inbox'[w] = inbox[w] \/ (at = w /\ Appended(w, "stop"))
    BY <1>2, <1>4, <2>1
  <2> QED BY <1>7, <1>k, <2>1, <2>2
<1>8. ASSUME NEW c \in Conns, AcceptLocal(c)
      PROVE  \/ inbox'[w] = inbox[w] /\ app' = app
             \/ /\ pc \in {"poll", "asleep", "dispatch"} /\ app' = app
                /\ \E m \in Conns : Appended(w, m)
  <2>1. /\ pc \in {"poll", "asleep", "dispatch"} /\ app' = app /\ c \in Items
        /\ inbox' = inbox \/ inbox' = [inbox EXCEPT ![1] = Append(@, c)]
    BY <1>8 DEF AcceptLocal, Items
  <2>2. inbox'[w] = inbox[w] \/ Appended(w, c)
    BY <1>2, <1>4, <2>1
  <2> QED BY <2>1, <2>2
<1>9. ASSUME NEW c \in Conns, BeginConnection(c)
      PROVE  app' = app /\ (inbox'[w] = inbox[w] \/ Popped(w))
  <2>1. owner[c] \in Workers /\ c # "startup"
    BY <1>1, ConnsAssumption DEF TypedHandling
  <2> QED BY <1>3, <1>9, <2>1 DEF BeginConnection
<1>10. ASSUME NEW v \in Workers, BeginStartup(v)
       PROVE  \/ inbox'[w] = inbox[w] /\ AppKept(w)
              \/ Popped(w) /\ inbox[w][1] = "startup"
  <2>1. CASE v = w
    <3>1. inbox[w] # <<>> /\ Head(inbox[w]) = "startup" /\ inbox' = [inbox EXCEPT ![w] = Tail(@)]
      BY <1>10, <2>1 DEF BeginStartup
    <3>2. /\ Len(inbox[w]) \in Nat \ {0} /\ Len(inbox'[w]) = Len(inbox[w]) - 1 /\ inbox[w][1] = "startup"
          /\ \A i \in 1 .. Len(inbox'[w]) : i + 1 \in 1 .. Len(inbox[w]) /\ inbox'[w][i] = inbox[w][i + 1]
      BY <1>s, <3>1, Received
    <3> QED BY <3>2 DEF Popped
  <2>2. CASE v # w
    BY <1>1, <1>10, <2>2 DEF BeginStartup, TypedWorkers, AppKept
  <2> QED BY <2>1, <2>2
<1>11. ASSUME NEW v \in Workers, BeginStop(v)
       PROVE  \/ inbox'[w] = inbox[w] /\ AppKept(w)
              \/ Popped(w) /\ inbox[w][1] = "stop"
  <2>1. CASE v = w
    <3>1. inbox[w] # <<>> /\ Head(inbox[w]) = "stop" /\ inbox' = [inbox EXCEPT ![w] = Tail(@)]
      BY <1>11, <2>1 DEF BeginStop
    <3>2. /\ Len(inbox[w]) \in Nat \ {0} /\ Len(inbox'[w]) = Len(inbox[w]) - 1 /\ inbox[w][1] = "stop"
          /\ \A i \in 1 .. Len(inbox'[w]) : i + 1 \in 1 .. Len(inbox[w]) /\ inbox'[w][i] = inbox[w][i + 1]
      BY <1>s, <3>1, Received
    <3> QED BY <3>2 DEF Popped
  <2>2. CASE v # w
    BY <1>1, <1>11, <2>2 DEF BeginStop, TypedWorkers, AppKept
  <2> QED BY <2>1, <2>2
<1>12. ASSUME NEW v \in Workers, StartupHook(v) \/ ShutdownHook(v) 
       PROVE  inbox'[w] = inbox[w] /\ AppKept(w)
  BY <1>1, <1>12 DEF StartupHook, ShutdownHook, TypedWorkers, AppKept
<1>13. ASSUME NEW v \in Workers, Leave(v) 
       PROVE  (inbox'[w] = inbox[w] /\ app' = app) \/ inbox'[w] = <<>>
  <2>1. inbox' = [inbox EXCEPT ![v] = <<>>] /\ app' = app
    BY <1>13 DEF Leave
  <2> QED BY <1>s, <2>1
<1>14. CASE LaunchLocal \/ ConfirmLocal \/ DrainEnds
  BY <1>14 DEF LaunchLocal, ConfirmLocal, DrainEnds, AppKept
<1>15. CASE ~WorkersMove
  BY <1>15, <1>k, WorkersRest
<1> QED BY <1>k, <1>5, <1>6, <1>7, <1>8, <1>9, <1>10, <1>11, <1>12, <1>13, <1>14,
   <1>15 DEF WorkersMove, Lifecycle

\* Every step keeps ChannelsOK.
LEMMA ChannelsStep == ASSUME LifeInv, ServerNext PROVE ChannelsOK'
<1> SUFFICES ASSUME NEW w \in Workers, NEW i \in 1 .. Len(inbox'[w])
             PROVE  /\ inbox'[w][i] \in {"startup", "stop"} => kind' = "multicore"
                    /\ inbox'[w][i] = "startup" => i = 1 /\ app'[w] = "none"
                    /\ inbox'[w][i] = "stop" =>
                         i = Len(inbox'[w]) /\ app'[w] = "started" /\ pc' \in Ending /\ Drained'
  BY DEF ChannelsOK
<1>1. kind' = kind
  BY KindStays
<1>2. \A j \in 1 .. Len(inbox[w]) :
        /\ inbox[w][j] \in {"startup", "stop"} => kind = "multicore"
        /\ inbox[w][j] = "startup" => j = 1 /\ app[w] = "none"
        /\ inbox[w][j] = "stop" =>
             j = Len(inbox[w]) /\ app[w] = "started" /\ pc \in Ending /\ Drained
  BY DEF LifeInv, Phases, ChannelsOK
<1>3. inbox[w] \in Seq(Items) /\ Len(inbox[w]) \in Nat
  BY TypedParts DEF LifeInv, TypedWorkers
<1>4. pc \in Ending /\ Drained => pc' \in Ending /\ Drained'
  BY DrainedStays
<1>5. CASE inbox'[w] = inbox[w] /\ AppKept(w)
  BY <1>1, <1>2, <1>4, <1>5 DEF AppKept
<1>6. CASE inbox'[w] = <<>>
  BY <1>6
<1>7. CASE Popped(w) /\ (inbox[w][1] \in {"startup", "stop"} \/ AppKept(w))
  <2>1. /\ i + 1 \in 1 .. Len(inbox[w]) /\ inbox'[w][i] = inbox[w][i + 1] /\ i \in Nat \ {0}
        /\ Len(inbox'[w]) = Len(inbox[w]) - 1 /\ 1 \in 1 .. Len(inbox[w])
    BY <1>7 DEF Popped
  <2>2. inbox'[w][i] # "startup" /\ i + 1 # 1
    BY <1>2, <2>1
  <2>3. ASSUME inbox'[w][i] = "stop"
        PROVE  i + 1 = Len(inbox[w]) /\ app[w] = "started" /\ inbox[w][1] \notin {"startup", "stop"}
    <3>1. i + 1 = Len(inbox[w]) /\ app[w] = "started"
      BY <1>2, <2>1, <2>3
    <3>2. inbox[w][1] # "startup"
      BY <1>2, <2>1, <3>1
    <3>3. inbox[w][1] = "stop" => 1 = Len(inbox[w])
      BY <1>2, <2>1
    <3> QED BY <2>2, <3>1, <3>2, <3>3
  <2> QED BY <1>1, <1>2, <1>3, <1>4, <1>7, <2>1, <2>2, <2>3 DEF AppKept
<1>8. ASSUME NEW m \in Items, Appended(w, m), i # Len(inbox[w]) + 1
      PROVE  i \in 1 .. Len(inbox[w]) /\ inbox'[w][i] = inbox[w][i]
  BY <1>3, <1>8 DEF Appended
<1>9. CASE Appended(w, "startup") /\ pc = "launch" /\ kind = "multicore" /\ w = at /\ app' = app
  <2>1. inbox[w] = <<>> /\ app[w] = "none"
    <3>1. at <= w
      BY <1>9, TypedParts, Constants DEF LifeInv, TypedLoop
    <3> QED BY <1>9, <3>1 DEF LifeInv, Phases, LoopOK, Unlaunched
  <2>2. i = 1 /\ inbox'[w][i] = "startup"
    BY <1>9, <2>1 DEF Appended
  <2> QED BY <1>1, <1>9, <2>1, <2>2
<1>10. ASSUME pc \in {"poll", "asleep", "dispatch"}, app' = app, NEW m \in Conns, Appended(w, m)
       PROVE  inbox'[w][i] # "stop" /\ (inbox'[w][i] = "startup" => i \in 1 .. Len(inbox[w]) /\ inbox[w][i] = "startup")
  <2>1. m \notin {"startup", "stop"} /\ m \in Items /\ pc \notin Ending
    BY <1>10, ConnsAssumption DEF Items, Ending
  <2>2. CASE i = Len(inbox[w]) + 1
    BY <1>10, <2>1, <2>2 DEF Appended
  <2>3. CASE i # Len(inbox[w]) + 1
    BY <1>2, <1>8, <1>10, <2>1, <2>3
  <2> QED BY <2>2, <2>3
<1>11. CASE Appended(w, "stop") /\ pc = "stop" /\ kind = "multicore" /\ w = at /\ app' = app
  <2>1. app[w] = "started" /\ \A j \in 1 .. Len(inbox[w]) : inbox[w][j] # "stop"
    <3>1. at <= w
      BY <1>11, TypedParts, Constants DEF LifeInv, TypedLoop
    <3> QED BY <1>11, <3>1 DEF LifeInv, Phases, LoopOK, Unstopped
  <2>2. pc \in Ending /\ Drained /\ "stop" \in Items
    BY <1>11 DEF LifeInv, Phases, LoopOK, Ending, Items
  <2>3. CASE i = Len(inbox[w]) + 1
    BY <1>1, <1>4, <1>11, <2>1, <2>2, <2>3 DEF Appended
  <2>4. CASE i # Len(inbox[w]) + 1
    <3>1. i \in 1 .. Len(inbox[w]) /\ inbox'[w][i] = inbox[w][i]
      BY <1>8, <1>11, <2>2, <2>4
    <3>2. inbox[w][i] \notin {"startup", "stop"}
      BY <1>2, <2>1, <3>1
    <3> QED BY <3>1, <3>2
  <2> QED BY <2>3, <2>4
<1>12. CASE pc \in {"poll", "asleep", "dispatch"} /\ app' = app /\ \E m \in Conns : Appended(w, m)
  BY <1>1, <1>2, <1>10, <1>12
<1> QED BY <1>5, <1>6, <1>7, <1>9, <1>11, <1>12, ChannelSteps DEF LaunchWorker, DispatchStop

\* A worker that is gone stays gone.
LEMMA AliveFalls ==
  ASSUME LifeInv, ServerNext, NEW w \in Workers, ~alive[w] PROVE ~alive'[w]
<1>1. TypedWorkers /\ at \in Workers
  BY TypedParts DEF LifeInv, TypedLoop
<1>2. ASSUME NEW v \in Workers, Leave(v) PROVE ~alive'[w]
  BY <1>1, <1>2 DEF Leave, TypedWorkers
<1>3. ASSUME NEW v \in Workers, Lifecycle(v) PROVE ~alive'[w]
  BY <1>3 DEF Lifecycle, BeginStartup, StartupHook, BeginStop, ShutdownHook
<1>4. ASSUME NEW c \in Conns, AcceptLocal(c) \/ BeginConnection(c) PROVE ~alive'[w]
  BY <1>4 DEF AcceptLocal, BeginConnection
<1>5. CASE LaunchLocal \/ LaunchWorker \/ ConfirmLocal \/ DispatchConnection \/ DrainEnds \/ DispatchStop
  BY <1>5 DEF LaunchLocal, LaunchWorker, ConfirmLocal, DispatchConnection, DrainEnds,
     DispatchStop
<1>6. CASE ~WorkersMove
  BY <1>6, WorkersRest
<1> QED BY <1>2, <1>3, <1>4, <1>5, <1>6 DEF WorkersMove

\* A worker goes by Leave alone.
LEMMA AliveKept == ASSUME LifeInv, ServerNext PROVE alive' = alive \/ \E w \in Workers : Leave(w)
<1>1. CASE WorkersMove /\ ~\E w \in Workers : Leave(w)
  BY <1>1 DEF WorkersMove, LaunchLocal, LaunchWorker, ConfirmLocal, DispatchConnection,
     DrainEnds, DispatchStop,
     AcceptLocal, BeginConnection, Lifecycle, BeginStartup, StartupHook, BeginStop,
     ShutdownHook
<1>2. CASE ~WorkersMove
  BY SMTT(30), <1>2, WorkersRest
<1> QED BY <1>1, <1>2

\* A deadline that has passed stays passed.
LEMMA ExpiredStays == ASSUME ServerNext, expired PROVE expired'
BY DEF ServerNext, AcceptLoop, LaunchLocal, LaunchWorker, ConfirmLocal, ConfirmWorker,
   PollFlag, PollStore, PollReload, PollWoken, TestRequested, AcceptNothing,
   CountConnection, DispatchConnection, DrainEnds, DispatchStop, StoppedLocal,
   AwaitStop, JoinWorker, AcceptFails, DeadlinePasses, RequestShutdown, TakeWaker,
   AcceptLocal, Accept, Serve, BeginConnection, ScheduleBackground, EndConnection,
   EndBackground, Lifecycle, BeginStartup, StartupHook, BeginStop, ShutdownHook,
   WorkerLeaves, Leave, loop

\* A started application is stopped by nothing but the end of the server.
LEMMA StartedStays ==
  ASSUME LifeInv, ServerNext, NEW w \in Workers, app[w] = "started", pc \notin Ending
  PROVE  app'[w] = "started" \/ (pc' = "await" /\ kind = "local" /\ app'[w] = "stopping")
<1>1. ASSUME inbox[w] # <<>>, inbox[w][1] = "stop" PROVE FALSE
  <2>1. 1 \in 1 .. Len(inbox[w])
    BY <1>1, TypedParts DEF LifeInv, TypedWorkers
  <2> QED BY <1>1, <2>1 DEF LifeInv, Phases, ChannelsOK
<1> QED BY <1>1, AppSteps

\* An application that has started never goes back.
LEMMA OpenedStays ==
  ASSUME LifeInv, ServerNext, NEW w \in Workers, app[w] \in Opened
  PROVE  app'[w] \in Opened /\ (app[w] = "stopped" => app'[w] = "stopped")
BY AppSteps DEF Opened

\* A worker not yet sent its startup has nothing to do.
LEMMA UnlaunchedStays ==
  ASSUME LifeInv, ServerNext, NEW w \in Workers, pc = "launch", pc' = "launch", Unlaunched(w)
  PROVE  Unlaunched(w)' \/ (LaunchWorker /\ w = at)
<1>1. app'[w] = "none"
  BY AppSteps DEF Unlaunched
<1>2. inbox'[w] = <<>> \/ (LaunchWorker /\ w = at)
  BY ChannelSteps DEF Unlaunched, DispatchStop, Popped
<1> QED BY <1>1, <1>2 DEF Unlaunched

\* A worker not yet sent its stop has its application up.
LEMMA UnstoppedStays ==
  ASSUME LifeInv, ServerNext, NEW w \in Workers, pc = "stop", Unstopped(w)
  PROVE  Unstopped(w)' \/ (DispatchStop /\ w = at)
<1>1. inbox[w] \in Seq(Items)
  BY TypedParts DEF LifeInv, TypedWorkers
<1>2. inbox[w] = <<>> \/ inbox[w][1] # "stop"
  BY <1>1 DEF Unstopped
<1>3. app'[w] = "started"
  BY <1>2, AppSteps DEF Unstopped
<1>4. CASE Popped(w)
  BY <1>3, <1>4 DEF Popped, Unstopped
<1>5. CASE inbox'[w] = inbox[w] \/ inbox'[w] = <<>>
  BY <1>3, <1>5 DEF Unstopped
<1>6. ~LaunchWorker /\ pc \notin {"poll", "asleep", "dispatch"}
  BY DEF LaunchWorker
<1> QED BY <1>4, <1>5, <1>6, ChannelSteps

LocalPhases == {"poll", "store", "reload", "asleep", "drain"}
SharedPhases == {"loop", "accept", "limit", "dispatch", "drain"}

\* Where the accept loop may go.
LoopMove ==
  \/ pc' = pc /\ at' = at /\ (verdict' = verdict \/ verdict' = "err") /\ ~LaunchWorker /\ ~DispatchStop
  \/ pc = "launch" /\ pc' = "launch" /\ kind = "multicore" /\ at < N /\ at' = at + 1
  \/ pc = "launch" /\ pc' = "confirm" /\ at' = 1
  \/ pc \in {"launch", "confirm"} /\ pc' = "join" /\ kind = "multicore" /\ at' = 1 /\ verdict' = "err"
  \/ /\ pc = "confirm" /\ kind = "multicore" /\ app[at] = "started"
     /\ \/ at < N /\ at' = at + 1 /\ pc' = "confirm"
        \/ at = N /\ pc' = "loop"
  \/ pc = "confirm" /\ kind = "local" /\ app[1] = "started" /\ pc' = "poll"
  \/ kind = "local" /\ pc \in LocalPhases /\ pc' \in LocalPhases
  \/ kind = "multicore" /\ pc \in SharedPhases /\ pc' \in SharedPhases
  \/ pc' = "returned" /\ verdict' = "err"
  \/ pc = "drain" /\ kind = "local" /\ pc' = "await" /\ Drained'
  \/ pc = "drain" /\ kind = "multicore" /\ pc' = "stop" /\ Drained'
  \/ /\ pc = "stop" /\ kind = "multicore"
     /\ \/ at < N /\ at' = at + 1 /\ pc' = "stop"
        \/ at = N /\ at' = 1 /\ pc' = "await"
  \/ pc = "await" /\ kind = "local" /\ app[1] = "stopped" /\ pc' = "returned"
  \/ /\ pc = "await" /\ kind = "multicore" /\ app[at] = "stopped"
     /\ \/ at < N /\ at' = at + 1 /\ pc' = "await"
        \/ at = N /\ at' = 1 /\ pc' = "join"
  \/ /\ pc = "join" /\ kind = "multicore"
     /\ verdict' = "err" \/ (verdict' = verdict /\ ~alive'[at])
     /\ \/ at < N /\ at' = at + 1 /\ pc' = "join"
        \/ at = N /\ pc' = "returned"

\* Every step moves the accept loop as LoopMove says.
LEMMA LoopSteps == ASSUME LifeInv, ServerNext PROVE LoopMove
<1>1. at \in Workers /\ N \in Nat \ {0} /\ TypedLoop /\ TypedWorkers /\ (at < N \/ at = N)
  BY TypedParts, Constants DEF LifeInv, TypedLoop
<1>2. CASE LaunchLocal
  <2>1. at = 1
    BY <1>2 DEF LaunchLocal, LifeInv, Phases, LoopOK
  <2> QED BY <1>2, <2>1 DEF LaunchLocal, LoopMove
<1>3. CASE LaunchWorker
  BY <1>1, <1>3 DEF LaunchWorker, NextWorker, LoopMove
<1>4. CASE ConfirmLocal
  BY <1>4 DEF ConfirmLocal, Return, LoopMove
<1>5. CASE ConfirmWorker
  BY <1>1, <1>5 DEF ConfirmWorker, NextWorker, LoopMove
<1>6. CASE PollFlag \/ PollStore \/ PollReload \/ PollWoken
  BY <1>6 DEF PollFlag, PollStore, PollReload, PollWoken, LoopMove, LocalPhases
<1>7. CASE TestRequested \/ AcceptNothing \/ CountConnection
  BY <1>7 DEF TestRequested, AcceptNothing, CountConnection, LoopMove, SharedPhases
<1>8. CASE DispatchConnection
  BY <1>8 DEF DispatchConnection, Return, LoopMove, SharedPhases
<1>9. CASE DrainEnds
  <2>1. kind \in {"local", "multicore"}
    BY <1>1 DEF TypedLoop
  <2> QED BY <1>9, <2>1 DEF DrainEnds, LoopMove, Drained, counters
<1>10. CASE DispatchStop
  BY <1>1, <1>10 DEF DispatchStop, NextWorker, Return, LoopMove
<1>11. CASE StoppedLocal
  BY <1>11 DEF StoppedLocal, Return, LoopMove
<1>12. CASE AwaitStop
  BY <1>1, <1>12 DEF AwaitStop, NextWorker, Return, LoopMove
<1>13. CASE JoinWorker
  <2>1. ~alive'[at]
    BY <1>1, <1>13 DEF JoinWorker, Leave, workers, TypedWorkers
  <2>2. verdict' = verdict \/ verdict' = "err"
    BY <1>13 DEF JoinWorker
  <2>3. pc = "join" /\ kind = "multicore" /\ IF at < N THEN at' = at + 1 /\ pc' = pc ELSE at' = 1 /\ pc' = "returned"
    BY <1>13 DEF JoinWorker
  <2> QED BY <1>1, <2>1, <2>2, <2>3 DEF LoopMove
<1>14. CASE AcceptFails
  BY <1>14 DEF AcceptFails, Return, LoopMove
<1>s. ASSUME pc' = pc, at' = at, verdict' = verdict \/ verdict' = "err" PROVE LoopMove
  <2>1. ~LaunchWorker /\ ~DispatchStop
    <3>n. at \in Int /\ at + 1 # at
      BY <1>1 DEF Workers
    <3>1. ASSUME LaunchWorker PROVE FALSE
      <4>1. pc = "launch" /\ (NextWorker("confirm") \/ pc' = "join")
        BY <3>1 DEF LaunchWorker
      <4>2. at' = at + 1 \/ pc' = "confirm" \/ pc' = "join"
        BY <4>1 DEF NextWorker
      <4> QED BY <1>s, <3>n, <4>1, <4>2
    <3>2. ASSUME DispatchStop PROVE FALSE
      <4>1. pc = "stop" /\ (NextWorker("await") \/ pc' = "returned")
        BY <3>2 DEF DispatchStop, Return
      <4>2. at' = at + 1 \/ pc' = "await" \/ pc' = "returned"
        BY <4>1 DEF NextWorker
      <4> QED BY <1>s, <3>n, <4>1, <4>2
    <3> QED BY <3>1, <3>2
  <2> QED BY <1>s, <2>1 DEF LoopMove
<1>15. CASE DeadlinePasses \/ RequestShutdown \/ TakeWaker
  BY <1>s, <1>15 DEF DeadlinePasses, RequestShutdown, TakeWaker, loop
<1>16. ASSUME NEW c \in Conns, AcceptLocal(c) \/ Accept(c) \/ Serve(c) PROVE LoopMove
  <2>1. CASE AcceptLocal(c)
    BY <2>1 DEF AcceptLocal, LoopMove, LocalPhases
  <2>2. CASE Accept(c)
    BY <2>2 DEF Accept, LoopMove, SharedPhases
  <2>3. CASE Serve(c)
    BY <1>s, <2>3 DEF Serve, BeginConnection, ScheduleBackground, EndConnection,
       EndBackground, loop
  <2> QED BY <1>16, <2>1, <2>2, <2>3
<1>17. ASSUME NEW w \in Workers, Lifecycle(w) \/ WorkerLeaves(w) PROVE LoopMove
  <2>1. verdict' = verdict \/ verdict' = "err"
    BY <1>17 DEF Lifecycle, BeginStartup, StartupHook, BeginStop, ShutdownHook,
       WorkerLeaves, loop
  <2>2. pc' = pc /\ at' = at
    BY <1>17 DEF Lifecycle, BeginStartup, StartupHook, BeginStop, ShutdownHook,
       WorkerLeaves, loop
  <2> QED BY <1>s, <2>1, <2>2
<1> QED
  BY <1>2, <1>3, <1>4, <1>5, <1>6, <1>7, <1>8, <1>9, <1>10, <1>11, <1>12, <1>13, <1>14,
     <1>15, <1>16, <1>17
     DEF ServerNext, AcceptLoop

\* Every step keeps LoopOK.
LEMMA LoopStep == ASSUME LifeInv, ServerNext PROVE LoopOK'
<1>1. at \in Workers /\ at' \in Workers /\ N \in Nat \ {0} /\ Workers = 1 .. N /\ kind \in {"local", "multicore"}
  BY TypedParts, LoopTyped, Constants DEF LifeInv, TypedLoop
<1>n. at \in 1 .. N /\ at' \in 1 .. N /\ N \in Nat /\ (at < N => at + 1 \in 1 .. N)
  BY <1>1
<1>2. kind' = kind /\ Used' = Used /\ Used \subseteq Workers
  BY <1>1, KindStays, Constants DEF Used
<1>3. LoopOK /\ ChannelsOK /\ StoppedLate
  BY DEF LifeInv, Phases
<1>a. \A w \in Workers : app[w] \in Opened => app'[w] \in Opened /\ (app[w] = "stopped" => app'[w] = "stopped")
  BY OpenedStays
<1>b. \A w \in Workers : ~alive[w] => ~alive'[w]
  BY AliveFalls
<1>c. pc \notin Ending => \A w \in Workers :
        app[w] = "started" => app'[w] = "started" \/ (pc' = "await" /\ kind = "local" /\ app'[w] = "stopping")
  BY StartedStays
<1>d. pc \in Ending /\ Drained => Drained'
  BY DrainedStays
<1>m. LoopMove
  BY LoopSteps
<1>4. pc' = "launch" => \A w \in Workers : at' <= w => Unlaunched(w)'
  <2> SUFFICES ASSUME pc' = "launch", NEW w \in Workers, at' <= w PROVE Unlaunched(w)'
    OBVIOUS
  <2>1. w \in Workers /\ w \in 1 .. N
    BY <1>1
  <2>2. \/ pc = "launch" /\ at' = at /\ ~LaunchWorker
        \/ pc = "launch" /\ at' = at + 1
    BY <1>m DEF LoopMove, LocalPhases, SharedPhases
  <2>3. at <= w /\ ~(LaunchWorker /\ w = at)
    BY <1>1, <2>1, <2>2
  <2>4. Unlaunched(w)
    BY <1>3, <2>2, <2>3 DEF LoopOK
  <2> QED BY <2>1, <2>2, <2>3, <2>4, UnlaunchedStays
<1>5. pc' = "stop" => \A w \in Workers : at' <= w => Unstopped(w)'
  <2> SUFFICES ASSUME pc' = "stop", NEW w \in Workers, at' <= w PROVE Unstopped(w)'
    OBVIOUS
  <2>1. w \in Workers /\ w \in 1 .. N
    BY <1>1
  <2>2. \/ pc = "stop" /\ at' = at /\ ~DispatchStop
        \/ pc = "stop" /\ at' = at + 1
        \/ pc = "drain" /\ kind = "multicore"
    BY <1>m DEF LoopMove, LocalPhases, SharedPhases
  <2>3. CASE pc = "stop"
    <3>1. at <= w /\ ~(DispatchStop /\ w = at)
      BY <1>1, <2>1, <2>2, <2>3
    <3>2. Unstopped(w)
      BY <1>3, <2>3, <3>1 DEF LoopOK
    <3> QED BY <2>1, <2>3, <3>1, <3>2, UnstoppedStays
  <2>4. CASE pc = "drain" /\ kind = "multicore"
    <3>1. app'[w] = "started"
      BY <1>3, <1>c, <2>1, <2>4 DEF LoopOK, Accepting, Ending, Used
    <3>2. \A i \in 1 .. Len(inbox'[w]) : inbox'[w][i] # "stop"
      <4>1. ChannelsOK'
        BY ChannelsStep
      <4>2. \A i \in 1 .. Len(inbox[w]) : inbox[w][i] # "stop"
        BY <1>3, <2>1, <2>4 DEF ChannelsOK, Ending
      <4>3. inbox'[w] = inbox[w] \/ inbox'[w] = <<>> \/ Popped(w)
        BY <2>1, <2>4, ChannelSteps DEF LaunchWorker, DispatchStop
      <4> QED BY <4>2, <4>3 DEF Popped
    <3> QED BY <3>1, <3>2 DEF Unstopped
  <2> QED BY <2>2, <2>3, <2>4
<1>6. pc' = "launch" /\ kind' = "local" => at' = 1
  BY <1>2, <1>3, <1>m DEF LoopMove, LoopOK, LocalPhases, SharedPhases
<1>7. pc' = "confirm" /\ kind' = "multicore" => \A w \in Workers : w < at' => app'[w] = "started"
  <2> SUFFICES ASSUME pc' = "confirm", kind' = "multicore", NEW w \in Workers, w < at' PROVE app'[w] = "started"
    OBVIOUS
  <2>1. w \in 1 .. N /\ w < at' /\ w \in Workers
    BY <1>1
  <2>2. pc = "confirm" /\ app[w] = "started"
    BY <1>1, <1>2, <1>3, <1>m, <2>1 DEF LoopMove, LoopOK, LocalPhases, SharedPhases
  <2> QED BY <1>2, <1>c, <2>1, <2>2 DEF Ending
<1>8. pc' \in Accepting => \A w \in Used' : app'[w] = "started"
  <2> SUFFICES ASSUME pc' \in Accepting, NEW w \in Used PROVE app'[w] = "started"
    BY <1>2
  <2>1. pc \notin Ending /\ pc' # "await"
    BY <1>m DEF LoopMove, LocalPhases, SharedPhases, Accepting, Ending
  <2>2. \/ pc \in Accepting
        \/ pc = "confirm" /\ kind = "multicore" /\ app[at] = "started" /\ at = N
        \/ pc = "confirm" /\ kind = "local" /\ app[1] = "started"
    BY <1>m DEF LoopMove, LocalPhases, SharedPhases, Accepting
  <2>3. w \in Workers /\ (kind = "local" => w = 1) /\ (w \in 1 .. N - 1 \/ w = N)
    BY <1>1, <1>2 DEF Used
  <2>4. app[w] = "started"
    <3>1. CASE pc \in Accepting
      BY <1>3, <2>3, <3>1 DEF LoopOK
    <3>2. CASE pc = "confirm" /\ kind = "multicore" /\ app[at] = "started" /\ at = N
      <4>1. w = at \/ w < at
        BY <1>1, <2>3, <3>2
      <4> QED BY <1>3, <2>3, <3>2, <4>1 DEF LoopOK
    <3>3. CASE pc = "confirm" /\ kind = "local" /\ app[1] = "started"
      BY <2>3, <3>3
    <3> QED BY <2>2, <3>1, <3>2, <3>3
  <2> QED BY <1>c, <2>1, <2>3, <2>4
<1>9. pc' \in {"stop", "await"} => Drained' /\ \A w \in Used' : app'[w] \in Opened
  <2> SUFFICES ASSUME pc' \in {"stop", "await"} PROVE Drained' /\ \A w \in Used : app'[w] \in Opened
    BY <1>2
  <2>1. CASE pc \in {"stop", "await"}
    BY <1>2, <1>3, <1>a, <1>d, <2>1 DEF LoopOK, Ending
  <2>2. CASE pc \notin {"stop", "await"}
    <3>1. pc = "drain" /\ Drained'
      BY <1>m, <2>2 DEF LoopMove, LocalPhases, SharedPhases
    <3>2. \A w \in Used : app[w] \in Opened
      BY <1>3, <3>1 DEF LoopOK, Accepting, Opened
    <3> QED BY <1>2, <1>a, <3>1, <3>2
  <2> QED BY <2>1, <2>2
<1>10. pc' = "await" /\ kind' = "multicore" => \A w \in Workers : w < at' => app'[w] = "stopped"
  <2> SUFFICES ASSUME pc' = "await", kind' = "multicore", NEW w \in Workers, w < at' PROVE app'[w] = "stopped"
    OBVIOUS
  <2>1. w \in 1 .. N /\ w < at' /\ w \in Workers
    BY <1>1
  <2>2. pc = "await" /\ app[w] = "stopped"
    BY <1>1, <1>2, <1>3, <1>m, <2>1 DEF LoopMove, LoopOK, LocalPhases, SharedPhases
  <2> QED BY <1>a, <2>1, <2>2 DEF Opened
<1>11. pc' \in {"join", "returned"} /\ verdict' = "ok" => \A w \in Used' : app'[w] = "stopped"
  <2> SUFFICES ASSUME pc' \in {"join", "returned"}, verdict' = "ok", NEW w \in Used PROVE app'[w] = "stopped"
    BY <1>2
  <2>1. w \in Workers /\ (kind = "local" => w = 1) /\ (w \in 1 .. N - 1 \/ w = N)
    BY <1>1, <1>2 DEF Used
  <2>2. app[w] = "stopped"
    BY <1>1, <1>2, <1>3, <1>m, <2>1 DEF LoopMove, LoopOK, LocalPhases, SharedPhases
  <2> QED BY <1>a, <2>1, <2>2 DEF Opened
<1>12. pc' = "join" /\ verdict' = "ok" => \A w \in Workers : w < at' => ~alive'[w]
  <2> SUFFICES ASSUME pc' = "join", verdict' = "ok", NEW w \in Workers, w < at' PROVE ~alive'[w]
    OBVIOUS
  <2>1. w \in 1 .. N /\ w < at' /\ w \in Workers
    BY <1>1
  <2>2. ~alive[w] \/ ~alive'[w]
    BY <1>1, <1>3, <1>m, <2>1 DEF LoopMove, LoopOK, LocalPhases, SharedPhases
  <2> QED BY <1>b, <2>1, <2>2
<1>13. pc' = "returned" /\ verdict' = "ok" /\ kind' = "multicore" => \A w \in Workers : ~alive'[w]
  <2> SUFFICES ASSUME pc' = "returned", verdict' = "ok", kind' = "multicore", NEW w \in Workers PROVE ~alive'[w]
    OBVIOUS
  <2>1. w \in 1 .. N - 1 \/ w = N
    BY <1>1
  <2>2. ~alive[w] \/ ~alive'[w]
    BY <1>1, <1>2, <1>3, <1>m, <2>1 DEF LoopMove, LoopOK, LocalPhases, SharedPhases
  <2> QED BY <1>b, <2>2
<1>14. pc' \in {"loop", "accept", "limit", "dispatch", "stop", "join"} => kind' = "multicore"
  BY <1>2, <1>3, <1>m DEF LoopMove, LoopOK, LocalPhases, SharedPhases
<1> QED
  BY <1>4, <1>5, <1>6, <1>7, <1>8, <1>9, <1>10, <1>11, <1>12, <1>13, <1>14 DEF LoopOK,
     Workers

\* Every step keeps StoppedLate.
LEMMA StoppedStep == ASSUME LifeInv, ServerNext PROVE StoppedLate'
<1> SUFFICES ASSUME NEW w \in Workers, app'[w] \in {"stopping", "stopped"} PROVE pc' \in Ending /\ Drained'
  BY DEF StoppedLate
<1>1. CASE app[w] \in {"stopping", "stopped"}
  BY <1>1, DrainedStays DEF LifeInv, Phases, StoppedLate
<1>2. CASE app[w] \notin {"stopping", "stopped"}
  <2>1. \/ pc = "drain" /\ kind = "local" /\ pc' = "await"
        \/ inbox[w] # <<>> /\ inbox[w][1] = "stop"
    BY <1>2, AppSteps
  <2>2. CASE inbox[w] # <<>> /\ inbox[w][1] = "stop"
    <3>1. 1 \in 1 .. Len(inbox[w])
      BY <2>2, TypedParts DEF LifeInv, TypedWorkers
    <3> QED BY <2>2, <3>1, DrainedStays DEF LifeInv, Phases, ChannelsOK
  <2>3. CASE pc' = "await"
    BY <2>3, LoopStep DEF LoopOK, Ending
  <2> QED BY <2>1, <2>2, <2>3
<1> QED BY <1>1, <1>2

AcceptMove(c) ==
  /\ conn[c] = "waiting" /\ conn'[c] \in {"held", "refused", "queued"}
  /\ pc \in {"poll", "asleep", "accept"} /\ pc' \in {"poll", "limit"}
  /\ conn'[c] = "queued" => kind = "local"
CountMove(c) == conn[c] = "held" /\ conn'[c] \in {"refused", "counted"} /\ kind = "multicore"
DispatchMove(c) ==
  /\ conn[c] = "counted" /\ conn'[c] \in {"refused", "queued"}
  /\ conn'[c] = "queued" => alive[owner[c]]
ServeMove(c) ==
  \/ conn[c] = "queued" /\ conn'[c] = "live" /\ alive[owner[c]]
  \/ conn[c] = "live" /\ conn'[c] = "ended"
TaskRests(c) == task'[c] = task[c] /\ counted'[c] = counted[c]
TaskMove(c) ==
  \/ /\ conn[c] = "live" /\ alive[owner[c]] /\ task[c] = "none" /\ task'[c] = "spawned"
     /\ counted'[c] = installed[owner[c]]
  \/ task[c] = "spawned" /\ task'[c] = "ended"
OwnerGone(c) ==
  /\ ~alive'[owner[c]] /\ owner'[c] = owner[c] /\ counted'[c] = counted[c]
  /\ conn'[c] \notin {"queued", "live"} /\ task'[c] # "spawned"
  /\ task[c] = "none" => task'[c] = "none"
  /\ conn'[c] = conn[c] \/ conn[c] \in {"queued", "live"}
  /\ conn[c] \in {"queued", "live"} => conn'[c] \in {"ended", "lost"}
OwnerStays(c) == owner'[c] = owner[c] /\ alive'[owner[c]] = alive[owner[c]]

\* What a step does to one connection.
LEMMA ConnSteps ==
  ASSUME LifeInv, ServerNext, NEW c \in Conns
  PROVE  \/ OwnerStays(c) /\ TaskRests(c) /\ conn'[c] = conn[c]
         \/ OwnerStays(c) /\ TaskRests(c) /\ AcceptMove(c)
         \/ TaskRests(c) /\ CountMove(c) 
         \/ OwnerStays(c) /\ TaskRests(c) /\ DispatchMove(c)
         \/ OwnerStays(c) /\ TaskRests(c) /\ ServeMove(c)
         \/ OwnerStays(c) /\ TaskMove(c) /\ conn'[c] = conn[c]
         \/ OwnerGone(c)
<1>1. TypedHandling /\ TypedLoop /\ TypedWorkers /\ HeldByLoop
  BY TypedParts DEF LifeInv, Counts
<1>2. ASSUME alive' = alive, owner' = owner PROVE OwnerStays(c)
  BY <1>2 DEF OwnerStays
<1>3. ASSUME task' = task, counted' = counted PROVE TaskRests(c)
  BY <1>3 DEF TaskRests
<1>4. CASE CountConnection
  <2>1. conn[held] = "held" /\ held \in Conns /\ kind = "multicore" /\ task' = task /\ counted' = counted /\ alive' = alive
    BY <1>1, <1>4 DEF CountConnection, HeldByLoop, workers
  <2>2. CASE c = held
    BY <1>1, <1>3, <1>4, <2>1, <2>2 DEF CountConnection, CountMove, TypedHandling
  <2>3. CASE c # held
    BY <1>1, <1>3, <1>4, <2>1, <2>3 DEF CountConnection, OwnerStays, TypedHandling
  <2> QED BY <2>2, <2>3
<1>5. CASE DispatchConnection
  <2>1. /\ conn[held] = "counted" /\ held \in Conns /\ task' = task /\ counted' = counted
        /\ alive' = alive /\ owner' = owner
    BY <1>1, <1>5 DEF DispatchConnection, HeldByLoop
  <2>2. CASE c = held
    BY <1>1, <1>2, <1>3, <1>5, <2>1, <2>2 DEF DispatchConnection, DispatchMove,
       TypedHandling
  <2>3. CASE c # held
    BY <1>1, <1>2, <1>3, <1>5, <2>1, <2>3 DEF DispatchConnection, TypedHandling
  <2> QED BY <2>2, <2>3
<1>6. ASSUME NEW d \in Conns, AcceptLocal(d) \/ Accept(d)
      PROVE  OwnerStays(c) /\ TaskRests(c) /\ (conn'[c] = conn[c] \/ AcceptMove(c))
  <2>1. OwnerStays(c) /\ TaskRests(c)
    BY <1>2, <1>3, <1>6 DEF AcceptLocal, Accept, workers
  <2>2. CASE c = d
    BY <1>1, <1>6, <2>1, <2>2 DEF AcceptLocal, Accept, AcceptMove, TypedHandling
  <2>3. CASE c # d
    BY <1>1, <1>6, <2>1, <2>3 DEF AcceptLocal, Accept, TypedHandling
  <2> QED BY <2>1, <2>2, <2>3
<1>7. ASSUME NEW d \in Conns, BeginConnection(d) \/ EndConnection(d)
      PROVE  OwnerStays(c) /\ TaskRests(c) /\ (conn'[c] = conn[c] \/ ServeMove(c))
  <2>1. OwnerStays(c) /\ TaskRests(c)
    BY <1>2, <1>3, <1>7 DEF BeginConnection, EndConnection, workers
  <2>2. CASE c = d
    BY <1>1, <1>7, <2>1, <2>2 DEF BeginConnection, EndConnection, ServeMove, Running,
       TypedHandling
  <2>3. CASE c # d
    BY <1>1, <1>7, <2>1, <2>3 DEF BeginConnection, EndConnection, TypedHandling
  <2> QED BY <2>1, <2>2, <2>3
<1>8. ASSUME NEW d \in Conns, ScheduleBackground(d) \/ EndBackground(d)
      PROVE  OwnerStays(c) /\ conn'[c] = conn[c] /\ (TaskRests(c) \/ TaskMove(c))
  <2>1. OwnerStays(c) /\ conn'[c] = conn[c]
    BY <1>2, <1>8 DEF ScheduleBackground, EndBackground, workers
  <2>2. CASE c = d
    BY <1>1, <1>8, <2>1, <2>2 DEF ScheduleBackground, EndBackground, TaskMove, Running,
       TypedHandling
  <2>3. CASE c # d
    BY <1>1, <1>8, <2>1, <2>3 DEF ScheduleBackground, EndBackground, TaskRests,
       TypedHandling
  <2> QED BY <2>1, <2>2, <2>3
<1>9. ASSUME NEW w \in Workers, Leave(w)
      PROVE  OwnerGone(c) \/ (OwnerStays(c) /\ TaskRests(c) /\ conn'[c] = conn[c])
  <2>1. /\ owner' = owner /\ counted' = counted /\ alive' = [alive EXCEPT ![w] = FALSE]
        /\ conn'[c] = IF c \in Dropped(w) THEN "ended"
                      ELSE IF owner[c] = w /\ conn[c] = "queued" THEN "lost" ELSE conn[c]
        /\ task'[c] = IF c \in DroppedTasks(w) THEN "ended" ELSE task[c]
    BY <1>9 DEF Leave
  <2>2. CASE owner[c] = w
    <3>1. ~alive'[w]
      BY <1>1, <2>1 DEF TypedWorkers
    <3> QED BY <2>1, <2>2, <3>1 DEF OwnerGone, Dropped, DroppedTasks
  <2>3. CASE owner[c] # w
    <3>1. alive'[owner[c]] = alive[owner[c]]
      BY <1>1, <2>1, <2>3 DEF TypedWorkers, TypedHandling
    <3> QED BY <2>1, <2>3, <3>1 DEF OwnerStays, TaskRests, Dropped, DroppedTasks
  <2> QED BY <2>2, <2>3
<1>10. CASE ~HandlingMoves
  <2>1. alive' = alive
    BY <1>10, AliveKept DEF HandlingMoves
  <2> QED BY <1>2, <1>3, <1>10, <2>1, HandlingRests
<1> QED BY <1>4, <1>5, <1>6, <1>7, <1>8, <1>9, <1>10 DEF HandlingMoves, Serve

\* Every step keeps ConnsOK.
LEMMA ConnsStep == ASSUME LifeInv, ServerNext PROVE ConnsOK'
<1> SUFFICES ASSUME NEW c \in Conns
             PROVE  /\ conn'[c] # "waiting" =>
                         pc' \notin {"launch", "confirm"} /\ \A w \in Used' : app'[w] \in Opened
                    /\ conn'[c] \in {"waiting", "held"} => task'[c] = "none"
                    /\ task'[c] = "spawned" => counted'[c] \/ expired'
                    /\ kind' = "local" => owner'[c] = 1
                    /\ ~alive'[owner'[c]] => conn'[c] \notin {"queued", "live"} /\ task'[c] # "spawned"
  BY DEF ConnsOK
<1>1. /\ conn[c] # "waiting" =>
           pc \notin {"launch", "confirm"} /\ \A w \in Used : app[w] \in Opened
      /\ conn[c] \in {"waiting", "held"} => task[c] = "none"
      /\ task[c] = "spawned" => counted[c] \/ expired
      /\ kind = "local" => owner[c] = 1
      /\ ~alive[owner[c]] => conn[c] \notin {"queued", "live"} /\ task[c] # "spawned"
  BY DEF LifeInv, Counts, ConnsOK
<1>2. kind' = kind /\ Used' = Used /\ Used \subseteq Workers
  BY KindStays, Constants DEF Used
<1>3. expired => expired'
  BY ExpiredStays
<1>4. conn'[c] # "waiting" => pc' \notin {"launch", "confirm"} /\ \A w \in Used' : app'[w] \in Opened
  <2>1. CASE conn[c] # "waiting"
    <3>1. pc' \notin {"launch", "confirm"}
      BY <1>1, <2>1, LoopSteps DEF LoopMove, LocalPhases, SharedPhases
    <3> QED BY <1>1, <1>2, <2>1, <3>1, OpenedStays
  <2>2. CASE conn[c] = "waiting" /\ conn'[c] # "waiting"
    <3>1. pc' \in {"poll", "limit"}
      BY <2>2, ConnSteps DEF AcceptMove, CountMove, DispatchMove, ServeMove, OwnerGone
    <3> QED BY <3>1, LoopStep DEF LoopOK, Accepting, Opened
  <2> QED BY <2>1, <2>2
<1>5. TaskMove(c) /\ task'[c] = "spawned" => counted'[c] \/ expired'
  <2> SUFFICES ASSUME TaskMove(c), task'[c] = "spawned", ~expired PROVE counted'[c]
    BY <1>3
  <2>1. conn[c] = "live" /\ counted'[c] = installed[owner[c]]
    BY DEF TaskMove
  <2>2. active # 0
    BY <2>1, NothingLeft
  <2>3. owner[c] \in Workers /\ kind \in {"local", "multicore"}
    BY TypedParts DEF LifeInv, TypedHandling, TypedLoop
  <2>4. owner[c] \in Used /\ app[owner[c]] \in Opened
    BY <1>1, <2>1, <2>3 DEF Used
  <2>5. app[owner[c]] = "started"
    BY <2>2, <2>3, <2>4 DEF LifeInv, Phases, StoppedLate, Drained, Opened
  <2>6. installed[owner[c]]
    BY <1>1, <2>1, <2>3, <2>5 DEF LifeInv, Counts, CounterInstalled
  <2> QED BY <2>1, <2>6
<1>6. conn[c] = "waiting" /\ kind = "local" => alive[owner[c]]
  BY <1>1 DEF LifeInv, Counts, CounterInstalled
<1> DEFINE Rest ==
             /\ conn'[c] \in {"waiting", "held"} => task'[c] = "none"
             /\ task'[c] = "spawned" => counted'[c] \/ expired'
             /\ kind' = "local" => owner'[c] = 1
             /\ ~alive'[owner'[c]] => conn'[c] \notin {"queued", "live"} /\ task'[c] # "spawned"
<1> SUFFICES Rest
  BY <1>4
<1>7. CASE OwnerStays(c) /\ TaskRests(c) /\ conn'[c] = conn[c]
  BY <1>1, <1>2, <1>3, <1>7 DEF OwnerStays, TaskRests
<1>8. CASE OwnerStays(c) /\ TaskRests(c) /\ AcceptMove(c)
  BY <1>1, <1>2, <1>3, <1>6, <1>8 DEF OwnerStays, TaskRests, AcceptMove
<1>9. CASE TaskRests(c) /\ CountMove(c)
  BY <1>1, <1>2, <1>3, <1>9 DEF TaskRests, CountMove
<1>10. CASE OwnerStays(c) /\ TaskRests(c) /\ (DispatchMove(c) \/ ServeMove(c))
  BY <1>1, <1>2, <1>3, <1>10 DEF OwnerStays, TaskRests, DispatchMove, ServeMove
<1>11. CASE OwnerStays(c) /\ TaskMove(c) /\ conn'[c] = conn[c]
  BY <1>1, <1>2, <1>3, <1>5, <1>11 DEF OwnerStays, TaskMove
<1>12. CASE OwnerGone(c)
  BY <1>1, <1>2, <1>3, <1>12 DEF OwnerGone
<1>13. \/ OwnerStays(c) /\ TaskRests(c) /\ conn'[c] = conn[c]
       \/ OwnerStays(c) /\ TaskRests(c) /\ AcceptMove(c)
       \/ TaskRests(c) /\ CountMove(c)
       \/ OwnerStays(c) /\ TaskRests(c) /\ (DispatchMove(c) \/ ServeMove(c))
       \/ OwnerStays(c) /\ TaskMove(c) /\ conn'[c] = conn[c]
       \/ OwnerGone(c)
  BY ConnSteps
<1> HIDE DEF Rest
<1> QED BY <1>7, <1>8, <1>9, <1>10, <1>11, <1>12, <1>13

\* Every step keeps HeldByLoop.
LEMMA HeldStep == ASSUME LifeInv, ServerNext PROVE HeldByLoop'
<1>1. HeldByLoop
  BY DEF LifeInv, Counts
<1>2. CASE \E c \in Conns : Accept(c)
  BY <1>2, TypedParts DEF Accept, HeldByLoop, LifeInv, TypedHandling
<1>3. CASE CountConnection
  BY <1>1, <1>3, TypedParts DEF CountConnection, HeldByLoop, LifeInv, TypedHandling
<1>4. CASE DispatchConnection
  BY <1>4 DEF DispatchConnection, Return, HeldByLoop
<1>5. CASE ~CountConnection /\ ~DispatchConnection /\ ~(\E c \in Conns : Accept(c))
  <2>1. held' = held /\ (pc' \in {"limit", "dispatch"} => pc' = pc)
    BY <1>5 DEF ServerNext, AcceptLoop, LaunchLocal, LaunchWorker, ConfirmLocal,
       ConfirmWorker,
         PollFlag, PollStore, PollReload, PollWoken, TestRequested, AcceptNothing,
         DrainEnds, DispatchStop, StoppedLocal,
         AwaitStop, JoinWorker, AcceptFails, DeadlinePasses, RequestShutdown, TakeWaker,
         AcceptLocal, Serve, BeginConnection, ScheduleBackground, EndConnection,
         EndBackground, Lifecycle, BeginStartup, StartupHook, BeginStop, ShutdownHook,
         WorkerLeaves, Leave, Return, NextWorker, loop
  <2>2. ASSUME held \in Conns, conn[held] \in {"held", "counted"}, pc \in {"limit", "dispatch"}
        PROVE  conn'[held] = conn[held]
    <3>1. CASE \E c \in Conns : AcceptLocal(c) \/ Serve(c)
      BY <2>2, <3>1, TypedParts DEF AcceptLocal, Serve, BeginConnection,
         ScheduleBackground, EndConnection,
         EndBackground, LifeInv, TypedHandling
    <3>2. CASE \E w \in Workers : Leave(w)
      BY <2>2, <3>2 DEF Leave, Dropped
    <3> QED BY <1>5, <3>1, <3>2, HandlingRests DEF HandlingMoves
  <2> QED BY <1>1, <2>1, <2>2 DEF HeldByLoop
<1> QED BY <1>2, <1>3, <1>4, <1>5

\* What a step does to the installation of one drain counter.
LEMMA InstalledSteps ==
  ASSUME LifeInv, ServerNext, NEW w \in Workers
  PROVE  \/ installed'[w] = installed[w] 
         \/ installed'[w] = TRUE
         \/ app'[w] = "stopping"
<1>1. TypedWorkers
  BY TypedParts DEF LifeInv
<1>2. ASSUME NEW v \in Workers, Lifecycle(v)
      PROVE  installed'[w] = installed[w] \/ installed'[w] = TRUE \/ app'[w] = "stopping"
  BY <1>1, <1>2 DEF Lifecycle, BeginStartup, StartupHook, BeginStop, ShutdownHook,
     TypedWorkers
<1>3. CASE ConfirmLocal
  BY <1>1, <1>3 DEF ConfirmLocal, TypedWorkers
<1>4. CASE WorkersMove /\ ~ConfirmLocal /\ ~\E v \in Workers : Lifecycle(v)
  BY <1>4 DEF WorkersMove, LaunchLocal, LaunchWorker, DispatchConnection, DrainEnds,
     DispatchStop,
     AcceptLocal, BeginConnection, Leave
<1>5. CASE ~WorkersMove
  BY <1>5, WorkersRest
<1> QED BY <1>2, <1>3, <1>4, <1>5

\* Only a worker of the multicore server leaves.
LEMMA LeaveIsShared == ASSUME LifeInv, ServerNext, NEW w \in Workers, Leave(w) PROVE kind = "multicore"
<1>1. alive' # alive
  BY TypedParts DEF Leave, LifeInv, TypedWorkers
<1> QED BY <1>1 DEF ServerNext, AcceptLoop, LaunchLocal, LaunchWorker, ConfirmLocal,
   ConfirmWorker,
         PollFlag, PollStore, PollReload, PollWoken, TestRequested, AcceptNothing,
         CountConnection, DispatchConnection, DrainEnds, DispatchStop, StoppedLocal,
         AwaitStop, JoinWorker, AcceptFails, DeadlinePasses, RequestShutdown, TakeWaker,
         AcceptLocal, Accept, Serve, BeginConnection, ScheduleBackground, EndConnection,
         EndBackground, Lifecycle, BeginStartup, StartupHook, BeginStop, ShutdownHook,
         WorkerLeaves, workers

\* Every step keeps CounterInstalled.
LEMMA InstalledStep == ASSUME LifeInv, ServerNext PROVE CounterInstalled'
<1>1. kind' = kind /\ 1 \in Workers /\ CounterInstalled /\ TypedWorkers
  BY KindStays, Constants, TypedParts DEF LifeInv, Counts
<1>2. ASSUME kind = "local" PROVE alive'[1]
  <2>1. alive[1]
    BY <1>1, <1>2 DEF CounterInstalled
  <2> QED BY <1>2, <2>1, AliveKept, LeaveIsShared
<1>3. ASSUME kind = "local", pc' \notin {"launch", "confirm"}
      PROVE  app'[1] \notin {"none", "starting"} /\ (app'[1] = "started" => installed'[1])
  <2>1. CASE ConfirmLocal
    BY <1>1, <2>1 DEF ConfirmLocal, TypedWorkers
  <2>2. CASE ~ConfirmLocal
    <3>1. pc \notin {"launch", "confirm"}
      BY <1>3, <2>2 DEF ServerNext, AcceptLoop, LaunchLocal, LaunchWorker, ConfirmWorker,
         PollFlag, PollStore, PollReload, PollWoken, TestRequested, AcceptNothing,
         CountConnection, DispatchConnection, DrainEnds, DispatchStop, StoppedLocal,
         AwaitStop, JoinWorker, AcceptFails, DeadlinePasses, RequestShutdown, TakeWaker,
         AcceptLocal, Accept, Serve, BeginConnection, ScheduleBackground, EndConnection,
         EndBackground, Lifecycle, BeginStartup, StartupHook, BeginStop, ShutdownHook,
         WorkerLeaves, loop
    <3>2. app[1] \notin {"none", "starting"} /\ (app[1] = "started" => installed[1])
      BY <1>1, <1>3, <3>1 DEF CounterInstalled
    <3>3. app'[1] \notin {"none", "starting"} /\ (app'[1] = "started" => app[1] = "started")
      BY <1>1, <3>2, AppSteps
    <3> QED BY <1>1, <3>2, <3>3, InstalledSteps
  <2> QED BY <2>1, <2>2
<1>4. ASSUME kind = "multicore", NEW w \in Workers, app'[w] \in {"starting", "started"}
      PROVE  installed'[w]
  <2>1. CASE app[w] \in {"starting", "started"}
    <3>1. installed[w]
      BY <1>1, <1>4, <2>1 DEF CounterInstalled
    <3> QED BY <1>4, <3>1, InstalledSteps
  <2>2. CASE app[w] \notin {"starting", "started"}
    <3>1. app[w] = "none" /\ app'[w] \in {"starting", "failed"}
      BY <1>1, <1>4, <2>2, AppSteps
    <3>2. (pc = "launch" /\ kind = "local") \/ installed'[w]
      BY <3>1, AppSteps
    <3> QED BY <1>4, <3>2
  <2> QED BY <2>1, <2>2
<1> QED BY <1>1, <1>2, <1>3, <1>4 DEF CounterInstalled

\* The counters after a step, and the cap.
Counted ==
  /\ connections = Cardinality(Admitted) /\ connections \in Nat
  /\ active = connections + Cardinality(CountedTasks) /\ active \in Nat
  /\ kind = "multicore" => \A w \in Workers : loads[w] = Cardinality(CountedOn(w))
  /\ connections <= MaxConnections

\* The invariant says that the counters are right,
LEMMA CountedNow == LifeInv => Counted
BY DEF LifeInv, ServerTypeOK, Counts, CountsAgree, Counted, CountedOn

\* and Counted is what it says of them.
LEMMA CountedMeans == Counted' => CountsAgree' /\ (connections <= MaxConnections)'
BY DEF Counted, CountsAgree, CountedOn

\* Nothing the counters stand for changes.
LEMMA NothingCounted ==
  ASSUME LifeInv, kind' = kind, Admitted' = Admitted, CountedTasks' = CountedTasks,
         \A c \in Admitted : owner'[c] = owner[c],
         active' = active, connections' = connections, loads' = loads
  PROVE  Counted'
<1>1. \A w \in Workers : CountedOn(w)' = CountedOn(w)
  BY DEF CountedOn
<1> QED BY <1>1, CountedNow DEF Counted

\* A connection is admitted on worker w.
LEMMA OneAdmitted ==
  ASSUME LifeInv, NEW c \in Conns, NEW w \in Workers, c \notin Admitted,
         kind' = kind, Admitted' = Admitted \cup {c}, CountedTasks' = CountedTasks,
         \A d \in Admitted : owner'[d] = owner[d], owner'[c] = w,
         connections < MaxConnections,
         active' = active + 1, connections' = connections + 1,
         kind = "multicore" => loads' = [loads EXCEPT ![w] = @ + 1]
  PROVE  Counted'
<1>1. Counted /\ loads \in [Workers -> Nat]
  BY CountedNow DEF LifeInv, ServerTypeOK
<1>2. Cardinality(Admitted') = Cardinality(Admitted) + 1
  BY CardMore, Finite
<1>3. ASSUME NEW v \in Workers, v # w PROVE CountedOn(v)' = CountedOn(v)
  BY <1>3 DEF CountedOn
<1>4. CountedOn(w)' = CountedOn(w) \cup {c} /\ c \notin CountedOn(w)
  BY DEF CountedOn
<1>5. Cardinality(CountedOn(w)') = Cardinality(CountedOn(w)) + 1
  BY <1>4, CardMore, Finite
<1>6. ASSUME kind = "multicore", NEW v \in Workers PROVE loads'[v] = Cardinality(CountedOn(v)')
  <2>1. CASE v = w
    BY <1>1, <1>5, <1>6, <2>1 DEF Counted
  <2>2. CASE v # w
    BY <1>1, <1>3, <1>6, <2>2 DEF Counted
  <2> QED BY <2>1, <2>2
<1>7. Cardinality(CountedTasks) \in Nat /\ MaxConnections \in Nat
  BY Finite, CapAssumption
<1>8. /\ connections' = Cardinality(Admitted') /\ connections' \in Nat
      /\ active' = connections' + Cardinality(CountedTasks') /\ active' \in Nat
      /\ connections' <= MaxConnections
  BY <1>1, <1>2, <1>7 DEF Counted
<1> QED BY <1>6, <1>8 DEF Counted

\* An admitted connection gives its counts back.
LEMMA OneReleased ==
  ASSUME LifeInv, NEW c \in Conns, c \in Admitted,
         kind' = kind, Admitted' = Admitted \ {c}, CountedTasks' = CountedTasks, owner' = owner,
         active' = active - 1, connections' = connections - 1,
         kind = "multicore" => loads' = [loads EXCEPT ![owner[c]] = @ - 1]
  PROVE  Counted'
<1>1. Counted /\ loads \in [Workers -> Nat] /\ owner[c] \in Workers
  BY CountedNow DEF LifeInv, ServerTypeOK
<1>2. /\ Cardinality(Admitted') = Cardinality(Admitted) - 1
      /\ Cardinality(Admitted) \in Nat \ {0} /\ Cardinality(Admitted) - 1 \in Nat
  BY CardFewer, Finite
<1>3. ASSUME NEW v \in Workers, v # owner[c] PROVE CountedOn(v)' = CountedOn(v)
  BY <1>3 DEF CountedOn
<1>4. CountedOn(owner[c])' = CountedOn(owner[c]) \ {c} /\ c \in CountedOn(owner[c])
  BY DEF CountedOn
<1>5. Cardinality(CountedOn(owner[c])') = Cardinality(CountedOn(owner[c])) - 1
  BY <1>4, CardFewer, Finite
<1>6. ASSUME kind = "multicore", NEW v \in Workers PROVE loads'[v] = Cardinality(CountedOn(v)')
  <2>1. CASE v = owner[c]
    BY <1>1, <1>5, <1>6, <2>1 DEF Counted
  <2>2. CASE v # owner[c]
    BY <1>1, <1>3, <1>6, <2>2 DEF Counted
  <2> QED BY <2>1, <2>2
<1>7. Cardinality(CountedTasks) \in Nat /\ MaxConnections \in Nat
  BY Finite, CapAssumption
<1>8. /\ connections' = Cardinality(Admitted') /\ connections' \in Nat
      /\ active' = connections' + Cardinality(CountedTasks') /\ active' \in Nat
      /\ connections' <= MaxConnections
  BY <1>1, <1>2, <1>7 DEF Counted
<1> QED BY <1>6, <1>8 DEF Counted

\* One counted batch of background tasks is scheduled, or ends.
LEMMA OneTask ==
  ASSUME LifeInv, NEW c \in Conns, kind' = kind, Admitted' = Admitted, owner' = owner,
         connections' = connections, loads' = loads,
         \/ c \notin CountedTasks /\ CountedTasks' = CountedTasks \cup {c} /\ active' = active + 1
         \/ c \in CountedTasks /\ CountedTasks' = CountedTasks \ {c} /\ active' = active - 1
  PROVE  Counted'
<1>1. Counted
  BY CountedNow
<1>2. \/ Cardinality(CountedTasks') = Cardinality(CountedTasks) + 1 /\ active' = active + 1
      \/ /\ Cardinality(CountedTasks') = Cardinality(CountedTasks) - 1 /\ active' = active - 1
         /\ Cardinality(CountedTasks) \in Nat \ {0} /\ Cardinality(CountedTasks) - 1 \in Nat
  BY CardMore, CardFewer, Finite
<1>3. Cardinality(CountedTasks) \in Nat
  BY Finite
<1>4. \A w \in Workers : CountedOn(w)' = CountedOn(w)
  BY DEF CountedOn
<1>5. active' = connections' + Cardinality(CountedTasks') /\ active' \in Nat
  BY <1>1, <1>2, <1>3 DEF Counted
<1> QED BY <1>1, <1>4, <1>5 DEF Counted

\* A worker that leaves gives back the counts of what it ran.
LEMMA WorkerReleased ==
  ASSUME LifeInv, ServerNext, NEW w \in Workers, Leave(w)
  PROVE  Counted'
<1> DEFINE D == Dropped(w)
           T == {c \in DroppedTasks(w) : counted[c]}
<1>1. /\ Counted /\ loads \in [Workers -> Nat] /\ kind = "multicore" /\ kind' = kind
      /\ owner \in [Conns -> Workers]
  BY CountedNow, LeaveIsShared, KindStays DEF LifeInv, ServerTypeOK
<1>2. D \subseteq Admitted /\ T \subseteq CountedTasks /\ D \subseteq CountedOn(w)
  BY DEF Dropped, DroppedTasks, Admitted, CountedTasks, CountedOn
<1>3. /\ owner' = owner /\ counted' = counted
      /\ \A c \in Conns : conn'[c] = IF c \in D THEN "ended"
                                     ELSE IF owner[c] = w /\ conn[c] = "queued" THEN "lost" ELSE conn[c]
      /\ \A c \in Conns : task'[c] = IF c \in DroppedTasks(w) THEN "ended" ELSE task[c]
      /\ active' = active - Cardinality(D) - Cardinality(T)
      /\ connections' = connections - Cardinality(D)
      /\ loads' = [loads EXCEPT ![w] = @ - Cardinality(D)]
  BY DEF Leave
<1>4. Admitted' = Admitted \ D
  BY <1>3 DEF Admitted, Dropped
<1>5. CountedTasks' = CountedTasks \ T
  BY <1>3 DEF CountedTasks, DroppedTasks
<1>6. CountedOn(w)' = CountedOn(w) \ D
  BY <1>3, <1>4 DEF CountedOn
<1>7. ASSUME NEW v \in Workers, v # w PROVE CountedOn(v)' = CountedOn(v)
  BY <1>3, <1>4, <1>7 DEF CountedOn, Dropped
<1> HIDE DEF D, T
<1>8. /\ Cardinality(D) \in Nat /\ Cardinality(Admitted') = Cardinality(Admitted) - Cardinality(D)
      /\ Cardinality(D) <= Cardinality(Admitted)
  BY <1>2, <1>4, CardLess, Finite
<1>9. /\ Cardinality(T) \in Nat /\ Cardinality(CountedTasks') = Cardinality(CountedTasks) - Cardinality(T)
      /\ Cardinality(T) <= Cardinality(CountedTasks)
  BY <1>2, <1>5, CardLess, Finite
<1>10. Cardinality(CountedOn(w)') = Cardinality(CountedOn(w)) - Cardinality(D)
  BY <1>2, <1>6, CardLess, Finite
<1>11. ASSUME NEW v \in Workers PROVE loads'[v] = Cardinality(CountedOn(v)')
  <2>1. CASE v = w
    BY <1>1, <1>3, <1>10, <2>1 DEF Counted
  <2>2. CASE v # w
    BY <1>1, <1>3, <1>7, <2>2 DEF Counted
  <2> QED BY <2>1, <2>2
<1>12. Cardinality(Admitted) \in Nat /\ Cardinality(CountedTasks) \in Nat /\ MaxConnections \in Nat
  BY Finite, CapAssumption
<1>13. /\ connections' = Cardinality(Admitted') /\ connections' \in Nat
       /\ connections' <= MaxConnections
  BY <1>1, <1>3, <1>8, <1>12 DEF Counted
<1>14. active' = connections' + Cardinality(CountedTasks') /\ active' \in Nat
  BY <1>1, <1>3, <1>8, <1>9, <1>12 DEF Counted
<1> QED BY <1>11, <1>13, <1>14 DEF Counted

\* Every step keeps the counters right and the cap.
LEMMA CountsStep == ASSUME LifeInv, ServerNext PROVE Counted'
<1>1. /\ TypedHandling /\ TypedLoop /\ TypedWorkers /\ HeldByLoop /\ Counted /\ MaxConnections \in Nat
      /\ kind' = kind
  BY TypedParts, CountedNow, CapAssumption, KindStays DEF LifeInv, Counts
<1>2. CASE CountConnection
  <2>1. /\ held \in Conns /\ conn[held] = "held" /\ held \notin Admitted /\ kind = "multicore"
        /\ task' = task /\ counted' = counted
    BY <1>1, <1>2 DEF CountConnection, HeldByLoop, Admitted
  <2>2. CountedTasks' = CountedTasks
    BY <2>1 DEF CountedTasks
  <2>3. CASE connections >= MaxConnections
    <3>1. conn' = [conn EXCEPT ![held] = "refused"] /\ UNCHANGED <<owner, active, connections, loads>>
      BY <1>2, <2>3 DEF CountConnection, counters
    <3>2. Admitted' = Admitted
      BY <1>1, <2>1, <3>1 DEF Admitted, TypedHandling
    <3> QED BY <1>1, <2>2, <3>1, <3>2, NothingCounted
  <2>4. CASE ~(connections >= MaxConnections)
    <3>1. PICK k \in 0 .. N - 1 :
             /\ conn' = [conn EXCEPT ![held] = "counted"]
             /\ owner' = [owner EXCEPT ![held] = Scanned(k)]
             /\ loads' = [loads EXCEPT ![Scanned(k)] = @ + 1]
             /\ active' = active + 1 /\ connections' = connections + 1
      BY <1>2, <2>4 DEF CountConnection
    <3>2. Scanned(k) \in Workers /\ connections < MaxConnections
      BY <1>1, <2>4, ScannedType DEF TypedLoop, Counted
    <3>3. Admitted' = Admitted \cup {held}
      BY <1>1, <2>1, <3>1 DEF Admitted, TypedHandling
    <3>4. owner'[held] = Scanned(k) /\ \A d \in Admitted : owner'[d] = owner[d]
      BY <1>1, <2>1, <3>1 DEF TypedHandling, Admitted
    <3> QED BY <1>1, <2>1, <2>2, <3>1, <3>2, <3>3, <3>4, OneAdmitted
  <2> QED BY <2>3, <2>4
<1>3. CASE DispatchConnection
  <2>1. /\ held \in Conns /\ conn[held] = "counted" /\ held \in Admitted
        /\ task' = task /\ counted' = counted /\ owner' = owner
    BY <1>1, <1>3 DEF DispatchConnection, HeldByLoop, Admitted
  <2>2. CountedTasks' = CountedTasks
    BY <2>1 DEF CountedTasks
  <2>3. CASE alive[owner[held]]
    <3>1. conn' = [conn EXCEPT ![held] = "queued"] /\ UNCHANGED <<active, connections, loads>>
      BY <1>3, <2>3 DEF DispatchConnection, counters
    <3>2. Admitted' = Admitted
      BY <1>1, <2>1, <3>1 DEF Admitted, TypedHandling
    <3> QED BY <1>1, <2>1, <2>2, <3>1, <3>2, NothingCounted
  <2>4. CASE ~alive[owner[held]]
    <3>1. /\ conn' = [conn EXCEPT ![held] = "refused"]
          /\ active' = active - 1 /\ connections' = connections - 1
          /\ loads' = [loads EXCEPT ![owner[held]] = @ - 1]
      BY <1>3, <2>4 DEF DispatchConnection
    <3>2. Admitted' = Admitted \ {held}
      BY <1>1, <2>1, <3>1 DEF Admitted, TypedHandling
    <3> QED BY <1>1, <2>1, <2>2, <3>1, <3>2, OneReleased
  <2> QED BY <2>3, <2>4
<1>4. ASSUME NEW c \in Conns, AcceptLocal(c) PROVE Counted'
  <2>1. /\ kind = "local" /\ conn[c] = "waiting" /\ c \notin Admitted /\ task' = task /\ counted' = counted
        /\ owner' = owner /\ loads' = loads
    BY <1>4 DEF AcceptLocal, Admitted
  <2>2. CountedTasks' = CountedTasks
    BY <2>1 DEF CountedTasks
  <2>3. CASE connections >= MaxConnections
    <3>1. conn' = [conn EXCEPT ![c] = "refused"] /\ UNCHANGED <<active, connections>>
      BY <1>4, <2>3 DEF AcceptLocal
    <3>2. Admitted' = Admitted
      BY <1>1, <2>1, <3>1 DEF Admitted, TypedHandling
    <3> QED BY <1>1, <2>1, <2>2, <3>1, <3>2, NothingCounted
  <2>4. CASE ~(connections >= MaxConnections)
    <3>1. /\ conn' = [conn EXCEPT ![c] = "queued"]
          /\ active' = active + 1 /\ connections' = connections + 1
      BY <1>4, <2>4 DEF AcceptLocal
    <3>2. connections < MaxConnections /\ owner[c] \in Workers
      BY <1>1, <2>4 DEF Counted, TypedHandling
    <3>3. Admitted' = Admitted \cup {c}
      BY <1>1, <2>1, <3>1 DEF Admitted, TypedHandling
    <3> QED BY <1>1, <2>1, <2>2, <3>1, <3>2, <3>3, OneAdmitted
  <2> QED BY <2>3, <2>4
<1>5. ASSUME NEW c \in Conns, Accept(c) \/ BeginConnection(c) PROVE Counted'
  <2>1. /\ task' = task /\ counted' = counted /\ owner' = owner
        /\ UNCHANGED <<active, connections, loads>>
        /\ \/ conn[c] = "waiting" /\ conn' = [conn EXCEPT ![c] = "held"]
           \/ conn[c] = "queued" /\ conn' = [conn EXCEPT ![c] = "live"]
    BY <1>5 DEF Accept, BeginConnection, counters
  <2>2. CountedTasks' = CountedTasks
    BY <2>1 DEF CountedTasks
  <2>3. Admitted' = Admitted
    BY <1>1, <2>1 DEF Admitted, TypedHandling
  <2> QED BY <1>1, <2>1, <2>2, <2>3, NothingCounted
<1>6. ASSUME NEW c \in Conns, EndConnection(c) PROVE Counted'
  <2>1. /\ task' = task /\ counted' = counted /\ owner' = owner
        /\ active' = active - 1 /\ connections' = connections - 1
        /\ kind = "multicore" => loads' = [loads EXCEPT ![owner[c]] = @ - 1]
        /\ conn[c] = "live" /\ conn' = [conn EXCEPT ![c] = "ended"]
    BY <1>6 DEF EndConnection
  <2>2. CountedTasks' = CountedTasks
    BY <2>1 DEF CountedTasks
  <2>3. c \in Admitted /\ Admitted' = Admitted \ {c}
    BY <1>1, <2>1 DEF Admitted, TypedHandling
  <2> QED BY <1>1, <2>1, <2>2, <2>3, OneReleased
<1>7. ASSUME NEW c \in Conns, ScheduleBackground(c) PROVE Counted'
  <2>1. /\ conn' = conn /\ owner' = owner /\ UNCHANGED <<connections, loads>>
        /\ task[c] = "none" /\ task' = [task EXCEPT ![c] = "spawned"]
        /\ counted' = [counted EXCEPT ![c] = installed[owner[c]]]
        /\ active' = IF installed[owner[c]] THEN active + 1 ELSE active
    BY <1>7 DEF ScheduleBackground
  <2>2. Admitted' = Admitted /\ c \notin CountedTasks
    BY <2>1 DEF Admitted, CountedTasks
  <2>3. CASE installed[owner[c]]
    <3>1. CountedTasks' = CountedTasks \cup {c} /\ active' = active + 1
      BY <1>1, <2>1, <2>3 DEF CountedTasks, TypedHandling
    <3> QED BY <1>1, <2>1, <2>2, <3>1, OneTask
  <2>4. CASE ~installed[owner[c]]
    <3>1. CountedTasks' = CountedTasks /\ active' = active
      BY <1>1, <2>1, <2>2, <2>4 DEF CountedTasks, TypedHandling
    <3> QED BY <1>1, <2>1, <2>2, <3>1, NothingCounted
  <2> QED BY <2>3, <2>4
<1>8. ASSUME NEW c \in Conns, EndBackground(c) PROVE Counted'
  <2>1. /\ conn' = conn /\ owner' = owner /\ counted' = counted /\ UNCHANGED <<connections, loads>>
        /\ task[c] = "spawned" /\ task' = [task EXCEPT ![c] = "ended"]
        /\ active' = IF counted[c] THEN active - 1 ELSE active
    BY <1>8 DEF EndBackground
  <2>2. Admitted' = Admitted
    BY <2>1 DEF Admitted
  <2>3. CASE counted[c]
    <3>1. c \in CountedTasks /\ CountedTasks' = CountedTasks \ {c} /\ active' = active - 1
      BY <1>1, <2>1, <2>3 DEF CountedTasks, TypedHandling
    <3> QED BY <1>1, <2>1, <2>2, <3>1, OneTask
  <2>4. CASE ~counted[c]
    <3>1. CountedTasks' = CountedTasks /\ active' = active
      BY <1>1, <2>1, <2>4 DEF CountedTasks, TypedHandling
    <3> QED BY <1>1, <2>1, <2>2, <3>1, NothingCounted
  <2> QED BY <2>3, <2>4
<1>9. ASSUME NEW w \in Workers, Leave(w) PROVE Counted'
  BY <1>9, WorkerReleased
<1>10. CASE ~HandlingMoves
  <2>1. UNCHANGED <<conn, owner, task, counted, active, connections, loads>>
    BY <1>10, HandlingRests
  <2>2. Admitted' = Admitted /\ CountedTasks' = CountedTasks
    BY <2>1 DEF Admitted, CountedTasks
  <2> QED BY <1>1, <2>1, <2>2, NothingCounted
<1> QED BY <1>2, <1>3, <1>4, <1>5, <1>6, <1>7, <1>8, <1>9, <1>10 DEF HandlingMoves, Serve

\* The loads of the workers stay natural numbers.
LEMMA LoadsTyped == ASSUME LifeInv, ServerNext PROVE loads' \in [Workers -> Nat]
<1>1. loads \in [Workers -> Nat] /\ kind \in {"local", "multicore"} /\ kind' = kind
  BY KindStays DEF LifeInv, ServerTypeOK
<1>2. loads' = loads \/ (kind = "multicore" /\ DOMAIN loads' = Workers /\ loads' = [w \in Workers |-> loads'[w]])
  <2>1. CASE CountConnection \/ DispatchConnection
    BY <1>1, <2>1 DEF CountConnection, DispatchConnection, counters
  <2>2. ASSUME NEW c \in Conns, AcceptLocal(c) \/ Accept(c) \/ Serve(c)
        PROVE  loads' = loads \/ (kind = "multicore" /\ DOMAIN loads' = Workers /\ loads' = [w \in Workers |-> loads'[w]])
    BY <1>1, <2>2 DEF AcceptLocal, Accept, Serve, BeginConnection, ScheduleBackground,
       EndConnection,
       EndBackground, counters
  <2>3. ASSUME NEW w \in Workers, Leave(w)
        PROVE  kind = "multicore" /\ DOMAIN loads' = Workers /\ loads' = [v \in Workers |-> loads'[v]]
    BY <1>1, <2>3, LeaveIsShared DEF Leave
  <2> QED BY <2>1, <2>2, <2>3, HandlingRests DEF HandlingMoves
<1>3. kind = "multicore" => \A w \in Workers : loads'[w] = Cardinality(CountedOn(w)')
  BY <1>1, CountsStep DEF Counted
<1>4. \A w \in Workers : Cardinality(CountedOn(w)') \in Nat
  <2>1. /\ IsFiniteSet(Conns) /\ \A w : CountedOn(w)' \subseteq Conns
    BY ConnsAssumption DEF CountedOn, Admitted
  <2> QED BY <2>1, FS_Subset, FS_CardinalityType
<1> QED BY <1>1, <1>2, <1>3, <1>4

\* The invariant holds when the server starts,
LEMMA LifeInit == ServerInit => LifeInv
<1> SUFFICES ASSUME ServerInit PROVE LifeInv
  OBVIOUS
<1>1. ServerTypeOK
  <2>1. <<>> \in Seq(Conns \cup {"startup", "stop"}) /\ kind \in {"local", "multicore"}
    BY KindsAssumption DEF ServerInit
  <2>2. TypedLoop
    <3>1. cursor \in 0 .. N - 1 /\ at \in Workers
      BY Constants DEF ServerInit
    <3>2. requested \in BOOLEAN /\ waker \in BOOLEAN /\ woken \in BOOLEAN /\ expired \in BOOLEAN
      BY DEF ServerInit
    <3>3. stopper = "idle" /\ pc = "launch" /\ held = None /\ verdict = "ok"
      BY DEF ServerInit
    <3> QED BY <2>1, <3>1, <3>2, <3>3 DEF TypedLoop
  <2>3. inbox \in [Workers -> Seq(Items)]
    BY <2>1 DEF ServerInit, Items
  <2>4. up \in [Workers -> 0 .. Hooks] /\ down \in [Workers -> 0 .. Hooks] /\ loads \in [Workers -> Nat]
    BY Constants DEF ServerInit
  <2>5. TypedWorkers
    BY <2>3, <2>4 DEF ServerInit, TypedWorkers
  <2>6. TypedHandling
    BY Constants DEF ServerInit, TypedHandling
  <2>7. active \in Nat /\ connections \in Nat
    BY DEF ServerInit
  <2> QED BY <2>2, <2>4, <2>5, <2>6, <2>7 DEF ServerTypeOK, TypedLoop, TypedWorkers,
     TypedHandling, Items
<1>2. HooksRun /\ StoppedLate
  BY Constants DEF ServerInit, HooksRun, StoppedLate, Opened
<1>3. ChannelsOK
  BY DEF ServerInit, ChannelsOK
<1>4. LoopOK
  BY DEF ServerInit, LoopOK, Unlaunched, Accepting
<1>5. ConnsOK /\ HeldByLoop /\ CounterInstalled
  BY Constants DEF ServerInit, ConnsOK, HeldByLoop, CounterInstalled
<1>6. CountsAgree /\ connections <= MaxConnections
  <2>1. Admitted = {} /\ CountedTasks = {} /\ \A w : {c \in Admitted : owner[c] = w} = {}
    BY DEF ServerInit, Admitted, CountedTasks
  <2>2. Cardinality({}) = 0
    BY FS_EmptySet
  <2>3. \A w \in Workers : loads[w] = Cardinality({c \in Admitted : owner[c] = w})
    BY <2>1, <2>2 DEF ServerInit
  <2> QED BY <2>1, <2>2, <2>3, CapAssumption DEF ServerInit, CountsAgree
<1> QED BY <1>1, <1>2, <1>3, <1>4, <1>5, <1>6 DEF LifeInv, Phases, Counts

\* every step keeps it,
LEMMA LifeNext == LifeInv /\ [ServerNext]_serverVars => LifeInv'
<1>1. ASSUME LifeInv, ServerNext PROVE LifeInv'
  <2>1. CountsAgree' /\ (connections <= MaxConnections)' /\ active' \in Nat /\ connections' \in Nat
    BY <1>1, CountsStep, CountedMeans DEF Counted
  <2>2. ServerTypeOK'
    <3>1. TypedLoop' /\ TypedWorkers' /\ TypedHandling' /\ loads' \in [Workers -> Nat]
      BY <1>1, LoopTyped, WorkersTyped, HandlingTyped, LoadsTyped
    <3> QED BY <2>1, <3>1 DEF ServerTypeOK, TypedLoop, TypedWorkers, TypedHandling, Items
  <2>3. Phases'
    BY <1>1, HooksStep, ChannelsStep, LoopStep, StoppedStep DEF Phases
  <2>4. Counts'
    BY <1>1, <2>1, ConnsStep, HeldStep, InstalledStep DEF Counts
  <2> QED BY <2>2, <2>3, <2>4 DEF LifeInv
<1>2. ASSUME LifeInv, UNCHANGED serverVars PROVE LifeInv'
  <2>1. UNCHANGED <<kind, signal, loop, workers, handling, counters>>
    BY <1>2 DEF serverVars
  <2>2. /\ UNCHANGED <<requested, waker, woken, stopper, pc, at, held, verdict, expired, cursor>>
        /\ UNCHANGED <<inbox, alive, app, up, down, installed>>
        /\ UNCHANGED <<conn, owner, task, counted, active, connections, loads>>
    BY <2>1 DEF signal, loop, workers, handling, counters
  <2>3. ServerTypeOK'
    BY <1>2, <2>1, <2>2 DEF LifeInv, ServerTypeOK
  <2>4. Phases'
    BY <1>2, <2>1, <2>2 DEF LifeInv, Phases, HooksRun, ChannelsOK, LoopOK, StoppedLate,
       Unlaunched, Unstopped,
       Used, Drained
  <2>5. Counts'
    <3>1. ConnsOK' /\ HeldByLoop' /\ CounterInstalled'
      BY <1>2, <2>1, <2>2 DEF LifeInv, Counts, ConnsOK, HeldByLoop, CounterInstalled, Used
    <3>2. Admitted' = Admitted /\ CountedTasks' = CountedTasks
      BY <2>2 DEF Admitted, CountedTasks
    <3>3. CountsAgree' /\ (connections <= MaxConnections)'
      BY <1>2, <2>1, <2>2, <3>2 DEF LifeInv, Counts, CountsAgree
    <3> QED BY <3>1, <3>3 DEF Counts
  <2> QED BY <2>3, <2>4, <2>5 DEF LifeInv
<1> QED BY <1>1, <1>2

\* and it says what is to be shown.
LEMMA LifeImplies == LifeInv => LifecycleIsSound
<1> SUFFICES ASSUME LifeInv PROVE LifecycleIsSound
  OBVIOUS
<1>1. ServerTypeOK /\ HooksRun /\ LoopOK /\ StoppedLate /\ ConnsOK /\ CountsAgree /\ connections <= MaxConnections
  BY DEF LifeInv, Phases, Counts
<1>2. CapIsKept
  <2> DEFINE S == {c \in Conns : conn[c] \in {"queued", "live"}}
  <2>1. S \subseteq Admitted
    BY DEF Admitted
  <2>2. Cardinality(S) \in Nat /\ Cardinality(S) <= Cardinality(Admitted) /\ Cardinality(Admitted) \in Nat
    BY <2>1, CardLess, Finite
  <2>3. Cardinality(S) <= MaxConnections
    BY <1>1, <2>2, CapAssumption DEF CountsAgree
  <2> QED BY <2>3 DEF CapIsKept
<1>3. ServedWhileOpen
  <2> SUFFICES ASSUME NEW c \in Conns, conn[c] = "live" \/ task[c] = "spawned"
               PROVE  up[owner[c]] = Hooks /\ (app[owner[c]] = "started" \/ expired)
    BY DEF ServedWhileOpen
  <2>1. owner[c] \in Workers /\ owner[c] \in Used /\ conn[c] # "waiting"
    BY <1>1 DEF ServerTypeOK, ConnsOK, Used
  <2>2. app[owner[c]] \in Opened
    BY <1>1, <2>1 DEF ConnsOK
  <2>3. up[owner[c]] = Hooks
    BY <1>1, <2>1, <2>2 DEF HooksRun
  <2>4. ASSUME app[owner[c]] # "started" PROVE expired
    <3>1. Drained
      BY <1>1, <2>1, <2>2, <2>4 DEF StoppedLate, Opened
    <3>2. CASE active = 0
      <4>1. conn[c] # "live" /\ (task[c] = "spawned" => ~counted[c])
        BY <3>2, NothingLeft
      <4> QED BY <1>1, <4>1 DEF ConnsOK
    <3> QED BY <3>1, <3>2 DEF Drained
  <2> QED BY <2>3, <2>4
<1>4. SuccessIsClean
  <2> SUFFICES ASSUME pc = "returned", verdict = "ok"
               PROVE  /\ \A w \in Workers : (kind = "local" => w = 1) => down[w] = Hooks
                      /\ kind = "multicore" =>
                           \A c \in Conns : conn[c] \notin {"queued", "live"} /\ task[c] # "spawned"
    BY DEF SuccessIsClean
  <2>1. \A w \in Workers : (kind = "local" => w = 1) => app[w] = "stopped"
    BY <1>1 DEF LoopOK, Used, ServerTypeOK
  <2>2. kind = "multicore" => \A c \in Conns : ~alive[owner[c]]
    BY <1>1 DEF LoopOK, ServerTypeOK
  <2> QED BY <1>1, <2>1, <2>2 DEF HooksRun, ConnsOK
<1> QED BY <1>1, <1>2, <1>3, <1>4 DEF LifecycleIsSound, CountsAreKept, HooksFrameTheWork

\* For any workers, connections, hooks and cap, in both servers, whichever
\* worker dies and whenever the stop is requested: every counter equals the
\* work it stands for, the cap is kept, what runs runs between the hooks of
\* its application, and a success leaves nothing behind.
THEOREM ServerFramesItsWork == ServerSpec => []LifecycleIsSound
<1>1. ServerInit => LifeInv
  BY LifeInit
<1>2. LifeInv /\ [ServerNext]_serverVars => LifeInv'
  BY LifeNext
<1>3. LifeInv => LifecycleIsSound
  BY LifeImplies
<1> QED BY <1>1, <1>2, <1>3, PTL DEF ServerSpec

------------------------------------------------------------------------------
(* The streaming upload of an HTTP/1 request *)

\* The data chunks of the queue, and the last byte that was queued.
Filled == IF chunks # <<>> /\ chunks[Len(chunks)] = Failure THEN Len(chunks) - 1 ELSE Len(chunks)
Edge == IF Filled = 0 THEN received ELSE chunks[Filled][2]

\* The failure is the last item, and the relay is over.
FailureIsLast ==
  \A i \in 1 .. Len(chunks) : chunks[i] = Failure => i = Len(chunks) /\ relay = "error"

\* The data continues what was read without a gap, in order.
InOrder ==
  \A i \in 1 .. Filled :
    /\ chunks[i] \in Nat \X Nat /\ chunks[i][1] <= chunks[i][2]
    /\ chunks[i][1] = (IF i = 1 THEN received ELSE chunks[i - 1][2]) + 1
    /\ \A j \in 1 .. Filled : i < j => chunks[i][2] < chunks[j][2]

Bounded == queued = Edge - received /\ (queued <= MaxQueued \/ Filled = 1)

\* What the relay holds continues what is queued, as long as it believes in
\* its receiver.
Relayed ==
  /\ taken + buffered <= Length
  /\ relay \in {"send", "blocked"} =>
       relayOpen /\ ~responded /\ Edge < taken /\ chunk = <<Edge + 1, taken>>
  /\ relayOpen /\ relay \notin {"send", "blocked"} => taken = Edge

UploadInv ==
  UploadTypeOK /\ FailureIsLast /\ InOrder /\ Bounded /\ Relayed /\ NobodySleepsBesideWork


UploadItems == (Nat \X Nat) \cup {Failure}

\* The queue as a sequence, and where its data ends.
LEMMA QueueShape ==
  ASSUME UploadInv
  PROVE  /\ chunks \in Seq(UploadItems) /\ Len(chunks) \in Nat /\ Filled \in Nat /\ received \in Nat
         /\ Filled <= Len(chunks) /\ Edge \in Nat /\ received <= Edge
         /\ relay # "error" => Filled = Len(chunks)
         /\ chunks = <<>> <=> Len(chunks) = 0
         /\ Len(chunks) <= Filled + 1
         /\ \A i \in 1 .. Filled : chunks[i] \in Nat \X Nat /\ chunks[i] # Failure
<1>1. /\ chunks \in Seq(UploadItems) /\ Len(chunks) \in Nat /\ received \in Nat /\ queued \in Nat
      /\ chunks = <<>> <=> Len(chunks) = 0
  BY DEF UploadInv, UploadTypeOK, UploadItems
<1>2. Filled \in Nat /\ Filled <= Len(chunks) /\ Len(chunks) <= Filled + 1
  BY <1>1 DEF Filled
<1>3. \A i \in 1 .. Filled : chunks[i] \in Nat \X Nat /\ chunks[i] # Failure
  BY FailureAssumption DEF UploadInv, InOrder
<1>4. Edge \in Nat
  <2>1. Filled # 0 => Filled \in 1 .. Filled
    BY <1>2
  <2> QED BY <1>1, <1>3, <2>1 DEF Edge
<1>5. received <= Edge
  BY <1>1, <1>4 DEF UploadInv, Bounded
<1>6. relay # "error" => Filled = Len(chunks)
  <2>1. chunks # <<>> => Len(chunks) \in 1 .. Len(chunks)
    BY <1>1
  <2> QED BY <2>1 DEF UploadInv, FailureIsLast, Filled
<1> QED BY <1>1, <1>2, <1>3, <1>4, <1>5, <1>6

\* A chunk that continues the queue is appended.
LEMMA ChunkSent ==
  ASSUME UploadInv, relay # "error", NEW c \in Nat \X Nat, c[1] = Edge + 1, c[1] <= c[2],
         chunks' = Append(chunks, c), received' = received
  PROVE  Filled' = Filled + 1 /\ Edge' = c[2] /\ FailureIsLast' /\ InOrder'
<1>1. /\ chunks \in Seq(UploadItems) /\ Len(chunks) \in Nat /\ Filled = Len(chunks) /\ Edge \in Nat
      /\ \A i \in 1 .. Filled : chunks[i] \in Nat \X Nat /\ chunks[i] # Failure
  BY QueueShape
<1>2. c \in UploadItems /\ c # Failure /\ c[1] \in Nat /\ c[2] \in Nat
  BY FailureAssumption DEF UploadItems
<1>3. /\ Len(chunks') = Len(chunks) + 1 /\ chunks' # <<>>
      /\ \A i \in 1 .. Len(chunks) : chunks'[i] = chunks[i]
      /\ chunks'[Len(chunks) + 1] = c
  BY <1>1, <1>2
<1>4. Filled' = Filled + 1
  BY <1>1, <1>2, <1>3 DEF Filled
<1>5. Edge' = c[2]
  BY <1>1, <1>3, <1>4 DEF Edge
<1>6. \A i \in 1 .. Len(chunks') : chunks'[i] # Failure
  BY <1>1, <1>2, <1>3
<1>7. ASSUME NEW i \in 1 .. Filled
      PROVE  chunks[i][2] <= Edge /\ chunks[i][2] \in Nat
  <2>1. chunks[i] \in Nat \X Nat /\ Filled # 0 /\ Edge = chunks[Filled][2] /\ Filled \in 1 .. Filled
    BY <1>1 DEF Edge
  <2>2. i = Filled \/ i < Filled
    BY <1>1
  <2> QED BY <2>1, <2>2 DEF UploadInv, InOrder
<1>8. ASSUME NEW i \in 1 .. Filled'
      PROVE  /\ chunks'[i] \in Nat \X Nat /\ chunks'[i][1] <= chunks'[i][2]
             /\ chunks'[i][1] = (IF i = 1 THEN received' ELSE chunks'[i - 1][2]) + 1
             /\ \A j \in 1 .. Filled' : i < j => chunks'[i][2] < chunks'[j][2]
  <2>1. CASE i \in 1 .. Filled
    <3>1. /\ chunks'[i] = chunks[i] /\ (i # 1 => chunks'[i - 1] = chunks[i - 1])
          /\ chunks[i] \in Nat \X Nat /\ chunks[i][1] <= chunks[i][2]
          /\ chunks[i][1] = (IF i = 1 THEN received ELSE chunks[i - 1][2]) + 1
          /\ \A j \in 1 .. Filled : i < j => chunks[i][2] < chunks[j][2]
      <4>1. i # 1 => i - 1 \in 1 .. Len(chunks)
        BY <1>1, <2>1
      <4> QED BY <1>1, <1>3, <2>1, <4>1 DEF UploadInv, InOrder
    <3>2. ASSUME NEW j \in 1 .. Filled', i < j PROVE chunks'[i][2] < chunks'[j][2]
      <4>1. CASE j \in 1 .. Filled
        BY <1>1, <1>3, <3>1, <3>2, <4>1
      <4>2. CASE j = Filled + 1
        <5>1. chunks'[j] = c
          BY <1>1, <1>3, <4>2
        <5>2. chunks[i][2] <= Edge /\ chunks[i][2] \in Nat
          BY <1>7, <2>1
        <5> QED BY <1>1, <1>2, <3>1, <5>1, <5>2
      <4> QED BY <1>1, <1>4, <4>1, <4>2
    <3> QED BY <3>1, <3>2
  <2>2. CASE i = Filled + 1
    <3>1. chunks'[i] = c
      BY <1>1, <1>3, <2>2
    <3>2. c[1] = (IF i = 1 THEN received' ELSE chunks'[i - 1][2]) + 1
      <4>1. CASE i = 1
        BY <1>1, <2>2, <4>1 DEF Edge
      <4>2. CASE i # 1
        <5>1. i - 1 = Filled /\ Filled # 0 /\ Filled \in 1 .. Len(chunks)
          BY <1>1, <2>2, <4>2
        <5> QED BY <1>3, <4>2, <5>1 DEF Edge
      <4> QED BY <4>1, <4>2
    <3>3. \A j \in 1 .. Filled' : ~(i < j)
      BY <1>1, <1>4, <2>2
    <3>4. \A j \in 1 .. Filled' : i < j => chunks'[i][2] < chunks'[j][2]
      BY <3>3
    <3> QED BY <3>1, <3>2, <3>4
  <2> QED BY <1>1, <1>4, <2>1, <2>2
<1>9. InOrder'
  BY <1>8 DEF InOrder
<1> QED BY <1>4, <1>5, <1>6, <1>9 DEF FailureIsLast

\* The failure is appended, and the relay ends.
LEMMA FailureSent ==
  ASSUME UploadInv, relay # "error", relay' = "error",
         chunks' = Append(chunks, Failure), received' = received
  PROVE  Filled' = Filled /\ Edge' = Edge /\ FailureIsLast' /\ InOrder'
<1>1. /\ chunks \in Seq(UploadItems) /\ Len(chunks) \in Nat /\ Filled = Len(chunks) /\ Edge \in Nat
      /\ \A i \in 1 .. Filled : chunks[i] \in Nat \X Nat /\ chunks[i] # Failure
  BY QueueShape
<1>2. /\ Len(chunks') = Len(chunks) + 1 /\ chunks' # <<>>
      /\ \A i \in 1 .. Len(chunks) : chunks'[i] = chunks[i]
      /\ chunks'[Len(chunks) + 1] = Failure
  BY <1>1 DEF UploadItems
<1>3. Filled' = Filled
  BY <1>1, <1>2 DEF Filled
<1>4. Edge' = Edge
  BY <1>1, <1>2, <1>3 DEF Edge
<1>5. FailureIsLast'
  BY <1>1, <1>2 DEF FailureIsLast
<1>6. InOrder'
  <2>1. \A i \in 1 .. Filled : chunks'[i] = chunks[i] /\ (i # 1 => chunks'[i - 1] = chunks[i - 1])
    BY <1>1, <1>2
  <2> QED BY ZenonT(40), <1>3, <2>1 DEF UploadInv, InOrder
<1> QED BY <1>3, <1>4, <1>5, <1>6

\* The reader takes a chunk.
LEMMA ChunkTaken ==
  ASSUME UploadInv, chunks # <<>>, Head(chunks) # Failure, chunks' = Tail(chunks),
         received' = received + Size(Head(chunks)),
         relay = "error" => relay' = "error"
  PROVE  /\ Filled \in Nat \ {0} /\ Filled' = Filled - 1 /\ Edge' = Edge /\ FailureIsLast' /\ InOrder'
         /\ received' \in Nat /\ received' = chunks[1][2] /\ received' <= Edge
         /\ Size(Head(chunks)) = received' - received
<1>1. /\ chunks \in Seq(UploadItems) /\ Len(chunks) \in Nat /\ Edge \in Nat /\ Filled \in Nat
      /\ Filled <= Len(chunks) /\ Len(chunks) <= Filled + 1 /\ received \in Nat
      /\ \A i \in 1 .. Filled : chunks[i] \in Nat \X Nat /\ chunks[i] # Failure
      /\ (chunks = <<>> <=> Len(chunks) = 0)
  BY QueueShape
<1>2. /\ Head(chunks) = chunks[1] /\ Len(chunks) # 0
      /\ Len(chunks') = Len(chunks) - 1 /\ chunks' \in Seq(UploadItems)
      /\ \A i \in 1 .. Len(chunks') : chunks'[i] = chunks[i + 1]
  BY <1>1
<1>3. Filled # 0
  BY <1>1, <1>2 DEF Filled
<1>4. /\ 1 \in 1 .. Filled /\ Filled \in 1 .. Filled /\ chunks[1] \in Nat \X Nat
      /\ chunks[1][1] = received + 1 /\ chunks[1][1] <= chunks[1][2]
      /\ Edge = chunks[Filled][2]
  BY <1>1, <1>3 DEF UploadInv, InOrder, Edge
<1>5. Size(Head(chunks)) = chunks[1][2] + 1 - chunks[1][1] /\ chunks[1][1] \in Nat /\ chunks[1][2] \in Nat
  BY <1>2, <1>4 DEF Size
<1>6. received' = chunks[1][2] /\ received' \in Nat /\ Size(Head(chunks)) = received' - received
  BY <1>1, <1>4, <1>5
<1>7. received' <= Edge
  <2>1. Filled = 1 \/ 1 < Filled
    BY <1>1, <1>3
  <2>2. 1 < Filled => chunks[1][2] < chunks[Filled][2]
    BY <1>4 DEF UploadInv, InOrder
  <2> QED BY <1>1, <1>4, <1>5, <1>6, <2>1, <2>2
<1>8. Filled' = Filled - 1
  <2>1. CASE Len(chunks) = 1
    <3>1. chunks' = <<>> /\ Filled = 1
      BY <1>1, <1>2, <1>3, <2>1
    <3> QED BY <1>2, <2>1, <3>1 DEF Filled
  <2>2. CASE Len(chunks) # 1
    <3>1. Len(chunks') \in 1 .. Len(chunks') /\ Len(chunks') + 1 = Len(chunks)
      BY <1>1, <1>2, <2>2
    <3>2. chunks'[Len(chunks')] = chunks[Len(chunks)]
      BY <1>2, <3>1
    <3>3. \A s \in Seq(UploadItems) : s = <<>> => Len(s) = 0
      OBVIOUS
    <3>4. Len(chunks') # 0
      BY <1>1, <1>2, <2>2
    <3>5. chunks' # <<>>
      BY <1>2, <3>3, <3>4
    <3> QED BY <1>1, <1>2, <3>1, <3>2, <3>5 DEF Filled
  <2> QED BY <2>1, <2>2
<1>9. Edge' = Edge
  <2>1. CASE Filled = 1
    BY <1>4, <1>6, <1>8, <2>1 DEF Edge
  <2>2. CASE Filled # 1
    <3>1. Filled' # 0 /\ Filled' \in 1 .. Len(chunks') /\ Filled' + 1 = Filled
      BY <1>1, <1>2, <1>3, <1>8, <2>2
    <3>2. chunks'[Filled'] = chunks[Filled]
      BY <1>2, <3>1
    <3> QED BY <1>4, <3>1, <3>2 DEF Edge
  <2> QED BY <2>1, <2>2
<1>10. FailureIsLast'
  <2> SUFFICES ASSUME NEW i \in 1 .. Len(chunks'), chunks'[i] = Failure
               PROVE  i = Len(chunks') /\ relay' = "error"
    BY DEF FailureIsLast
  <2>1. i + 1 \in 1 .. Len(chunks) /\ chunks[i + 1] = Failure
    BY <1>1, <1>2
  <2>2. i + 1 = Len(chunks) /\ relay = "error"
    BY <2>1 DEF UploadInv, FailureIsLast
  <2>3. relay' = "error"
    BY <2>2
  <2>4. i = Len(chunks) - 1
    BY <2>2
  <2> QED BY <1>2, <2>3, <2>4
<1>11. ASSUME NEW i \in 1 .. Filled'
       PROVE  /\ chunks'[i] \in Nat \X Nat /\ chunks'[i][1] <= chunks'[i][2]
              /\ chunks'[i][1] = (IF i = 1 THEN received' ELSE chunks'[i - 1][2]) + 1
              /\ \A j \in 1 .. Filled' : i < j => chunks'[i][2] < chunks'[j][2]
  <2>1. /\ i + 1 \in 1 .. Filled /\ i + 1 # 1 /\ (i + 1) - 1 = i
        /\ \A j \in 1 .. Filled' : j + 1 \in 1 .. Filled /\ chunks'[j] = chunks[j + 1] /\ (i < j => i + 1 < j + 1)
    BY <1>1, <1>2, <1>8
  <2>2. /\ chunks[i + 1] \in Nat \X Nat /\ chunks[i + 1][1] <= chunks[i + 1][2]
        /\ chunks[i + 1][1] = chunks[i][2] + 1
        /\ \A j \in 1 .. Filled : i + 1 < j => chunks[i + 1][2] < chunks[j][2]
    BY <2>1 DEF UploadInv, InOrder
  <2>3. chunks'[i] = chunks[i + 1] /\ (i # 1 => chunks'[i - 1] = chunks[i])
    <3>1. i # 1 => i - 1 \in 1 .. Len(chunks') /\ (i - 1) + 1 = i
      BY <1>1, <1>2, <1>8
    <3> QED BY <1>2, <2>1, <3>1
  <2>4. chunks'[i][1] = (IF i = 1 THEN received' ELSE chunks'[i - 1][2]) + 1
    BY <1>6, <2>2, <2>3
  <2>5. \A j \in 1 .. Filled' : i < j => chunks'[i][2] < chunks'[j][2]
    BY <2>1, <2>2, <2>3
  <2> QED BY <2>2, <2>3, <2>4, <2>5
<1>12. InOrder'
  BY <1>11 DEF InOrder
<1> QED BY <1>1, <1>3, <1>6, <1>7, <1>8, <1>9, <1>10, <1>12

\* The reader takes the failure, which is alone.
LEMMA FailureTaken ==
  ASSUME UploadInv, chunks # <<>>, Head(chunks) = Failure, chunks' = Tail(chunks), received' = received
  PROVE  /\ Filled = 0 /\ Filled' = 0 /\ Edge' = Edge /\ FailureIsLast' /\ InOrder' /\ relay = "error"
<1>1. /\ chunks \in Seq(UploadItems) /\ Len(chunks) \in Nat /\ Len(chunks) # 0
      /\ Head(chunks) = chunks[1] /\ 1 \in 1 .. Len(chunks)
  BY QueueShape
<1>2. Len(chunks) = 1 /\ relay = "error"
  BY <1>1 DEF UploadInv, FailureIsLast
<1>3. chunks' = <<>> /\ Len(chunks') = 0
  BY <1>1, <1>2
<1>4. Filled = 0 /\ Filled' = 0
  BY <1>1, <1>2, <1>3 DEF Filled
<1> QED BY <1>2, <1>3, <1>4 DEF Edge, FailureIsLast, InOrder

\* A step that leaves the queue and what was read alone.
LEMMA QueueLeftAlone ==
  ASSUME UploadInv, chunks' = chunks, received' = received, relay = "error" => relay' = "error"
  PROVE  Filled' = Filled /\ Edge' = Edge /\ FailureIsLast' /\ InOrder'
<1>1. Filled' = Filled
  BY DEF Filled
<1>2. Edge' = Edge
  BY <1>1 DEF Edge
<1>3. FailureIsLast'
  BY DEF UploadInv, FailureIsLast
<1>4. InOrder'
  BY <1>1 DEF UploadInv, InOrder
<1> QED BY <1>1, <1>2, <1>3, <1>4

\* The beginning satisfies the invariant.
LEMMA UploadStarts == UploadInit => UploadInv
<1> SUFFICES ASSUME UploadInit PROVE UploadInv
  OBVIOUS
<1>1. Len(chunks) = 0 /\ chunks = <<>>
  BY DEF UploadInit
<1>2. Filled = 0 /\ Edge = 0
  BY <1>1 DEF UploadInit, Filled, Edge
<1>3. UploadTypeOK
  <2>1. chunks \in Seq((Nat \X Nat) \cup {Failure})
    BY <1>1
  <2>2. chunk \in Nat \X Nat
    BY DEF UploadInit, NoChunk
  <2>3. buffered \in 0 .. Length /\ taken \in 0 .. Length /\ queued \in Nat /\ received \in Nat
    BY LengthAssumption DEF UploadInit
  <2>4. /\ relayOpen \in BOOLEAN /\ responded \in BOOLEAN /\ closed \in BOOLEAN
        /\ receiverOpen \in BOOLEAN /\ producerWaker \in BOOLEAN /\ consumerWaker \in BOOLEAN
    BY DEF UploadInit
  <2> QED BY <2>1, <2>2, <2>3, <2>4 DEF UploadInit, UploadTypeOK
<1>4. FailureIsLast /\ InOrder
  BY <1>1, <1>2 DEF FailureIsLast, InOrder
<1>5. Bounded
  BY <1>2, WindowAssumption DEF UploadInit, Bounded, MaxQueued
<1>6. Relayed
  BY <1>2, LengthAssumption DEF UploadInit, Relayed
<1>7. NobodySleepsBesideWork
  BY DEF UploadInit, NobodySleepsBesideWork
<1> QED BY <1>3, <1>4, <1>5, <1>6, <1>7 DEF UploadInv

\* Every step preserves the invariant.
LEMMA UploadSteps == UploadInv /\ [UploadNext]_uploadVars => UploadInv'
<1> SUFFICES ASSUME UploadInv, [UploadNext]_uploadVars PROVE UploadInv'
  OBVIOUS
<1>0. /\ Filled \in Nat /\ Edge \in Nat /\ received \in Nat /\ received <= Edge
      /\ chunks \in Seq(UploadItems) /\ Len(chunks) \in Nat
      /\ (relay # "error" => Filled = Len(chunks)) /\ (chunks = <<>> <=> Len(chunks) = 0)
  BY QueueShape
<1>t. UploadTypeOK /\ FailureIsLast /\ InOrder /\ Bounded /\ Relayed /\ NobodySleepsBesideWork
  BY DEF UploadInv
<1>m. MaxQueued \in Nat
  BY WindowAssumption DEF MaxQueued
<1>1. CASE NextChunk
  <2>1. Filled' = Filled /\ Edge' = Edge /\ FailureIsLast' /\ InOrder'
    <3>1. chunks' = chunks /\ received' = received /\ (relay = "error" => relay' = "error")
      BY <1>1 DEF NextChunk, relaying, channel, reading
    <3> QED BY <3>1, QueueLeftAlone
  <2>2. UploadTypeOK'
    <3>1. PICK k \in 1 .. buffered :
            /\ buffered' = buffered - k /\ taken' = taken + k
            /\ \/ chunk' = <<taken + 1, taken + k>> /\ relay' = "send" /\ relayOpen' = relayOpen
               \/ relayOpen' = FALSE /\ chunk' = chunk /\ relay' = relay
      BY <1>1 DEF NextChunk
    <3>2. taken' \in 0 .. Length /\ buffered' \in 0 .. Length
      BY <1>t, <3>1, LengthAssumption DEF UploadTypeOK, Relayed
    <3>3. chunk' \in Nat \X Nat
      BY <1>t, <3>1, LengthAssumption DEF UploadTypeOK
    <3> QED BY ZenonT(40), <1>1, <1>t, <3>1, <3>2, <3>3 DEF UploadTypeOK, NextChunk, relaying, channel, reading
  <2>3. Bounded'
    BY <1>1, <1>t, <2>1 DEF Bounded, MaxQueued, NextChunk, relaying, channel, reading
  <2>4. Relayed'
    BY <1>1, <1>t, <1>0, <2>1, LengthAssumption DEF UploadTypeOK, Relayed, NobodySleepsBesideWork, NextChunk, relaying, channel, reading
  <2>5. NobodySleepsBesideWork'
    BY <1>1, <1>t DEF UploadTypeOK, NobodySleepsBesideWork, NextChunk, relaying, channel, reading
  <2> QED BY <2>1, <2>2, <2>3, <2>4, <2>5 DEF UploadInv
<1>2. CASE SendRefused
  <2>1. Filled' = Filled /\ Edge' = Edge /\ FailureIsLast' /\ InOrder'
    <3>1. chunks' = chunks /\ received' = received /\ (relay = "error" => relay' = "error")
      BY <1>2 DEF SendRefused, NoChunk, relaying, channel, reading
    <3> QED BY <3>1, QueueLeftAlone
  <2>2. UploadTypeOK'
    BY <1>2, <1>t, LengthAssumption, WindowAssumption DEF UploadTypeOK, Relayed, SendRefused, NoChunk, relaying, channel, reading
  <2>3. Bounded'
    BY <1>2, <1>t, <2>1 DEF Bounded, MaxQueued, SendRefused, NoChunk, relaying, channel, reading
  <2>4. Relayed'
    BY <1>2, <1>t, <1>0, <2>1, LengthAssumption DEF UploadTypeOK, Relayed, NobodySleepsBesideWork, SendRefused, NoChunk, relaying, channel, reading
  <2>5. NobodySleepsBesideWork'
    BY <1>2, <1>t DEF UploadTypeOK, NobodySleepsBesideWork, SendRefused, NoChunk, relaying, channel, reading
  <2> QED BY <2>1, <2>2, <2>3, <2>4, <2>5 DEF UploadInv
<1>3. CASE SendWaits
  <2>1. Filled' = Filled /\ Edge' = Edge /\ FailureIsLast' /\ InOrder'
    <3>1. chunks' = chunks /\ received' = received /\ (relay = "error" => relay' = "error")
      BY <1>3 DEF SendWaits, relaying, channel, reading
    <3> QED BY <3>1, QueueLeftAlone
  <2>2. UploadTypeOK'
    BY <1>3, <1>t, LengthAssumption, WindowAssumption DEF UploadTypeOK, Relayed, SendWaits, relaying, channel, reading
  <2>3. Bounded'
    BY <1>3, <1>t, <2>1 DEF Bounded, MaxQueued, SendWaits, relaying, channel, reading
  <2>4. Relayed'
    BY <1>3, <1>t, <1>0, <2>1, LengthAssumption DEF UploadTypeOK, Relayed, NobodySleepsBesideWork, SendWaits, relaying, channel, reading
  <2>5. NobodySleepsBesideWork'
    BY <1>3, <1>t DEF UploadTypeOK, NobodySleepsBesideWork, SendWaits, relaying, channel, reading
  <2> QED BY <2>1, <2>2, <2>3, <2>4, <2>5 DEF UploadInv
<1>4. CASE NeedMore
  <2>1. Filled' = Filled /\ Edge' = Edge /\ FailureIsLast' /\ InOrder'
    <3>1. chunks' = chunks /\ received' = received /\ (relay = "error" => relay' = "error")
      BY <1>4 DEF NeedMore, relaying, channel, reading
    <3> QED BY <3>1, QueueLeftAlone
  <2>2. UploadTypeOK'
    BY <1>4, <1>t, LengthAssumption, WindowAssumption DEF UploadTypeOK, Relayed, NeedMore, relaying, channel, reading
  <2>3. Bounded'
    BY <1>4, <1>t, <2>1 DEF Bounded, MaxQueued, NeedMore, relaying, channel, reading
  <2>4. Relayed'
    BY <1>4, <1>t, <1>0, <2>1, LengthAssumption DEF UploadTypeOK, Relayed, NobodySleepsBesideWork, NeedMore, relaying, channel, reading
  <2>5. NobodySleepsBesideWork'
    BY <1>4, <1>t DEF UploadTypeOK, NobodySleepsBesideWork, NeedMore, relaying, channel, reading
  <2> QED BY <2>1, <2>2, <2>3, <2>4, <2>5 DEF UploadInv
<1>5. CASE ReadSome
  <2>1. Filled' = Filled /\ Edge' = Edge /\ FailureIsLast' /\ InOrder'
    <3>1. chunks' = chunks /\ received' = received /\ (relay = "error" => relay' = "error")
      BY <1>5 DEF ReadSome, relaying, channel, reading
    <3> QED BY <3>1, QueueLeftAlone
  <2>2. UploadTypeOK'
    BY <1>5, <1>t, LengthAssumption, WindowAssumption DEF UploadTypeOK, Relayed, ReadSome, relaying, channel, reading
  <2>3. Bounded'
    BY <1>5, <1>t, <2>1 DEF Bounded, MaxQueued, ReadSome, relaying, channel, reading
  <2>4. Relayed'
    BY <1>5, <1>t, <1>0, <2>1, LengthAssumption DEF UploadTypeOK, Relayed, NobodySleepsBesideWork, ReadSome, relaying, channel, reading
  <2>5. NobodySleepsBesideWork'
    BY <1>5, <1>t DEF UploadTypeOK, NobodySleepsBesideWork, ReadSome, relaying, channel, reading
  <2> QED BY <2>1, <2>2, <2>3, <2>4, <2>5 DEF UploadInv
<1>6. CASE ReadErrors
  <2>1. Filled' = Filled /\ Edge' = Edge /\ FailureIsLast' /\ InOrder'
    <3>1. chunks' = chunks /\ received' = received /\ (relay = "error" => relay' = "error")
      BY <1>6 DEF ReadErrors, DropWithResponse, relaying, channel, reading
    <3> QED BY <3>1, QueueLeftAlone
  <2>2. UploadTypeOK'
    BY <1>6, <1>t, LengthAssumption, WindowAssumption DEF UploadTypeOK, Relayed, ReadErrors, DropWithResponse, relaying, channel, reading
  <2>3. Bounded'
    BY <1>6, <1>t, <2>1 DEF Bounded, MaxQueued, ReadErrors, DropWithResponse, relaying, channel, reading
  <2>4. Relayed'
    BY <1>6, <1>t, <1>0, <2>1, LengthAssumption DEF UploadTypeOK, Relayed, NobodySleepsBesideWork, ReadErrors, DropWithResponse, relaying, channel, reading
  <2>5. NobodySleepsBesideWork'
    BY <1>6, <1>t DEF UploadTypeOK, NobodySleepsBesideWork, ReadErrors, DropWithResponse, relaying, channel, reading
  <2> QED BY <2>1, <2>2, <2>3, <2>4, <2>5 DEF UploadInv
<1>7. CASE Close
  <2>1. Filled' = Filled /\ Edge' = Edge /\ FailureIsLast' /\ InOrder'
    <3>1. chunks' = chunks /\ received' = received /\ (relay = "error" => relay' = "error")
      BY <1>7 DEF Close, WakeConsumer, relaying, channel, reading
    <3> QED BY <3>1, QueueLeftAlone
  <2>2. UploadTypeOK'
    BY <1>7, <1>t, LengthAssumption, WindowAssumption DEF UploadTypeOK, Relayed, Close, WakeConsumer, relaying, channel, reading
  <2>3. Bounded'
    BY <1>7, <1>t, <2>1 DEF Bounded, MaxQueued, Close, WakeConsumer, relaying, channel, reading
  <2>4. Relayed'
    BY <1>7, <1>t, <1>0, <2>1, LengthAssumption DEF UploadTypeOK, Relayed, NobodySleepsBesideWork, Close, WakeConsumer, relaying, channel, reading
  <2>5. NobodySleepsBesideWork'
    BY <1>7, <1>t DEF UploadTypeOK, NobodySleepsBesideWork, Close, WakeConsumer, relaying, channel, reading
  <2> QED BY <2>1, <2>2, <2>3, <2>4, <2>5 DEF UploadInv
<1>8. CASE HandOver
  <2>1. Filled' = Filled /\ Edge' = Edge /\ FailureIsLast' /\ InOrder'
    <3>1. chunks' = chunks /\ received' = received /\ (relay = "error" => relay' = "error")
      BY <1>8 DEF HandOver, Polled, relaying, channel, reading
    <3> QED BY <3>1, QueueLeftAlone
  <2>2. UploadTypeOK'
    BY <1>8, <1>t, LengthAssumption, WindowAssumption DEF UploadTypeOK, Relayed, HandOver, Polled, relaying, channel, reading
  <2>3. Bounded'
    BY <1>8, <1>t, <2>1 DEF Bounded, MaxQueued, HandOver, Polled, relaying, channel, reading
  <2>4. Relayed'
    BY <1>8, <1>t, <1>0, <2>1, LengthAssumption DEF UploadTypeOK, Relayed, NobodySleepsBesideWork, HandOver, Polled, relaying, channel, reading
  <2>5. NobodySleepsBesideWork'
    BY <1>8, <1>t DEF UploadTypeOK, NobodySleepsBesideWork, HandOver, Polled, relaying, channel, reading
  <2> QED BY <2>1, <2>2, <2>3, <2>4, <2>5 DEF UploadInv
<1>9. CASE Respond
  <2>1. Filled' = Filled /\ Edge' = Edge /\ FailureIsLast' /\ InOrder'
    <3>1. chunks' = chunks /\ received' = received /\ (relay = "error" => relay' = "error")
      BY <1>9 DEF Respond, Polled, NoChunk, DropWithResponse, relaying, channel, reading
    <3> QED BY <3>1, QueueLeftAlone
  <2>2. UploadTypeOK'
    BY ZenonT(40), <1>9, <1>t, LengthAssumption, WindowAssumption DEF UploadTypeOK, Relayed, Respond, Polled, NoChunk, DropWithResponse, relaying, channel, reading
  <2>3. Bounded'
    BY <1>9, <1>t, <2>1 DEF Bounded, MaxQueued, Respond, Polled, NoChunk, DropWithResponse, relaying, channel, reading
  <2>4. Relayed'
    BY <1>9, <1>t, <1>0, <2>1, LengthAssumption DEF UploadTypeOK, Relayed, NobodySleepsBesideWork, Respond, Polled, NoChunk, DropWithResponse, relaying, channel, reading
  <2>5. NobodySleepsBesideWork'
    BY <1>9, <1>t DEF UploadTypeOK, NobodySleepsBesideWork, Respond, Polled, NoChunk, DropWithResponse, relaying, channel, reading
  <2> QED BY <2>1, <2>2, <2>3, <2>4, <2>5 DEF UploadInv
<1>10. CASE PollEnd
  <2>1. Filled' = Filled /\ Edge' = Edge /\ FailureIsLast' /\ InOrder'
    <3>1. chunks' = chunks /\ received' = received /\ (relay = "error" => relay' = "error")
      BY <1>10 DEF PollEnd, relaying, channel, reading
    <3> QED BY <3>1, QueueLeftAlone
  <2>2. UploadTypeOK'
    BY <1>10, <1>t, LengthAssumption, WindowAssumption DEF UploadTypeOK, Relayed, PollEnd, relaying, channel, reading
  <2>3. Bounded'
    BY <1>10, <1>t, <2>1 DEF Bounded, MaxQueued, PollEnd, relaying, channel, reading
  <2>4. Relayed'
    BY <1>10, <1>t, <1>0, <2>1, LengthAssumption DEF UploadTypeOK, Relayed, NobodySleepsBesideWork, PollEnd, relaying, channel, reading
  <2>5. NobodySleepsBesideWork'
    BY <1>10, <1>t DEF UploadTypeOK, NobodySleepsBesideWork, PollEnd, relaying, channel, reading
  <2> QED BY <2>1, <2>2, <2>3, <2>4, <2>5 DEF UploadInv
<1>11. CASE PollPending
  <2>1. Filled' = Filled /\ Edge' = Edge /\ FailureIsLast' /\ InOrder'
    <3>1. chunks' = chunks /\ received' = received /\ (relay = "error" => relay' = "error")
      BY <1>11 DEF PollPending, relaying, channel, reading
    <3> QED BY <3>1, QueueLeftAlone
  <2>2. UploadTypeOK'
    BY <1>11, <1>t, LengthAssumption, WindowAssumption DEF UploadTypeOK, Relayed, PollPending, relaying, channel, reading
  <2>3. Bounded'
    BY <1>11, <1>t, <2>1 DEF Bounded, MaxQueued, PollPending, relaying, channel, reading
  <2>4. Relayed'
    BY <1>11, <1>t, <1>0, <2>1, LengthAssumption DEF UploadTypeOK, Relayed, NobodySleepsBesideWork, PollPending, relaying, channel, reading
  <2>5. NobodySleepsBesideWork'
    BY <1>11, <1>t DEF UploadTypeOK, NobodySleepsBesideWork, PollPending, relaying, channel, reading
  <2> QED BY <2>1, <2>2, <2>3, <2>4, <2>5 DEF UploadInv
<1>12. CASE DropBody
  <2>1. Filled' = Filled /\ Edge' = Edge /\ FailureIsLast' /\ InOrder'
    <3>1. chunks' = chunks /\ received' = received /\ (relay = "error" => relay' = "error")
      BY <1>12 DEF DropBody, WakeProducer, relaying, channel, reading
    <3> QED BY <3>1, QueueLeftAlone
  <2>2. UploadTypeOK'
    BY <1>12, <1>t, LengthAssumption, WindowAssumption DEF UploadTypeOK, Relayed, DropBody, WakeProducer, relaying, channel, reading
  <2>3. Bounded'
    BY <1>12, <1>t, <2>1 DEF Bounded, MaxQueued, DropBody, WakeProducer, relaying, channel, reading
  <2>4. Relayed'
    BY <1>12, <1>t, <1>0, <2>1, LengthAssumption DEF UploadTypeOK, Relayed, NobodySleepsBesideWork, DropBody, WakeProducer, relaying, channel, reading
  <2>5. NobodySleepsBesideWork'
    BY <1>12, <1>t DEF UploadTypeOK, NobodySleepsBesideWork, DropBody, WakeProducer, relaying, channel, reading
  <2> QED BY <2>1, <2>2, <2>3, <2>4, <2>5 DEF UploadInv
<1>13. CASE SendAdmitted
  <2>1. /\ relay = "send" /\ chunks' = Append(chunks, chunk) /\ received' = received
        /\ chunk \in Nat \X Nat /\ chunk[1] = Edge + 1 /\ chunk[2] = taken /\ Edge < taken
    BY <1>13, <1>t DEF SendAdmitted, UploadTypeOK, Relayed
  <2>2. Filled' = Filled + 1 /\ Edge' = taken /\ FailureIsLast' /\ InOrder'
    <3>1. chunk[1] <= chunk[2] /\ relay # "error"
      BY <1>0, <1>t, <2>1 DEF UploadTypeOK
    <3> QED BY <2>1, <3>1, ChunkSent
  <2>3. Size(chunk) = taken - Edge
    BY <1>0, <1>t, <2>1, FailureAssumption DEF Size, UploadTypeOK
  <2>4. queued' = queued + (taken - Edge) /\ taken' = taken
    BY <1>13, <2>3 DEF SendAdmitted
  <2>5. UploadTypeOK'
    <3>1. queued' \in Nat
      BY <1>0, <1>t, <2>1, <2>4, LengthAssumption DEF UploadTypeOK
    <3>2. chunks' \in Seq((Nat \X Nat) \cup {Failure})
      BY <1>0, <2>1 DEF UploadItems
    <3> QED BY <1>13, <1>t, <3>1, <3>2 DEF UploadTypeOK, SendAdmitted, WakeConsumer, NoChunk
  <2>6. Bounded'
    <3>1. queued' = Edge' - received'
      BY <1>0, <1>t, <2>1, <2>2, <2>4, LengthAssumption DEF UploadTypeOK, Bounded
    <3>2. queued' <= MaxQueued \/ Filled' = 1
      <4>1. CASE chunks = <<>>
        BY <1>0, <2>1, <2>2, <4>1
      <4>2. CASE chunks # <<>>
        BY <1>13, <4>2 DEF SendAdmitted, MaxQueued
      <4> QED BY <4>1, <4>2
    <3> QED BY <3>1, <3>2 DEF Bounded, MaxQueued
  <2>7. Relayed'
    BY <1>13, <1>t, <2>2, <2>4 DEF Relayed, SendAdmitted
  <2>8. NobodySleepsBesideWork'
    BY <1>13, <1>t DEF UploadTypeOK, NobodySleepsBesideWork, SendAdmitted, WakeConsumer
  <2> QED BY <2>2, <2>5, <2>6, <2>7, <2>8 DEF UploadInv
<1>14. CASE ReadFails
  <2>1. Filled' = Filled /\ Edge' = Edge /\ FailureIsLast' /\ InOrder'
    <3>1. relay # "error" /\ relay' = "error" /\ received' = received
      BY <1>14 DEF ReadFails
    <3>2. CASE receiverOpen
      <4>1. chunks' = Append(chunks, Failure)
        BY <1>14, <3>2 DEF ReadFails
      <4> QED BY <3>1, <4>1, FailureSent
    <3>3. CASE ~receiverOpen
      <4>1. chunks' = chunks
        BY <1>14, <3>3 DEF ReadFails
      <4> QED BY <3>1, <4>1, QueueLeftAlone
    <3> QED BY <3>2, <3>3
  <2>2. UploadTypeOK'
    <3>1. chunks' \in Seq((Nat \X Nat) \cup {Failure})
      BY <1>14, <1>0 DEF ReadFails, UploadItems
    <3> QED BY <1>14, <1>t, <3>1 DEF UploadTypeOK, ReadFails, WakeConsumer, DropWithResponse
  <2>3. Bounded'
    BY <1>14, <1>t, <2>1 DEF Bounded, MaxQueued, ReadFails
  <2>4. Relayed'
    BY <1>14, <1>t, <2>1 DEF Relayed, ReadFails
  <2>5. NobodySleepsBesideWork'
    BY <1>14, <1>t DEF UploadTypeOK, NobodySleepsBesideWork, ReadFails, WakeConsumer, DropWithResponse
  <2> QED BY <2>1, <2>2, <2>3, <2>4, <2>5 DEF UploadInv
<1>15. CASE PollChunk
  <2>1. /\ chunks # <<>> /\ chunks' = Tail(chunks) /\ queued' = queued - Size(Head(chunks))
        /\ (relay = "error" => relay' = "error") /\ relay' # "blocked" /\ reader = "reading"
        /\ UNCHANGED <<buffered, taken, chunk, relayOpen, responded>>
        /\ relay' = relay \/ (relay = "blocked" /\ relay' = "send")
    BY <1>15, <1>t DEF PollChunk, WakeProducer, NobodySleepsBesideWork
  <2>2. chunks' \in Seq((Nat \X Nat) \cup {Failure})
    BY <1>0, <2>1 DEF UploadItems
  <2>3. Edge' = Edge /\ FailureIsLast' /\ InOrder' /\ Bounded' /\ received' \in Nat /\ queued' \in Nat
    <3>1. CASE Head(chunks) # Failure
      <4>1. received' = received + Size(Head(chunks))
        BY <1>15, <3>1 DEF PollChunk
      <4>2. /\ Filled \in Nat \ {0} /\ Filled' = Filled - 1 /\ Edge' = Edge /\ FailureIsLast' /\ InOrder'
            /\ received' \in Nat /\ received' <= Edge /\ Size(Head(chunks)) = received' - received
            /\ Filled - 1 = 0 => Edge' = received'
        <5>1. /\ Filled \in Nat \ {0} /\ Filled' = Filled - 1 /\ Edge' = Edge /\ FailureIsLast' /\ InOrder'
              /\ received' \in Nat /\ received' <= Edge /\ Size(Head(chunks)) = received' - received
          BY <2>1, <3>1, <4>1, ChunkTaken
        <5>2. Filled' = 0 => Edge' = received'
          BY DEF Edge
        <5> QED BY <5>1, <5>2
      <4>3. queued' = Edge - received' /\ queued' <= queued /\ queued' \in Nat /\ queued \in Nat
        <5>1. queued = Edge - received
          BY <1>t DEF Bounded
        <5>2. queued' = queued - (received' - received)
          BY <2>1, <4>2
        <5>3. received <= received'
          <6>1. 1 \in 1 .. Filled
            BY <4>2
          <6>2. chunks[1] \in Nat \X Nat /\ chunks[1][1] = received + 1 /\ chunks[1][1] <= chunks[1][2]
            BY <1>t, <6>1 DEF InOrder
          <6>3. received' = chunks[1][2]
            BY <2>1, <3>1, <4>1, ChunkTaken
          <6>4. chunks[1][1] \in Nat /\ chunks[1][2] \in Nat
            BY <6>2
          <6> QED BY <1>0, <6>2, <6>3, <6>4
        <5>4. received' \in Nat /\ received' <= Edge
          BY <4>2
        <5>5. queued \in Nat
          BY <1>t DEF UploadTypeOK
        <5>6. queued' = Edge - received'
          BY <1>0, <5>1, <5>2, <5>4
        <5>7. queued' \in Nat /\ queued' <= queued
          <6>1. \A e \in Nat, s \in Nat, r \in Nat : s <= e /\ r <= s =>
                  e - s \in Nat /\ e - s <= e - r
            OBVIOUS
          <6>2. Edge - received' \in Nat /\ Edge - received' <= Edge - received
            BY <1>0, <5>3, <5>4, <6>1
          <6> QED BY <5>1, <5>6, <6>2
        <5> QED BY <5>5, <5>6, <5>7
      <4>4. queued' <= MaxQueued
        <5>1. CASE queued <= MaxQueued
          BY <1>m, <4>3, <5>1
        <5>2. CASE Filled = 1
          <6>1. received' = Edge
            BY <4>2, <5>2
          <6>2. Edge \in Nat
            BY <1>0
          <6>3. queued' = 0
            BY <4>3, <6>1, <6>2
          <6> QED BY <1>m, <6>3
        <5> QED BY <1>t, <5>1, <5>2 DEF Bounded
      <4>5. Bounded' /\ queued' \in Nat
        BY <4>2, <4>3, <4>4 DEF Bounded, MaxQueued
      <4> QED BY <4>2, <4>5
    <3>2. CASE Head(chunks) = Failure
      <4>1. received' = received /\ queued' = queued
        BY <1>15, <1>t, <2>1, <3>2 DEF PollChunk, Size, UploadTypeOK
      <4>2. Filled = 0 /\ Filled' = 0 /\ Edge' = Edge /\ FailureIsLast' /\ InOrder'
        BY <2>1, <3>2, <4>1, FailureTaken
      <4> QED BY <1>0, <1>t, <4>1, <4>2 DEF Bounded, MaxQueued, UploadTypeOK
    <3> QED BY <3>1, <3>2
  <2>4. UploadTypeOK'
    <3>1. /\ reader' \in {"reading", "failed"} /\ producerWaker' = FALSE
          /\ UNCHANGED <<closed, receiverOpen, consumerWaker, holder>>
      BY <1>15, <2>1 DEF PollChunk, WakeProducer
    <3> QED BY <1>t, <2>1, <2>2, <2>3, <3>1 DEF UploadTypeOK
  <2>5. Relayed'
    BY <1>t, <2>1, <2>3 DEF Relayed
  <2>6. NobodySleepsBesideWork'
    BY <1>15, <2>1 DEF NobodySleepsBesideWork, PollChunk
  <2> QED BY <2>3, <2>4, <2>5, <2>6 DEF UploadInv
<1>16. CASE UNCHANGED uploadVars
  <2>1. Filled' = Filled /\ Edge' = Edge /\ FailureIsLast' /\ InOrder'
    BY <1>16, QueueLeftAlone DEF uploadVars, relaying, channel, reading
  <2> QED BY <1>16, <1>t, <2>1 DEF UploadInv, UploadTypeOK, Bounded, MaxQueued, Relayed, NobodySleepsBesideWork, uploadVars, relaying, channel, reading
<1> QED
  BY <1>1, <1>2, <1>3, <1>4, <1>5, <1>6, <1>7, <1>8, <1>9, <1>10, <1>11, <1>12, <1>13, <1>14, <1>15, <1>16 DEF UploadNext, Relay, Read

\* The invariant is what the relay promises.
LEMMA InvariantRelays == UploadInv => RelayIsSound
<1> SUFFICES ASSUME UploadInv PROVE RelayIsSound
  OBVIOUS
<1> DEFINE data == {i \in 1 .. Len(chunks) : chunks[i] # Failure}
<1>1. /\ Filled \in Nat /\ Len(chunks) \in Nat /\ Filled <= Len(chunks) /\ Len(chunks) <= Filled + 1
      /\ \A i \in 1 .. Filled : chunks[i] # Failure
      /\ (chunks = <<>> <=> Len(chunks) = 0) /\ received \in Nat
  BY QueueShape
<1>2. data = 1 .. Filled
  <2>1. \A i \in 1 .. Filled : i \in data
    BY <1>1
  <2>2. \A i \in data : i \in 1 .. Filled
    BY <1>1 DEF Filled
  <2> QED BY <2>1, <2>2
<1>3. data = 1 .. Len(chunks) \/ data = 1 .. Len(chunks) - 1
  <2>1. Filled = Len(chunks) \/ Filled = Len(chunks) - 1
    BY <1>1
  <2> QED BY <1>2, <2>1
<1>4. queued = IF data = {} THEN 0
               ELSE chunks[CHOOSE i \in data : i + 1 \notin data][2] - received
  <2>1. CASE Filled = 0
    <3>1. data = {}
      BY <1>2, <2>1
    <3> QED BY <1>1, <2>1, <3>1 DEF UploadInv, Bounded, Edge
  <2>2. CASE Filled # 0
    <3>1. data # {} /\ Filled \in data /\ Filled + 1 \notin data
          /\ \A i \in data : i + 1 \notin data => i = Filled
      BY <1>1, <1>2, <2>2
    <3>2. (CHOOSE i \in data : i + 1 \notin data) = Filled
      BY <3>1
    <3> QED BY <2>2, <3>1, <3>2 DEF UploadInv, Bounded, Edge
  <2> QED BY <2>1, <2>2
<1>5. queued <= MaxQueued \/ data = {1}
  <2>1. Filled = 1 => data = {1}
    BY <1>2
  <2> QED BY <2>1 DEF UploadInv, Bounded
<1>6. \A i \in data : chunks[i][1] = (IF i = 1 THEN received ELSE chunks[i - 1][2]) + 1
  BY <1>2 DEF UploadInv, InOrder
<1>7. QueueIsAPrefix
  BY <1>3, <1>4, <1>5, <1>6 DEF QueueIsAPrefix
<1> QED BY <1>7 DEF UploadInv, RelayIsSound

\* The body of a streaming upload: what was read and what is queued is a
\* prefix of it, within the limit, and nobody sleeps beside work.
THEOREM UploadsAreSound == UploadSpec => []RelayIsSound
<1>1. UploadSpec => []UploadInv
  BY UploadStarts, UploadSteps, PTL DEF UploadSpec
<1> QED BY <1>1, InvariantRelays, PTL

------------------------------------------------------------------------------
(* The development loop *)

\* What runs is the child, and there is none where one is about to be started.
OneApp ==
  /\ apps \subseteq {child}
  /\ dev \in {"first", "spawn", "ended"} => child = 0

\* A build begins on the tree the last poll saw; when nothing is pending, the
\* last build has compiled that tree or a later one.
Watched ==
  /\ dev = "first" => digest = baseline /\ quiet = Settled
  /\ dev = "rebuild" => began = digest /\ quiet = Settled
  /\ dev \in {"loop", "spawn"} \cup Stopping /\ quiet = Settled /\ digest # baseline =>
       tried \in digest .. source

DevInv == DevTypeOK /\ OneApp /\ Watched

\* The beginning satisfies the invariant.
LEMMA DevStarts == DevInit => DevInv
<1> SUFFICES ASSUME DevInit PROVE DevInv
  OBVIOUS
<1>1. DevTypeOK
  <2>1. /\ source \in 0..MaxEdits /\ digest \in 0..source /\ baseline \in 0..source
        /\ began \in 0..source /\ tried = NoTree /\ quiet \in 0..Settled
        /\ started \in Nat /\ child \in 0..started /\ apps \subseteq 1..started
    BY EditsAssumption, QuietAssumption DEF DevInit, Settled
  <2>2. {reload, leaving, interrupted} \subseteq BOOLEAN
    BY DEF DevInit
  <2> QED BY <2>1, <2>2 DEF DevInit, DevTypeOK
<1>2. OneApp /\ Watched
  BY DEF DevInit, OneApp, Watched, Stopping
<1> QED BY <1>1, <1>2 DEF DevInv

\* Every step preserves the invariant.
LEMMA DevSteps == DevInv /\ [DevNext]_devVars => DevInv'
<1> SUFFICES ASSUME DevInv, [DevNext]_devVars PROVE DevInv'
  OBVIOUS
<1> USE DEF outside, watching, builds, processes
<1>t. DevTypeOK /\ OneApp /\ Watched
  BY DEF DevInv
<1>b. reload \in BOOLEAN /\ leaving \in BOOLEAN /\ interrupted \in BOOLEAN
  BY <1>t DEF DevTypeOK
<1>n. /\ MaxEdits \in Nat /\ QuietPolls \in Nat \ {0} /\ source \in Nat /\ digest \in Nat
      /\ baseline \in Nat /\ began \in Nat /\ quiet \in Nat /\ started \in Nat /\ child \in Nat
      /\ source <= MaxEdits /\ digest <= source /\ began <= source /\ quiet <= QuietPolls
  BY <1>t, EditsAssumption, QuietAssumption DEF DevTypeOK, Settled
<1>1. CASE BuildFirst
  <2>1. {reload', leaving', interrupted'} \subseteq BOOLEAN
    BY <1>1, <1>b DEF BuildFirst
  <2>2. /\ source' \in 0..MaxEdits /\ digest' \in 0..source' /\ baseline' \in 0..source'
        /\ began' \in 0..source' /\ tried' \in (0..source') \union {NoTree} /\ quiet' \in 0..Settled
    BY <1>1, <1>t, <1>n DEF DevTypeOK, Settled, BuildFirst
  <2>3. dev' \in {"first", "spawn", "loop", "rebuild"} \union Stopping \union Over
    BY <1>1, <1>t DEF DevTypeOK, Stopping, Over, BuildFirst
  <2>4. started' \in Nat /\ child' \in 0..started' /\ apps' \subseteq 1..started'
    BY <1>1, <1>t, <1>n DEF DevTypeOK, BuildFirst
  <2>5. DevTypeOK'
    BY <2>1, <2>2, <2>3, <2>4 DEF DevTypeOK, Settled, NoTree, Stopping, Over
  <2>6. OneApp'
    BY <1>1, <1>t, <1>n DEF DevTypeOK, OneApp, Stopping, Over, BuildFirst
  <2>7. Watched'
    BY <1>1, <1>t, <1>n DEF DevTypeOK, Watched, Stopping, Over, Settled, BuildFirst
  <2> QED BY <2>5, <2>6, <2>7 DEF DevInv
<1>2. CASE Rebuild
  <2>1. {reload', leaving', interrupted'} \subseteq BOOLEAN
    BY <1>2, <1>b DEF Rebuild
  <2>2. /\ source' \in 0..MaxEdits /\ digest' \in 0..source' /\ baseline' \in 0..source'
        /\ began' \in 0..source' /\ tried' \in (0..source') \union {NoTree} /\ quiet' \in 0..Settled
    BY <1>2, <1>t, <1>n DEF DevTypeOK, Settled, Rebuild
  <2>3. dev' \in {"first", "spawn", "loop", "rebuild"} \union Stopping \union Over
    BY <1>2, <1>t DEF DevTypeOK, Stopping, Over, Rebuild
  <2>4. started' \in Nat /\ child' \in 0..started' /\ apps' \subseteq 1..started'
    BY <1>2, <1>t, <1>n DEF DevTypeOK, Rebuild
  <2>5. DevTypeOK'
    BY <2>1, <2>2, <2>3, <2>4 DEF DevTypeOK, Settled, NoTree, Stopping, Over
  <2>6. OneApp'
    BY <1>2, <1>t, <1>n DEF DevTypeOK, OneApp, Stopping, Over, Rebuild
  <2>7. Watched'
    BY <1>2, <1>t, <1>n DEF DevTypeOK, Watched, Stopping, Over, Settled, Rebuild
  <2> QED BY <2>5, <2>6, <2>7 DEF DevInv
<1>3. CASE Spawn
  <2>1. {reload', leaving', interrupted'} \subseteq BOOLEAN
    BY <1>3, <1>b DEF Spawn
  <2>2. /\ source' \in 0..MaxEdits /\ digest' \in 0..source' /\ baseline' \in 0..source'
        /\ began' \in 0..source' /\ tried' \in (0..source') \union {NoTree} /\ quiet' \in 0..Settled
    BY <1>3, <1>t, <1>n DEF DevTypeOK, Settled, Spawn
  <2>3. dev' \in {"first", "spawn", "loop", "rebuild"} \union Stopping \union Over
    BY <1>3, <1>t DEF DevTypeOK, Stopping, Over, Spawn
  <2>4. started' \in Nat /\ child' \in 0..started' /\ apps' \subseteq 1..started'
    BY <1>3, <1>t, <1>n DEF DevTypeOK, Spawn
  <2>5. DevTypeOK'
    BY <2>1, <2>2, <2>3, <2>4 DEF DevTypeOK, Settled, NoTree, Stopping, Over
  <2>6. OneApp'
    BY <1>3, <1>t, <1>n DEF DevTypeOK, OneApp, Stopping, Over, Spawn
  <2>7. Watched'
    BY <1>3, <1>t, <1>n DEF DevTypeOK, Watched, Stopping, Over, Settled, Spawn
  <2> QED BY <2>5, <2>6, <2>7 DEF DevInv
<1>4. CASE Poll
  <2>1. {reload', leaving', interrupted'} \subseteq BOOLEAN
    BY <1>4, <1>b DEF Poll
  <2>2. /\ source' \in 0..MaxEdits /\ digest' \in 0..source' /\ baseline' \in 0..source'
        /\ began' \in 0..source' /\ tried' \in (0..source') \union {NoTree} /\ quiet' \in 0..Settled
    BY <1>4, <1>t, <1>n DEF DevTypeOK, Settled, Poll
  <2>3. dev' \in {"first", "spawn", "loop", "rebuild"} \union Stopping \union Over
    BY <1>4, <1>t DEF DevTypeOK, Stopping, Over, Poll
  <2>4. started' \in Nat /\ child' \in 0..started' /\ apps' \subseteq 1..started'
    BY <1>4, <1>t, <1>n DEF DevTypeOK, Poll
  <2>5. DevTypeOK'
    BY <2>1, <2>2, <2>3, <2>4 DEF DevTypeOK, Settled, NoTree, Stopping, Over
  <2>6. OneApp'
    BY <1>4, <1>t, <1>n DEF DevTypeOK, OneApp, Stopping, Over, Poll
  <2>7. Watched'
    BY <1>4, <1>t, <1>n DEF DevTypeOK, Watched, Stopping, Over, Settled, Poll
  <2> QED BY <2>5, <2>6, <2>7 DEF DevInv
<1>5. CASE NoticeInterrupt
  <2>1. {reload', leaving', interrupted'} \subseteq BOOLEAN
    BY <1>5, <1>b DEF NoticeInterrupt
  <2>2. /\ source' \in 0..MaxEdits /\ digest' \in 0..source' /\ baseline' \in 0..source'
        /\ began' \in 0..source' /\ tried' \in (0..source') \union {NoTree} /\ quiet' \in 0..Settled
    BY <1>5, <1>t, <1>n DEF DevTypeOK, Settled, NoticeInterrupt
  <2>3. dev' \in {"first", "spawn", "loop", "rebuild"} \union Stopping \union Over
    BY <1>5, <1>t DEF DevTypeOK, Stopping, Over, NoticeInterrupt
  <2>4. started' \in Nat /\ child' \in 0..started' /\ apps' \subseteq 1..started'
    BY <1>5, <1>t, <1>n DEF DevTypeOK, NoticeInterrupt
  <2>5. DevTypeOK'
    BY <2>1, <2>2, <2>3, <2>4 DEF DevTypeOK, Settled, NoTree, Stopping, Over
  <2>6. OneApp'
    BY <1>5, <1>t, <1>n DEF DevTypeOK, OneApp, Stopping, Over, NoticeInterrupt
  <2>7. Watched'
    BY <1>5, <1>t, <1>n DEF DevTypeOK, Watched, Stopping, Over, Settled, NoticeInterrupt
  <2> QED BY <2>5, <2>6, <2>7 DEF DevInv
<1>6. CASE RequestStop
  <2>1. {reload', leaving', interrupted'} \subseteq BOOLEAN
    BY <1>6, <1>b DEF RequestStop, Reaped
  <2>2. /\ source' \in 0..MaxEdits /\ digest' \in 0..source' /\ baseline' \in 0..source'
        /\ began' \in 0..source' /\ tried' \in (0..source') \union {NoTree} /\ quiet' \in 0..Settled
    BY <1>6, <1>t, <1>n DEF DevTypeOK, Settled, RequestStop, Reaped
  <2>3. dev' \in {"first", "spawn", "loop", "rebuild"} \union Stopping \union Over
    BY <1>6, <1>t DEF DevTypeOK, Stopping, Over, RequestStop, Reaped
  <2>4. started' \in Nat /\ child' \in 0..started' /\ apps' \subseteq 1..started'
    BY <1>6, <1>t, <1>n DEF DevTypeOK, RequestStop, Reaped
  <2>5. DevTypeOK'
    BY <2>1, <2>2, <2>3, <2>4 DEF DevTypeOK, Settled, NoTree, Stopping, Over
  <2>6. OneApp'
    BY <1>6, <1>t, <1>n DEF DevTypeOK, OneApp, Stopping, Over, RequestStop, Reaped
  <2>7. Watched'
    BY <1>6, <1>t, <1>n DEF DevTypeOK, Watched, Stopping, Over, Settled, RequestStop, Reaped
  <2> QED BY <2>5, <2>6, <2>7 DEF DevInv
<1>7. CASE AwaitExit
  <2>1. {reload', leaving', interrupted'} \subseteq BOOLEAN
    BY <1>7, <1>b DEF AwaitExit, Reaped
  <2>2. /\ source' \in 0..MaxEdits /\ digest' \in 0..source' /\ baseline' \in 0..source'
        /\ began' \in 0..source' /\ tried' \in (0..source') \union {NoTree} /\ quiet' \in 0..Settled
    BY <1>7, <1>t, <1>n DEF DevTypeOK, Settled, AwaitExit, Reaped
  <2>3. dev' \in {"first", "spawn", "loop", "rebuild"} \union Stopping \union Over
    BY <1>7, <1>t DEF DevTypeOK, Stopping, Over, AwaitExit, Reaped
  <2>4. started' \in Nat /\ child' \in 0..started' /\ apps' \subseteq 1..started'
    BY <1>7, <1>t, <1>n DEF DevTypeOK, AwaitExit, Reaped
  <2>5. DevTypeOK'
    BY <2>1, <2>2, <2>3, <2>4 DEF DevTypeOK, Settled, NoTree, Stopping, Over
  <2>6. OneApp'
    BY <1>7, <1>t, <1>n DEF DevTypeOK, OneApp, Stopping, Over, AwaitExit, Reaped
  <2>7. Watched'
    BY <1>7, <1>t, <1>n DEF DevTypeOK, Watched, Stopping, Over, Settled, AwaitExit, Reaped
  <2> QED BY <2>5, <2>6, <2>7 DEF DevInv
<1>8. CASE ForceStop
  <2>1. {reload', leaving', interrupted'} \subseteq BOOLEAN
    BY <1>8, <1>b DEF ForceStop, Reaped
  <2>2. /\ source' \in 0..MaxEdits /\ digest' \in 0..source' /\ baseline' \in 0..source'
        /\ began' \in 0..source' /\ tried' \in (0..source') \union {NoTree} /\ quiet' \in 0..Settled
    BY <1>8, <1>t, <1>n DEF DevTypeOK, Settled, ForceStop, Reaped
  <2>3. dev' \in {"first", "spawn", "loop", "rebuild"} \union Stopping \union Over
    BY <1>8, <1>t DEF DevTypeOK, Stopping, Over, ForceStop, Reaped
  <2>4. started' \in Nat /\ child' \in 0..started' /\ apps' \subseteq 1..started'
    BY <1>8, <1>t, <1>n DEF DevTypeOK, ForceStop, Reaped
  <2>5. DevTypeOK'
    BY <2>1, <2>2, <2>3, <2>4 DEF DevTypeOK, Settled, NoTree, Stopping, Over
  <2>6. OneApp'
    BY <1>8, <1>t, <1>n DEF DevTypeOK, OneApp, Stopping, Over, ForceStop, Reaped
  <2>7. Watched'
    BY <1>8, <1>t, <1>n DEF DevTypeOK, Watched, Stopping, Over, Settled, ForceStop, Reaped
  <2> QED BY <2>5, <2>6, <2>7 DEF DevInv
<1>9. CASE DevFails
  <2>1. {reload', leaving', interrupted'} \subseteq BOOLEAN
    BY <1>9, <1>b DEF DevFails
  <2>2. /\ source' \in 0..MaxEdits /\ digest' \in 0..source' /\ baseline' \in 0..source'
        /\ began' \in 0..source' /\ tried' \in (0..source') \union {NoTree} /\ quiet' \in 0..Settled
    BY <1>9, <1>t, <1>n DEF DevTypeOK, Settled, DevFails
  <2>3. dev' \in {"first", "spawn", "loop", "rebuild"} \union Stopping \union Over
    BY <1>9, <1>t DEF DevTypeOK, Stopping, Over, DevFails
  <2>4. started' \in Nat /\ child' \in 0..started' /\ apps' \subseteq 1..started'
    BY <1>9, <1>t, <1>n DEF DevTypeOK, DevFails
  <2>5. DevTypeOK'
    BY <2>1, <2>2, <2>3, <2>4 DEF DevTypeOK, Settled, NoTree, Stopping, Over
  <2>6. OneApp'
    BY <1>9, <1>t, <1>n DEF DevTypeOK, OneApp, Stopping, Over, DevFails
  <2>7. Watched'
    BY <1>9, <1>t, <1>n DEF DevTypeOK, Watched, Stopping, Over, Settled, DevFails
  <2> QED BY <2>5, <2>6, <2>7 DEF DevInv
<1>10. CASE Edit
  <2>1. {reload', leaving', interrupted'} \subseteq BOOLEAN
    BY <1>10, <1>b DEF Edit
  <2>2. /\ source' \in 0..MaxEdits /\ digest' \in 0..source' /\ baseline' \in 0..source'
        /\ began' \in 0..source' /\ tried' \in (0..source') \union {NoTree} /\ quiet' \in 0..Settled
    BY <1>10, <1>t, <1>n DEF DevTypeOK, Settled, Edit
  <2>3. dev' \in {"first", "spawn", "loop", "rebuild"} \union Stopping \union Over
    BY <1>10, <1>t DEF DevTypeOK, Stopping, Over, Edit
  <2>4. started' \in Nat /\ child' \in 0..started' /\ apps' \subseteq 1..started'
    BY <1>10, <1>t, <1>n DEF DevTypeOK, Edit
  <2>5. DevTypeOK'
    BY <2>1, <2>2, <2>3, <2>4 DEF DevTypeOK, Settled, NoTree, Stopping, Over
  <2>6. OneApp'
    BY <1>10, <1>t, <1>n DEF DevTypeOK, OneApp, Stopping, Over, Edit
  <2>7. Watched'
    BY <1>10, <1>t, <1>n DEF DevTypeOK, Watched, Stopping, Over, Settled, Edit
  <2> QED BY <2>5, <2>6, <2>7 DEF DevInv
<1>11. CASE Interrupt
  <2>1. {reload', leaving', interrupted'} \subseteq BOOLEAN
    BY <1>11, <1>b DEF Interrupt
  <2>2. /\ source' \in 0..MaxEdits /\ digest' \in 0..source' /\ baseline' \in 0..source'
        /\ began' \in 0..source' /\ tried' \in (0..source') \union {NoTree} /\ quiet' \in 0..Settled
    BY <1>11, <1>t, <1>n DEF DevTypeOK, Settled, Interrupt
  <2>3. dev' \in {"first", "spawn", "loop", "rebuild"} \union Stopping \union Over
    BY <1>11, <1>t DEF DevTypeOK, Stopping, Over, Interrupt
  <2>4. started' \in Nat /\ child' \in 0..started' /\ apps' \subseteq 1..started'
    BY <1>11, <1>t, <1>n DEF DevTypeOK, Interrupt
  <2>5. DevTypeOK'
    BY <2>1, <2>2, <2>3, <2>4 DEF DevTypeOK, Settled, NoTree, Stopping, Over
  <2>6. OneApp'
    BY <1>11, <1>t, <1>n DEF DevTypeOK, OneApp, Stopping, Over, Interrupt
  <2>7. Watched'
    BY <1>11, <1>t, <1>n DEF DevTypeOK, Watched, Stopping, Over, Settled, Interrupt
  <2> QED BY <2>5, <2>6, <2>7 DEF DevInv
<1>12. CASE AppExits
  <2>1. {reload', leaving', interrupted'} \subseteq BOOLEAN
    BY <1>12, <1>b DEF AppExits
  <2>2. /\ source' \in 0..MaxEdits /\ digest' \in 0..source' /\ baseline' \in 0..source'
        /\ began' \in 0..source' /\ tried' \in (0..source') \union {NoTree} /\ quiet' \in 0..Settled
    BY <1>12, <1>t, <1>n DEF DevTypeOK, Settled, AppExits
  <2>3. dev' \in {"first", "spawn", "loop", "rebuild"} \union Stopping \union Over
    BY <1>12, <1>t DEF DevTypeOK, Stopping, Over, AppExits
  <2>4. started' \in Nat /\ child' \in 0..started' /\ apps' \subseteq 1..started'
    BY <1>12, <1>t, <1>n DEF DevTypeOK, AppExits
  <2>5. DevTypeOK'
    BY <2>1, <2>2, <2>3, <2>4 DEF DevTypeOK, Settled, NoTree, Stopping, Over
  <2>6. OneApp'
    BY <1>12, <1>t, <1>n DEF DevTypeOK, OneApp, Stopping, Over, AppExits
  <2>7. Watched'
    BY <1>12, <1>t, <1>n DEF DevTypeOK, Watched, Stopping, Over, Settled, AppExits
  <2> QED BY <2>5, <2>6, <2>7 DEF DevInv
<1>13. CASE UNCHANGED devVars
  BY <1>13, <1>t DEF DevInv, DevTypeOK, OneApp, Watched, Settled, NoTree, Stopping, Over, devVars
<1> QED
  BY <1>1, <1>2, <1>3, <1>4, <1>5, <1>6, <1>7, <1>8, <1>9, <1>10, <1>11, <1>12, <1>13 DEF DevNext, DevStep

\* The invariant is what the loop promises.
LEMMA DevInvariantHolds == DevInv => RestartsAreSound
<1> SUFFICES ASSUME DevInv PROVE RestartsAreSound
  OBVIOUS
<1>1. DevTypeOK /\ OneApp /\ Watched
  BY DEF DevInv
<1>2. apps = {} \/ apps = {child}
  BY <1>1 DEF OneApp
<1>3. Cardinality(apps) <= 1
  <2>1. Cardinality({}) = 0 /\ Cardinality({child}) = 1
    BY FS_EmptySet, FS_Singleton
  <2> QED BY <1>2, <2>1
<1>4. dev = "ended" => apps = {}
  <2>1. 0 \notin apps
    BY <1>1 DEF DevTypeOK
  <2> QED BY <1>1, <1>2, <2>1 DEF OneApp
<1>5. RestIsCurrent
  <2> SUFFICES ASSUME AtRest, source # baseline PROVE tried = source
    BY DEF RestIsCurrent
  <2>1. tried \in digest .. source /\ source = digest /\ source \in Nat
    BY <1>1 DEF AtRest, Watched, DevTypeOK
  <2> QED BY <2>1
<1> QED BY <1>1, <1>3, <1>4, <1>5 DEF RestartsAreSound, AppsDoNotOverlap

\* The development loop: one application runs at a time, none is left by a
\* command that has ended well, and at rest the last build is of the tree as it is.
THEOREM RestartsStaySound == DevSpec => []RestartsAreSound
<1>1. DevSpec => []DevInv
  BY DevStarts, DevSteps, PTL DEF DevSpec
<1> QED BY <1>1, DevInvariantHolds, PTL
===============================================================================
