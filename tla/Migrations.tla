----------------------------- MODULE Migrations -----------------------------
(***************************************************************************)
(* Database::migrate and Database::verify_migrations                       *)
(* (crates/blazingly-database/src/lib.rs) run by several processes of a    *)
(* deployment on one database.  Each process has the MigrationSet of its   *)
(* own release; a process may stop between any two driver calls and run    *)
(* again.                                                                  *)
(*                                                                         *)
(* External: the adapter.  Its apply is one transaction that runs the      *)
(* script and records the version (the trait demands it), its ledger has   *)
(* one row per version, so a second apply of a version fails, and `applied` *)
(* lists the rows by ascending version.  A set is modelled by the sequence *)
(* of its versions and by the checksum of each.                            *)
(***************************************************************************)
EXTENDS Naturals, Sequences, FiniteSets, SequencesExt

CONSTANTS Processes, \* processes that migrate or verify at startup
          Versions,  \* the versions that some release defines
          SetOf,     \* each process's versions, ascending
          SumOf,     \* each process's checksum of each version
          MaxRuns,   \* bound: how often one process is started
          NoVersion

\* What an instance must satisfy; the module that makes it assumes so.
VersionsAssumption ==
  Versions \subseteq Nat /\ IsFiniteSet(Versions) /\ MaxRuns \in Nat
NoVersionAssumption == NoVersion \notin Nat
SetsAssumption ==
  \A p \in Processes :
     /\ SetOf[p] \in Seq(Versions)
     /\ \A i, j \in 1 .. Len(SetOf[p]) : i < j => SetOf[p][i] < SetOf[p][j]
\* The releases are of one history, to which versions are only appended.
HistoryAssumption ==
  \A p, q \in Processes : \A i \in 1 .. Len(SetOf[p]) :
     i <= Len(SetOf[q]) => SetOf[p][i] = SetOf[q][i]

VARIABLES ledger, \* the rows: version -> checksum, for the versions applied
          stepAt, \* where each process is
          mode,   \* "migrate" or "verify"
          seen,   \* the last version a process read, or NoVersion
          report, \* MigrationReport: applied and current_version
          outcome, runs,
          scripts \* the versions whose scripts ran, in order (history)

process == <<stepAt, mode, seen, report, outcome, runs>>
migrationVars == <<ledger, process, scripts>>

EmptyReport == [applied |-> <<>>, current |-> NoVersion]

MigrationsInit ==
  /\ ledger = [v \in {} |-> 0] /\ scripts = <<>>
  /\ stepAt = [p \in Processes |-> "stopped"]
  /\ mode = [p \in Processes |-> "migrate"]
  /\ seen = [p \in Processes |-> NoVersion]
  /\ report = [p \in Processes |-> EmptyReport]
  /\ outcome = [p \in Processes |-> "none"]
  /\ runs = [p \in Processes |-> 0]

\* What `applied` returns.
Applied ==
  CHOOSE s \in [1 .. Cardinality(DOMAIN ledger) -> DOMAIN ledger] :
    \A i, j \in DOMAIN s : i < j => s[i] < s[j]

\* MigrationSet::pending: the versions after the last applied one, which the
\* set lists in ascending order.
Pending(p, last) == {v \in ToSet(SetOf[p]) : last = NoVersion \/ v > last}

\* Mutant: the recorded checksums are not compared.
VerifyVersions(p) ==
  \A i \in 1 .. Len(Applied) :
     i <= Len(SetOf[p]) /\ SetOf[p][i] = Applied[i]

\* MigrationSet::verify: the ledger is an unmodified prefix of the set.
Verify(p) ==
  \A i \in 1 .. Len(Applied) :
     /\ i <= Len(SetOf[p]) /\ SetOf[p][i] = Applied[i]
     /\ SumOf[p][Applied[i]] = ledger[Applied[i]]

Start(p) ==
  /\ stepAt[p] = "stopped" /\ runs[p] < MaxRuns
  /\ stepAt' = [stepAt EXCEPT ![p] = "read"]
  /\ \E m \in {"migrate", "verify"} : mode' = [mode EXCEPT ![p] = m]
  /\ report' = [report EXCEPT ![p] = EmptyReport]
  /\ seen' = [seen EXCEPT ![p] = NoVersion]
  /\ outcome' = [outcome EXCEPT ![p] = "none"]
  /\ runs' = [runs EXCEPT ![p] = @ + 1]
  /\ UNCHANGED <<ledger, scripts>>

\* read_ledger: ensure_ledger, applied, verify; then migrate starts its report
\* and verify_migrations answers.
ReadLedger(p) ==
  /\ stepAt[p] = "read"
  /\ LET last == IF Applied = <<>> THEN NoVersion ELSE Applied[Len(Applied)] IN
     IF ~Verify(p)
     THEN /\ stepAt' = [stepAt EXCEPT ![p] = "stopped"]
          /\ outcome' = [outcome EXCEPT ![p] = "disagrees"]
          /\ UNCHANGED <<seen, report>>
     ELSE /\ seen' = [seen EXCEPT ![p] = last]
          /\ report' = [report EXCEPT ![p].current = last]
          /\ IF mode[p] = "migrate"
             THEN stepAt' = [stepAt EXCEPT ![p] = "apply"] /\ UNCHANGED outcome
             ELSE /\ stepAt' = [stepAt EXCEPT ![p] = "stopped"]
                  /\ outcome' = [outcome EXCEPT ![p] =
                       IF Pending(p, last) = {} THEN "verified" ELSE "pending"]
  /\ UNCHANGED <<ledger, mode, runs, scripts>>

\* The migrations that were pending when the ledger was read, less those done.
ToApply(p) == Pending(p, seen[p]) \ ToSet(report[p].applied)

Lowest(versions) == CHOOSE v \in versions : \A w \in versions : v <= w

\* connection.apply(migration), then the report; it fails when another
\* process has recorded the version since.
Apply(p) ==
  /\ stepAt[p] = "apply" /\ ToApply(p) # {}
  /\ LET v == Lowest(ToApply(p)) IN
     IF v \in DOMAIN ledger
     THEN /\ stepAt' = [stepAt EXCEPT ![p] = "stopped"]
          /\ outcome' = [outcome EXCEPT ![p] = "failed"]
          /\ UNCHANGED <<ledger, scripts, report>>
     ELSE /\ ledger' = [w \in DOMAIN ledger \cup {v} |->
                          IF w = v THEN SumOf[p][v] ELSE ledger[w]]
          /\ scripts' = Append(scripts, v)
          /\ report' = [report EXCEPT ![p] =
                          [applied |-> Append(@.applied, v), current |-> v]]
          /\ UNCHANGED <<stepAt, outcome>>
  /\ UNCHANGED <<mode, seen, runs>>

Report(p) ==
  /\ stepAt[p] = "apply" /\ ToApply(p) = {}
  /\ stepAt' = [stepAt EXCEPT ![p] = "stopped"]
  /\ outcome' = [outcome EXCEPT ![p] = "migrated"]
  /\ UNCHANGED <<ledger, mode, seen, report, runs, scripts>>

\* A driver call fails, or the process is stopped: the rows stay.
Halt(p) ==
  /\ stepAt[p] # "stopped"
  /\ stepAt' = [stepAt EXCEPT ![p] = "stopped"]
  /\ outcome' = [outcome EXCEPT ![p] = "failed"]
  /\ UNCHANGED <<ledger, mode, seen, report, runs, scripts>>

MigrationsNext ==
  \E p \in Processes :
     Start(p) \/ ReadLedger(p) \/ Apply(p) \/ Report(p) \/ Halt(p)

MigrationsSpec == MigrationsInit /\ [][MigrationsNext]_migrationVars

------------------------------------------------------------------------------
MigrationsTypeOK ==
  /\ DOMAIN ledger \subseteq Versions
  /\ stepAt \in [Processes -> {"stopped", "read", "apply"}]
  /\ mode \in [Processes -> {"migrate", "verify"}]
  /\ seen \in [Processes -> Versions \cup {NoVersion}]
  /\ runs \in [Processes -> 0 .. MaxRuns]

\* Whatever processes race or stop, no script runs twice, scripts run in
\* ascending order, and a run that answers success has agreed with the ledger:
\* every version of its set is recorded with its own checksum, and a version
\* it reports as current is the last one of its set.
MigrationsAgree ==
  /\ \A i, j \in 1 .. Len(scripts) : i < j => scripts[i] < scripts[j]
  /\ DOMAIN ledger = ToSet(scripts)
  /\ \A p \in Processes :
       outcome[p] \in {"migrated", "verified"} =>
         /\ \A i \in 1 .. Len(SetOf[p]) :
              /\ SetOf[p][i] \in DOMAIN ledger
              /\ ledger[SetOf[p][i]] = SumOf[p][SetOf[p][i]]
         /\ outcome[p] = "migrated" /\ report[p].current # NoVersion =>
              report[p].current = SetOf[p][Len(SetOf[p])]
==============================================================================
