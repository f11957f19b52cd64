------------------------------ MODULE DevLoop ------------------------------
(***************************************************************************)
(* `cargo blazingly dev` (crates/cargo-blazingly/src/main.rs): build the   *)
(* application, run it, poll the source tree, and after every change that  *)
(* has been quiet for a while build again, stop the old process and start  *)
(* the new one.                                                            *)
(*                                                                         *)
(* The developer edits at any moment, the application exits at any moment, *)
(* Ctrl-C arrives at any moment, and a build takes long enough for all     *)
(* three to happen during it.  The watched tree is one number, which every *)
(* edit raises (the digest is over sizes and modification times); Broken   *)
(* are the trees that do not compile.                                      *)
(***************************************************************************)
EXTENDS Naturals, FiniteSets

CONSTANTS
  MaxEdits,    \* bound of the model: how often the source changes
  QuietPolls,  \* QUIET_PERIOD / POLL_INTERVAL: polls without a change
  Broken       \* the trees Cargo refuses to build

ASSUME EditsAssumption == MaxEdits \in Nat
ASSUME QuietAssumption == QuietPolls \in Nat \ {0}
ASSUME BrokenAssumption == Broken \subseteq 0..MaxEdits

VARIABLES
  reload,       \* options.reload: not --no-reload
  source,       \* the watched tree
  digest,       \* `digest`: the tree the last poll saw
  baseline,     \* history: the tree the snapshot after the first build saw
  quiet,        \* QuietPeriod.pending: polls since the last change, or Settled
  began,        \* the tree when the running build began
  tried,        \* the tree the last finished build has compiled
  dev,          \* where the command is
  leaving,      \* whether stop_child is the last thing it does
  child,        \* `child`: the process it supervises, 0 for None
  apps,         \* the application processes that run
  started,      \* how many have been started
  interrupted   \* `stopped`: Ctrl-C was pressed

devVars == <<reload, source, digest, baseline, quiet, began, tried, dev, leaving, child,
          apps, started, interrupted>>
watching == <<digest, baseline, quiet>>
builds == <<began, tried>>
processes == <<child, apps, started>>
outside == <<reload, source, interrupted>>

Settled == QuietPolls           \* `pending` is None
NoTree == MaxEdits + 1          \* nothing has been built
Stopping == {"stop", "grace", "kill"}
Over == {"ended", "failed"}

DevTypeOK ==
  /\ source \in 0..MaxEdits /\ digest \in 0..source /\ baseline \in 0..source
  /\ began \in 0..source /\ tried \in (0..source) \union {NoTree}
  /\ quiet \in 0..Settled
  /\ dev \in {"first", "spawn", "loop", "rebuild"} \union Stopping \union Over
  /\ {reload, leaving, interrupted} \subseteq BOOLEAN
  /\ started \in Nat /\ child \in 0..started /\ apps \subseteq 1..started

\* The command is started on a tree nobody has touched yet.
DevInit ==
  /\ reload \in BOOLEAN
  /\ source = 0 /\ digest = 0 /\ baseline = 0 /\ quiet = Settled
  /\ began = 0 /\ tried = NoTree /\ dev = "first" /\ leaving = FALSE
  /\ child = 0 /\ apps = {} /\ started = 0 /\ interrupted = FALSE

-----------------------------------------------------------------------------
(* What happens around the command *)

\* A watched file is written.
Edit ==
  /\ source < MaxEdits /\ dev \notin Over
  /\ source' = source + 1
  /\ UNCHANGED <<reload, watching, builds, dev, leaving, processes, interrupted>>

\* Ctrl-C: the handler only sets a flag.
Interrupt ==
  /\ ~interrupted /\ dev \notin Over
  /\ interrupted' = TRUE
  /\ UNCHANGED <<reload, source, watching, builds, dev, leaving, processes>>

\* An application ends: by itself, of a crash, or because it was asked to.
AppExits ==
  /\ dev \notin Over
  /\ \E app \in apps : apps' = apps \ {app}
  /\ UNCHANGED <<outside, watching, builds, dev, leaving, child, started>>

-----------------------------------------------------------------------------
(* Building *)

\* The first build, and the snapshot taken after it.  Cargo reads a file at
\* some moment of the build.
BuildFirst ==
  /\ dev = "first"
  /\ \E tree \in began..source :
       /\ tried' = tree
       /\ dev' = CASE tree \notin Broken -> "spawn"
                   [] tree \in Broken /\ reload -> "loop"
                   [] tree \in Broken /\ ~reload -> "ended"
  /\ digest' = source /\ baseline' = source
  /\ UNCHANGED <<outside, quiet, began, leaving, processes>>

\* Mutant: the tree is looked at again after the build, as after the first.
RebuildLooksAgain ==
  /\ dev = "rebuild"
  /\ \E tree \in began..source :
       /\ tried' = tree
       /\ dev' = CASE tree \in Broken -> "loop"
                   [] tree \notin Broken /\ child # 0 -> "stop"
                   [] tree \notin Broken /\ child = 0 -> "spawn"
  /\ digest' = source
  /\ UNCHANGED <<outside, baseline, quiet, began, leaving, processes>>

\* rebuild: the running application survives a build that fails.
Rebuild ==
  /\ dev = "rebuild"
  /\ \E tree \in began..source :
       /\ tried' = tree
       /\ dev' = CASE tree \in Broken -> "loop"
                   [] tree \notin Broken /\ child # 0 -> "stop"
                   [] tree \notin Broken /\ child = 0 -> "spawn"
  /\ UNCHANGED <<outside, watching, began, leaving, processes>>

\* spawn_staged: the artifact is copied, and the copy is started.
Spawn ==
  /\ dev = "spawn"
  /\ started' = started + 1 /\ child' = started + 1
  /\ apps' = apps \union {started + 1}
  /\ dev' = "loop"
  /\ UNCHANGED <<outside, watching, builds, leaving>>

\* Cargo cannot be run, the artifact not be staged or started, or a process
\* not be polled: the error ends the command and drops the handle of the
\* application without ending it.
DevFails ==
  /\ dev \notin Over
  /\ dev' = "failed"
  /\ UNCHANGED <<outside, watching, builds, leaving, processes>>

-----------------------------------------------------------------------------
(* The loop *)

\* One round: forget a child that has exited, compare the tree, and build
\* when a change has been quiet for the period.  Polls may be far apart, so
\* that fewer than QuietPolls of them can be enough.
Poll ==
  /\ dev = "loop" /\ ~interrupted
  /\ child' = IF child \in apps THEN child ELSE 0
  /\ \/ /\ ~reload
        /\ UNCHANGED <<digest, quiet, began, dev>>
     \/ /\ reload /\ source # digest
        /\ digest' = source /\ quiet' = 0
        /\ UNCHANGED <<began, dev>>
     \/ /\ reload /\ source = digest /\ quiet < Settled
        /\ quiet' = quiet + 1
        /\ UNCHANGED <<digest, began, dev>>
        /\ quiet' < Settled
     \/ /\ reload /\ source = digest /\ quiet < Settled
        /\ quiet' = Settled /\ began' = source /\ dev' = "rebuild"
        /\ UNCHANGED digest
  /\ UNCHANGED <<outside, baseline, tried, leaving, apps, started>>

\* Ctrl-C is noticed: the child, if there is one, is stopped first.
NoticeInterrupt ==
  /\ dev = "loop" /\ interrupted
  /\ dev' = IF child = 0 THEN "ended" ELSE "stop"
  /\ leaving' = TRUE
  /\ UNCHANGED <<outside, watching, builds, processes>>

-----------------------------------------------------------------------------
(* stop_child *)

\* The child has been reaped: start the new one, or end.
Reaped ==
  /\ child' = 0
  /\ dev' = IF leaving THEN "ended" ELSE "spawn"

\* reap finds that it has exited already; otherwise it is asked to stop, and
\* when it could not be asked it is killed.
RequestStop ==
  /\ dev = "stop"
  /\ \/ child \notin apps /\ Reaped
     \/ child \in apps /\ dev' \in {"grace", "kill"} /\ UNCHANGED child
  /\ UNCHANGED <<outside, watching, builds, leaving, apps, started>>

\* STOP_GRACE: the child exits in time, or the deadline passes.
AwaitExit ==
  /\ dev = "grace"
  /\ \/ child \notin apps /\ Reaped
     \/ dev' = "kill" /\ UNCHANGED child
  /\ UNCHANGED <<outside, watching, builds, leaving, apps, started>>

\* force_stop, then wait.
ForceStop ==
  /\ dev = "kill"
  /\ apps' = apps \ {child} /\ Reaped
  /\ UNCHANGED <<outside, watching, builds, leaving, started>>

DevStep == BuildFirst \/ Rebuild \/ Spawn \/ Poll \/ NoticeInterrupt
          \/ RequestStop \/ AwaitExit \/ ForceStop

DevNext == DevStep \/ DevFails \/ Edit \/ Interrupt \/ AppExits

DevSpec == DevInit /\ [][DevNext]_devVars

\* The command goes on, builds finish, the grace period ends and a kill
\* works; nothing is assumed of the developer or of the application.
FairDevSpec == DevSpec /\ WF_devVars(DevStep)

-----------------------------------------------------------------------------
(* Properties *)

\* A restart swaps processes, it does not overlap them (the old one holds the
\* listening socket), and the command ends cleanly only when none is left.
AppsDoNotOverlap ==
  /\ Cardinality(apps) <= 1
  /\ dev = "ended" => apps = {}

\* The tree is quiet, and has been built.
AtRest == dev = "loop" /\ reload /\ source = digest /\ quiet = Settled

\* An edit is not lost to the build that was running when it was made: once
\* the watcher has nothing pending, the last build has compiled the tree as
\* it is.  Edits made during the first build are the exception.
RestIsCurrent == AtRest /\ source # baseline => tried = source

\* Both: what runs is alone and, at rest, current.
RestartsAreSound == DevTypeOK /\ AppsDoNotOverlap /\ RestIsCurrent

\* After Ctrl-C the command returns, whatever the application does with the
\* request to stop.
DevReturns == interrupted ~> dev \in Over
=============================================================================
