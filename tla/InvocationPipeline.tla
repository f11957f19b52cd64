-------------------------- MODULE InvocationPipeline --------------------------
(***************************************************************************)
(* One operation's invocation pipeline, crates/blazingly-executor/src/     *)
(* lib.rs: ExecutableOperation::invoke_pipeline,                           *)
(* invoke_pipeline_controlled, the request-scoped provider chain and its   *)
(* finalizers.  Several invocations of the operation run concurrently on   *)
(* one worker and share its cached classification sync_chain.              *)
(*                                                                         *)
(* Every point where the code awaits is a stage here.  A controlled        *)
(* invocation polls its abort signals before the awaited future; any       *)
(* invocation can be dropped at an await (a reset HTTP/2 stream, a lost    *)
(* connection).  Values, errors and responses are reduced to how the       *)
(* request ended.  Finalizers succeed: the crate builds none that fails.   *)
(***************************************************************************)
EXTENDS Naturals

CONSTANTS Invocations, \* concurrent invocations of the operation
          N,           \* request-scoped providers, in resolution order
          Hooked       \* the operation inherited plugin hooks

ASSUME NAssumption == N \in Nat
ASSUME HookedAssumption == Hooked \in BOOLEAN

VARIABLES controlled, \* the invocations that carry an InvocationControl
          async,     \* the providers whose runner is async; neither ever changes
          chain,     \* sync_chain of the compiled plan
          stage,     \* where each invocation is
          made,      \* how many providers have produced their value
          held,      \* what a synchronous factory returned to an unpolled future
          started,   \* how often each provider's factory ran (history)
          built,     \* providers whose factory returned a value (history)
          left,      \* values finalize_prefix has still to visit
          told,      \* what each finalizer was told (history)
          outcome,   \* how the invocation ended
          signalled  \* invocations whose cancellation or timeout fired

plan == <<controlled, async>>
vars == <<plan, chain, stage, made, held, started, built, left, told, outcome, signalled>>

Providers == 1 .. N
None == "none"
Outcomes == {"success", "rejected", "failed", "aborted"}

Init ==
  /\ controlled \in SUBSET Invocations
  /\ async \in SUBSET Providers
  /\ chain = "unknown"
  /\ stage = [i \in Invocations |-> "on_request"]
  /\ made = [i \in Invocations |-> 0]
  /\ held = [i \in Invocations |-> None]
  /\ started = [i \in Invocations |-> [p \in Providers |-> 0]]
  /\ built = [i \in Invocations |-> {}]
  /\ left = [i \in Invocations |-> 0]
  /\ told = [i \in Invocations |-> [p \in Providers |-> None]]
  /\ outcome = [i \in Invocations |-> None]
  /\ signalled = {}

------------------------------------------------------------------------------
\* The awaited future is polled only when no abort signal is ready.
Polled(i) == i \notin signalled

Go(i, from, to) == stage[i] = from /\ stage' = [stage EXCEPT ![i] = to]

\* Every early return with k values made: tear down what was made, then answer.
EndWith(i, from, k, o) ==
  /\ Go(i, from, "finalize")
  /\ outcome' = [outcome EXCEPT ![i] = o]
  /\ left' = [left EXCEPT ![i] = k]

\* The stages between two awaits that touch nothing else.
Pass(i, from, to) ==
  /\ Go(i, from, to)
  /\ UNCHANGED <<chain, made, held, started, built, left, told, outcome, signalled, plan>>

\* Mutant: an early return forgets the values made so far.
StopWithoutTeardown(i, from, o) ==
  /\ EndWith(i, from, 0, o)
  /\ held' = [held EXCEPT ![i] = None]
  /\ UNCHANGED <<chain, made, started, built, told, signalled, plan>>

Stop(i, from, o) ==
  /\ EndWith(i, from, made[i], o)
  /\ held' = [held EXCEPT ![i] = None]
  /\ UNCHANGED <<chain, made, started, built, told, signalled, plan>>

\* The hook stages, with what follows each.  With no hooks they still await.
HookStages == {"on_request", "pre_parse", "pre_validate", "pre_handler", "pre_serialize"}
After == [on_request |-> "decode", pre_parse |-> "pre_validate",
          pre_validate |-> "prepare", pre_handler |-> "handler"]

HookPasses(i) ==
  \E h \in HookStages \ {"pre_serialize"} : Polled(i) /\ Pass(i, h, After[h])

HookFails(i) ==
  \E h \in HookStages : Hooked /\ Polled(i) /\ Stop(i, h, "failed")

\* decode_inputs, then the chain.  A rejection answers before any provider.
Decode(i) ==
  \/ Stop(i, "decode", "rejected")
  \/ Pass(i, "decode", IF i \in controlled THEN "await" ELSE "resolve")

FirstAsync(p) == p \in async /\ \A q \in async : p <= q

\* The factories of providers a+1..b were called.
Ran(i, a, b) ==
  started' = [started EXCEPT ![i] =
    [p \in Providers |-> IF a < p /\ p <= b THEN @[p] + 1 ELSE @[p]]]

\* resolve: drive the chain without awaiting up to the first async provider.
ResolveProbes(i) ==
  /\ chain # "async"
  /\ \E p \in async :
       /\ FirstAsync(p)
       /\ Ran(i, 0, p - 1)
       /\ made' = [made EXCEPT ![i] = p - 1]
       /\ built' = [built EXCEPT ![i] = 1 .. p - 1]
  /\ Go(i, "resolve", "await")
  /\ chain' = "async"
  /\ UNCHANGED <<held, left, told, outcome, signalled, plan>>

ResolveSync(i) ==
  /\ chain # "async" /\ async = {}
  /\ Ran(i, 0, N)
  /\ made' = [made EXCEPT ![i] = N]
  /\ built' = [built EXCEPT ![i] = Providers]
  /\ Go(i, "resolve", "pre_parse")
  /\ chain' = "sync"
  /\ UNCHANGED <<held, left, told, outcome, signalled, plan>>

\* A synchronous provider before the first async one reports an error.
ResolveFails(i) ==
  /\ chain # "async"
  /\ \E p \in Providers :
       /\ \A q \in async : p < q
       /\ Ran(i, 0, p)
       /\ made' = [made EXCEPT ![i] = p - 1]
       /\ built' = [built EXCEPT ![i] = 1 .. p - 1]
       /\ EndWith(i, "resolve", p - 1, "failed")
  /\ UNCHANGED <<chain, held, told, signalled, plan>>

ResolveAwaits(i) == chain = "async" /\ Pass(i, "resolve", "await")

------------------------------------------------------------------------------
(* resolve_from and resolve_controlled: one awaited provider after another. *)
(* CompiledProvider::run calls a synchronous factory at once, before the    *)
(* abort signals are polled, and hands its result back as a ready future.   *)

CallSyncProvider(i) ==
  LET p == made[i] + 1 IN
  /\ stage[i] = "await" /\ made[i] < N /\ p \notin async
  /\ held[i] = None
  /\ Ran(i, made[i], p)
  /\ \/ /\ held' = [held EXCEPT ![i] = "value"]
        /\ built' = [built EXCEPT ![i] = @ \cup {p}]
     \/ held' = [held EXCEPT ![i] = "error"] /\ UNCHANGED built
  /\ UNCHANGED <<chain, stage, made, left, told, outcome, signalled, plan>>

\* The future of the next provider is polled and ready with a value.
Ready(i) ==
  /\ stage[i] = "await" /\ made[i] < N /\ Polled(i)
  /\ made[i] + 1 \in async \/ held[i] = "value"

ProviderReady(i) ==
  LET p == made[i] + 1 IN
  /\ Ready(i)
  /\ made' = [made EXCEPT ![i] = p]
  /\ held' = [held EXCEPT ![i] = None]
  /\ IF p \in async
     THEN Ran(i, made[i], p) /\ built' = [built EXCEPT ![i] = @ \cup {p}]
     ELSE UNCHANGED <<started, built>>
  /\ UNCHANGED <<chain, stage, left, told, outcome, signalled, plan>>

ProviderFails(i) ==
  LET p == made[i] + 1 IN
  /\ made[i] < N /\ Polled(i)
  /\ p \in async \/ held[i] = "error"
  /\ EndWith(i, "await", made[i], "failed")
  /\ held' = [held EXCEPT ![i] = None]
  /\ IF p \in async THEN Ran(i, made[i], p) ELSE UNCHANGED started
  /\ UNCHANGED <<chain, made, built, told, signalled, plan>>

ChainResolved(i) == made[i] = N /\ Pass(i, "await", "pre_parse")

\* prepare: decoding the handler's arguments, between two awaits.
Prepare(i) == Pass(i, "prepare", "pre_handler") \/ Stop(i, "prepare", "rejected")

\* The handler settles the outcome, which pre_serialize may still replace.
HandlerReturns(i) ==
  /\ Polled(i)
  /\ Go(i, "handler", "pre_serialize")
  /\ \E o \in {"success", "failed"} : outcome' = [outcome EXCEPT ![i] = o]
  /\ UNCHANGED <<chain, made, held, started, built, left, told, signalled, plan>>

Serialize(i) == Polled(i) /\ Stop(i, "pre_serialize", outcome[i])

------------------------------------------------------------------------------
(* Cleanup: finalizers in reverse order, then the response hooks.          *)

\* Mutant: values are torn down in the order they were made.
FinalizeForwards(i) ==
  /\ stage[i] = "finalize" /\ left[i] > 0
  /\ told' = [told EXCEPT ![i][made[i] + 1 - left[i]] = outcome[i]]
  /\ left' = [left EXCEPT ![i] = @ - 1]
  /\ UNCHANGED <<chain, stage, made, held, started, built, outcome, signalled, plan>>

Finalize(i) ==
  /\ stage[i] = "finalize" /\ left[i] > 0
  /\ told' = [told EXCEPT ![i][left[i]] = outcome[i]]
  /\ left' = [left EXCEPT ![i] = @ - 1]
  /\ UNCHANGED <<chain, stage, made, held, started, built, outcome, signalled, plan>>

\* on_error runs for an outcome that is not a success.
Finalized(i) ==
  /\ left[i] = 0
  /\ Pass(i, "finalize", IF ~Hooked THEN "answered"
                         ELSE IF outcome[i] = "success" THEN "on_response"
                         ELSE "on_error")

ResponseHooks(i) == Pass(i, "on_error", "on_response") \/ Pass(i, "on_response", "answered")

------------------------------------------------------------------------------
(* Signals and lost callers.                                               *)

Awaits == HookStages \cup {"await", "handler"}
Cleanup == {"finalize", "on_error", "on_response"}

Signal(i) ==
  /\ i \in controlled \ signalled
  /\ signalled' = signalled \cup {i}
  /\ UNCHANGED <<plan, chain, stage, made, held, started, built, left, told, outcome>>

\* Mutant: the abort signal is polled during cleanup too.
AbortAnywhere(i) ==
  \E s \in Awaits \cup Cleanup :
    /\ i \in signalled
    /\ Go(i, s, "answered")
    /\ outcome' = [outcome EXCEPT ![i] = "aborted"]
    /\ UNCHANGED <<chain, made, held, started, built, left, told, signalled, plan>>

\* A provider's future exists: of an async one, or holding a result.
AtProvider(i) == made[i] < N /\ (made[i] + 1 \in async \/ held[i] # None)

\* Mutant: the handler is awaited outside InvocationControl::run.
AbortBeforeHandler(i) ==
  \E s \in Awaits \ {"handler"} :
    /\ i \in signalled /\ (s = "await" => AtProvider(i))
    /\ Stop(i, s, "aborted")

\* InvocationControl::run returns the abort instead of polling the future.
Abort(i) ==
  \E s \in Awaits :
    /\ i \in signalled /\ (s = "await" => AtProvider(i))
    /\ Stop(i, s, "aborted")

\* Hooks, async providers, the handler and finalizers may suspend.
MaySuspend(i, s) ==
  \/ s \in HookStages /\ Hooked
  \/ s = "await" /\ made[i] + 1 \in async
  \/ s \in Cleanup \cup {"handler"}

\* The adapter drops the future: nothing of the pipeline runs any more.
Drop(i) == \E s \in Awaits \cup Cleanup : MaySuspend(i, s) /\ Pass(i, s, "dropped")

------------------------------------------------------------------------------
\* What the worker does with an invocation it polls.
Cleans(i) == CallSyncProvider(i) \/ Abort(i) \/ Decode(i) \/ Prepare(i) \/ Finalize(i)
             \/ Finalized(i) \/ ResponseHooks(i) \/ ChainResolved(i)

Resolve(i) == ResolveProbes(i) \/ ResolveSync(i) \/ ResolveFails(i) \/ ResolveAwaits(i)

Next ==
  \E i \in Invocations :
    \/ HookPasses(i) \/ HookFails(i) \/ Resolve(i)
    \/ ProviderReady(i) \/ ProviderFails(i)
    \/ HandlerReturns(i) \/ Serialize(i)
    \/ Cleans(i) \/ Signal(i) \/ Drop(i)

\* The worker polls what is ready and cleanup terminates.  Nothing says that a
\* provider, a request hook or the handler ever completes.
Fairness == \A i \in Invocations : WF_vars(Cleans(i)) /\ WF_vars(Resolve(i))

Spec == Init /\ [][Next]_vars
FairSpec == Spec /\ Fairness

------------------------------------------------------------------------------
(* Properties *)

Stages == HookStages \cup Cleanup
          \cup {"decode", "resolve", "await", "prepare", "handler", "answered", "dropped"}

\* Types of the variables.
TypeOK ==
  /\ chain \in {"unknown", "sync", "async"}
  /\ stage \in [Invocations -> Stages]
  /\ made \in [Invocations -> 0 .. N]
  /\ held \in [Invocations -> {None, "value", "error"}]
  /\ started \in [Invocations -> [Providers -> Nat]]
  /\ built \in [Invocations -> SUBSET Providers]
  /\ left \in [Invocations -> 0 .. N]
  /\ told \in [Invocations -> [Providers -> Outcomes \cup {None}]]
  /\ outcome \in [Invocations -> Outcomes \cup {None}]
  /\ signalled \subseteq controlled
  /\ controlled \subseteq Invocations /\ async \subseteq Providers

\* Whatever the path, an answered invocation finalized exactly the values it
\* made, and told every finalizer the outcome the client received.
EveryValueIsTornDown ==
  \A i \in Invocations : stage[i] = "answered" =>
    \A p \in Providers : told[i][p] = IF p <= made[i] THEN outcome[i] ELSE None

\* A value is torn down before the values it may depend on, and only after the
\* handler and the request hooks are done with it.
TornDownInReverse ==
  \A i \in Invocations, p \in Providers : told[i][p] # None =>
    /\ stage[i] \in Cleanup \cup {"answered", "dropped"}
    /\ \A q \in p .. made[i] : told[i][q] # None

\* The handler runs with every value made and none torn down, and neither the
\* probe of the synchronous chain nor a classification that another invocation
\* cached makes a factory run twice.
HandlerHasEveryValue ==
  \A i \in Invocations, p \in Providers :
    /\ started[i][p] <= 1
    /\ stage[i] \in {"pre_parse", "prepare", "handler"} =>
         p <= made[i] /\ started[i][p] = 1 /\ told[i][p] = None

\* Both: the life of a value encloses its uses, and those of the values that
\* were made after it.
LifetimesNest == TornDownInReverse /\ HandlerHasEveryValue

\* Cleanup is shielded: no signal changes how it ends or cuts it short.
CleanupIsShielded ==
  [][\A i \in Invocations : stage[i] \in Cleanup /\ stage'[i] # "dropped" =>
       /\ outcome'[i] = outcome[i]
       /\ stage'[i] \in {"answered", "on_error", "on_response"} => left[i] = 0]_vars

\* A cancelled or timed out invocation answers (or is dropped) even when the
\* provider, hook or handler it awaits never completes.
SignalEndsInvocation ==
  \A i \in Invocations : i \in signalled ~> stage[i] \in {"answered", "dropped"}

\* docs/dependency-injection.md: "Already-created request dependencies are
\* finalized after cancellation or timeout."
CreatedIsFinalized ==
  \A i \in Invocations : stage[i] = "answered" =>
    \A p \in built[i] : told[i][p] # None

==============================================================================
