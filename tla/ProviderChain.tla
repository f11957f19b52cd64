---------------------------- MODULE ProviderChain ----------------------------
(***************************************************************************)
(* A compiled plan at work: the providers of crates/blazingly-di/src/lib.rs *)
(* run by CompiledOperationDependencies of                                 *)
(* crates/blazingly-executor/src/lib.rs, for invocations of one operation  *)
(* that interleave wherever one awaits.                                    *)
(*                                                                         *)
(* The rest of a provider of ProviderGraph is                              *)
(*   from   "value", "factory" or "slots" (a #[provider] body)             *)
(*   async  whether its runner returns a future that waits                 *)
(*   fails  whether its factory returns a Result                           *)
(*   tear   its finalizer: "none", "sync" or "async"                       *)
(* A value is a record [type, id, call, n]: what it is, the registration   *)
(* or the input it is of, and the invocation and position that made it, 0  *)
(* for a singleton.                                                        *)
(***************************************************************************)
EXTENDS ProviderGraph

CONSTANTS Calls,   \* invocations, numbers from 1 on
          Served   \* the applications that are called, once compiled

VARIABLES sync_chain, \* what the plan is known to be
          call        \* of each invocation: see NewCall

chainVars == <<sync_chain, call>>

------------------------------------------------------------------------------
(* The constructors of Provider: what can be registered. *)

\* Provider::value: a singleton that is there already.
IsValue(p) ==
  /\ p.from = "value" /\ p.life = "singleton" /\ p.deps = <<>> /\ p.inputs = <<>>
  /\ ~p.async /\ ~p.fails /\ p.tear = "none"

\* Provider::singleton, request, transient and their try_ forms; Reject meets
\* a singleton that RequestProvider::new paired with inputs.
IsFactory(p) ==
  /\ p.from = "factory" /\ ~p.async /\ p.tear = "none"
  /\ p.inputs = <<>> \/ p.life = "singleton"

\* The _async forms: a singleton has none.
IsAsyncFactory(p) ==
  p.from = "factory" /\ p.inputs = <<>> /\ p.async /\ p.life # "singleton" /\ p.tear = "none"

\* The _scoped forms: only what lives for one request is torn down.
IsScoped(p) ==
  p.from = "factory" /\ p.inputs = <<>> /\ p.life = "request"
    /\ p.tear = (IF p.async THEN "async" ELSE "sync")

\* from_slots: dependencies and inputs.
IsSlots(p) == p.from = "slots" /\ p.fails /\ p.life # "singleton" /\ p.tear = "none"

Constructible(p) == IsValue(p) \/ IsFactory(p) \/ IsAsyncFactory(p) \/ IsScoped(p) \/ IsSlots(p)

\* What an instance must satisfy; the module that makes it assumes so.
ProvidersAssumption ==
  \A a \in Applications : \A s \in DOMAIN a.providers :
    \A i \in DOMAIN a.providers[s] : Constructible(a.providers[s][i])
CallsAssumption == Calls \subseteq Nat \ {0} /\ Served \subseteq Applications

------------------------------------------------------------------------------
Unset == <<>>
Some(v) == <<v>>
Value(type, id, c, n) == [type |-> type, id |-> id, call |-> c, n |-> n]

\* The request slots begin with the inputs.
Base == Len(decoders)
Runner(n) == regs[plan[n].id].p

\* An invocation.  driver: whether it can be cancelled (resolve_controlled).
\* The ghosts are what each consumer was given (0 is the handler), the
\* factories called and the finalizers run, in order.
NewCall(driver, stage, requests) ==
  [driver |-> driver, stage |-> stage, requests |-> requests, at |-> 1, upto |-> 0,
   answer |-> "none", given |-> <<>>, made |-> <<>>, torn |-> <<>>]
Unborn == NewCall("none", "unborn", <<>>)

ChainInit == Init /\ sync_chain = "unknown" /\ call = [c \in Calls |-> Unborn]

ChainTypeOK ==
  /\ sync_chain \in {"unknown", "sync", "async"}
  /\ \A c \in Calls :
       /\ call[c].driver \in {"none", "plain", "controlled"}
       /\ call[c].stage \in {"unborn", "decoded", "awaiting", "pending", "ready", "handling",
                             "tearing", "done"}
       /\ call[c].answer \in {"none", "ok", "rejected", "failed", "aborted", "internal"}

------------------------------------------------------------------------------
(* Reading a slot: resolve, SlotReader::depends and input, resolve_dependency. *)

\* compile_singletons filled them once.
Singleton(id) == IF id \in Range(ran) THEN Some(Value(regs[id].p.type, id, 0, 0)) ELSE Unset

Read(slot, requests) ==
  IF slot.kind = "singleton" THEN Singleton(slot.at)
  ELSE IF slot.at \in DOMAIN requests THEN requests[slot.at] ELSE Unset

\* What the declaration asks for in each position: the Depends<T>, then the
\* inputs.  downcast refuses a value of any other type.
Asked(p) == p.deps \o [i \in DOMAIN p.inputs |-> p.inputs[i].type]
Fits(values, types) ==
  Len(values) = Len(types)
    /\ \A i \in DOMAIN values : values[i] # Unset /\ values[i][1].type = types[i]

Arguments(slots, requests) == [i \in DOMAIN slots |-> Read(slots[i], requests)]

\* The slot of provider n: RequestDependencyValues::set at base + index.
At(n) == Base + n

\* One runner is called: it reads its arguments first, then runs the factory.
\* "given" is kept for the properties.
Called(k, n) ==
  LET values == Arguments(plan[n].args, k.requests)
  IN [k EXCEPT !.given = Append(@, <<n, values>>),
               !.made = IF Fits(values, Asked(Runner(n))) THEN Append(@, n) ELSE @]

Worked(k, n) == n \in Range(k.made)

\* Its value is stored.
Stored(k, c, n) ==
  LET i == At(n)
  IN IF i \in DOMAIN k.requests
     THEN [k EXCEPT !.requests[i] = Some(Value(Runner(n).type, plan[n].id, c, n)), !.at = n + 1]
     ELSE [k EXCEPT !.answer = "internal", !.stage = "done"]

\* finalize_prefix is to run for the providers below n.
Failed(k, n, answer) == [k EXCEPT !.stage = "tearing", !.upto = n - 1, !.answer = answer]

\* What a factory that can fail does.
Outcomes(n) == IF Runner(n).fails THEN {"ok", "failed"} ELSE {"ok"}

------------------------------------------------------------------------------
Invoke(c) ==
  /\ compiled = "planned" /\ app \in Served /\ call[c].stage = "unborn"
  /\ \E driver \in {"plain", "controlled"} :
       call' = [call EXCEPT ![c] =
                  NewCall(driver, "decoded",
                    [i \in 1 .. Base + Len(plan) |->
                       IF i <= Base THEN Some(Value(decoders[i].type, decoders[i].name, c, i))
                       ELSE Unset])]
  /\ UNCHANGED <<graphVars, sync_chain>>

\* decode_inputs: one input is refused, and no provider has run.
RejectInput(c) ==
  /\ compiled = "planned" /\ app \in Served /\ call[c].stage = "unborn" /\ Base > 0
  /\ call' = [call EXCEPT ![c] = [NewCall("none", "done", <<>>) EXCEPT !.answer = "rejected"]]
  /\ UNCHANGED <<graphVars, sync_chain>>

\* Mutant: from the first on.
AwaitingAll(k) == [k EXCEPT !.stage = "awaiting", !.at = 1]

\* resolve_from(index): from the provider that waits on.
Awaiting(k) == [k EXCEPT !.stage = "awaiting"]

\* The providers of a chain up to the first that waits, or that fails.
RunSync(c, verdict) ==
  LET step(k, n) ==
        IF k.stage # "decoded" THEN k
        ELSE IF Runner(n).async THEN Awaiting(k)
        ELSE LET called == Called(k, n)
             IN IF ~Worked(called, n) THEN Failed(called, n, "internal")
                ELSE IF verdict[n] = "failed" THEN Failed(called, n, "failed")
                ELSE Stored(called, c, n)
  IN FoldLeft(step, call[c], [n \in DOMAIN plan |-> n])

\* resolve: without awaiting, as long as the chain may be synchronous; the
\* first provider that waits is tried and remembered, without being called.
ResolveSync(c) ==
  /\ call[c].stage = "decoded" /\ call[c].driver = "plain" /\ sync_chain # "async"
  /\ \E verdict \in {v \in [DOMAIN plan -> {"ok", "failed"}] :
                       \A n \in DOMAIN plan : v[n] \in Outcomes(n)} :
       LET k == RunSync(c, verdict)
       IN /\ call' = [call EXCEPT ![c] = IF k.stage = "decoded" THEN [k EXCEPT !.stage = "ready"] ELSE k]
          /\ sync_chain' = CASE k.stage = "decoded" -> "sync"
                             [] k.stage = "awaiting" -> "async"
                             [] OTHER -> sync_chain
  /\ UNCHANGED graphVars

\* resolve_from(0) and resolve_controlled.
ResolveAsync(c) ==
  /\ call[c].stage = "decoded"
  /\ call[c].driver = "controlled" \/ sync_chain = "async"
  /\ call' = [call EXCEPT ![c].stage = "awaiting"]
  /\ UNCHANGED <<graphVars, sync_chain>>

\* provider.run: the future is made, and made from what the slots hold now.
Start(c) ==
  /\ call[c].stage = "awaiting" /\ call[c].at \in DOMAIN plan
  /\ LET n == call[c].at
         called == Called(call[c], n)
     IN call' = [call EXCEPT ![c] =
                   IF Worked(called, n) THEN [called EXCEPT !.stage = "pending"]
                   ELSE Failed(called, n, "internal")]
  /\ UNCHANGED <<graphVars, sync_chain>>

\* The future is ready.
Finish(c) ==
  /\ call[c].stage = "pending"
  /\ LET n == call[c].at
     IN \E o \in Outcomes(n) :
          call' = [call EXCEPT ![c] =
                     IF o = "failed" THEN Failed(@, n, "failed")
                     ELSE Stored([@ EXCEPT !.stage = "awaiting"], c, n)]
  /\ UNCHANGED <<graphVars, sync_chain>>

\* The signal is set before the future is ready: what it made is dropped.
Abort(c) ==
  /\ call[c].stage = "pending" /\ call[c].driver = "controlled"
  /\ call' = [call EXCEPT ![c] = Failed(@, @.at, "aborted")]
  /\ UNCHANGED <<graphVars, sync_chain>>

Resolved(c) ==
  /\ call[c].stage = "awaiting" /\ call[c].at = Len(plan) + 1
  /\ call' = [call EXCEPT ![c].stage = "ready"]
  /\ UNCHANGED <<graphVars, sync_chain>>

\* The handler takes its arguments: ResolvedDependencies::get.
Handle(c) ==
  /\ call[c].stage = "ready"
  /\ LET values == Arguments(handler, call[c].requests)
     IN call' = [call EXCEPT ![c] =
                   [@ EXCEPT !.given = Append(@, <<0, values>>), !.upto = Len(plan),
                             !.stage = IF Fits(values, app.wants) THEN "handling" ELSE "tearing",
                             !.answer = IF Fits(values, app.wants) THEN "none" ELSE "internal"]]
  /\ UNCHANGED <<graphVars, sync_chain>>

Answer(c) ==
  /\ call[c].stage = "handling"
  /\ \E a \in {"ok", "failed"} :
       call' = [call EXCEPT ![c].stage = "tearing", ![c].answer = a]
  /\ UNCHANGED <<graphVars, sync_chain>>

\* finalize_prefix: one provider, the last first; typed_finalizer.
TearDown(c) ==
  /\ call[c].stage = "tearing" /\ call[c].upto > 0
  /\ LET n == call[c].upto
         value == Read(Slot("request", At(n)), call[c].requests)
         torn == IF Runner(n).tear = "none" THEN call[c].torn ELSE Append(call[c].torn, n)
     IN call' = [call EXCEPT ![c] =
                   IF Fits(<<value>>, <<Runner(n).type>>)
                   THEN [@ EXCEPT !.torn = torn, !.upto = n - 1]
                   ELSE [@ EXCEPT !.answer = "internal", !.stage = "done"]]
  /\ UNCHANGED <<graphVars, sync_chain>>

TornDown(c) ==
  /\ call[c].stage = "tearing" /\ call[c].upto = 0
  /\ call' = [call EXCEPT ![c].stage = "done"]
  /\ UNCHANGED <<graphVars, sync_chain>>

Serve(c) ==
  \/ Invoke(c) \/ RejectInput(c) \/ ResolveSync(c) \/ ResolveAsync(c) \/ Start(c) \/ Finish(c)
  \/ Abort(c) \/ Resolved(c) \/ Handle(c) \/ Answer(c) \/ TearDown(c) \/ TornDown(c)

ChainNext ==
  \/ Next /\ UNCHANGED chainVars
  \/ \E c \in Calls : Serve(c)

ChainSpec == ChainInit /\ [][ChainNext]_<<graphVars, chainVars>>

------------------------------------------------------------------------------
(* Properties. *)

\* The scope and the types of a consumer's arguments; its inputs.
ScopeOf(n) == IF n = 0 THEN app.scope ELSE regs[plan[n].id].scope
Wanted(n) == IF n = 0 THEN app.wants ELSE Deps(plan[n].id)
InputsOf(n) == IF n = 0 THEN <<>> ELSE Runner(n).inputs

\* What a consumer was given is what its declaration and the scopes say: the
\* provider nearest to it, built once for the application or in this very
\* invocation, and each input in the position where it was declared.
Suits(g, c) ==
  LET n == g[1]
      w == Wanted(n)
  IN \A a \in DOMAIN g[2] :
       /\ g[2][a] # Unset
       /\ LET v == g[2][a][1]
          IN IF a <= Len(w)
             THEN /\ v.id \in Nearest(ScopeOf(n), w[a])
                  /\ v.call = IF Life(v.id) = "singleton" THEN 0 ELSE c
             ELSE v.id = InputsOf(n)[a - Len(w)].name /\ v.call = c

\* Two consumers that are given a value of one provider.
Shared(given) ==
  \A i, j \in DOMAIN given : \A a \in DOMAIN given[i][2], b \in DOMAIN given[j][2] :
    LET v == given[i][2][a][1]
        w == given[j][2][b][1]
    IN a <= Len(Wanted(given[i][1])) /\ b <= Len(Wanted(given[j][1])) /\ v.id = w.id
         => IF Life(v.id) = "transient" THEN <<i, a>> = <<j, b>> \/ v # w ELSE v = w

Decreasing(s) == \A i, j \in DOMAIN s : i < j => s[i] > s[j]

\* However the invocations of an operation interleave, and whichever way each
\* is driven: every argument is what its declaration asks for; a request value
\* is shared by its consumers and a transient one is not; no factory runs twice
\* although the first resolution probes the chain; finalizers run in reverse
\* order and, once the answer is given, for every value that was stored; and no
\* internal error of the container ever reaches a caller.
SlotsFit ==
  /\ \A c \in Calls : LET k == call[c] IN
       /\ k.answer # "internal"
       /\ \A i \in DOMAIN k.given : Suits(k.given[i], c)
       /\ Shared(k.given)
       /\ \A i, j \in DOMAIN k.made : i < j => k.made[i] < k.made[j]
       /\ Decreasing(k.torn)
       /\ k.stage = "done" =>
            Range(k.torn) = {n \in DOMAIN plan : Runner(n).tear # "none" /\ At(n) \in DOMAIN k.requests
                                                  /\ k.requests[At(n)] # Unset}
  /\ sync_chain # "unknown" =>
       (sync_chain = "async" <=> \E n \in DOMAIN plan : Runner(n).async)

\* What is accepted is sound, what is compiled from it can be run, and does
\* what was declared when it is.  (The plan no longer changes once it runs.)
ProvidersAreRight ==
  IF \A c \in Calls : call[c] = Unborn THEN BuildIsSound ELSE SlotsFit
==============================================================================
