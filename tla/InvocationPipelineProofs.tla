----------------------- MODULE InvocationPipelineProofs -----------------------
(***************************************************************************)
(* The safety properties of InvocationPipeline for every number of         *)
(* invocations and providers, whichever providers are async, with and      *)
(* without hooks.                                                          *)
(***************************************************************************)
EXTENDS InvocationPipeline, TLAPS

USE DEF plan

Early == {"on_request", "decode", "resolve"}
Complete == {"pre_parse", "pre_validate", "prepare", "pre_handler", "handler",
             "pre_serialize"}

\* The providers whose factory was called before the chain is complete.
Called(i) == IF held[i] = None THEN made[i] ELSE made[i] + 1

Once(i) ==
  /\ stage[i] \in Early => made[i] = 0
  /\ stage[i] # "await" => held[i] = None
  /\ held[i] # None => made[i] + 1 \notin async
  /\ stage[i] \in Early \cup {"await"} =>
       /\ Called(i) <= N
       /\ \A p \in Providers : started[i][p] = IF p <= Called(i) THEN 1 ELSE 0
  /\ stage[i] \in Complete =>
       made[i] = N /\ \A p \in Providers : started[i][p] = 1
  /\ \A p \in Providers : started[i][p] \in {0, 1}

\* What the finalizers of invocation i have been told so far.
Teardown(i) ==
  /\ stage[i] \in Cleanup \cup {"answered", "pre_serialize"} => outcome[i] # None
  /\ stage[i] \in Early \cup Complete \cup {"await"} =>
       \A p \in Providers : told[i][p] = None
  /\ stage[i] = "finalize" =>
       /\ left[i] <= made[i]
       /\ \A p \in Providers :
            told[i][p] = IF left[i] < p /\ p <= made[i] THEN outcome[i] ELSE None
  /\ stage[i] \in {"on_error", "on_response"} => left[i] = 0
  /\ stage[i] \in {"on_error", "on_response", "answered"} =>
       \A p \in Providers : told[i][p] = IF p <= made[i] THEN outcome[i] ELSE None
  /\ stage[i] = "dropped" =>
       \A p \in Providers : told[i][p] # None =>
         \A q \in p .. made[i] : told[i][q] # None

IInv == TypeOK /\ \A i \in Invocations : Once(i) /\ Teardown(i)

------------------------------------------------------------------------------
(* A step of one invocation leaves the others alone. *)

Same(j) ==
  /\ async' = async
  /\ stage'[j] = stage[j] /\ made'[j] = made[j] /\ held'[j] = held[j]
  /\ started'[j] = started[j] /\ built'[j] = built[j] /\ left'[j] = left[j]
  /\ told'[j] = told[j] /\ outcome'[j] = outcome[j]

Advance(i) ==
  \/ HookPasses(i) \/ HookFails(i) \/ Resolve(i)
  \/ ProviderReady(i) \/ ProviderFails(i)
  \/ HandlerReturns(i) \/ Serialize(i) \/ Cleans(i) \/ Signal(i) \/ Drop(i)

\* The plan and the controls are what they were.
LEMMA PlanStays ==
  ASSUME NEW i \in Invocations, Advance(i)
  PROVE  async' = async /\ controlled' = controlled
<1> USE DEF Pass, Stop, EndWith, Go
<1>1. CASE HookPasses(i) \/ HookFails(i) \/ Abort(i) \/ Decode(i) \/ Prepare(i)
  BY <1>1 DEF HookPasses, HookFails, Abort, Decode, Prepare
<1>2. CASE ResolveAwaits(i) \/ ChainResolved(i) \/ Finalized(i)
           \/ ResponseHooks(i) \/ Drop(i) \/ Serialize(i)
  BY <1>2 DEF ResolveAwaits, ChainResolved, Finalized, ResponseHooks, Drop, Serialize
<1>3. CASE ResolveProbes(i) \/ ResolveSync(i) \/ ResolveFails(i)
  BY <1>3 DEF ResolveProbes, ResolveSync, ResolveFails
<1>4. CASE CallSyncProvider(i) \/ ProviderReady(i) \/ ProviderFails(i)
  BY <1>4 DEF CallSyncProvider, ProviderReady, ProviderFails
<1>5. CASE HandlerReturns(i) \/ Finalize(i) \/ Signal(i)
  BY <1>5 DEF HandlerReturns, Finalize, Signal
<1> QED
  BY <1>1, <1>2, <1>3, <1>4, <1>5 DEF Advance, Resolve, Cleans

\* The invariant only depends on the variables it names.
LEMMA SameKeeps ==
  ASSUME NEW j \in Invocations, Once(j), Teardown(j), Same(j)
  PROVE  Once(j)' /\ Teardown(j)'
BY DEF Same, Once, Teardown, Called

\* The effects of the two composite transitions on the typed state.
LEMMA PassEffect ==
  ASSUME TypeOK, NEW i \in Invocations, NEW from, NEW to, Pass(i, from, to)
  PROVE  /\ stage[i] = from /\ stage' = [stage EXCEPT ![i] = to]
         /\ stage'[i] = to
         /\ UNCHANGED <<chain, made, held, started, built, left, told, outcome>>
BY DEF Pass, Go, TypeOK

\* What an early end leaves: the outcome is decided and teardown begins.
LEMMA StopEffect ==
  ASSUME TypeOK, NEW i \in Invocations, NEW from, NEW o, Stop(i, from, o)
  PROVE  /\ stage[i] = from /\ stage'[i] = "finalize"
         /\ outcome'[i] = o /\ left'[i] = made[i] /\ held'[i] = None
         /\ UNCHANGED <<chain, made, started, built, told>>
BY DEF Stop, EndWith, Go, TypeOK

\* An early end keeps the invariant.
LEMMA StopKeeps ==
  ASSUME TypeOK, NEW i \in Invocations, NEW from \in Early \cup Complete \cup {"await"},
         NEW o \in Outcomes, Stop(i, from, o), Once(i), Teardown(i)
  PROVE  Once(i)' /\ Teardown(i)'
<1>1. /\ stage[i] = from /\ stage'[i] = "finalize"
      /\ outcome'[i] = o /\ left'[i] = made[i] /\ held'[i] = None
      /\ UNCHANGED <<chain, made, started, built, told>>
  BY StopEffect
<1>2. o # None /\ made[i] \in Nat
  BY NAssumption DEF Outcomes, None, TypeOK
<1>3. Once(i)'
  BY <1>1 DEF Once, Called, Early, Complete
<1>4. Teardown(i)'
  BY <1>1, <1>2, NAssumption DEF Teardown, Early, Complete, Cleanup, Providers
<1> QED BY <1>3, <1>4

------------------------------------------------------------------------------
(* Type correctness. *)

\* Going on keeps the types.
LEMMA PassTypes ==
  ASSUME TypeOK, NEW i \in Invocations, NEW from, NEW to \in Stages,
         Pass(i, from, to)
  PROVE  TypeOK'
BY DEF Pass, Go, TypeOK

\* Ending early keeps the types.
LEMMA StopTypes ==
  ASSUME TypeOK, NEW i \in Invocations, NEW from, NEW o \in Outcomes \cup {None},
         Stop(i, from, o)
  PROVE  TypeOK'
BY DEF Stop, EndWith, Go, TypeOK, Stages, Cleanup

\* Running a factory keeps the types.
LEMMA RanTypes ==
  ASSUME TypeOK, NEW i \in Invocations, NEW a \in Nat, NEW b \in Nat, Ran(i, a, b)
  PROVE  /\ started' \in [Invocations -> [Providers -> Nat]]
         /\ \A p \in Providers : started'[i][p] =
              IF a < p /\ p <= b THEN started[i][p] + 1 ELSE started[i][p]
         /\ \A j \in Invocations : j # i => started'[j] = started[j]
BY DEF Ran, TypeOK

\* Every step keeps the types.
LEMMA TypeStep ==
  ASSUME TypeOK, NEW i \in Invocations, Advance(i)
  PROVE  TypeOK'
<1> USE DEF Stages, HookStages, Cleanup
<1>1. CASE HookPasses(i)
  <2>1. PICK h \in HookStages \ {"pre_serialize"} : Pass(i, h, After[h])
    BY <1>1 DEF HookPasses
  <2>2. After[h] \in Stages
    BY DEF After
  <2> QED BY <2>1, <2>2, PassTypes
<1>2. CASE HookFails(i) \/ Abort(i)
  BY <1>2, StopTypes DEF HookFails, Abort, Outcomes
<1>3. CASE ResolveProbes(i)
  <2>1. PICK p \in async : Ran(i, 0, p - 1) /\ made' = [made EXCEPT ![i] = p - 1]
                           /\ built' = [built EXCEPT ![i] = 1 .. p - 1]
    BY <1>3 DEF ResolveProbes
  <2>2. p - 1 \in 0 .. N /\ 1 .. p - 1 \subseteq Providers
    BY NAssumption DEF Providers, TypeOK
  <2>3. started' \in [Invocations -> [Providers -> Nat]]
    BY <2>1, <2>2, RanTypes, NAssumption
  <2> QED BY <1>3, <2>1, <2>2, <2>3 DEF ResolveProbes, Go, TypeOK
<1>4. CASE ResolveSync(i)
  <2>1. started' \in [Invocations -> [Providers -> Nat]]
    BY <1>4, RanTypes, NAssumption DEF ResolveSync
  <2>2. N \in 0 .. N /\ Providers \in SUBSET Providers
    BY NAssumption
  <2> QED BY <1>4, <2>1, <2>2 DEF ResolveSync, Go, TypeOK
<1>5. CASE ResolveFails(i)
  <2>1. PICK p \in Providers :
          /\ Ran(i, 0, p) /\ made' = [made EXCEPT ![i] = p - 1]
          /\ built' = [built EXCEPT ![i] = 1 .. p - 1]
          /\ EndWith(i, "resolve", p - 1, "failed")
    BY <1>5 DEF ResolveFails
  <2>2. p \in Nat /\ p - 1 \in 0 .. N /\ 1 .. p - 1 \subseteq Providers
    BY NAssumption DEF Providers
  <2>3. started' \in [Invocations -> [Providers -> Nat]]
    BY <2>1, <2>2, RanTypes
  <2>4. UNCHANGED <<chain, held, told, signalled, plan>>
    BY <1>5 DEF ResolveFails
  <2> QED BY <2>1, <2>2, <2>3, <2>4 DEF EndWith, Go, TypeOK, Outcomes
<1>6. CASE ResolveAwaits(i) \/ Decode(i) \/ ChainResolved(i) \/ Prepare(i)
  BY <1>6, PassTypes, StopTypes
  DEF ResolveAwaits, Decode, ChainResolved, Prepare, Outcomes
<1>7. CASE CallSyncProvider(i) \/ ProviderReady(i) \/ ProviderFails(i)
  <2>1. made[i] \in Nat /\ made[i] < N
    BY <1>7, NAssumption
    DEF CallSyncProvider, ProviderReady, ProviderFails, Ready, TypeOK
  <2>2. made[i] + 1 \in Nat /\ made[i] + 1 \in Providers /\ made[i] + 1 \in 0 .. N
    BY <2>1, NAssumption DEF Providers
  <2>3. Ran(i, made[i], made[i] + 1) =>
          started' \in [Invocations -> [Providers -> Nat]]
    BY <2>1, <2>2, RanTypes
  <2>0. \A S \in {built[i] \cup {made[i] + 1}} : S \in SUBSET Providers
    BY <2>2 DEF TypeOK
  <2>4. CASE CallSyncProvider(i)
    <3>1. started' \in [Invocations -> [Providers -> Nat]]
      BY <2>3, <2>4 DEF CallSyncProvider, TypeOK
    <3>2. built' \in [Invocations -> SUBSET Providers]
      BY ZenonT(40), <2>0, <2>4 DEF CallSyncProvider, TypeOK
    <3>3. held' \in [Invocations -> {None, "value", "error"}]
      BY <2>4 DEF CallSyncProvider, TypeOK
    <3> QED BY <2>4, <3>1, <3>2, <3>3 DEF CallSyncProvider, TypeOK
  <2>5. CASE ProviderReady(i)
    <3>1. started' \in [Invocations -> [Providers -> Nat]]
      BY <2>3, <2>5 DEF ProviderReady, TypeOK
    <3>2. built' \in [Invocations -> SUBSET Providers]
      BY <2>0, <2>5 DEF ProviderReady, TypeOK
    <3>3. /\ made' \in [Invocations -> 0 .. N]
          /\ held' \in [Invocations -> {None, "value", "error"}]
      BY <2>2, <2>5 DEF ProviderReady, TypeOK
    <3> QED BY <2>5, <3>1, <3>2, <3>3 DEF ProviderReady, TypeOK
  <2>6. CASE ProviderFails(i)
    <3>1. started' \in [Invocations -> [Providers -> Nat]]
      BY <2>3, <2>6 DEF ProviderFails, TypeOK
    <3> QED BY <2>6, <3>1 DEF ProviderFails, EndWith, Go, TypeOK, Outcomes
  <2> QED BY <1>7, <2>4, <2>5, <2>6
<1>8. CASE HandlerReturns(i)
  BY <1>8 DEF HandlerReturns, Go, TypeOK, Outcomes
<1>9. CASE Serialize(i)
  BY <1>9, StopTypes DEF Serialize, TypeOK
<1>10. CASE Finalize(i)
  <2>1. left[i] - 1 \in 0 .. N /\ outcome[i] \in Outcomes \cup {None}
    BY <1>10, NAssumption DEF Finalize, TypeOK
  <2> QED BY <1>10, <2>1 DEF Finalize, TypeOK
<1>11. CASE Finalized(i) \/ ResponseHooks(i) \/ Drop(i)
  BY <1>11, PassTypes DEF Finalized, ResponseHooks, Drop, Awaits
<1>12. CASE Signal(i)
  BY <1>12 DEF Signal, TypeOK
<1> QED
  BY <1>1, <1>2, <1>3, <1>4, <1>5, <1>6, <1>7, <1>8, <1>9, <1>10, <1>11, <1>12
  DEF Advance, Resolve, Cleans

------------------------------------------------------------------------------
(* The step of the invocation itself. *)

\* Every step of one invocation keeps that invocation's invariant.
LEMMA StepKeeps ==
  ASSUME TypeOK, NEW i \in Invocations, Once(i), Teardown(i), Advance(i)
  PROVE  Once(i)' /\ Teardown(i)'
<1>plan. async' = async
  BY PlanStays
<1> USE <1>plan DEF Early, Complete
<1>0. N \in Nat /\ made[i] \in 0 .. N /\ \A p \in Providers : p \in 1 .. N
  BY NAssumption DEF TypeOK, Providers
<1>1. CASE HookPasses(i)
  <2>1. PICK h \in HookStages \ {"pre_serialize"} : Pass(i, h, After[h])
    BY <1>1 DEF HookPasses
  <2>2. stage[i] = h /\ stage'[i] = After[h]
        /\ UNCHANGED <<chain, made, held, started, built, left, told, outcome>>
    BY <2>1, PassEffect
  <2> QED BY <2>2, <1>0 DEF HookStages, After, Once, Called, Teardown, Cleanup
<1>2. CASE HookFails(i)
  BY <1>2, StopKeeps DEF HookFails, HookStages, Outcomes
<1>3. CASE Abort(i)
  BY <1>3, StopKeeps DEF Abort, Awaits, HookStages, Outcomes
<1>4. CASE ResolveProbes(i)
  <2>1. PICK p \in async : Ran(i, 0, p - 1) /\ made' = [made EXCEPT ![i] = p - 1]
    BY <1>4 DEF ResolveProbes
  <2>2. p - 1 \in 0 .. N /\ p - 1 \in Nat
    BY NAssumption DEF TypeOK, Providers
  <2>3. \A q \in Providers : started'[i][q] =
          IF 0 < q /\ q <= p - 1 THEN started[i][q] + 1 ELSE started[i][q]
    BY <2>1, <2>2, RanTypes, NAssumption
  <2>4. stage[i] = "resolve" /\ stage'[i] = "await" /\ UNCHANGED <<held, told>>
        /\ made'[i] = p - 1
    BY <1>4, <2>1 DEF ResolveProbes, Go, TypeOK
  <2> QED BY <1>0, <2>2, <2>3, <2>4 DEF Once, Called, Teardown, Cleanup
<1>5. CASE ResolveSync(i)
  <2>1. \A q \in Providers : started'[i][q] =
          IF 0 < q /\ q <= N THEN started[i][q] + 1 ELSE started[i][q]
    BY <1>5, RanTypes, NAssumption DEF ResolveSync
  <2>2. stage[i] = "resolve" /\ stage'[i] = "pre_parse" /\ UNCHANGED <<held, told>>
        /\ made'[i] = N
    BY <1>5 DEF ResolveSync, Go, TypeOK
  <2> QED BY <1>0, <2>1, <2>2 DEF Once, Called, Teardown, Cleanup
<1>6. CASE ResolveFails(i)
  <2>1. PICK p \in Providers :
          /\ Ran(i, 0, p) /\ made' = [made EXCEPT ![i] = p - 1]
          /\ EndWith(i, "resolve", p - 1, "failed")
    BY <1>6 DEF ResolveFails
  <2>2. p \in Nat /\ p - 1 \in 0 .. N
    BY <1>0
  <2>3. \A q \in Providers : started'[i][q] =
          IF 0 < q /\ q <= p THEN started[i][q] + 1 ELSE started[i][q]
    BY ZenonT(40), <2>1, <2>2, RanTypes
  <2>4. /\ stage[i] = "resolve" /\ stage'[i] = "finalize" /\ UNCHANGED <<held, told>>
        /\ made'[i] = p - 1 /\ left'[i] = p - 1 /\ outcome'[i] = "failed"
    BY <1>6, <2>1 DEF ResolveFails, EndWith, Go, TypeOK
  <2>5. Once(i)'
    <3>1. \A q \in Providers : started[i][q] = 0
      BY <1>0, <2>4 DEF Once, Called
    <3>2. \A q \in Providers : started'[i][q] \in {0, 1}
      BY <1>0, <2>2, <2>3, <3>1
    <3>3. held'[i] = None /\ stage'[i] = "finalize"
      BY <2>4 DEF Once
    <3> QED BY <3>2, <3>3 DEF Once
  <2>6. Teardown(i)'
    <3>1. \A q \in Providers : told'[i][q] = None
      BY <2>4 DEF Teardown
    <3>2. left'[i] <= made'[i] /\ \A q \in Providers : ~(left'[i] < q /\ q <= made'[i])
      BY <1>0, <2>2, <2>4
    <3>3. stage'[i] = "finalize" /\ outcome'[i] # None
      BY <2>4 DEF None
    <3> QED BY <3>1, <3>2, <3>3 DEF Teardown, Cleanup
  <2> QED BY <2>5, <2>6
<1>7. CASE ResolveAwaits(i) \/ ChainResolved(i)
  <2>1. \/ stage[i] = "resolve" /\ stage'[i] = "await"
        \/ stage[i] = "await" /\ stage'[i] = "pre_parse" /\ made[i] = N
    BY <1>7, PassEffect DEF ResolveAwaits, ChainResolved
  <2>2. UNCHANGED <<chain, made, held, started, built, left, told, outcome>>
    BY <1>7 DEF ResolveAwaits, ChainResolved, Pass
  <2>3. stage[i] = "await" /\ made[i] = N => held[i] = None
    BY <1>0 DEF Once, Called
  <2> QED BY <1>0, <2>1, <2>2, <2>3 DEF Once, Called, Teardown, Cleanup
<1>8. CASE Decode(i) \/ Prepare(i)
  <2>1. CASE Stop(i, "decode", "rejected") \/ Stop(i, "prepare", "rejected")
    BY <2>1, StopKeeps DEF Outcomes
  <2>2. ASSUME NEW from, NEW to \in {"await", "resolve", "pre_handler"},
               Pass(i, from, to),
               <<from, to>> \in {<<"decode", "await">>, <<"decode", "resolve">>,
                                 <<"prepare", "pre_handler">>}
        PROVE  Once(i)' /\ Teardown(i)'
    BY <1>0, <2>2, PassEffect DEF Once, Called, Teardown, Cleanup
  <2> QED BY <1>8, <2>1, <2>2 DEF Decode, Prepare
<1>9. CASE CallSyncProvider(i)
  <2>1. /\ stage[i] = "await" /\ made[i] < N /\ held[i] = None
        /\ made[i] + 1 \notin async /\ held'[i] # None /\ Ran(i, made[i], made[i] + 1)
        /\ UNCHANGED <<stage, made, left, told, outcome>>
    BY <1>9 DEF CallSyncProvider, TypeOK, None
  <2>2. \A q \in Providers : started'[i][q] =
          IF made[i] < q /\ q <= made[i] + 1 THEN started[i][q] + 1 ELSE started[i][q]
    BY <1>0, <2>1, RanTypes
  <2> QED BY <1>0, <2>1, <2>2 DEF Once, Called, Teardown, Cleanup
<1>10. CASE ProviderReady(i)
  <2>1. /\ stage[i] = "await" /\ made[i] < N
        /\ made'[i] = made[i] + 1 /\ held'[i] = None
        /\ UNCHANGED <<stage, left, told, outcome>>
    BY <1>10 DEF ProviderReady, Ready, TypeOK
  <2>2. \A q \in Providers : started'[i][q] = IF q <= made[i] + 1 THEN 1 ELSE 0
    <3>1. CASE made[i] + 1 \in async
      BY <1>0, <1>10, <2>1, <3>1, RanTypes DEF ProviderReady, Once, Called
    <3>2. CASE made[i] + 1 \notin async
      BY <1>0, <1>10, <2>1, <3>2 DEF ProviderReady, Ready, Once, Called, None
    <3> QED BY <3>1, <3>2
  <2> QED BY <1>0, <2>1, <2>2 DEF Once, Called, Teardown, Cleanup
<1>11. CASE ProviderFails(i)
  <2>1. /\ stage[i] = "await" /\ stage'[i] = "finalize" /\ made[i] < N
        /\ held'[i] = None /\ left'[i] = made[i] /\ outcome'[i] = "failed"
        /\ UNCHANGED <<made, told>>
    BY <1>11 DEF ProviderFails, EndWith, Go, TypeOK
  <2>2. \A q \in Providers : started'[i][q] \in {0, 1}
    <3>1. CASE made[i] + 1 \in async
      BY <1>0, <1>11, <2>1, <3>1, RanTypes DEF ProviderFails, Once, Called
    <3>2. CASE made[i] + 1 \notin async
      BY <1>0, <1>11, <2>1, <3>2 DEF ProviderFails, Once
    <3> QED BY <3>1, <3>2
  <2>3. Once(i)'
    BY <2>1, <2>2 DEF Once
  <2>4. Teardown(i)'
    BY <1>0, <2>1 DEF Teardown, Cleanup, None
  <2> QED BY <2>3, <2>4
<1>12. CASE HandlerReturns(i)
  BY <1>0, <1>12 DEF HandlerReturns, Go, TypeOK, Once, Called, Teardown, Cleanup, None
<1>13. CASE Serialize(i)
  <2>1. outcome[i] \in Outcomes
    BY <1>13 DEF Serialize, Stop, EndWith, Go, Teardown, TypeOK
  <2> QED BY <1>13, <2>1, StopKeeps DEF Serialize
<1>14. CASE Finalize(i)
  <2>1. /\ stage[i] = "finalize" /\ left[i] \in 1 .. N /\ left'[i] = left[i] - 1
        /\ UNCHANGED <<stage, made, held, started, outcome>>
        /\ \A p \in Providers :
             told'[i][p] = IF p = left[i] THEN outcome[i] ELSE told[i][p]
    BY <1>0, <1>14 DEF Finalize, TypeOK, Providers
  <2>2. Once(i)'
    BY <2>1 DEF Once, Called
  <2>3. Teardown(i)'
    BY <1>0, <2>1 DEF Teardown, Cleanup
  <2> QED BY <2>2, <2>3
<1>15. CASE Finalized(i) \/ ResponseHooks(i)
  <2>1. /\ UNCHANGED <<chain, made, held, started, built, left, told, outcome>>
        /\ \/ stage[i] \in {"on_error", "on_response"}
           \/ stage[i] = "finalize" /\ left[i] = 0
        /\ stage'[i] \in {"on_error", "on_response", "answered"}
    BY <1>15, PassEffect DEF Finalized, ResponseHooks
  <2> QED BY <1>0, <2>1 DEF Once, Called, Teardown, Cleanup
<1>16. CASE Drop(i)
  <2>1. /\ UNCHANGED <<chain, made, held, started, built, left, told, outcome>>
        /\ stage[i] \in Awaits \cup Cleanup /\ stage'[i] = "dropped"
        /\ stage[i] = "await" => made[i] + 1 \in async
    BY <1>16, PassEffect DEF Drop, MaySuspend, Cleanup, HookStages
  <2>2. Once(i)'
    BY <2>1 DEF Once, Called
  <2>3. Teardown(i)'
    <3>1. ASSUME NEW p \in Providers, told[i][p] # None, NEW q \in p .. made[i]
          PROVE  told[i][q] # None
      <4>1. q \in Providers /\ p <= q /\ q <= made[i]
        BY <1>0 DEF Providers
      <4>2. CASE stage[i] = "finalize"
        BY <1>0, <3>1, <4>1, <4>2 DEF Teardown, Cleanup, TypeOK
      <4>3. CASE stage[i] \in {"on_error", "on_response"}
        BY <3>1, <4>1, <4>3 DEF Teardown, Cleanup
      <4> QED BY <2>1, <3>1, <4>2, <4>3 DEF Teardown, Cleanup, Awaits, HookStages
    <3> QED BY <2>1, <3>1 DEF Teardown, Cleanup
  <2> QED BY <2>2, <2>3
<1>17. CASE Signal(i)
  BY <1>17, SameKeeps DEF Signal, Same
<1> QED
  BY <1>1, <1>2, <1>3, <1>4, <1>5, <1>6, <1>7, <1>8, <1>9, <1>10, <1>11, <1>12,
     <1>13, <1>14, <1>15, <1>16, <1>17
  DEF Advance, Resolve, Cleans

------------------------------------------------------------------------------
(* The theorems *)

\* A step of one invocation leaves the others alone.
LEMMA Frame ==
  ASSUME TypeOK, NEW i \in Invocations, Advance(i),
         NEW j \in Invocations, j # i
  PROVE  Same(j)
<1>plan. async' = async
  BY PlanStays
<1> USE <1>plan DEF Same, TypeOK
<1>1. ASSUME NEW from, NEW to, Pass(i, from, to) PROVE Same(j)
  BY <1>1 DEF Pass, Go
<1>2. ASSUME NEW from, NEW o, Stop(i, from, o) PROVE Same(j)
  BY <1>2 DEF Stop, EndWith, Go
<1>3. CASE HookPasses(i) \/ HookFails(i) \/ Abort(i) \/ Decode(i) \/ Prepare(i)
  BY <1>1, <1>2, <1>3 DEF HookPasses, HookFails, Abort, Decode, Prepare
<1>4. CASE ResolveAwaits(i) \/ ChainResolved(i) \/ Finalized(i)
           \/ ResponseHooks(i) \/ Drop(i) \/ Serialize(i)
  BY <1>1, <1>2, <1>4
  DEF ResolveAwaits, ChainResolved, Finalized, ResponseHooks, Drop, Serialize
<1>5. CASE ResolveProbes(i) \/ ResolveSync(i) \/ ResolveFails(i)
  BY <1>5 DEF ResolveProbes, ResolveSync, ResolveFails, Ran, EndWith, Go
<1>6. CASE CallSyncProvider(i) \/ ProviderReady(i) \/ ProviderFails(i)
  BY <1>6 DEF CallSyncProvider, ProviderReady, ProviderFails, Ran, EndWith, Go
<1>7. CASE HandlerReturns(i) \/ Finalize(i) \/ Signal(i)
  BY <1>7 DEF HandlerReturns, Finalize, Signal, Go
<1> QED
  BY <1>3, <1>4, <1>5, <1>6, <1>7 DEF Advance, Resolve, Cleans

\* The inductive invariant holds before any invocation.
LEMMA InitIInv == Init => IInv
<1> SUFFICES ASSUME Init PROVE IInv
  OBVIOUS
<1>1. TypeOK
  BY NAssumption DEF Init, TypeOK, Stages, HookStages
<1>2. ASSUME NEW i \in Invocations PROVE Once(i) /\ Teardown(i)
  BY NAssumption
  DEF Init, Once, Called, Teardown, Early, Complete, Cleanup, Providers
<1> QED BY <1>1, <1>2 DEF IInv

\* The inductive invariant is inductive.
LEMMA StepIInv == IInv /\ [Next]_vars => IInv'
<1> SUFFICES ASSUME IInv, [Next]_vars PROVE IInv'
  OBVIOUS
<1>1. CASE Next
  <2>1. PICK i \in Invocations : Advance(i)
    BY <1>1 DEF Next, Advance
  <2>2. TypeOK'
    BY <2>1, TypeStep DEF IInv
  <2>3. ASSUME NEW j \in Invocations PROVE Once(j)' /\ Teardown(j)'
    <3>1. CASE j = i
      BY <2>1, <3>1, StepKeeps DEF IInv
    <3>2. CASE j # i
      BY <2>1, <3>2, Frame, SameKeeps DEF IInv
    <3> QED BY <3>1, <3>2
  <2> QED BY <2>2, <2>3 DEF IInv
<1>2. CASE UNCHANGED vars
  BY <1>2 DEF vars, IInv, TypeOK, Once, Called, Teardown
<1> QED BY <1>1, <1>2

\* The inductive invariant holds in every behaviour.
LEMMA AlwaysIInv == Spec => []IInv
BY InitIInv, StepIInv, PTL DEF Spec

\* Every variable keeps its type.
THEOREM TypeCorrect == Spec => []TypeOK
<1>1. IInv => TypeOK
  BY DEF IInv
<1> QED BY <1>1, AlwaysIInv, PTL

\* invoke_pipeline and invoke_pipeline_controlled finalize exactly the values
\* they resolved, each told the outcome the client receives, on every path.
THEOREM EveryPathTearsDown == Spec => []EveryValueIsTornDown
<1>1. IInv => EveryValueIsTornDown
  BY DEF IInv, Teardown, EveryValueIsTornDown
<1> QED BY <1>1, AlwaysIInv, PTL

\* finalize_prefix visits a value only after the values made later, and never
\* while the handler or a request hook may still use it.
THEOREM TeardownIsReversed == Spec => []TornDownInReverse
<1>1. ASSUME IInv PROVE TornDownInReverse
  <2>1. SUFFICES ASSUME NEW i \in Invocations, NEW p \in Providers, told[i][p] # None
                 PROVE  /\ stage[i] \in Cleanup \cup {"answered", "dropped"}
                        /\ \A q \in p .. made[i] : told[i][q] # None
    BY DEF TornDownInReverse
  <2>2. stage[i] \in Cleanup \cup {"answered", "dropped"}
    BY SMTT(30), <1>1, <2>1
    DEF IInv, Teardown, TypeOK, Stages, HookStages, Cleanup, Early, Complete
  <2>3. ASSUME NEW q \in p .. made[i] PROVE told[i][q] # None
    <3>1. p \in 1 .. N /\ made[i] \in 0 .. N /\ left[i] \in 0 .. N
      BY <1>1 DEF IInv, TypeOK, Providers
    <3>2. q \in Providers /\ p <= q /\ q <= made[i]
      BY <3>1, NAssumption DEF Providers
    <3>3. CASE stage[i] = "finalize"
      BY <1>1, <2>1, <3>1, <3>2, <3>3, NAssumption DEF IInv, Teardown, Cleanup
    <3>4. CASE stage[i] \in {"on_error", "on_response", "answered"}
      BY <1>1, <2>1, <3>2, <3>4 DEF IInv, Teardown, Cleanup
    <3>5. CASE stage[i] = "dropped"
      BY <1>1, <2>1, <3>5 DEF IInv, Teardown
    <3> QED BY <2>2, <3>3, <3>4, <3>5 DEF Cleanup
  <2> QED BY <2>2, <2>3
<1>2. IInv => TornDownInReverse
  BY <1>1
<1> QED BY <1>2, AlwaysIInv, PTL

\* No factory runs twice in an invocation, and the handler never starts with a
\* value missing or already torn down.
THEOREM HandlerIsServed == Spec => []HandlerHasEveryValue
<1>1. IInv => HandlerHasEveryValue
  BY NAssumption
  DEF IInv, Once, Teardown, HandlerHasEveryValue, Complete, Providers
<1> QED BY <1>1, AlwaysIInv, PTL

\* Each value lives around all that may use it: made before the handler, torn
\* down after it, and in the reverse of the order in which they were made.
THEOREM LifetimesAreNested == Spec => []LifetimesNest
BY TeardownIsReversed, HandlerIsServed, PTL DEF LifetimesNest

\* No step changes the outcome of an invocation whose cleanup has begun.
LEMMA CleanupStep ==
  ASSUME TypeOK, NEW i \in Invocations, Teardown(i), Advance(i),
         stage[i] \in Cleanup, stage'[i] # "dropped"
  PROVE  /\ outcome'[i] = outcome[i]
         /\ stage'[i] \in {"answered", "on_error", "on_response"} => left[i] = 0
<1> USE DEF Cleanup
<1>1. CASE Finalize(i) \/ Signal(i)
  BY <1>1 DEF Finalize, Signal, Teardown, TypeOK
<1>2. CASE Finalized(i) \/ ResponseHooks(i) \/ Drop(i)
  BY <1>2, PassEffect DEF Finalized, ResponseHooks, Drop, Teardown
<1>4. ~(HookPasses(i) \/ HookFails(i) \/ Abort(i) \/ Decode(i) \/ Prepare(i))
  BY DEF HookPasses, HookFails, Abort, Decode, Prepare, Pass, Stop, EndWith, Go,
     HookStages, Awaits
<1>5. ~(Resolve(i) \/ ChainResolved(i) \/ Serialize(i) \/ CallSyncProvider(i)
        \/ ProviderReady(i) \/ ProviderFails(i) \/ HandlerReturns(i))
  BY DEF Resolve, ResolveProbes, ResolveSync, ResolveFails, ResolveAwaits,
     ChainResolved, Serialize, CallSyncProvider, ProviderReady, Ready,
     ProviderFails, HandlerReturns, Pass, Stop, EndWith, Go
<1> QED BY <1>1, <1>2, <1>4, <1>5 DEF Advance, Cleans

\* Once cleanup has begun no signal replaces the outcome or skips a finalizer.
THEOREM CleanupIsNotAborted == Spec => CleanupIsShielded
<1>1. ASSUME IInv, [Next]_vars
      PROVE  [\A i \in Invocations : stage[i] \in Cleanup /\ stage'[i] # "dropped" =>
                /\ outcome'[i] = outcome[i]
                /\ stage'[i] \in {"answered", "on_error", "on_response"} =>
                     left[i] = 0]_vars
  <2>1. CASE UNCHANGED vars
    BY <2>1
  <2>2. CASE Next
    <3>1. PICK j \in Invocations : Advance(j)
      BY <2>2 DEF Next, Advance
    <3>2. ASSUME NEW i \in Invocations, stage[i] \in Cleanup, stage'[i] # "dropped"
          PROVE  /\ outcome'[i] = outcome[i]
                 /\ stage'[i] \in {"answered", "on_error", "on_response"} =>
                      left[i] = 0
      <4>1. CASE i = j
        BY <1>1, <3>1, <3>2, <4>1, CleanupStep DEF IInv
      <4>2. CASE i # j
        <5>1. Same(i)
          BY <1>1, <3>1, <4>2, Frame DEF IInv
        <5> QED BY <1>1, <3>2, <5>1 DEF Same, IInv, Teardown, Cleanup
      <4> QED BY <4>1, <4>2
    <3> QED BY <3>2
  <2> QED BY <1>1, <2>1, <2>2
<1>2. IInv /\ [Next]_vars =>
        [\A i \in Invocations : stage[i] \in Cleanup /\ stage'[i] # "dropped" =>
           /\ outcome'[i] = outcome[i]
           /\ stage'[i] \in {"answered", "on_error", "on_response"} =>
                left[i] = 0]_vars
  BY <1>1
<1> QED BY <1>2, AlwaysIInv, PTL DEF Spec, CleanupIsShielded
==============================================================================
