------------------------------ MODULE HttpProofs ------------------------------
(***************************************************************************)
(* What stands between HTTP and the operations promises, for every value   *)
(* of the constants: the dispatch's metrics (HttpDispatch), the sessions   *)
(* (SessionLayer), the MCP servers (McpHttp, McpStdio), declared security  *)
(* (SecurityChecks), and the rate limiter, whose table implements a token  *)
(* bucket per key (RateLimitStore, TokenBuckets).                          *)
(* The parts share no state, and each is proved by an invariant of its     *)
(* own.                                                                    *)
(***************************************************************************)
EXTENDS HttpDispatch, SessionLayer, McpHttp, McpStdio, SecurityChecks,
        RateLimitStore, FiniteSetTheorems, WellFoundedInduction, TLAPS

\* A set of numbers that is not empty has a least one.
Below == {pair \in Nat \X Nat : pair[1] < pair[2]}

LEMMA LeastNumber ==
  ASSUME NEW S \in SUBSET Nat, S # {}
  PROVE  \E n \in S : \A m \in S : n <= m
<1>1. IsWellFoundedOn(Below, Nat)
  <2>1. Below = OpToRel(<, Nat)
    BY DEF Below, OpToRel
  <2> QED BY <2>1, NatLessThanWellFounded
<1>2. PICK n \in S : \A m \in S : <<m, n>> \notin Below
  BY <1>1, WFMin
<1>3. \A m \in S : ~(m < n)
  BY <1>2 DEF Below
<1> QED
  BY <1>3

------------------------------------------------------------------------------
(* HttpDispatch *)

\* The observability layers, and those that on_request of a request meets.
Observers == {i \in 1 .. Len(chain) : chain[i].kind = "observability"}
Met(r) == {i \in Observers : MatchesRequest(chain[i], r)}

OneObserver == \A i, j \in Observers : i = j

\* on_request of the layer counts a request in, and none but its own.
CountedInOrder ==
  \A r \in Requests :
    /\ stage[r] = "new" => telemetry[r] = "none"
    /\ \A i \in Met(r) : stage[r] = "request" /\ layer[r] <= i => telemetry[r] = "none"
    /\ telemetry[r] = "counted" => Met(r) # {}

DispatchInv ==
  /\ DispatchTypeOK /\ OneObserver /\ CountedInOrder
  /\ IsFiniteSet(Counted) /\ MetricsBalance

LEMMA OnlyOneObserver ==
  ASSUME ChainsAssumption, chain \in Chains PROVE OneObserver
<1> SUFFICES ASSUME NEW i \in Observers, NEW j \in Observers, i # j PROVE FALSE
  BY DEF OneObserver
<1>1. chain \in Seq([kind : Kinds, scope : Scopes])
      /\ Cardinality(Observers) <= 1
  BY DEF ChainsAssumption, Observers
<1>2. IsFiniteSet(Observers)
  <2>1. IsFiniteSet(1 .. Len(chain)) /\ Observers \subseteq 1 .. Len(chain)
    BY <1>1, FS_Interval DEF Observers
  <2> QED BY <2>1, FS_Subset
<1>3. Cardinality({i, j}) = 2
  <2>1. IsFiniteSet({i}) /\ Cardinality({i}) = 1
    BY FS_Singleton
  <2>2. {i} \cup {j} = {i, j} /\ j \notin {i}
    OBVIOUS
  <2> QED BY SMTT(30), <2>1, <2>2, FS_AddElement
<1>4. Cardinality({i, j}) <= Cardinality(Observers)
  BY <1>2, FS_Subset
<1>5. Cardinality(Observers) \in Nat
  BY <1>2, FS_CardinalityType
<1> QED
  BY <1>1, <1>3, <1>4, <1>5

\* What on_response still has to come to.
Passing == {"request", "operation", "invoke", "dropped"}

LEMMA CountedIs ==
  ASSUME DispatchTypeOK
  PROVE \A r \in Requests : r \in Counted <=>
    /\ telemetry[r] = "counted" /\ stage[r] # "done"
    /\ \E i \in Met(r) : stage[r] \in Passing \/ i <= layer[r]
BY DEF Counted, Ahead, Met, Observers, Passing

LEMMA InitDispatch ==
  ASSUME ChainsAssumption, DispatchInit PROVE DispatchInv
<1> USE DEF DispatchInit
<1>1. DispatchTypeOK
  <2>1. Len(chain) \in Nat
    BY DEF ChainsAssumption
  <2> QED BY <2>1 DEF DispatchTypeOK, Classes
<1>2. OneObserver
  BY OnlyOneObserver
<1>3. CountedInOrder
  BY DEF CountedInOrder
<1>4. Counted = {}
  BY DEF Counted
<1>5. MetricsBalance
  BY <1>4, FS_EmptySet DEF MetricsBalance, Classes
<1> QED
  BY <1>1, <1>2, <1>3, <1>4, <1>5, FS_EmptySet DEF DispatchInv

\* Where the requests are.
Placed ==
  /\ stage \in [Requests -> {"new", "request", "operation", "invoke", "response",
                           "done", "dropped"}]
  /\ layer \in [Requests -> 0 .. Len(chain) + 1]
  /\ status \in [Requests -> Classes \union {"1xx", "none"}]

LEMMA MovesTyped ==
  ASSUME Placed, Len(chain) \in Nat, chain' = chain, NEW r \in Requests
  PROVE  /\ \A class \in Classes \union {"1xx"} :
              Complete(r, class) => Placed'
         /\ layer[r] <= Len(chain) /\ Pass(r) => Placed'
         /\ \A s \in {"request", "operation", "invoke"} : Enter(r, s) => Placed'
<1>1. ASSUME NEW class \in Classes \union {"1xx"}, Complete(r, class)
      PROVE  Placed'
  BY <1>1 DEF Placed, Complete
<1>2. ASSUME layer[r] <= Len(chain), Pass(r) PROVE Placed'
  <2>1. layer[r] + 1 \in 0 .. Len(chain) + 1
    BY <1>2 DEF Placed
  <2> QED BY <1>2, <2>1 DEF Placed, Pass
<1>3. ASSUME NEW s \in {"request", "operation", "invoke"}, Enter(r, s)
      PROVE  Placed'
  BY <1>3 DEF Placed, Enter
<1> QED
  BY <1>1, <1>2, <1>3

LEMMA StepTyped ==
  ASSUME DispatchTypeOK, ChainsAssumption, NEW r \in Requests,
         Dispatch(r) \/ Drop(r)
  PROVE  DispatchTypeOK' /\ UNCHANGED <<chain, about>>
<1> DEFINE Kept == /\ known \in [Requests -> BOOLEAN]
                  /\ telemetry \in [Requests -> {"none", "counted", "scrape"}]
                  /\ requests \in Nat /\ gauge \in Int /\ errors \in Nat
                  /\ responses \in [Classes -> Nat]
<1>0. Len(chain) \in Nat
  BY DEF ChainsAssumption, DispatchTypeOK
<1>u. UNCHANGED <<chain, about>>
  BY DEF Dispatch, Arrive, OnRequest, Route,
       OnOperation, Guard, Answer,
       OnResponse, Return, Drop
<1>p. Placed
  BY DEF Placed, DispatchTypeOK
<1>k. Placed' /\ Kept' => DispatchTypeOK'
  BY <1>u DEF Placed, DispatchTypeOK
<1> USE <1>0, <1>u, <1>p, MovesTyped
<1>1. CASE Arrive(r)
  <2>1. Placed'
    BY <1>1 DEF Arrive
  <2> QED BY <1>1, <1>k, <2>1 DEF Arrive, DispatchTypeOK, metrics
<1>2. CASE OnRequest(r)
  <2>0. \/ Pass(r) /\ layer[r] <= Len(chain)
        \/ Complete(r, "2xx") \/ Complete(r, "4xx")
    BY <1>2 DEF OnRequest, Observe, At
  <2>1. Placed'
    BY <2>0 DEF Classes
  <2>2. CASE Observe(r)
    <3>1. \E x \in {"counted", "scrape"} : telemetry' = [telemetry EXCEPT ![r] = x]
      BY <2>2 DEF Observe
    <3>2. /\ telemetry' \in [Requests -> {"none", "counted", "scrape"}]
          /\ requests' \in Nat /\ gauge' \in Int
      BY <2>2, <3>1 DEF DispatchTypeOK, Observe
    <3> QED BY <1>k, <1>2, <2>1, <3>2 DEF OnRequest, DispatchTypeOK
  <2>3. CASE ~Observe(r)
    BY <1>k, <1>2, <2>1, <2>3 DEF OnRequest, DispatchTypeOK
  <2> QED BY <2>2, <2>3
<1>3. CASE Route(r)
  <2>1. Placed'
    BY <1>3 DEF Route, Classes
  <2>2. Kept'
    BY <1>3 DEF Route, DispatchTypeOK, metrics
  <2> QED BY <1>k, <2>1, <2>2
<1>4. CASE OnOperation(r)
  <2>1. Placed'
    BY <1>4 DEF OnOperation, Classes, At
  <2> QED BY <1>4, <1>k, <2>1 DEF OnOperation, DispatchTypeOK, metrics
<1>5. CASE Guard(r)
  <2>1. Placed'
    BY <1>5 DEF Guard, Classes
  <2> QED BY <1>5, <1>k, <2>1 DEF Guard, DispatchTypeOK, metrics
<1>6. CASE Answer(r)
  <2>1. Placed'
    BY <1>6 DEF Answer
  <2> QED BY <1>6, <1>k, <2>1 DEF Answer, DispatchTypeOK, metrics
<1>7. CASE OnResponse(r)
  <2>1. layer[r] - 1 \in 0 .. Len(chain) + 1
    BY <1>7 DEF OnResponse, At, DispatchTypeOK
  <2>2. layer' \in [Requests -> 0 .. Len(chain) + 1]
    BY <1>7, <2>1 DEF OnResponse, DispatchTypeOK
  <2>3. CASE UNCHANGED metrics
    BY <1>7, <2>2, <2>3 DEF OnResponse, DispatchTypeOK, metrics
  <2>4. CASE Finish(r) /\ telemetry[r] = "counted"
    <3> DEFINE class == IF status[r] \in Classes THEN status[r] ELSE "5xx"
    <3>1. class \in Classes
      BY DEF Classes
    <3>2. responses' = [responses EXCEPT ![class] = @ + 1]
      BY <2>4 DEF Finish
    <3> HIDE DEF class
    <3>3. responses' \in [Classes -> Nat]
      BY <3>1, <3>2 DEF DispatchTypeOK
    <3>4. gauge' \in Int /\ errors' \in Nat /\ requests' \in Nat
      BY <2>4 DEF Finish, DispatchTypeOK
    <3> QED
      BY <1>7, <2>2, <3>3, <3>4 DEF OnResponse, DispatchTypeOK
  <2> QED BY <1>7, <2>3, <2>4 DEF OnResponse, Finish
<1>8. CASE Return(r)
  BY <1>8 DEF Return, DispatchTypeOK, metrics
<1>9. CASE Drop(r)
  BY <1>9 DEF Drop, DispatchTypeOK, metrics
<1> QED
  BY <1>1, <1>2, <1>3, <1>4, <1>5, <1>6, <1>7, <1>8, <1>9 DEF Dispatch

\* A step of one request leaves the others where they were.
Alone(r) ==
  \A q \in Requests \ {r} :
    stage'[q] = stage[q] /\ layer'[q] = layer[q] /\ telemetry'[q] = telemetry[q]

LEMMA StepsAlone ==
  ASSUME DispatchTypeOK, NEW r \in Requests,
         Dispatch(r) \/ Drop(r)
  PROVE  Alone(r)
BY DEF DispatchTypeOK, Alone, Dispatch, Arrive,
       OnRequest, Observe, Route,
       OnOperation, Guard, Answer,
       OnResponse, Return, Drop,
       Complete, Pass, Enter

LEMMA OthersStayCounted ==
  ASSUME DispatchTypeOK, DispatchTypeOK', NEW r \in Requests, Alone(r),
         UNCHANGED <<chain, about>>
  PROVE  /\ \A q \in Requests : Met(q)' = Met(q)
         /\ \A q \in Requests \ {r} :
              q \in Counted' <=> q \in Counted
<1>1. \A q \in Requests : Met(q)' = Met(q)
  BY DEF Met, Observers, MatchesRequest, MatchesPath
<1>2. \A q \in Requests : q \in Counted' <=>
        /\ telemetry'[q] = "counted" /\ stage'[q] # "done"
        /\ \E i \in Met(q)' : stage'[q] \in Passing \/ i <= layer'[q]
  BY DEF Counted, Ahead, Met, Observers, Passing
<1>3. \A q \in Requests \ {r} :
        q \in Counted' <=> q \in Counted
  BY <1>1, <1>2, CountedIs DEF Alone
<1> QED
  BY <1>1, <1>3

LEMMA CountedNext ==
  ASSUME DispatchTypeOK'
  PROVE \A r \in Requests : r \in Counted' <=>
    /\ telemetry'[r] = "counted" /\ stage'[r] # "done"
    /\ \E i \in Met(r)' : stage'[r] \in Passing \/ i <= layer'[r]
BY DEF Counted, Ahead, Met, Observers, Passing

\* A request that an answer overtakes, or that goes on, is counted as before:
\* the answer still comes through every layer.
LEMMA StaysCounted ==
  ASSUME DispatchInv, DispatchTypeOK', NEW r \in Requests, Alone(r),
         UNCHANGED <<chain, about, metrics>>,
         stage[r] \in Passing, telemetry'[r] = telemetry[r],
         \/ stage'[r] \in Passing \ {"request"}
         \/ stage'[r] = "request" /\ stage[r] = "request" /\ layer'[r] = layer[r] + 1
         \/ stage'[r] = "response" /\ layer'[r] = Len(chain)
  PROVE  DispatchInv'
<1> USE DEF DispatchInv
<1>0. /\ Len(chain) \in Nat /\ layer[r] \in Nat
      /\ \A q \in Requests : Met(q) \subseteq 1 .. Len(chain)
  BY DEF DispatchTypeOK, Met, Observers
<1>1. \A q \in Requests : Met(q)' = Met(q)
  BY OthersStayCounted
<1>2. OneObserver'
  BY DEF OneObserver, Observers
<1>3. CountedInOrder'
  BY <1>0, <1>1 DEF CountedInOrder, Alone, Passing
<1>4. r \in Counted' <=> r \in Counted
  BY <1>0, <1>1, CountedIs, CountedNext DEF Passing
<1>5. Counted' = Counted
  <2>1. Counted \subseteq Requests /\ Counted' \subseteq Requests
    BY DEF Counted
  <2>2. \A q \in Requests : q \in Counted' <=> q \in Counted
    BY <1>4, OthersStayCounted
  <2> QED BY <2>1, <2>2
<1>6. MetricsBalance'
  BY <1>5 DEF MetricsBalance, metrics
<1> QED
  BY <1>2, <1>3, <1>5, <1>6

\* on_request of the observability layer.
LEMMA ObserveCounts ==
  ASSUME DispatchInv, DispatchTypeOK', NEW r \in Requests, OnRequest(r),
         layer[r] \in Met(r), Observe(r)
  PROVE  DispatchInv'
<1> USE DEF DispatchInv
<1>0. /\ stage[r] = "request" /\ Alone(r) /\ UNCHANGED <<chain, about, responses, errors>>
      /\ layer[r] \in 1 .. Len(chain) /\ Len(chain) \in Nat
  BY DEF OnRequest, At, DispatchTypeOK, Alone, Observe, Complete, Pass
<1>1. \A q \in Requests : Met(q)' = Met(q)
  BY <1>0, OthersStayCounted
<1>2. OneObserver'
  BY <1>0 DEF OneObserver, Observers
<1>3. telemetry[r] = "none" /\ r \notin Counted
  BY <1>0, CountedIs DEF CountedInOrder
<1>4. \A i \in Met(r) : i = layer[r]
  BY DEF OneObserver, Met
<1>5. CASE about[r].scrape
  <2>1. telemetry'[r] = "scrape" /\ stage'[r] = "response"
        /\ UNCHANGED <<requests, gauge>>
    BY <1>5 DEF Observe, DispatchTypeOK, Complete
  <2>2. CountedInOrder'
    BY <1>0, <1>1, <2>1 DEF CountedInOrder, Alone
  <2>3. Counted' = Counted
    <3>1. r \notin Counted'
      BY <2>1, CountedNext
    <3>2. Counted \subseteq Requests /\ Counted' \subseteq Requests
      BY DEF Counted
    <3>3. \A q \in Requests : q \in Counted' <=> q \in Counted
      BY <1>0, <1>3, <3>1, OthersStayCounted
    <3> QED BY <3>2, <3>3
  <2>4. MetricsBalance'
    BY <1>0, <2>1, <2>3 DEF MetricsBalance
  <2> QED
    BY <1>2, <2>2, <2>3, <2>4
<1>6. CASE ~about[r].scrape
  <2>1. /\ telemetry'[r] = "counted" /\ stage'[r] = "request" /\ layer'[r] = layer[r] + 1
        /\ requests' = requests + 1 /\ gauge' = gauge + 1
    BY <1>0, <1>6 DEF Observe, DispatchTypeOK, Pass
  <2>2. CountedInOrder'
    BY <1>0, <1>1, <1>4, <2>1 DEF CountedInOrder, Alone
  <2>3. Counted' = Counted \cup {r}
    <3>1. r \in Counted'
      BY <1>1, <2>1, CountedNext DEF Passing
    <3>2. Counted \subseteq Requests /\ Counted' \subseteq Requests
      BY DEF Counted
    <3> QED BY <1>0, <3>1, <3>2, OthersStayCounted
  <2>4. IsFiniteSet(Counted') /\ Cardinality(Counted') = Cardinality(Counted) + 1
    BY <1>3, <2>3, FS_AddElement
  <2>5. MetricsBalance'
    <3>1. /\ responses["2xx"] \in Nat /\ responses["3xx"] \in Nat
          /\ responses["4xx"] \in Nat /\ responses["5xx"] \in Nat
          /\ requests \in Nat /\ gauge \in Int
      BY DEF DispatchTypeOK, Classes
    <3>2. gauge' = Cardinality(Counted')
      BY <2>1, <2>4 DEF MetricsBalance
    <3>3. requests' = gauge' + responses'["2xx"] + responses'["3xx"]
                             + responses'["4xx"] + responses'["5xx"]
      <4>1. requests = gauge + responses["2xx"] + responses["3xx"]
                             + responses["4xx"] + responses["5xx"]
        BY DEF MetricsBalance
      <4>2. responses' = responses
        BY <1>0
      <4> HIDE DEF DispatchInv
      <4> QED
        BY <2>1, <3>1, <4>1, <4>2
    <3>4. errors' <= responses'["4xx"] + responses'["5xx"]
      BY <1>0 DEF MetricsBalance
    <3> QED
      BY <3>2, <3>3, <3>4 DEF MetricsBalance
  <2> QED
    BY <1>2, <2>2, <2>4, <2>5
<1> QED
  BY <1>5, <1>6

\* on_response of the observability layer, for a request it has counted in.
LEMMA FinishCounts ==
  ASSUME DispatchInv, DispatchTypeOK', NEW r \in Requests, OnResponse(r),
         layer[r] \in Met(r), telemetry[r] = "counted", Finish(r)
  PROVE  DispatchInv'
<1> USE DEF DispatchInv
<1>0. /\ stage[r] = "response" /\ Alone(r) /\ UNCHANGED <<chain, about, stage, telemetry>>
      /\ layer[r] \in 1 .. Len(chain) /\ Len(chain) \in Nat /\ layer'[r] = layer[r] - 1
  BY DEF OnResponse, At, DispatchTypeOK, Alone
<1>1. \A q \in Requests : Met(q)' = Met(q)
  BY <1>0, OthersStayCounted
<1>2. OneObserver'
  BY <1>0 DEF OneObserver, Observers
<1>3. r \in Counted
  BY <1>0, CountedIs
<1>4. \A i \in Met(r) : i = layer[r]
  BY DEF OneObserver, Met
<1>5. CountedInOrder'
  BY <1>0, <1>1 DEF CountedInOrder, Alone
<1>6. r \notin Counted'
  BY <1>0, <1>1, <1>4, CountedNext DEF Passing
<1>7. Counted' = Counted \ {r}
  <2>1. Counted \subseteq Requests /\ Counted' \subseteq Requests
    BY DEF Counted
  <2> QED BY <1>0, <1>6, <2>1, OthersStayCounted
<1>8. IsFiniteSet(Counted') /\ Cardinality(Counted') = Cardinality(Counted) - 1
  BY <1>3, <1>7, FS_RemoveElement
<1>9. MetricsBalance'
  <2> DEFINE class == IF status[r] \in Classes THEN status[r] ELSE "5xx"
  <2>1. class \in Classes /\ (status[r] \in {"4xx", "5xx"} => class \in {"4xx", "5xx"})
    BY DEF Classes
  <2>2. /\ gauge' = gauge - 1 /\ requests' = requests
        /\ responses' = [responses EXCEPT ![class] = @ + 1]
        /\ errors' = IF status[r] \in {"4xx", "5xx"} THEN errors + 1 ELSE errors
    BY DEF Finish
  <2> HIDE DEF class
  <2>3. /\ \A c \in Classes : responses[c] \in Nat
        /\ responses \in [Classes -> Nat] /\ requests \in Nat /\ gauge \in Int /\ errors \in Nat
    BY DEF DispatchTypeOK
  <2>4. \A c \in Classes : responses'[c] = IF c = class THEN responses[c] + 1 ELSE responses[c]
    BY <2>1, <2>2, <2>3
  <2>5. requests' = gauge' + responses'["2xx"] + responses'["3xx"]
                           + responses'["4xx"] + responses'["5xx"]
    BY <2>1, <2>2, <2>3, <2>4 DEF MetricsBalance, Classes
  <2>6. errors' <= responses'["4xx"] + responses'["5xx"]
    BY <2>1, <2>2, <2>3, <2>4 DEF MetricsBalance, Classes
  <2>7. gauge' = Cardinality(Counted')
    BY <1>8, <2>2 DEF MetricsBalance
  <2> QED
    BY <2>5, <2>6, <2>7 DEF MetricsBalance
<1> QED
  BY <1>2, <1>5, <1>8, <1>9

\* on_response of a layer that counts nothing out.
LEMMA ReturnsCounted ==
  ASSUME DispatchInv, DispatchTypeOK', NEW r \in Requests, OnResponse(r),
         UNCHANGED metrics, layer[r] \in Met(r) => telemetry[r] # "counted"
  PROVE  DispatchInv'
<1> USE DEF DispatchInv
<1>0. /\ stage[r] = "response" /\ Alone(r) /\ UNCHANGED <<chain, about, stage, telemetry>>
      /\ layer[r] \in 1 .. Len(chain) /\ Len(chain) \in Nat /\ layer'[r] = layer[r] - 1
  BY DEF OnResponse, At, DispatchTypeOK, Alone
<1>1. /\ \A q \in Requests : Met(q)' = Met(q)
      /\ \A q \in Requests : Met(q) \subseteq 1 .. Len(chain)
  BY <1>0, OthersStayCounted DEF Met, Observers
<1>2. OneObserver'
  BY <1>0 DEF OneObserver, Observers
<1>3. CountedInOrder'
  BY <1>0, <1>1 DEF CountedInOrder, Alone
<1>4. r \in Counted' <=> r \in Counted
  BY <1>0, <1>1, CountedIs, CountedNext DEF Passing
<1>5. Counted' = Counted
  <2>1. Counted \subseteq Requests /\ Counted' \subseteq Requests
    BY DEF Counted
  <2>2. \A q \in Requests : q \in Counted' <=> q \in Counted
    BY <1>0, <1>4, OthersStayCounted
  <2> QED BY <2>1, <2>2
<1>6. MetricsBalance'
  BY <1>5 DEF MetricsBalance, metrics
<1> QED
  BY <1>2, <1>3, <1>5, <1>6

\* A request that arrives, or whose response leaves, was not counted before
\* the step and is not after it.
LEMMA StaysOut ==
  ASSUME DispatchInv, DispatchTypeOK', NEW r \in Requests, Alone(r),
         UNCHANGED <<chain, about, metrics, telemetry>>,
         \/ stage[r] = "new" /\ stage'[r] = "request"
         \/ stage[r] = "response" /\ layer[r] = 0 /\ stage'[r] = "done"
  PROVE  DispatchInv'
<1> USE DEF DispatchInv
<1>1. /\ \A q \in Requests : Met(q)' = Met(q)
      /\ \A q \in Requests : Met(q) \subseteq 1 .. Len(chain)
  BY OthersStayCounted DEF Met, Observers
<1>2. OneObserver'
  BY DEF OneObserver, Observers
<1>3. CountedInOrder'
  BY <1>1 DEF CountedInOrder, Alone
<1>4. Len(chain) \in Nat
  BY DEF DispatchTypeOK
<1>5. r \notin Counted' /\ r \notin Counted
  BY <1>1, <1>4, CountedIs, CountedNext DEF Passing, CountedInOrder
<1>6. Counted' = Counted
  <2>1. Counted \subseteq Requests /\ Counted' \subseteq Requests
    BY DEF Counted
  <2>2. \A q \in Requests : q \in Counted' <=> q \in Counted
    BY <1>5, OthersStayCounted
  <2> QED BY <2>1, <2>2
<1>7. MetricsBalance'
  BY <1>6 DEF MetricsBalance, metrics
<1> QED
  BY <1>2, <1>3, <1>6, <1>7

LEMMA NextDispatch ==
  ASSUME ChainsAssumption, DispatchInv, [DispatchNext]_(dispatchVars)
  PROVE  DispatchInv'
<1>0. CASE UNCHANGED dispatchVars
  <2>1. UNCHANGED Counted
    BY <1>0 DEF dispatchVars, Counted, Ahead, MatchesRequest, MatchesPath
  <2>2. \A q \in Requests : UNCHANGED Met(q)
    BY <1>0 DEF dispatchVars, Met, Observers, MatchesRequest, MatchesPath
  <2>3. DispatchTypeOK' /\ OneObserver' /\ MetricsBalance'
    BY <1>0, <2>1 DEF DispatchInv, dispatchVars, DispatchTypeOK, OneObserver, Observers, MetricsBalance
  <2> QED BY <1>0, <2>1, <2>2, <2>3 DEF DispatchInv, dispatchVars, CountedInOrder
<1> SUFFICES ASSUME NEW r \in Requests, Dispatch(r) \/ Drop(r)
             PROVE  DispatchInv'
  BY <1>0 DEF DispatchNext
<1>t. /\ DispatchTypeOK /\ DispatchTypeOK' /\ UNCHANGED <<chain, about>> /\ Alone(r)
      /\ Len(chain) \in Nat
  BY SMTT(30), StepTyped, StepsAlone DEF DispatchInv, DispatchTypeOK
<1>1. CASE Arrive(r)
  BY <1>1, <1>t, StaysOut DEF Arrive, Enter, DispatchTypeOK
<1>2. CASE OnRequest(r)
  <2>0. stage[r] = "request" /\ layer[r] \in 1 .. Len(chain)
    BY <1>2 DEF OnRequest, At
  <2>1. CASE Observe(r) /\ layer[r] \in Met(r)
    BY <1>2, <2>1, ObserveCounts, <1>t
  <2>2. CASE /\ Complete(r, "4xx") \/ Pass(r)
             /\ UNCHANGED <<telemetry, requests, gauge>>
    <3>1. \/ stage'[r] = "response" /\ layer'[r] = Len(chain)
          \/ stage'[r] = "request" /\ layer'[r] = layer[r] + 1
      BY <2>0, <2>2, <1>t DEF Complete, Pass, DispatchTypeOK
    <3> QED BY <1>2, <1>t, <2>0, <2>2, <3>1, StaysCounted DEF OnRequest, Passing, metrics
  <2> QED
    BY <1>2, <2>0, <2>1, <2>2 DEF OnRequest, Met, Observers
<1>3. CASE Route(r)
  <2>1. /\ stage[r] = "request" /\ UNCHANGED <<telemetry, metrics>>
        /\ \/ stage'[r] = "response" /\ layer'[r] = Len(chain)
           \/ stage'[r] = "operation"
    BY <1>3, <1>t DEF Route, Complete, Enter, DispatchTypeOK
  <2> QED BY <1>t, <2>1, StaysCounted DEF Passing, metrics
<1>4. CASE OnOperation(r)
  <2>1. /\ stage[r] = "operation" /\ UNCHANGED <<telemetry, metrics>>
        /\ \/ stage'[r] = "response" /\ layer'[r] = Len(chain)
           \/ stage'[r] = "operation"
    BY <1>4, <1>t DEF OnOperation, At, Complete, Pass, DispatchTypeOK
  <2> QED BY <1>t, <2>1, StaysCounted DEF Passing, metrics
<1>5. CASE Guard(r)
  <2>1. /\ stage[r] = "operation" /\ UNCHANGED <<telemetry, metrics>>
        /\ \/ stage'[r] = "response" /\ layer'[r] = Len(chain)
           \/ stage'[r] = "invoke"
    BY <1>5, <1>t DEF Guard, Complete, Enter, DispatchTypeOK
  <2> QED BY <1>t, <2>1, StaysCounted DEF Passing, metrics
<1>6. CASE Answer(r)
  <2>1. /\ stage[r] = "invoke" /\ UNCHANGED <<telemetry, metrics>>
        /\ stage'[r] = "response" /\ layer'[r] = Len(chain)
    BY <1>6, <1>t DEF Answer, Complete, DispatchTypeOK
  <2> QED BY <1>t, <2>1, StaysCounted DEF Passing, metrics
<1>7. CASE OnResponse(r)
  <2>0. layer[r] \in Observers /\ layer[r] \in Met(r) => Matches(chain[layer[r]], r)
    BY DEF Met, Matches, MatchesRequest, MatchesOperation
  <2>1. CASE layer[r] \in Met(r) /\ telemetry[r] = "counted"
    <3>1. Finish(r)
      BY <1>7, <2>0, <2>1 DEF OnResponse, Met, Observers
    <3> QED BY <1>7, <1>t, <2>1, <3>1, FinishCounts
  <2>2. CASE layer[r] \in Met(r) /\ telemetry[r] # "counted"
    <3>1. UNCHANGED metrics
      BY <1>7, <2>2 DEF OnResponse, Finish
    <3> QED BY <1>7, <1>t, <2>2, <3>1, ReturnsCounted
  <2>3. CASE layer[r] \notin Met(r)
    <3>1. UNCHANGED metrics
      <4>1. CASE layer[r] \notin Observers
        BY <1>7, <4>1 DEF OnResponse, At, Observers
      <4>2. CASE layer[r] \in Observers
        <5>1. Met(r) = {}
          BY <2>3, <4>2 DEF DispatchInv, OneObserver, Met
        <5>2. telemetry[r] # "counted"
          BY <5>1 DEF DispatchInv, CountedInOrder
        <5> QED BY <1>7, <5>2 DEF OnResponse, Finish
      <4> QED BY <4>1, <4>2
    <3> QED BY <1>7, <1>t, <2>3, <3>1, ReturnsCounted
  <2> QED BY <2>1, <2>2, <2>3
<1>8. CASE Return(r)
  <2>1. /\ stage[r] = "response" /\ layer[r] = 0 /\ stage'[r] = "done"
        /\ UNCHANGED <<telemetry, metrics>>
    BY <1>8, <1>t DEF Return, DispatchTypeOK
  <2> QED BY <1>t, <2>1, StaysOut
<1>9. CASE Drop(r)
  <2>1. /\ stage[r] = "invoke" /\ UNCHANGED <<telemetry, metrics>>
        /\ stage'[r] = "dropped"
    BY <1>9, <1>t DEF Drop, DispatchTypeOK
  <2> QED BY <1>t, <2>1, StaysCounted DEF Passing, metrics
<1> QED
  BY <1>1, <1>2, <1>3, <1>4, <1>5, <1>6, <1>7, <1>8, <1>9 DEF Dispatch

\* Whatever chain of layers the application has and however the requests of
\* its workers interleave, the metrics' gauge is the number of requests counted
\* in and not yet out, every request is in the gauge or in one class of
\* responses, and no error is counted that is no response.
THEOREM MetricsStayBalanced ==
  ASSUME ChainsAssumption
  PROVE  DispatchSpec => []MetricsBalance
<1>1. DispatchInit => DispatchInv
  BY InitDispatch
<1>2. DispatchInv /\ [DispatchNext]_(dispatchVars) => DispatchInv'
  BY NextDispatch
<1>3. DispatchInv => MetricsBalance
  BY DEF DispatchInv
<1> QED
  BY <1>1, <1>2, <1>3, PTL DEF DispatchSpec

\* The type invariant of the dispatch, for any chain of layers.
THEOREM DispatchIsTyped ==
  ASSUME ChainsAssumption
  PROVE  DispatchSpec => []DispatchTypeOK
<1>1. DispatchInit => DispatchInv
  BY InitDispatch
<1>2. DispatchInv /\ [DispatchNext]_(dispatchVars) => DispatchInv'
  BY NextDispatch
<1>3. DispatchInv => DispatchTypeOK
  BY DEF DispatchInv
<1> QED
  BY <1>1, <1>2, <1>3, PTL DEF DispatchSpec

------------------------------------------------------------------------------
(* SessionLayer *)

\* Every id in circulation was drawn, and whoever has the session of an id that
\* has no record had it in hand when the record was removed.
SessionInv ==
  /\ SessionTypeOK
  /\ \A i \in Ids : store[i] # NoRecord => stored /\ i \in used
  /\ \A c \in cookies : stored => c.sid \in used
  /\ \A r \in Exchanges : spc[r] = "new" => session[r].id = NoId
  /\ \A r \in Exchanges : stored => session[r].id \in used \cup {NoId}
  /\ \A r \in Exchanges : spc[r] = "loading" => stored /\ session[r].id # NoId /\ read[r] # NoRecord
  /\ \A i \in used : stored /\ store[i] = NoRecord =>
       Holders(i) \subseteq held[i]

\* No session is in hand at the start.
LEMMA InitSession ==
  ASSUME SessionAssumption, SessionInit PROVE SessionInv
BY DEF SessionAssumption, SessionInit, SessionInv, SessionTypeOK, Holders,
  NewSession, Contents, Status

\* Every step of the sessions keeps their types.
LEMMA SessionStepTyped ==
  ASSUME SessionAssumption, SessionInv, SessionNext
  PROVE  SessionTypeOK'
<1> USE DEF SessionTypeOK
<1>t. SessionTypeOK
  BY DEF SessionInv
<1>1. CASE Elapse
  BY <1>1, <1>t DEF Elapse, SessionAssumption
<1>r. ASSUME NEW ids, EraseAll(ids)
      PROVE  store' \in [Ids -> Record \cup {NoRecord}] /\ held' \in [Ids -> SUBSET Exchanges]
  BY <1>t, <1>r DEF EraseAll, Holders
<1>2. CASE PurgeExpired
  BY <1>2, <1>t, <1>r DEF PurgeExpired
<1> SUFFICES ASSUME NEW r \in Exchanges,
       \/ LoadNone(r) \/ LoadSigned(r) \/ LoadRecord(r) \/ CheckExpiry(r)
       \/ SetSubject(r) \/ Touch(r) \/ Clear(r)
       \/ WriteNothing(r) \/ WriteCleared(r) \/ WriteModified(r)
       PROVE SessionTypeOK'
  BY <1>1, <1>2 DEF SessionNext
<1> DEFINE State == [id : Ids \cup {NoId}, subject : Contents, status : Status]
<1>n. NewSession \in State
  BY DEF NewSession, Contents, Status
<1>o. \A i \in Ids \cup {NoId}, s \in Contents : Restored(i, s) \in State
  BY DEF Restored, Status
<1>h. ASSUME NEW s \in State, Handles(r, s)
      PROVE  /\ spc' \in [Exchanges -> {"new", "loading", "handler", "done"}]
             /\ session' \in [Exchanges -> State]
  BY <1>h, <1>t DEF Handles
<1> HIDE DEF State
<1>3. CASE LoadNone(r)
  BY <1>3, <1>t, <1>n, <1>h DEF LoadNone, State
<1>4. CASE LoadSigned(r)
  BY <1>4, <1>t, <1>o, <1>h DEF LoadSigned, State, Cookie
<1>5. CASE LoadRecord(r)
  <2>1. PICK c \in cookies :
       IF store[c.sid] = NoRecord
          THEN Handles(r, NewSession) /\ UNCHANGED read
          ELSE /\ read' = [read EXCEPT ![r] = store[c.sid]]
               /\ session' = [session EXCEPT ![r].id = c.sid]
               /\ spc' = [spc EXCEPT ![r] = "loading"]
    BY <1>5 DEF LoadRecord
  <2>2. CASE store[c.sid] = NoRecord
    BY <1>5, <1>t, <1>n, <1>h, <2>1, <2>2 DEF LoadRecord, State
  <2>3. CASE store[c.sid] # NoRecord
    <3>1. c.sid \in Ids /\ stored
      BY <2>1, <1>t, <1>5, <2>3 DEF SessionInv, LoadRecord, Cookie
    <3>2. session[r] \in State
      BY <1>t DEF State
    <3>3. session' \in [Exchanges -> State]
      BY <1>t, <2>1, <2>3, <3>1, <3>2 DEF State
    <3> QED BY ZenonT(40), <1>5, <1>t, <2>1, <2>3, <3>1, <3>3 DEF LoadRecord, State
  <2> QED BY <2>2, <2>3
<1>6. CASE CheckExpiry(r)
  <2>1. read[r] \in Record
    BY <1>6, <1>t DEF SessionInv, CheckExpiry
  <2>2. read[r].subject \in Contents /\ session[r].id \in Ids \cup {NoId}
    BY <1>t, <2>1 DEF Record
  <2>3. /\ spc' \in [Exchanges -> {"new", "loading", "handler", "done"}]
        /\ session' \in [Exchanges -> State]
    BY <1>6, <1>n, <1>o, <1>h, <2>2 DEF CheckExpiry
  <2>4. /\ store' \in [Ids -> Record \cup {NoRecord}] /\ held' \in [Ids -> SUBSET Exchanges]
    BY <1>6, <1>t, <1>r DEF CheckExpiry, Erase
  <2> QED BY <1>6, <1>t, <2>3, <2>4 DEF CheckExpiry, State
<1>7. ASSUME NEW s \in State, Edits(r, s) PROVE SessionTypeOK'
  <2>1. edits[r] + 1 \in 0 .. MaxEdits
    BY <1>7, <1>t DEF Edits, SessionAssumption
  <2> QED BY <1>7, <1>t, <2>1 DEF Edits, State
<1>8. session[r] \in State
  BY <1>t DEF State
<1>9. CASE SetSubject(r)
  <2>1. PICK s \in Subjects : Edits(r, [session[r] EXCEPT !.subject = s, !.status = "Modified"])
    BY <1>9 DEF SetSubject
  <2>2. [session[r] EXCEPT !.subject = s, !.status = "Modified"] \in State
    BY <1>8 DEF State, Contents, Status
  <2> QED BY <1>7, <2>1, <2>2
<1>10. CASE Touch(r)
  <2>2. [session[r] EXCEPT !.status = "Modified"] \in State
    BY <1>8 DEF State, Contents, Status
  <2> QED BY <1>7, <1>10, <2>2 DEF Touch
<1>11. CASE Clear(r)
  <2>2. [session[r] EXCEPT !.subject = Anonymous, !.status = "Cleared"] \in State
    BY <1>8 DEF State, Contents, Status
  <2> QED BY <1>7, <1>11, <2>2 DEF Clear
<1>12. CASE WriteNothing(r)
  BY <1>12, <1>t DEF WriteNothing, Leaves
<1>13. CASE WriteCleared(r)
  BY <1>13, <1>t, <1>r DEF WriteCleared, Leaves, Erase
<1>14. CASE WriteModified(r)
  <2>1. PICK id \in IF stored /\ session[r].id = NoId THEN Ids \ used ELSE {session[r].id} :
       /\ IF stored
          THEN Save(id, [subject |-> session[r].subject, expires |-> clock + Ttl])
          ELSE UNCHANGED <<store, held>>
       /\ used' = used \cup ({id} \ {NoId})
       /\ cookies' = cookies \cup
            {[sid |-> id, subject |-> IF stored THEN Anonymous ELSE session[r].subject,
              expires |-> clock + Ttl]}
    BY <1>14 DEF WriteModified
  <2>2. id \in Ids \cup {NoId} /\ (stored => id \in Ids)
    BY <1>8, <2>1 DEF State
  <2>3. /\ session[r].subject \in Contents /\ Anonymous \in Contents
        /\ clock + Ttl \in Nat
    BY <1>8, <1>t DEF State, Contents, SessionAssumption
  <2>4. cookies' \subseteq Cookie
    BY <1>t, <2>1, <2>2, <2>3 DEF Cookie
  <2>5. store' \in [Ids -> Record \cup {NoRecord}] /\ held' = held
    BY <1>t, <2>1, <2>2, <2>3 DEF Save, Record
  <2>6. used' \subseteq Ids
    BY <1>t, <2>1, <2>2
  <2> QED BY <1>14, <1>t, <2>4, <2>5, <2>6 DEF WriteModified, Leaves
<1> QED
  BY <1>3, <1>4, <1>5, <1>6, <1>9, <1>10, <1>11, <1>12, <1>13, <1>14

\* What a step does to the ids: it keeps the records and what is in hand, or
\* removes records and remembers who had them in hand, or saves one.
LEMMA SessionKeeps ==
  ASSUME SessionInv, SessionTypeOK', UNCHANGED <<stored, store, held>>, used \subseteq used',
         \A c \in cookies' : stored => c.sid \in used',
         NEW r \in Exchanges,
         \A q \in Exchanges \ {r} : spc'[q] = spc[q] /\ session'[q].id = session[q].id /\ read'[q] = read[q],
         spc'[r] # "new",
         spc'[r] = "loading" => stored /\ session'[r].id # NoId /\ read'[r] # NoRecord,
         stored => session'[r].id \in used' \cup {NoId},
         \A i \in used' : stored /\ store[i] = NoRecord =>
            /\ i \in used
            /\ session'[r].id = i /\ spc'[r] \in {"loading", "handler"} =>
                 session[r].id = i /\ spc[r] \in {"loading", "handler"}
  PROVE  SessionInv'
<1> USE DEF SessionInv
<1>1. ASSUME NEW i \in used', stored, store[i] = NoRecord
      PROVE  Holders(i)' \subseteq held[i]
  <2>1. Holders(i)' \subseteq Holders(i)
    BY <1>1 DEF Holders
  <2> QED BY <1>1, <2>1
<1>2. \A i \in Ids : store'[i] # NoRecord => stored' /\ i \in used'
  OBVIOUS
<1>3. \A q \in Exchanges :
        /\ spc'[q] = "new" => session'[q].id = NoId
        /\ stored => session'[q].id \in used' \cup {NoId}
        /\ spc'[q] = "loading" => stored' /\ session'[q].id # NoId /\ read'[q] # NoRecord
  OBVIOUS
<1> QED
  BY <1>1, <1>2, <1>3

\* A removal notes who has the sessions in hand that it removes.
LEMMA SessionRemoves ==
  ASSUME SessionAssumption, SessionInv, SessionTypeOK', UNCHANGED <<stored, used, cookies>>,
         NEW ids, EraseAll(ids),
         \A q \in Exchanges : \/ spc'[q] = spc[q] /\ session'[q].id = session[q].id /\ read'[q] = read[q]
                              \/ spc'[q] = "handler" /\ session'[q].id = NoId
                              \/ spc'[q] = "done" /\ session'[q].id = session[q].id
  PROVE  SessionInv'
<1> USE DEF SessionInv
<1>1. ASSUME NEW i \in used', stored, store'[i] = NoRecord
      PROVE  Holders(i)' \subseteq held'[i]
  <2>0. i \in Ids /\ i # NoId
    BY DEF SessionTypeOK, SessionAssumption
  <2>1. Holders(i)' \subseteq Holders(i)
    BY <2>0 DEF Holders
  <2>2. held'[i] = IF i \in ids THEN Holders(i) ELSE held[i]
    BY <2>0 DEF EraseAll
  <2>3. i \notin ids => store[i] = NoRecord
    BY <1>1, <2>0 DEF EraseAll
  <2> QED BY <1>1, <2>1, <2>2, <2>3
<1>2. \A i \in Ids : store'[i] # NoRecord => stored' /\ i \in used'
  BY DEF EraseAll
<1>3. \A q \in Exchanges :
        /\ spc'[q] = "new" => session'[q].id = NoId
        /\ stored => session'[q].id \in used' \cup {NoId}
        /\ spc'[q] = "loading" => stored' /\ session'[q].id # NoId /\ read'[q] # NoRecord
  OBVIOUS
<1> QED
  BY <1>1, <1>2, <1>3

\* Saving a session draws an id or keeps the one it has.
LEMMA SessionSaves ==
  ASSUME SessionAssumption, SessionInv, NEW r \in Exchanges, WriteModified(r),
         SessionTypeOK'
  PROVE  /\ SessionInv'
         /\ \A i \in used : store[i] = NoRecord /\ store'[i] # NoRecord =>
              \E q \in Exchanges : spc'[q] = "done" /\ spc[q] = "handler" /\ q \in held[i]
<1> USE DEF SessionInv
<1>1. PICK id \in IF stored /\ session[r].id = NoId THEN Ids \ used ELSE {session[r].id} :
       /\ IF stored
          THEN Save(id, [subject |-> session[r].subject, expires |-> clock + Ttl])
          ELSE UNCHANGED <<store, held>>
       /\ used' = used \cup ({id} \ {NoId})
       /\ cookies' = cookies \cup
            {[sid |-> id, subject |-> IF stored THEN Anonymous ELSE session[r].subject,
              expires |-> clock + Ttl]}
  BY DEF WriteModified
<1>2. /\ UNCHANGED <<stored, read, session>> /\ spc[r] = "handler" /\ spc' = [spc EXCEPT ![r] = "done"]
      /\ spc'[r] = "done"
  BY DEF WriteModified, Leaves, SessionTypeOK
<1>3. \A c \in cookies' : stored => c.sid \in used'
  <2>1. stored => id # NoId
    BY <1>1 DEF SessionAssumption, SessionTypeOK
  <2> QED BY <1>1, <2>1
<1>4. \A q \in Exchanges :
        /\ spc'[q] = "new" => session'[q].id = NoId
        /\ stored => session'[q].id \in used' \cup {NoId}
        /\ spc'[q] = "loading" => stored' /\ session'[q].id # NoId /\ read'[q] # NoRecord
  BY <1>1, <1>2 DEF SessionTypeOK
<1>5. CASE ~stored
  <2>1. \A i \in Ids : store[i] = NoRecord /\ store'[i] = NoRecord
    BY <1>1, <1>5
  <2> QED BY <1>2, <1>3, <1>4, <1>5, <2>1 DEF SessionTypeOK
<1>6. CASE stored
  <2> DEFINE record == [subject |-> session[r].subject, expires |-> clock + Ttl]
  <2>1. record # NoRecord
    BY DEF SessionAssumption, Record, SessionTypeOK
  <2>2. store' = [store EXCEPT ![id] = record] /\ held' = held /\ id \in Ids
    BY <1>1, <1>6 DEF Save, SessionAssumption, SessionTypeOK
  <2> HIDE DEF record
  <2>3. store'[id] # NoRecord /\ \A i \in Ids \ {id} : store'[i] = store[i]
    BY <2>1, <2>2 DEF SessionTypeOK
  <2>4. \A i \in Ids : Holders(i)' \subseteq Holders(i)
    BY <1>2 DEF Holders, SessionTypeOK
  <2>5. used' = used \cup {id} /\ used' \subseteq Ids
    BY <1>1, <2>2 DEF SessionAssumption, SessionTypeOK
  <2>6. \A i \in used' : store'[i] = NoRecord => Holders(i)' \subseteq held'[i]
    BY <1>6, <2>2, <2>3, <2>4, <2>5
  <2>7. SessionInv'
    BY <1>2, <1>3, <1>4, <1>6, <2>2, <2>3, <2>5, <2>6
  <2>8. ASSUME NEW i \in used, store[i] = NoRecord, store'[i] # NoRecord
        PROVE  r \in held[i]
    <3>1. i = id /\ i \in Ids
      BY <2>3, <2>8 DEF SessionTypeOK
    <3>2. session[r].id = i
      BY <1>1, <3>1
    <3>3. r \in Holders(i)
      BY <1>2, <3>2 DEF Holders
    <3> QED BY <1>6, <2>8, <3>3
  <2> QED BY <1>2, <2>7, <2>8
<1> QED
  BY <1>5, <1>6

RevivedStep ==
  \A i \in used : store[i] = NoRecord /\ store'[i] # NoRecord =>
    \E r \in Exchanges : spc'[r] = "done" /\ spc[r] = "handler" /\ r \in held[i]

\* Every step keeps the invariant, and brings a record back only for a holder.
LEMMA NextSession ==
  ASSUME SessionAssumption, SessionInv, [SessionNext]_(sessionVars)
  PROVE  SessionInv' /\ RevivedStep
<1>0. CASE UNCHANGED sessionVars \/ Elapse
  <2>1. UNCHANGED <<stored, store, cookies, used, spc, read, session, edits, held>> /\ SessionTypeOK'
    BY <1>0, SessionStepTyped DEF sessionVars, Elapse, SessionInv, SessionTypeOK, SessionNext
  <2>2. \A i \in used : Holders(i)' = Holders(i)
    BY <2>1 DEF Holders
  <2> QED BY <2>1, <2>2 DEF SessionInv, RevivedStep
<1> SUFFICES ASSUME SessionNext, ~Elapse PROVE SessionInv' /\ RevivedStep
  BY <1>0
<1>t. SessionTypeOK /\ SessionTypeOK'
  BY SessionStepTyped DEF SessionInv
<1>1. CASE PurgeExpired
  <2>1. SessionInv'
    BY <1>1, <1>t, SessionRemoves DEF PurgeExpired
  <2>2. RevivedStep
    BY <1>1, <1>t DEF PurgeExpired, EraseAll, RevivedStep, SessionTypeOK
  <2> QED BY <2>1, <2>2
<1> SUFFICES ASSUME NEW r \in Exchanges,
       \/ LoadNone(r) \/ LoadSigned(r) \/ LoadRecord(r) \/ CheckExpiry(r)
       \/ SetSubject(r) \/ Touch(r) \/ Clear(r)
       \/ WriteNothing(r) \/ WriteCleared(r) \/ WriteModified(r)
       PROVE SessionInv' /\ RevivedStep
  BY <1>1 DEF SessionNext
<1>2. CASE WriteModified(r)
  BY <1>2, <1>t, SessionSaves DEF RevivedStep
<1>c. ASSUME Erase(session[r].id), UNCHANGED <<stored, cookies, used>>,
            \A q \in Exchanges \ {r} : spc'[q] = spc[q] /\ session'[q].id = session[q].id /\ read'[q] = read[q],
            \/ spc'[r] = "handler" /\ session'[r].id = NoId
            \/ spc'[r] = "done" /\ session'[r].id = session[r].id
      PROVE  SessionInv' /\ RevivedStep
  <2>1. \A q \in Exchanges : \/ spc'[q] = spc[q] /\ session'[q].id = session[q].id /\ read'[q] = read[q]
                             \/ spc'[q] = "handler" /\ session'[q].id = NoId
                             \/ spc'[q] = "done" /\ session'[q].id = session[q].id
    BY <1>c
  <2>2. SessionInv'
    BY <1>t, <1>c, <2>1, SessionRemoves DEF Erase
  <2>3. RevivedStep
    BY <1>t, <1>c DEF Erase, EraseAll, RevivedStep, SessionTypeOK
  <2> QED BY <2>2, <2>3
<1>k. ASSUME UNCHANGED <<stored, cookies, used, store, held>>,
            \A q \in Exchanges \ {r} : spc'[q] = spc[q] /\ session'[q].id = session[q].id /\ read'[q] = read[q],
            spc[r] \in {"loading", "handler"}, spc'[r] \in {"handler", "done"},
            session'[r].id = session[r].id
      PROVE  SessionInv' /\ RevivedStep
  <2>1. SessionInv'
    BY <1>t, <1>k, SessionKeeps DEF SessionInv
  <2> QED BY <1>k, <2>1 DEF RevivedStep
<1>3. CASE WriteCleared(r)
  <2>1. /\ UNCHANGED <<stored, cookies, used, session, read>> /\ spc[r] = "handler" /\ spc'[r] = "done"
        /\ \A q \in Exchanges \ {r} : spc'[q] = spc[q]
    BY <1>3, <1>t DEF WriteCleared, Leaves, SessionTypeOK
  <2> QED BY <1>3, <1>c, <1>k, <2>1 DEF WriteCleared
<1>7. CASE CheckExpiry(r)
  <2>1. /\ UNCHANGED <<stored, cookies, used>> /\ spc[r] = "loading"
        /\ \A q \in Exchanges \ {r} : read'[q] = read[q]
    BY <1>7, <1>t DEF CheckExpiry, SessionTypeOK
  <2>2. ASSUME NEW s, Handles(r, s)
        PROVE  /\ \A q \in Exchanges \ {r} : spc'[q] = spc[q] /\ session'[q].id = session[q].id
               /\ spc'[r] = "handler" /\ session'[r].id = s.id
    BY <2>2, <1>t DEF Handles, SessionTypeOK
  <2>3. NewSession.id = NoId
    BY DEF NewSession
  <2>4. \A s : Restored(session[r].id, s).id = session[r].id
    BY DEF Restored
  <2>5. CASE Expired(read[r])
    <3>1. Erase(session[r].id) /\ Handles(r, NewSession)
      BY <1>7, <2>5 DEF CheckExpiry
    <3> QED BY <1>c, <2>1, <2>2, <2>3, <3>1
  <2>6. CASE ~Expired(read[r])
    <3>1. UNCHANGED <<store, held>>
          /\ Handles(r, Restored(session[r].id, read[r].subject))
      BY <1>7, <2>6 DEF CheckExpiry
    <3> QED BY <1>k, <2>1, <2>2, <2>4, <3>1
  <2> QED BY <2>5, <2>6
<1>4. CASE LoadRecord(r)
  <2>1. PICK c \in cookies :
       IF store[c.sid] = NoRecord
          THEN Handles(r, NewSession) /\ UNCHANGED read
          ELSE /\ read' = [read EXCEPT ![r] = store[c.sid]]
               /\ session' = [session EXCEPT ![r].id = c.sid]
               /\ spc' = [spc EXCEPT ![r] = "loading"]
    BY <1>4 DEF LoadRecord
  <2>2. /\ UNCHANGED <<stored, store, cookies, used, held>> /\ stored /\ c.sid \in used /\ spc[r] = "new"
    BY <1>4 DEF LoadRecord, SessionInv
  <2>3. \A q \in Exchanges \ {r} : spc'[q] = spc[q] /\ session'[q].id = session[q].id /\ read'[q] = read[q]
    BY <1>t, <2>1 DEF Handles, SessionTypeOK
  <2>4. \/ spc'[r] = "handler" /\ session'[r].id = NoId
        \/ /\ spc'[r] = "loading" /\ session'[r].id = c.sid
           /\ store[c.sid] # NoRecord /\ read'[r] = store[c.sid]
    BY <1>t, <2>1 DEF Handles, SessionTypeOK, NewSession
  <2>5. NoId \notin used
    BY <1>t DEF SessionTypeOK, SessionAssumption
  <2>6. SessionInv'
    BY <1>t, <2>2, <2>3, <2>4, <2>5, SessionKeeps DEF SessionInv
  <2> QED BY <2>2, <2>6 DEF RevivedStep
<1>5. CASE LoadNone(r) \/ LoadSigned(r)
  <2>1. /\ UNCHANGED <<stored, store, cookies, used, held>> /\ spc[r] = "new"
        /\ \A q \in Exchanges \ {r} : spc'[q] = spc[q] /\ session'[q].id = session[q].id /\ read'[q] = read[q]
        /\ spc'[r] = "handler" /\ (stored => session'[r].id = NoId)
    BY <1>5, <1>t DEF LoadNone, LoadSigned, Handles, SessionTypeOK, NewSession
  <2>5. NoId \notin used
    BY <1>t DEF SessionTypeOK, SessionAssumption
  <2>2. SessionInv'
    BY <1>t, <2>1, <2>5, SessionKeeps DEF SessionInv
  <2> QED BY <2>1, <2>2 DEF RevivedStep
<1>8. CASE \E s : Edits(r, s) /\ s.id = session[r].id
  <2>1. /\ UNCHANGED <<stored, store, cookies, used, held, read, spc>> /\ spc[r] = "handler"
        /\ \A q \in Exchanges : session'[q].id = session[q].id
    BY <1>8, <1>t DEF Edits, SessionTypeOK
  <2> QED BY <1>k, <2>1
<1>9. CASE WriteNothing(r)
  <2>1. /\ UNCHANGED <<stored, store, cookies, used, held, read, session>> /\ spc[r] = "handler"
        /\ \A q \in Exchanges \ {r} : spc'[q] = spc[q]
        /\ spc'[r] = "done"
    BY <1>9, <1>t DEF WriteNothing, Leaves, SessionTypeOK
  <2> QED BY <1>k, <2>1
<1>10. CASE SetSubject(r) \/ Touch(r) \/ Clear(r)
  <2>1. session[r] \in [id : Ids \cup {NoId}, subject : Contents, status : Status]
    BY <1>t DEF SessionTypeOK
  <2>2. /\ [session[r] EXCEPT !.status = "Modified"].id = session[r].id
        /\ [session[r] EXCEPT !.subject = Anonymous, !.status = "Cleared"].id = session[r].id
        /\ \A s : [session[r] EXCEPT !.subject = s, !.status = "Modified"].id = session[r].id
    BY <2>1
  <2>3. CASE SetSubject(r)
    BY <1>8, <2>2, <2>3 DEF SetSubject
  <2>4. CASE Touch(r)
    BY <1>8, <2>2, <2>4 DEF Touch
  <2>5. CASE Clear(r)
    BY <1>8, <2>2, <2>5 DEF Clear
  <2> QED BY <1>10, <2>3, <2>4, <2>5
<1> QED
  BY <1>2, <1>3, <1>4, <1>5, <1>7, <1>9, <1>10

\* The type invariant of the sessions, and: however requests, expiry and logout
\* interleave, with the records or with signed cookies, a removed session comes
\* back only from a request that had it in hand when it was removed.
THEOREM SessionsRevivedOnlyByOverlap ==
  ASSUME SessionAssumption
  PROVE  SessionSpec => SessionsAreSound
<1>1. SessionInit => SessionInv
  BY InitSession
<1>2. SessionInv /\ [SessionNext]_(sessionVars) => SessionInv'
  BY NextSession
<1>3. SessionInv /\ [SessionNext]_(sessionVars) => [RevivedStep]_(sessionVars)
  BY NextSession
<1>4. SessionInv => SessionTypeOK
  BY DEF SessionInv
<1> QED
  BY <1>1, <1>2, <1>3, <1>4, PTL
     DEF SessionSpec, SessionsAreSound, RevivedOnlyByOverlap, RevivedStep

------------------------------------------------------------------------------
(* McpHttp *)

McpEvent ==
  {Event(m, s, c) : m \in Messages, s \in Sids, c \in Codes \cup {NoValue}}

\* The log is the end of what was answered, and is full once it has dropped.
LogInv ==
  /\ events \in Seq(McpEvent) /\ answers \in Seq(McpEvent)
  /\ Len(events) <= LogCapacity /\ Len(events) <= Len(answers)
  /\ Len(events) < Len(answers) => Len(events) = LogCapacity
  /\ \A i \in 1 .. Len(events) : events[i] = answers[Len(answers) - Len(events) + i]

TableInv ==
  /\ sessions \in [Sids -> {"Awaiting", "Ready", NoValue}]
  /\ handed = {s \in Sids : sessions[s] # NoValue}
  /\ noticed = {s \in Sids : sessions[s] = "Ready"}

CallsInv ==
  /\ calling = NoValue \/ (calling.message \in Messages /\ calling.sid \in Sids)
  /\ \A c \in ran : Tools[c.message.subject] => c.message.confirmed

AnswerInv ==
  /\ answer.status \in {0, 200, 202, 204, 400, 403, 404, 405, 406, 413, 415, 500}
  /\ posts \in 0 .. MaxRequests

McpInv == TableInv /\ CallsInv /\ LogInv /\ AnswerInv

\* record drops the oldest event where the log is full, and keeps none where it
\* holds none.
LEMMA RecordKeepsTheLast ==
  ASSUME HttpAssumption, LogInv, NEW e \in McpEvent, RecordEvent(e)
  PROVE  LogInv'
<1>0. LogCapacity \in Nat
  BY DEF HttpAssumption
<1>1. /\ answers' = Append(answers, e) /\ answers' \in Seq(McpEvent)
      /\ Len(answers') = Len(answers) + 1
      /\ \A i \in 1 .. Len(answers) : answers'[i] = answers[i]
      /\ answers'[Len(answers) + 1] = e
  BY DEF RecordEvent, LogInv
<1>2. CASE LogCapacity = 0
  <2>1. events' = events /\ Len(events) = 0
    BY <1>2 DEF RecordEvent, LogInv
  <2> QED BY <1>1, <1>2, <2>1 DEF LogInv
<1>3. CASE LogCapacity # 0 /\ Len(events) # LogCapacity
  <2>1. /\ events' \in Seq(McpEvent) /\ Len(events') = Len(events) + 1
        /\ \A i \in 1 .. Len(events) : events'[i] = events[i]
        /\ events'[Len(events) + 1] = e
    BY <1>3 DEF RecordEvent, LogInv
  <2>2. Len(events) = Len(answers)
    BY <1>3 DEF LogInv
  <2> QED BY <1>0, <1>1, <1>3, <2>1, <2>2 DEF LogInv
<1>4. CASE LogCapacity # 0 /\ Len(events) = LogCapacity
  <2> DEFINE rest == Tail(events)
  <2>0. /\ events # <<>> /\ events' = Append(rest, e)
    BY <1>4 DEF RecordEvent, LogInv
  <2>1. /\ rest \in Seq(McpEvent) /\ Len(rest) = LogCapacity - 1
        /\ \A i \in 1 .. Len(rest) : rest[i] = events[i + 1]
    BY <1>4, <2>0 DEF LogInv
  <2> HIDE DEF rest
  <2>2. /\ events' \in Seq(McpEvent) /\ Len(events') = LogCapacity
        /\ \A i \in 1 .. Len(rest) : events'[i] = rest[i]
        /\ events'[LogCapacity] = e
    BY <1>0, <1>4, <2>0, <2>1
  <2>3. \A i \in 1 .. LogCapacity : events'[i] = answers'[Len(answers') - LogCapacity + i]
    <3> SUFFICES ASSUME NEW i \in 1 .. LogCapacity
                 PROVE  events'[i] = answers'[Len(answers') - LogCapacity + i]
      OBVIOUS
    <3>0. Len(answers) \in Nat /\ LogCapacity <= Len(answers)
      BY <1>4 DEF LogInv
    <3>1. CASE i = LogCapacity
      BY <1>0, <1>1, <2>2, <3>0, <3>1
    <3>2. CASE i # LogCapacity
      <4>1. events'[i] = events[i + 1] /\ i + 1 \in 1 .. Len(events)
        BY <1>0, <1>4, <2>1, <2>2, <3>2
      <4>2. events[i + 1] = answers[Len(answers) - LogCapacity + i + 1]
        BY <1>0, <1>4, <3>0, <4>1 DEF LogInv
      <4>3. Len(answers') = Len(answers) + 1
        BY <1>1
      <4>4. Len(answers) - LogCapacity + i + 1 \in 1 .. Len(answers)
        BY <1>0, <3>0, <3>2
      <4>5. Len(answers') - LogCapacity + i = Len(answers) - LogCapacity + i + 1
        BY <1>0, <3>0, <4>3
      <4> QED BY <1>1, <4>1, <4>2, <4>4, <4>5
    <3> QED BY <3>1, <3>2
  <2>4. LogCapacity <= Len(answers) /\ Len(answers) \in Nat /\ Len(answers') = Len(answers) + 1
    BY <1>1, <1>4 DEF LogInv
  <2>5. Len(events') <= LogCapacity /\ Len(events') <= Len(answers')
    BY <1>0, <2>2, <2>4
  <2>6. answers' \in Seq(McpEvent) /\ events' \in Seq(McpEvent) /\ Len(events') = LogCapacity
    BY <1>1, <2>2
  <2> QED BY <2>3, <2>5, <2>6 DEF LogInv
<1> QED BY <1>2, <1>3, <1>4

LEMMA LogStays == ASSUME LogInv, NoEvent PROVE LogInv'
BY DEF LogInv, NoEvent

\* Whatever is wrong with a message, its reply carries an error.
LEMMA ErrorsAreErrors ==
  ASSUME HttpAssumption, NEW m, NEW state
  PROVE  /\ Malformed(m) # NoValue => Malformed(m).code \in Codes
         /\ Refusal(m, state) \in Codes \cup {NoValue}
         /\ \A o \in Outcomes(m) : OutcomeCode(o) \in Codes \cup {NoValue}
<1>1. Malformed(m) # NoValue => Malformed(m).code \in Codes
  BY DEF Malformed, Reply, Codes
<1>2. Refusal(m, state) \in Codes \cup {NoValue}
  BY DEF Refusal, Codes, UnknownCode
<1>3. \A o \in Outcomes(m) : OutcomeCode(o) \in Codes \cup {NoValue}
  BY DEF Outcomes, OutcomeCode, Codes
<1> QED BY <1>1, <1>2, <1>3

LEMMA GreetingsHaveCodes ==
  ASSUME HttpAssumption, NEW m \in Messages, NEW s \in Sids, Initializes(m)
  PROVE  /\ Malformed(m) = NoValue =>
              Event(m, s, Greeting(m).code) \in McpEvent
         /\ Greeting(m).code = NoValue => AfterMethod(m, "Uninitialized") = "Awaiting"
<1>0. NoValue \notin Codes /\ "Uninitialized" # NoValue
  BY DEF HttpAssumption, Lifecycle
<1>1. CASE Malformed(m) = NoValue
  <2>1. Greeting(m).code = Refusal(m, "Uninitialized")
    BY <1>1 DEF Greeting, Reply
  <2>2. Refusal(m, "Uninitialized") \in Codes \cup {NoValue}
    BY <1>0, ErrorsAreErrors
  <2> QED BY <2>1, <2>2 DEF McpEvent, AfterMethod, Initializes
<1>2. CASE Malformed(m) # NoValue
  BY <1>0, <1>2, ErrorsAreErrors DEF Greeting
<1> QED BY <1>1, <1>2

LEMMA InitMcp ==
  ASSUME HttpAssumption, McpInit PROVE McpInv
<1>1. TableInv
  BY DEF McpInit, HttpAssumption, Lifecycle, TableInv
<1>2. CallsInv /\ AnswerInv
  BY DEF McpInit, HttpAssumption, CallsInv, AnswerInv, Response
<1>3. LogInv
  BY DEF McpInit, HttpAssumption, LogInv
<1> QED BY <1>1, <1>2, <1>3 DEF McpInv

LEMMA NextMcp ==
  ASSUME HttpAssumption, McpInv, [McpNext]_(mcpVars)
  PROVE  McpInv'
<1>0. /\ TableInv /\ CallsInv /\ LogInv /\ AnswerInv
      /\ NoValue \notin Sids \cup Lifecycle \cup Codes /\ MaxRequests \in Nat
  BY DEF McpInv, HttpAssumption
<1>a. NoValue # "Awaiting" /\ NoValue # "Ready" /\ NoValue # "Uninitialized"
  BY <1>0 DEF Lifecycle
<1>q. \A code, sid, reply : Responds(code, sid, reply) => answer'.status = code
  BY DEF Responds, Response
<1>p. Arrives => posts' \in 0 .. MaxRequests /\ calling = NoValue
  BY <1>0 DEF Arrives, AnswerInv
<1>t. UNCHANGED <<sessions, handed, noticed>> => TableInv'
  BY <1>0 DEF TableInv
<1>c. UNCHANGED <<calling, ran>> => CallsInv'
  BY <1>0 DEF CallsInv
<1>1. CASE UNCHANGED mcpVars
  BY <1>0, <1>1 DEF mcpVars, McpInv, TableInv, CallsInv, LogInv, AnswerInv
<1>2. ASSUME NEW f \in DOMAIN Faults, Refuse(f) PROVE McpInv'
  <2>1. answer'.status \in {413, 403, 415, 406}
    BY <1>2, <1>q DEF Refuse, Faults
  <2> QED BY <1>0, <1>2, <1>p, <1>t, <1>c, <2>1, LogStays DEF Refuse, McpInv, AnswerInv
<1>3. CASE Get
  BY <1>0, <1>3, <1>p, <1>q, <1>t, <1>c, LogStays DEF Get, McpInv, AnswerInv
<1>4. CASE CallEnds
  <2>1. PICK o \in Outcomes(calling.message) :
          /\ answer'.status = 200
          /\ RecordEvent(Event(calling.message, calling.sid, OutcomeCode(o)))
    BY <1>4, <1>q DEF CallEnds
  <2>2. Event(calling.message, calling.sid, OutcomeCode(o)) \in McpEvent
    <3>1. calling.message \in Messages /\ calling.sid \in Sids
      BY <1>0, <1>4 DEF CallEnds, CallsInv
    <3>2. OutcomeCode(o) \in Codes \cup {NoValue}
      BY ErrorsAreErrors
    <3> QED BY <3>1, <3>2 DEF McpEvent
  <2>3. LogInv'
    BY <1>0, <2>1, <2>2, RecordKeepsTheLast
  <2>4. CallsInv' /\ AnswerInv'
    BY <1>0, <1>4, <2>1 DEF CallEnds, CallsInv, AnswerInv
  <2> QED BY <1>4, <1>t, <2>3, <2>4 DEF CallEnds, McpInv
<1>5. CASE CallDropped
  BY <1>0, <1>5, <1>t, LogStays DEF CallDropped, McpInv, CallsInv, AnswerInv
<1>6. ASSUME NEW h \in Sids \cup {NoValue}, DeleteSession(h) PROVE McpInv'
  <2>1. AnswerInv'
    BY <1>6, <1>p, <1>q DEF DeleteSession, AnswerInv
  <2>2. TableInv'
    BY <1>0, <1>6, <1>a, <1>t DEF DeleteSession, TableInv
  <2> QED BY <1>0, <1>6, <1>c, <2>1, <2>2, LogStays DEF DeleteSession, McpInv
<1>7. ASSUME NEW m \in Messages, PostUnread(m) PROVE McpInv'
  <2>1. AnswerInv'
    BY <1>7, <1>p, <1>q DEF PostUnread, AnswerInv
  <2> QED BY <1>0, <1>7, <1>t, <1>c, <2>1, LogStays DEF PostUnread, McpInv
<1>8. ASSUME NEW m \in Messages, NEW h \in Sids \cup {NoValue}, InitializeRefused(m, h)
      PROVE  McpInv'
  <2>1. AnswerInv'
    BY <1>8, <1>p, <1>q DEF InitializeRefused, AnswerInv
  <2> QED BY <1>0, <1>8, <1>t, <1>c, <2>1, LogStays DEF InitializeRefused, McpInv
<1>9. ASSUME NEW m \in Messages, NEW h \in Sids \cup {NoValue}, NEW s \in Sids,
             InitializeSession(m, h, s)
      PROVE  McpInv'
  <2>1. AnswerInv'
    BY <1>9, <1>p, <1>q DEF InitializeSession, AnswerInv
  <2>2. LogInv'
    <3>1. CASE Malformed(m) = NoValue
      BY <1>0, <1>9, <3>1, GreetingsHaveCodes, RecordKeepsTheLast DEF InitializeSession
    <3>2. CASE Malformed(m) # NoValue
      BY <1>0, <1>9, <3>2, LogStays DEF InitializeSession
    <3> QED BY <3>1, <3>2
  <2>3. TableInv'
    <3>1. CASE Greeting(m).code # NoValue
      BY <1>9, <1>t, <3>1 DEF InitializeSession
    <3>2. CASE Greeting(m).code = NoValue
      <4>1. /\ sessions' = [sessions EXCEPT ![s] = "Awaiting"]
            /\ handed' = handed \cup {s} /\ noticed' = noticed /\ sessions[s] = NoValue
        BY <1>9, <3>2, GreetingsHaveCodes DEF InitializeSession
      <4> QED BY <1>0, <1>a, <4>1 DEF TableInv
    <3> QED BY <3>1, <3>2
  <2> QED BY <1>9, <1>c, <2>1, <2>2, <2>3 DEF InitializeSession, McpInv
<1>10. ASSUME NEW m \in Messages, NEW h \in Sids \cup {NoValue}, NEW v \in BOOLEAN,
              PostMissed(m, h, v)
       PROVE  McpInv'
  <2>1. AnswerInv'
    BY <1>10, <1>p, <1>q DEF PostMissed, ToSession, AnswerInv
  <2> QED BY <1>0, <1>10, <1>t, <1>c, <2>1, LogStays DEF PostMissed, McpInv
<1>11. ASSUME NEW m \in Messages, NEW h \in Sids \cup {NoValue}, NEW v \in BOOLEAN,
              PostNotification(m, h, v)
       PROVE  McpInv'
  <2>1. AnswerInv'
    BY <1>11, <1>p, <1>q DEF PostNotification, Reaches, ToSession, AnswerInv
  <2>2. h \in Sids /\ sessions[h] \in {"Awaiting", "Ready"}
    BY <1>0, <1>11 DEF PostNotification, Reaches, TableInv
  <2>3. TableInv'
    <3>1. CASE m.method = "notifications/initialized"
      <4>1. /\ sessions' = [sessions EXCEPT ![h] = "Ready"] /\ noticed' = noticed \cup {h}
            /\ handed' = handed
        BY <1>0, <1>11, <2>2, <3>1 DEF PostNotification, AfterNotification, TableInv
      <4> QED BY <1>0, <1>a, <2>2, <4>1 DEF TableInv
    <3>2. CASE m.method # "notifications/initialized"
      <4>1. sessions' = sessions /\ noticed' = noticed /\ handed' = handed
        BY <1>0, <1>11, <2>2, <3>2 DEF PostNotification, AfterNotification, TableInv
      <4> QED BY <1>t, <4>1
    <3> QED BY <3>1, <3>2
  <2> QED BY <1>0, <1>11, <1>c, <2>1, <2>3, LogStays DEF PostNotification, McpInv
<1>12. ASSUME NEW m \in Messages, NEW h \in Sids \cup {NoValue}, NEW v \in BOOLEAN,
              PostAnswered(m, h, v)
       PROVE  McpInv'
  <2>1. AnswerInv'
    BY <1>12, <1>p, <1>q DEF PostAnswered, Reaches, ToSession, AnswerInv
  <2>2. h \in Sids /\ sessions[h] # NoValue
    BY <1>12 DEF PostAnswered, Reaches
  <2>3. LogInv'
    <3>1. CASE NoEvent
      BY <1>0, <3>1, LogStays
    <3>2. CASE RecordEvent(Event(m, h, Refusal(m, sessions[h])))
      <4>1. Event(m, h, Refusal(m, sessions[h])) \in McpEvent
        BY <2>2, ErrorsAreErrors DEF McpEvent
      <4> QED BY <1>0, <3>2, <4>1, RecordKeepsTheLast
    <3> QED BY <1>12, <3>1, <3>2 DEF PostAnswered
  <2> QED BY <1>12, <1>t, <1>c, <2>1, <2>3 DEF PostAnswered, McpInv
<1>13. ASSUME NEW m \in Messages, NEW h \in Sids \cup {NoValue}, NEW v \in BOOLEAN,
              PostCall(m, h, v)
       PROVE  McpInv'
  <2>1. AnswerInv'
    BY <1>0, <1>13, <1>p DEF PostCall, Reaches, ToSession, AnswerInv
  <2>2. h \in Sids /\ calling' = [message |-> m, sid |-> h]
    BY <1>13 DEF PostCall, Reaches
  <2>3. m.method = "tools/call" => (Tools[m.subject] => m.confirmed)
    BY <1>13 DEF PostCall, Starts, NeedsConfirmation
  <2>4. CallsInv'
    <3>1. ran' = ran \/ (m.method = "tools/call" /\ ran' = ran \cup {calling'})
      BY <1>13 DEF PostCall
    <3> QED BY <1>0, <2>2, <2>3, <3>1 DEF CallsInv
  <2> QED BY <1>0, <1>13, <1>t, <2>1, <2>4, LogStays DEF PostCall, McpInv
<1> QED
  BY <1>1, <1>2, <1>3, <1>4, <1>5, <1>6, <1>7, <1>8, <1>9, <1>10, <1>11, <1>12, <1>13
  DEF McpNext

LEMMA McpInvMeans ==
  ASSUME HttpAssumption, McpInv PROVE McpIsOrderly
<1>0. TableInv /\ CallsInv /\ LogInv /\ AnswerInv /\ NoValue \notin Lifecycle
  BY DEF McpInv, HttpAssumption
<1>1. McpTypeOK
  BY <1>0 DEF TableInv, CallsInv, LogInv, AnswerInv, McpTypeOK, Lifecycle
<1>2. /\ {s \in Sids : sessions[s] # NoValue} = handed
      /\ {s \in Sids : sessions[s] = "Ready"} = noticed
      /\ \A s \in Sids : sessions[s] # "Uninitialized"
  BY <1>0 DEF TableInv, Lifecycle
<1>3. \E n \in 0 .. Len(answers) :
        /\ events = SubSeq(answers, n + 1, Len(answers))
        /\ n > 0 => Len(events) = LogCapacity
  <2> DEFINE n == Len(answers) - Len(events)
  <2>1. n \in 0 .. Len(answers) /\ (n > 0 => Len(events) = LogCapacity)
    BY <1>0 DEF LogInv
  <2>2. events = SubSeq(answers, n + 1, Len(answers))
    BY <1>0 DEF LogInv
  <2> QED BY <2>1, <2>2
<1> QED BY <1>0, <1>1, <1>2, <1>3 DEF McpIsOrderly, CallsInv

\* For any messages, ids and size of the log, and with any call dropped or ended
\* in any way: the sessions of the table are those that clients were given, each
\* ready only after its client's notification, no tool ran unconfirmed, and the
\* audit log holds the last of what was answered.
THEOREM McpStaysOrderly ==
  ASSUME HttpAssumption
  PROVE  McpSpec => []McpIsOrderly
<1>1. McpInit => McpInv
  BY InitMcp
<1>2. McpInv /\ [McpNext]_(mcpVars) => McpInv'
  BY NextMcp
<1>3. McpInv => McpIsOrderly
  BY McpInvMeans
<1> QED BY <1>1, <1>2, <1>3, PTL DEF McpSpec

------------------------------------------------------------------------------
(* SecurityChecks *)

\* The requirement is held by the request, or the layer does without it.
Admits(l, q) == l.verifiers[q.scheme].mode = "Optional" \/ Holds(q, l.verifiers[q.scheme])

\* A layer's verifier breaks down on this request.
Breaks ==
  \E l \in SecurityOnPath : \E s \in Range(app.schemes) :
    Verify(l.verifiers[s.name].kind, s.kind) = Internal

LEMMA LeastIsFound ==
  ASSUME NEW n \in Nat, NEW I \in SUBSET (1 .. n), I # {}
  PROVE  Min(I) \in I
<1>1. \E k \in I : \A m \in I : k <= m
  BY LeastNumber
<1> QED BY <1>1 DEF Min

LEMMA SchemeIsFound ==
  ASSUME app.schemes \in Seq(Range(app.schemes)), NEW name
  PROVE  /\ SchemeNamed(name) = 0 =>
              \A i \in 1 .. Len(app.schemes) : app.schemes[i].name # name
         /\ SchemeNamed(name) # 0 =>
              /\ SchemeNamed(name) \in 1 .. Len(app.schemes)
              /\ app.schemes[SchemeNamed(name)].name = name
<1> DEFINE I == {i \in 1 .. Len(app.schemes) : app.schemes[i].name = name}
<1>1. SchemeNamed(name) = IF I # {} THEN Min(I) ELSE 0
  BY DEF SchemeNamed, SelectInSeq
<1>2. I # {} => Min(I) \in I
  <2>1. I \in SUBSET (1 .. Len(app.schemes)) /\ Len(app.schemes) \in Nat
    OBVIOUS
  <2> HIDE DEF I
  <2> QED BY <2>1, LeastIsFound
<1> QED BY <1>1, <1>2

LEMMA RejectionIsFound ==
  ASSUME NEW outcomes, Len(outcomes) \in Nat
  PROVE  /\ SelectInSeq(outcomes, Rejects) = 0 =>
              \A i \in 1 .. Len(outcomes) : ~Rejects(outcomes[i])
         /\ SelectInSeq(outcomes, Rejects) # 0 =>
              /\ SelectInSeq(outcomes, Rejects) \in 1 .. Len(outcomes)
              /\ Rejects(outcomes[SelectInSeq(outcomes, Rejects)])
<1> DEFINE I == {i \in 1 .. Len(outcomes) : Rejects(outcomes[i])}
<1>1. SelectInSeq(outcomes, Rejects) = IF I # {} THEN Min(I) ELSE 0
  BY DEF SelectInSeq
<1>2. I # {} => Min(I) \in I
  <2>1. I \in SUBSET (1 .. Len(outcomes))
    OBVIOUS
  <2> HIDE DEF I
  <2> QED BY <2>1, LeastIsFound
<1> QED BY <1>1, <1>2

\* A verifier of a known kind breaks down in one way.
LEMMA InternalIsInternal ==
  ASSUME NEW verifier \in {"bearer", "basic", "apiKey", "session"}, NEW kind,
         Verify(verifier, kind).outcome = "internal"
  PROVE  Verify(verifier, kind) = Internal
<1> USE DEF Verify, Internal, Invalid, Missing, Identity
<1>1. CASE verifier = "bearer"
  BY <1>1 DEF VerifyBearer, VerifyToken
<1>2. CASE verifier = "basic"
  BY <1>2 DEF VerifyBasic
<1>3. CASE verifier = "apiKey"
  BY <1>3 DEF VerifyApiKey
<1>4. CASE verifier = "session"
  BY <1>4 DEF VerifyCookie, VerifyToken
<1> QED BY <1>1, <1>2, <1>3, <1>4

\* What the outcome of a requirement says of the credential.
LEMMA OutcomesTell ==
  ASSUME NEW l, NEW q
  PROVE  /\ ~Rejects(Outcome(l, q)) => Admits(l, q)
         /\ Outcome(l, q) = "authenticated" => Holds(q, l.verifiers[q.scheme])
         /\ Rejects(Outcome(l, q)) => Outcome(l, q) \in {"401", "403", "500"}
         /\ /\ Outcome(l, q) = "500"
            /\ SchemeNamed(q.scheme) # 0 /\ q.scheme \in DOMAIN l.verifiers
            => Verify(l.verifiers[q.scheme].kind,
                             app.schemes[SchemeNamed(q.scheme)].kind).outcome = "internal"
<1> DEFINE entry == l.verifiers[q.scheme]
           kind == app.schemes[SchemeNamed(q.scheme)].kind
           identity == Verify(entry.kind, kind)
<1>1. CASE SchemeNamed(q.scheme) = 0 \/ q.scheme \notin DOMAIN l.verifiers
  BY <1>1 DEF Outcome, Rejects
<1>2. CASE SchemeNamed(q.scheme) # 0 /\ q.scheme \in DOMAIN l.verifiers
  <2>1. Outcome(l, q) = Authenticate(q, kind, entry)
    BY <1>2 DEF Outcome
  <2>2. Holds(q, entry) <=> identity.outcome = "ok" /\ q.scopes \subseteq identity.scopes
    BY DEF Holds
  <2>3. Admits(l, q) <=> entry.mode = "Optional" \/ Holds(q, entry)
    BY DEF Admits
  <2>4. CASE identity.outcome = "internal"
    <3>1. Authenticate(q, kind, entry) = "500"
      BY <2>4 DEF Authenticate
    <3> QED BY <2>1, <2>4, <3>1 DEF Rejects
  <2>5. CASE identity.outcome # "internal" /\ ~Holds(q, entry)
    <3>1. Authenticate(q, kind, entry) \in
            IF entry.mode = "Optional" THEN {"anonymous"} ELSE {"401", "403"}
      BY <2>2, <2>5 DEF Authenticate
    <3> QED BY <2>1, <2>3, <3>1 DEF Rejects
  <2>6. CASE identity.outcome # "internal" /\ Holds(q, entry)
    <3>1. Authenticate(q, kind, entry) = "authenticated"
      BY <2>2, <2>6 DEF Authenticate
    <3> QED BY <2>1, <2>3, <2>6, <3>1 DEF Rejects
  <2> QED BY <2>4, <2>5, <2>6
<1> QED BY <1>1, <1>2

\* The layer has rejected none of the requirements.
Passes(l) ==
  l.security /\ CoversPath(l, request.path) =>
    \A j \in 1 .. Len(app.requirements) : ~Rejects(Outcome(l, app.requirements[j]))

StartupInv ==
  /\ app \in Applications /\ SecurityTypeOK
  /\ upto \notin {"built", "refused"} => ContractIsValid
  /\ upto \in {"serving", "operation", "handler", "answered"} /\ app.checked =>
       /\ \A i \in 1 .. Len(app.layers) :
            app.layers[i].security => VerifiersFit(app.layers[i])
       /\ Verified(Template)
  /\ upto \in {"built", "checked", "serving", "refused"} => place = 1 /\ context = Unset
  /\ upto # "answered" => response = Unset

HeldInv ==
  context # Unset /\ app.requirements # <<>> => \A name \in context :
    \E l \in SecurityOnPath : \E q \in Range(app.requirements) :
      q.scheme = name /\ Holds(q, l.verifiers[name])

PassedInv ==
  /\ upto \in {"operation", "handler"} /\ app.requirements # <<>> =>
       \A i \in 1 .. place - 1 : Passes(app.layers[i])
  /\ upto = "handler" => place > Len(app.layers) /\ Verified(request.path)

SecurityInv == StartupInv /\ HeldInv /\ PassedInv /\ AccessIsEarned

LEMMA InitSecurity ==
  ASSUME SecurityAssumption, SecurityInit PROVE SecurityInv
<1>1. app.layers \in Seq(Range(app.layers)) /\ Unset \notin {"200", "500"}
  BY DEF SecurityAssumption, SecurityInit
<1>2. SecurityTypeOK
  BY <1>1 DEF SecurityInit, SecurityTypeOK
<1>3. StartupInv
  BY <1>2 DEF SecurityInit, StartupInv
<1>4. HeldInv /\ PassedInv
  BY DEF SecurityInit, HeldInv, PassedInv
<1>5. AccessIsEarned
  BY <1>1, <1>2 DEF SecurityInit, AccessIsEarned
<1> QED BY <1>3, <1>4, <1>5 DEF SecurityInv

\* Until the next request, what a credential is worth does not change.
LEMMA NothingIsReread ==
  ASSUME UNCHANGED <<app, request>>
  PROVE  /\ SecurityOnPath' = SecurityOnPath
         /\ \A q, e : Holds(q, e)' <=> Holds(q, e)
         /\ \A l, q : Outcome(l, q)' = Outcome(l, q)
         /\ ContractIsValid' <=> ContractIsValid
         /\ \A l : VerifiersFit(l)' <=> VerifiersFit(l)
         /\ \A path : Verified(path)' <=> Verified(path)
         /\ Breaks' <=> Breaks
         /\ \A l : Passes(l)' <=> Passes(l)
         /\ UNCHANGED context => (HeldInv' <=> HeldInv)
<1>1. \A v, k : Verify(v, k)' = Verify(v, k)
  BY DEF Verify
<1>2. \A name : SchemeNamed(name)' = SchemeNamed(name)
  BY DEF SchemeNamed, SelectInSeq
<1>3. SecurityOnPath' = SecurityOnPath
  BY DEF SecurityOnPath
<1>4. \A q, e : Holds(q, e)' <=> Holds(q, e)
  BY <1>1, <1>2 DEF Holds
<1>5. \A r, k, e : Authenticate(r, k, e)' = Authenticate(r, k, e)
  BY <1>1 DEF Authenticate
<1>6. \A l, q : Outcome(l, q)' = Outcome(l, q)
  BY <1>2, <1>5 DEF Outcome
<1>7. ContractIsValid' <=> ContractIsValid
  BY <1>2 DEF ContractIsValid
<1>8. \A l : VerifiersFit(l)' <=> VerifiersFit(l)
  BY DEF VerifiersFit
<1>9. \A path : Verified(path)' <=> Verified(path)
  BY DEF Verified
<1>10. Breaks' <=> Breaks
  BY <1>1, <1>3 DEF Breaks
<1>11. \A l : Passes(l)' <=> Passes(l)
  BY <1>6 DEF Passes
<1>12. UNCHANGED context => (HeldInv' <=> HeldInv)
  BY <1>3, <1>4 DEF HeldInv
<1> QED BY <1>3, <1>4, <1>6, <1>7, <1>8, <1>9, <1>10, <1>11, <1>12

\* What AccessIsEarned says of a request that was served, and of one that was
\* answered with a server error.
Served ==
  /\ \/ app.optOut \/ SecurityOnPath # {}
     \/ \E l \in Range(app.layers) : l.verifies /\ ~l.security
  /\ \A l \in SecurityOnPath : \A q \in Range(app.requirements) : Admits(l, q)
  /\ HeldInv

Blamed ==
  \/ \E l \in Range(app.layers) :
       CoversPath(l, request.path) # CoversPath(l, Template)
  \/ Breaks

LEMMA EarnedInParts ==
  /\ AccessIsEarned <=>
       /\ SecurityTypeOK
       /\ response = "200" /\ app.requirements # <<>> => Served
       /\ response = "500" /\ app.checked => Blamed
  /\ AccessIsEarned' <=>
       /\ SecurityTypeOK'
       /\ response' = "200" /\ (app.requirements # <<>>)' => Served'
       /\ response' = "500" /\ app.checked' => Blamed'
BY DEF AccessIsEarned, Served, Blamed, Admits, HeldInv, Breaks

LEMMA ApplicationsAreSequences ==
  ASSUME SecurityAssumption, app \in Applications
  PROVE  /\ app.requirements \in Seq(Range(app.requirements))
         /\ app.schemes \in Seq(Range(app.schemes))
         /\ app.layers \in Seq(Range(app.layers))
         /\ Len(app.requirements) \in Nat /\ Len(app.schemes) \in Nat /\ Len(app.layers) \in Nat
<1>1. /\ app.requirements \in Seq(Range(app.requirements))
      /\ app.schemes \in Seq(Range(app.schemes))
      /\ app.layers \in Seq(Range(app.layers))
  BY DEF SecurityAssumption
<1> QED BY <1>1

\* What is left of StartupInv once the application serves.
LEMMA StartupIsKept ==
  ASSUME StartupInv, UNCHANGED app, SecurityTypeOK',
         upto \in {"serving", "operation", "handler", "answered"},
         upto' \in {"operation", "handler", "answered"},
         upto' # "answered" => response' = Unset
  PROVE  StartupInv'
<1>1. ContractIsValid' <=> ContractIsValid
  BY DEF ContractIsValid, SchemeNamed, SelectInSeq
<1>2. \A l : VerifiersFit(l)' <=> VerifiersFit(l)
  BY DEF VerifiersFit
<1>3. Verified(Template)' <=> Verified(Template)
  BY DEF Verified
<1> QED BY <1>1, <1>2, <1>3 DEF StartupInv

\* A layer answers 500 only over a credential its verifier breaks down on: the
\* contract and the startup checks leave no requirement without a verifier.
LEMMA RejectionIsEarned ==
  ASSUME SecurityAssumption, SecurityInv,
         NEW i \in 1 .. Len(app.layers), NEW j \in 1 .. Len(app.requirements),
         upto = "operation", app.checked,
         app.layers[i].security, CoversPath(app.layers[i], request.path),
         Outcome(app.layers[i], app.requirements[j]) = "500"
  PROVE  Breaks
<1> DEFINE l == app.layers[i]
           q == app.requirements[j]
           at == SchemeNamed(q.scheme)
<1>1. app \in Applications
  BY DEF SecurityInv, StartupInv
<1>2. /\ app.requirements \in Seq(Range(app.requirements))
      /\ app.schemes \in Seq(Range(app.schemes))
      /\ app.layers \in Seq(Range(app.layers))
      /\ Len(app.requirements) \in Nat /\ Len(app.schemes) \in Nat /\ Len(app.layers) \in Nat
  BY <1>1, ApplicationsAreSequences
<1>3. at # 0
  BY DEF SecurityInv, StartupInv, ContractIsValid
<1>4. at \in 1 .. Len(app.schemes) /\ app.schemes[at].name = q.scheme
  <2> HIDE DEF q
  <2> QED BY <1>2, <1>3, SchemeIsFound
<1>5. app.schemes[at] \in Range(app.schemes) /\ l \in Range(app.layers)
  <2>1. \A k \in 1 .. Len(app.schemes) : app.schemes[k] \in Range(app.schemes)
    BY <1>2
  <2>2. \A k \in 1 .. Len(app.layers) : app.layers[k] \in Range(app.layers)
    BY <1>2
  <2> HIDE DEF at
  <2> QED BY <1>4, <2>1, <2>2
<1>6. q.scheme \in DOMAIN l.verifiers
  <2>1. VerifiersFit(l)
    BY SMTT(30) DEF SecurityInv, StartupInv
  <2> HIDE DEF l, q, at
  <2> QED BY <1>4, <1>5, <2>1 DEF VerifiersFit
<1>7. Verify(l.verifiers[q.scheme].kind, app.schemes[at].kind).outcome = "internal"
  BY <1>3, <1>6, OutcomesTell
<1>8. l.verifiers[q.scheme].kind \in {"bearer", "basic", "apiKey", "session"}
  <2> HIDE DEF l, q
  <2> QED BY <1>1, <1>5, <1>6 DEF SecurityAssumption
<1>9. l \in SecurityOnPath
  BY <1>5 DEF SecurityOnPath
<1>10. Verify(l.verifiers[q.scheme].kind, app.schemes[at].kind) = Internal
  <2> HIDE DEF l, q, at
  <2> QED BY <1>7, <1>8, InternalIsInternal
<1> HIDE DEF l, q, at
<1> QED BY <1>4, <1>5, <1>9, <1>10 DEF Breaks

\* on_operation of a layer passes every requirement, or answers.
LEMMA OperationStep ==
  ASSUME SecurityAssumption, SecurityInv, SecurityOnOperation
  PROVE  SecurityInv'
<1> DEFINE l == app.layers[place]
           outcomes == [i \in 1 .. Len(app.requirements) |-> Outcome(l, app.requirements[i])]
           rejected == SelectInSeq(outcomes, Rejects)
           skipped == ~l.security \/ ~CoversPath(l, request.path) \/ app.requirements = <<>>
<1>1. /\ upto = "operation" /\ place <= Len(app.layers) /\ place' = place + 1
      /\ UNCHANGED <<app, request>> /\ response = Unset
  BY DEF SecurityOnOperation, SecurityInv, StartupInv
<1>2. /\ Len(app.requirements) \in Nat /\ Len(app.layers) \in Nat
      /\ app.requirements \in Seq(Range(app.requirements))
      /\ app.layers \in Seq(Range(app.layers))
      /\ place \in 1 .. Len(app.layers) /\ l \in Range(app.layers)
      /\ request = Unset \/ request \in Presented
  <2>1. app \in Applications /\ SecurityTypeOK
    BY DEF SecurityInv, StartupInv
  <2>2. /\ Len(app.requirements) \in Nat /\ Len(app.layers) \in Nat
        /\ app.requirements \in Seq(Range(app.requirements))
        /\ app.layers \in Seq(Range(app.layers))
    BY <2>1, ApplicationsAreSequences
  <2> QED BY <1>1, <2>1, <2>2 DEF SecurityTypeOK, Range
<1>3. Len(outcomes) = Len(app.requirements) /\ Len(outcomes) \in Nat
      /\ DOMAIN outcomes = 1 .. Len(app.requirements)
  BY <1>2
<1>4. /\ rejected = 0 => \A i \in 1 .. Len(outcomes) : ~Rejects(outcomes[i])
      /\ rejected # 0 => rejected \in 1 .. Len(outcomes) /\ Rejects(outcomes[rejected])
  <2> HIDE DEF outcomes
  <2> QED BY <1>3, RejectionIsFound
<1>5. \A i \in 1 .. Len(app.requirements) :
        outcomes[i] = Outcome(l, app.requirements[i])
  OBVIOUS
<1>6. \/ skipped /\ UNCHANGED <<upto, context, response>>
      \/ ~skipped /\ rejected # 0 /\ AnswerWith(outcomes[rejected]) /\ UNCHANGED context
      \/ /\ ~skipped /\ rejected = 0 /\ UNCHANGED <<upto, response>>
         /\ context' = {app.requirements[i].scheme :
                          i \in {i \in DOMAIN outcomes : outcomes[i] = "authenticated"}}
  BY DEF SecurityOnOperation
<1>7. DOMAIN outcomes = 1 .. Len(app.requirements)
  OBVIOUS
<1>8. skipped \/ rejected = 0 => (app.requirements # <<>> => Passes(l))
  BY <1>3, <1>4, <1>5 DEF Passes
<1>9. Unset \notin {"200", "401", "403", "500"}
  BY DEF SecurityAssumption
<1> HIDE DEF outcomes, rejected
<1>10. CASE UNCHANGED <<upto, response>> /\ HeldInv'
            /\ (app.requirements # <<>> => Passes(l))
  <2>1. SecurityTypeOK'
    BY <1>1, <1>2, <1>10 DEF SecurityTypeOK
  <2>2. StartupInv'
    BY <1>1, <1>10, <2>1, StartupIsKept DEF SecurityInv
  <2>3. PassedInv'
    <3>1. ASSUME app.requirements # <<>>, NEW i \in 1 .. place PROVE Passes(app.layers[i])'
      <4>1. Passes(app.layers[i])
        <5>1. CASE i = place
          BY <1>10, <3>1, <5>1
        <5>2. CASE i # place
          <6>1. i \in 1 .. place - 1
            BY <1>2, <5>2
          <6> QED BY <1>1, <3>1, <6>1 DEF SecurityInv, PassedInv
        <5> QED BY <5>1, <5>2
      <4> QED BY <1>1, <4>1, NothingIsReread
    <3>2. place' - 1 = place
      BY <1>1, <1>2
    <3>3. upto' = "operation"
      BY <1>1, <1>10
    <3> QED BY <1>1, <3>1, <3>2, <3>3 DEF PassedInv
  <2>4. AccessIsEarned'
    BY <1>1, <1>9, <1>10, <2>1, EarnedInParts
  <2> QED BY <1>10, <2>2, <2>3, <2>4 DEF SecurityInv
<1>11. CASE skipped /\ UNCHANGED <<upto, context, response>>
  <2>1. HeldInv'
    BY <1>1, <1>11, NothingIsReread DEF SecurityInv
  <2> QED BY <1>8, <1>10, <1>11, <2>1
<1>12. CASE /\ ~skipped /\ rejected = 0 /\ UNCHANGED <<upto, response>>
            /\ context' = {app.requirements[i].scheme :
                             i \in {i \in DOMAIN outcomes : outcomes[i] = "authenticated"}}
  <2>1. ASSUME NEW name \in context'
        PROVE  \E v \in SecurityOnPath : \E q \in Range(app.requirements) :
                 q.scheme = name /\ Holds(q, v.verifiers[name])
    <3>1. PICK i \in 1 .. Len(app.requirements) :
            app.requirements[i].scheme = name /\ outcomes[i] = "authenticated"
      BY <1>7, <1>12
    <3>2. Holds(app.requirements[i], l.verifiers[app.requirements[i].scheme])
      BY <1>5, <3>1, OutcomesTell
    <3>3. l \in SecurityOnPath
      BY <1>2, <1>12 DEF SecurityOnPath
    <3>4. app.requirements[i] \in Range(app.requirements)
      BY SMTT(30), <1>2 DEF Range
    <3> HIDE DEF l
    <3> QED BY <3>1, <3>2, <3>3, <3>4
  <2>2. HeldInv'
    BY <1>1, <2>1, NothingIsReread DEF HeldInv
  <2> QED BY <1>8, <1>10, <1>12, <2>2
<1>13. CASE ~skipped /\ rejected # 0 /\ AnswerWith(outcomes[rejected]) /\ UNCHANGED context
  <2>1. /\ upto' = "answered" /\ response' = Outcome(l, app.requirements[rejected])
        /\ rejected \in 1 .. Len(app.requirements)
        /\ Rejects(Outcome(l, app.requirements[rejected]))
    BY <1>3, <1>4, <1>5, <1>13 DEF AnswerWith
  <2>2. response' \in {"401", "403", "500"}
    BY <2>1, OutcomesTell
  <2>3. SecurityTypeOK'
    BY <1>1, <1>2, <2>1, <2>2 DEF SecurityTypeOK
  <2>4. StartupInv'
    BY <1>1, <2>1, <2>3, StartupIsKept DEF SecurityInv
  <2>5. HeldInv'
    BY <1>1, <1>13, NothingIsReread DEF SecurityInv
  <2>6. PassedInv'
    BY <2>1 DEF PassedInv
  <2>7. response' = "500" /\ app.checked => Breaks'
    <3>1. response' = "500" /\ app.checked => Breaks
      BY <1>1, <1>2, <1>13, <2>1, RejectionIsEarned
    <3> QED BY <1>1, <3>1, NothingIsReread
  <2>8. AccessIsEarned'
    BY <1>1, <2>2, <2>3, <2>7, EarnedInParts DEF Blamed
  <2> QED BY <2>4, <2>5, <2>6, <2>8 DEF SecurityInv
<1> QED BY <1>6, <1>11, <1>12, <1>13

LEMMA GuardStep ==
  ASSUME SecurityAssumption, SecurityInv, SecurityGuard
  PROVE  SecurityInv'
<1>1. /\ upto = "operation" /\ place > Len(app.layers)
      /\ UNCHANGED <<app, request, place, context>> /\ response = Unset
      /\ Unset \notin {"200", "401", "403", "500"} /\ SecurityTypeOK
  BY DEF SecurityGuard, SecurityInv, StartupInv, SecurityAssumption
<1>2. HeldInv'
  BY <1>1, NothingIsReread DEF SecurityInv
<1>3. CASE Verified(request.path) /\ upto' = "handler" /\ UNCHANGED response
  <2>1. SecurityTypeOK'
    BY <1>1, <1>3 DEF SecurityTypeOK
  <2>2. StartupInv'
    BY <1>1, <1>3, <2>1, StartupIsKept DEF SecurityInv
  <2>3. Verified(request.path)'
    BY <1>1, <1>3, NothingIsReread
  <2>4. \A l : Passes(l)' <=> Passes(l)
    BY <1>1, NothingIsReread
  <2>5. PassedInv'
    BY <1>1, <1>3, <2>3, <2>4 DEF SecurityInv, PassedInv
  <2>6. AccessIsEarned'
    BY <1>1, <1>3, <2>1, EarnedInParts
  <2> QED BY <1>2, <2>2, <2>5, <2>6 DEF SecurityInv
<1>4. CASE ~Verified(request.path) /\ upto' = "answered" /\ response' = "500"
  <2>1. SecurityTypeOK'
    BY <1>1, <1>4 DEF SecurityTypeOK
  <2>2. StartupInv'
    BY <1>1, <1>4, <2>1, StartupIsKept DEF SecurityInv
  <2>3. PassedInv'
    BY <1>4 DEF PassedInv
  <2>4. app.checked => Blamed'
    <3>1. app.checked => Verified(Template)
      BY <1>1 DEF SecurityInv, StartupInv
    <3>2. app.layers \in Seq(Range(app.layers))
      BY ApplicationsAreSequences DEF SecurityInv, StartupInv
    <3>3. app.checked => \E i \in 1 .. Len(app.layers) :
            /\ CoversPath(app.layers[i], Template)
            /\ ~CoversPath(app.layers[i], request.path)
      BY <1>4, <3>1 DEF Verified
    <3>4. \A i \in 1 .. Len(app.layers) : app.layers[i] \in Range(app.layers)
      BY <3>2 DEF Range
    <3> QED BY <1>1, <3>3, <3>4 DEF Blamed, CoversPath
  <2>5. AccessIsEarned'
    BY <1>1, <1>4, <2>1, <2>4, EarnedInParts
  <2> QED BY <1>2, <2>2, <2>3, <2>5 DEF SecurityInv
<1> QED BY <1>3, <1>4 DEF SecurityGuard, AnswerWith

LEMMA HandleStep ==
  ASSUME SecurityAssumption, SecurityInv, Handle
  PROVE  SecurityInv'
<1>1. /\ upto = "handler" /\ upto' = "answered" /\ response' = "200"
      /\ UNCHANGED <<app, request, place, context>>
      /\ place > Len(app.layers) /\ Verified(request.path) /\ SecurityTypeOK
      /\ app \in Applications
  BY DEF Handle, AnswerWith, SecurityInv, StartupInv, PassedInv
<1>2. SecurityTypeOK'
  BY <1>1 DEF SecurityTypeOK
<1>3. StartupInv'
  BY <1>1, <1>2, StartupIsKept DEF SecurityInv
<1>4. HeldInv'
  BY <1>1, NothingIsReread DEF SecurityInv
<1>5. PassedInv'
  BY <1>1 DEF PassedInv
<1>6. /\ app.layers \in Seq(Range(app.layers)) /\ Len(app.layers) \in Nat
      /\ app.requirements \in Seq(Range(app.requirements)) /\ Len(app.requirements) \in Nat
  BY <1>1, ApplicationsAreSequences
<1>7. app.requirements # <<>> =>
        \/ app.optOut \/ SecurityOnPath # {}
        \/ \E l \in Range(app.layers) : l.verifies /\ ~l.security
  <2>1. \A i \in 1 .. Len(app.layers) : app.layers[i] \in Range(app.layers)
    BY <1>6 DEF Range
  <2>2. \A i \in 1 .. Len(app.layers) :
          app.layers[i].security /\ CoversPath(app.layers[i], request.path)
            => app.layers[i] \in SecurityOnPath
    BY <2>1 DEF SecurityOnPath
  <2> QED BY <1>1, <2>1, <2>2 DEF Verified
<1>8. ASSUME app.requirements # <<>>, NEW l \in SecurityOnPath,
             NEW q \in Range(app.requirements)
      PROVE  Admits(l, q)
  <2>1. l \in Range(app.layers) /\ l.security /\ CoversPath(l, request.path)
    BY <1>8 DEF SecurityOnPath
  <2>2. PICK i \in 1 .. Len(app.layers) : l = app.layers[i]
    BY <1>6, <2>1 DEF Range
  <2>3. PICK j \in 1 .. Len(app.requirements) : q = app.requirements[j]
    BY <1>6, <1>8 DEF Range
  <2>4. i \in 1 .. place - 1
    BY <1>1, <1>6 DEF SecurityTypeOK
  <2>5. Passes(l)
    BY <1>1, <1>8, <2>2, <2>4 DEF SecurityInv, PassedInv
  <2> QED BY <2>1, <2>3, <2>5, OutcomesTell DEF Passes
<1>9. Served' <=> Served
  <2>1. \A l, q : Admits(l, q)' <=> Admits(l, q)
    BY <1>1, NothingIsReread DEF Admits
  <2> QED BY <1>1, <2>1, NothingIsReread DEF Served
<1>10. app.requirements # <<>> => Served
  BY <1>7, <1>8 DEF Served, SecurityInv
<1>11. AccessIsEarned'
  BY <1>1, <1>2, <1>9, <1>10, EarnedInParts
<1> QED BY <1>3, <1>4, <1>5, <1>11 DEF SecurityInv

LEMMA StartupStep ==
  ASSUME SecurityAssumption, SecurityInv,
         Build \/ Check \/ Reach
  PROVE  SecurityInv'
<1>1. /\ UNCHANGED <<app, place, context, response>> /\ response = Unset
      /\ place = 1 /\ context = Unset
      /\ Unset \notin {"200", "401", "403", "500"} /\ SecurityTypeOK
      /\ app \in Applications
  BY DEF Build, Check, Reach, SecurityInv, StartupInv,
         SecurityAssumption
<1>2. SecurityTypeOK'
  BY <1>1 DEF SecurityTypeOK, Build, Check, Reach
<1>3. HeldInv'
  BY <1>1 DEF HeldInv
<1>4. PassedInv'
  BY <1>1 DEF PassedInv, Build, Check, Reach
<1>5. AccessIsEarned'
  BY <1>1, <1>2, EarnedInParts
<1>6. StartupInv'
  <2>1. CASE Build
    <3>1. UNCHANGED <<app, request>>
      BY <2>1 DEF Build
    <3>2. ContractIsValid' <=> ContractIsValid
      BY <3>1, NothingIsReread
    <3> QED BY <1>1, <1>2, <2>1, <3>2 DEF Build, StartupInv
  <2>2. CASE Check
    <3>1. UNCHANGED <<app, request>> /\ upto = "checked"
      BY <2>2 DEF Check
    <3>2. /\ ContractIsValid' <=> ContractIsValid
          /\ \A l : VerifiersFit(l)' <=> VerifiersFit(l)
          /\ Verified(Template)' <=> Verified(Template)
      BY <3>1, NothingIsReread
    <3>3. ContractIsValid
      BY <3>1 DEF SecurityInv, StartupInv
    <3> QED BY <1>1, <1>2, <2>2, <3>1, <3>2, <3>3 DEF Check, StartupInv
  <2>3. CASE Reach
    <3>1. UNCHANGED app /\ upto = "serving" /\ upto' = "operation"
      BY <2>3 DEF Reach
    <3> QED BY <1>1, <1>2, <3>1, StartupIsKept DEF SecurityInv
  <2> QED BY <2>1, <2>2, <2>3
<1> QED BY <1>3, <1>4, <1>5, <1>6 DEF SecurityInv

LEMMA NextSecurity ==
  ASSUME SecurityAssumption, SecurityInv, [SecurityNext]_securityVars
  PROVE  SecurityInv'
<1>1. CASE UNCHANGED securityVars
  <2>1. UNCHANGED <<app, request, upto, place, context, response>>
    BY <1>1 DEF securityVars
  <2>2. /\ ContractIsValid' <=> ContractIsValid
        /\ \A l : VerifiersFit(l)' <=> VerifiersFit(l)
        /\ \A path : Verified(path)' <=> Verified(path)
        /\ \A l : Passes(l)' <=> Passes(l)
        /\ HeldInv' <=> HeldInv
        /\ Breaks' <=> Breaks
        /\ SecurityOnPath' = SecurityOnPath
        /\ \A q, e : Holds(q, e)' <=> Holds(q, e)
    BY <2>1, NothingIsReread
  <2>3. SecurityTypeOK'
    BY <2>1 DEF SecurityTypeOK, SecurityInv, StartupInv
  <2>4. StartupInv'
    BY <2>1, <2>2, <2>3 DEF SecurityInv, StartupInv
  <2>5. PassedInv'
    BY <2>1, <2>2 DEF SecurityInv, PassedInv
  <2>6. (Served' <=> Served) /\ (Blamed' <=> Blamed)
    BY <2>1, <2>2 DEF Served, Blamed, Admits, CoversPath
  <2>7. AccessIsEarned'
    BY <2>1, <2>3, <2>6, EarnedInParts DEF SecurityInv
  <2> QED BY <2>2, <2>4, <2>5, <2>7 DEF SecurityInv
<1>2. CASE SecurityNext
  BY <1>2, StartupStep, OperationStep, GuardStep, HandleStep DEF SecurityNext
<1> QED BY <1>1, <1>2

\* An operation with requirements is reached only with credentials for every
\* requirement of every Security layer on the request's path, whatever the
\* applications, the credentials and the number of layers; and an application
\* that main checks answers no request with a server error of its own making.
\* (Code: Security::on_operation, security_guard, check_security_coverage.)
THEOREM AccessStaysEarned ==
  ASSUME SecurityAssumption
  PROVE  SecuritySpec => []AccessIsEarned
<1>1. SecurityInit => SecurityInv
  BY InitSecurity
<1>2. SecurityInv /\ [SecurityNext]_securityVars => SecurityInv'
  BY NextSecurity
<1>3. SecurityInv => AccessIsEarned
  BY DEF SecurityInv
<1> QED BY <1>1, <1>2, <1>3, PTL DEF SecuritySpec

------------------------------------------------------------------------------
(* RateLimitStore *)

\* One turn of the sweep's loop.
Turn(t) == IF Idle(t) THEN EvictOldest(t) ELSE t
Turns(g, t, n) == g = [m \in 0 .. n |-> IF m = 0 THEN t ELSE Turn(g[m - 1])]

\* The loop's recursion: its turns can be counted up to any number, since there
\* is no least number to which they cannot.
LEMMA TurnsExist == \A t : \A n \in Nat : \E g : Turns(g, t, n)
<1> SUFFICES ASSUME NEW t, NEW k \in Nat, ~\E g : Turns(g, t, k) PROVE FALSE
  OBVIOUS
<1> DEFINE Bad == {n \in Nat : ~\E g : Turns(g, t, n)}
<1>1. PICK n \in Bad : \A m \in Bad : n <= m
  <2>1. Bad \in SUBSET Nat /\ Bad # {}
    OBVIOUS
  <2> QED BY <2>1, LeastNumber
<1>2. n # 0
  <2> SUFFICES ASSUME n = 0 PROVE FALSE
    OBVIOUS
  <2> DEFINE g == [m \in 0 .. 0 |-> t]
  <2>1. Turns(g, t, 0)
    BY DEF Turns
  <2> QED BY <2>1
<1>3. n - 1 \in Nat /\ n - 1 \notin Bad /\ n \in Nat
  BY <1>1, <1>2
<1>4. PICK g : Turns(g, t, n - 1)
  BY <1>3
<1> DEFINE h == [m \in 0 .. n |-> IF m = 0 THEN t ELSE Turn(g[m - 1])]
<1>5. \A m \in 0 .. n - 1 : h[m] = g[m]
  BY <1>3, <1>4 DEF Turns
<1>6. \A m \in 0 .. n : m = 0 \/ m - 1 \in 0 .. n - 1
  BY <1>3
<1>7. h = [m \in 0 .. n |-> IF m = 0 THEN t ELSE Turn(h[m - 1])]
  <2>1. \A m \in 0 .. n : m = 0 \/ h[m - 1] = g[m - 1]
    BY <1>5, <1>6
  <2> HIDE DEF h
  <2>2. h = [m \in 0 .. n |-> IF m = 0 THEN t ELSE Turn(g[m - 1])]
    BY DEF h
  <2> QED BY <2>1, <2>2
<1>8. Turns(h, t, n)
  BY <1>7 DEF Turns
<1> QED
  BY <1>1, <1>8

\* The sweep is Budget turns of its loop.
LEMMA SweepIs ==
  ASSUME Budget \in Nat, NEW t
  PROVE  \E g : Turns(g, t, Budget) /\ Sweep(t) = g[Budget]
<1>1. PICK g : Turns(g, t, Budget)
  BY TurnsExist
<1> DEFINE G == CHOOSE x : x = [n \in 0 .. Budget |-> IF n = 0 THEN t
                        ELSE IF Idle(x[n - 1]) THEN EvictOldest(x[n - 1])
                        ELSE x[n - 1]]
<1>2. Sweep(t) = G[Budget]
  BY DEF Sweep
<1>3. Turns(G, t, Budget)
  BY <1>1 DEF Turns, Turn
<1> QED
  BY <1>2, <1>3

Slot == BucketSlot
RateAssumptions ==
  QuotaAssumption /\ LimitsAssumption /\ TtlAssumption

IsTable(t) ==
  t = [index |-> t.index, slots |-> t.slots, spare |-> t.spare,
       oldest |-> t.oldest, newest |-> t.newest]

Places(t) == 1 .. Len(t.slots)
Taken(t) == {s \in Places(t) : t.slots[s] # Nil}
Link(t) == Taken(t) \cup {Nil}

\* The list: what one slot says of its neighbours they say of it, and its ends
\* have nothing beyond them.
Linked(t) ==
  /\ t.oldest \in Link(t) /\ t.newest \in Link(t)
  /\ t.oldest # Nil => t.slots[t.oldest].older = Nil
  /\ t.newest # Nil => t.slots[t.newest].newer = Nil
  /\ \A s \in Taken(t) :
       /\ t.slots[s].older \in Link(t) /\ t.slots[s].newer \in Link(t)
       /\ t.slots[s].older # Nil => t.slots[t.slots[s].older].newer = s
       /\ t.slots[s].newer # Nil => t.slots[t.slots[s].newer].older = s

\* The order of use, which keeps the list from closing a circle.
Ranked(t, rank, top) ==
  \A s \in Taken(t) :
    /\ rank[s] < top
    /\ t.slots[s].older # Nil => rank[t.slots[s].older] < rank[s]
Ordered(t) == \E rank \in [Nat -> Nat], top \in Nat : Ranked(t, rank, top)

\* The index and the free list account for the slots.
Filed(t) ==
  /\ t.slots \in Seq(Slot \cup {Nil})
  /\ DOMAIN t.index \subseteq Keys
  /\ \A k \in DOMAIN t.index :
       t.index[k] \in Taken(t) /\ t.slots[t.index[k]].key = k
  /\ \A s \in Taken(t) : /\ t.slots[s].key \in DOMAIN t.index
                         /\ t.index[t.slots[s].key] = s
                         /\ t.slots[s].bucket.updated <= now
  /\ t.spare \in Seq(Places(t))
  /\ \A i \in 1 .. Len(t.spare) : t.slots[t.spare[i]] = Nil
  /\ \A i, j \in 1 .. Len(t.spare) : t.spare[i] = t.spare[j] => i = j

Sound(t) == IsTable(t) /\ Linked(t) /\ Ordered(t) /\ Filed(t)

\* A slot that is in no list.
Detached(t, s) ==
  /\ s \in Taken(t) /\ t.oldest # s /\ t.newest # s
  /\ t.slots[s].older = Nil /\ t.slots[s].newer = Nil
  /\ \A i \in Taken(t) : t.slots[i].older # s /\ t.slots[i].newer # s

\* Two tables with the same buckets in the same slots.
SameBuckets(t, u) ==
  /\ u.index = t.index /\ u.spare = t.spare /\ Len(u.slots) = Len(t.slots)
  /\ Taken(u) = Taken(t)
  /\ \A s \in Taken(t) :
       u.slots[s].key = t.slots[s].key /\ u.slots[s].bucket = t.slots[s].bucket

\* What the slots of a table are.
LEMMA PlacesOf ==
  ASSUME NEW t, Filed(t)
  PROVE  /\ Len(t.slots) \in Nat /\ DOMAIN t.slots = Places(t) /\ Taken(t) \subseteq Places(t)
         /\ Places(t) \subseteq Nat
         /\ \A s \in Taken(t) : t.slots[s] \in Slot
         /\ \A s \in Places(t) : t.slots[s] \in Slot \cup {Nil}
BY DEF Filed, Places, Taken

\* Relinking leaves the index and the free list right.
LEMMA FiledKept ==
  ASSUME NEW t, Filed(t), NEW u, SameBuckets(t, u), u.slots \in Seq(Slot \cup {Nil})
  PROVE  Filed(u)
<1>0. /\ u.index = t.index /\ u.spare = t.spare /\ Places(u) = Places(t)
      /\ Taken(u) = Taken(t) /\ Taken(t) \subseteq Places(t)
      /\ \A s \in Taken(t) :
           u.slots[s].key = t.slots[s].key /\ u.slots[s].bucket = t.slots[s].bucket
  BY DEF SameBuckets, Places, Taken
<1>1. \A i \in 1 .. Len(u.spare) : u.slots[u.spare[i]] = Nil
  <2>1. \A i \in Places(t) : u.slots[i] = Nil <=> t.slots[i] = Nil
    BY <1>0 DEF Taken
  <2>2. \A i \in 1 .. Len(t.spare) : t.spare[i] \in Places(t)
    BY DEF Filed
  <2> QED BY <1>0, <2>1, <2>2 DEF Filed
<1>2. \A k \in DOMAIN u.index : u.index[k] \in Taken(u) /\ u.slots[u.index[k]].key = k
  BY SMTT(30), <1>0 DEF Filed
<1>3. \A i \in Taken(u) : /\ u.slots[i].key \in DOMAIN u.index
                          /\ u.index[u.slots[i].key] = i
                          /\ u.slots[i].bucket.updated <= now
  BY <1>0 DEF Filed
<1> QED
  BY <1>0, <1>1, <1>2, <1>3 DEF Filed

\* unlink takes a slot out of the list, wherever it was, and leaves the rest of
\* the list whole.
LEMMA UnlinkDetaches ==
  ASSUME RateAssumptions, NEW t, Sound(t), NEW s \in Taken(t), NEW u, u = Unlink(t, s)
  PROVE  Sound(u) /\ Detached(u, s) /\ SameBuckets(t, u)
<1> DEFINE e == t.slots[s]
           relinked == [i \in DOMAIN t.slots |->
             IF i = s THEN [e EXCEPT !.older = Nil, !.newer = Nil]
             ELSE IF i = e.older THEN [t.slots[i] EXCEPT !.newer = e.newer]
             ELSE IF i = e.newer THEN [t.slots[i] EXCEPT !.older = e.older]
             ELSE t.slots[i]]
<1>p. /\ Len(t.slots) \in Nat /\ DOMAIN t.slots = Places(t) /\ Taken(t) \subseteq Places(t)
      /\ Places(t) \subseteq Nat
      /\ \A i \in Taken(t) : t.slots[i] \in Slot
      /\ \A i \in Places(t) : t.slots[i] \in Slot \cup {Nil}
  BY PlacesOf DEF Sound
<1>n. Nil \notin Nat /\ Nil \notin Slot
  BY DEF RateAssumptions, LimitsAssumption, Slot
<1>1. /\ IsTable(u) /\ u.slots = relinked /\ u.index = t.index /\ u.spare = t.spare
      /\ u.oldest = (IF e.older = Nil THEN e.newer ELSE t.oldest)
      /\ u.newest = (IF e.newer = Nil THEN e.older ELSE t.newest)
  <2>1. IsTable(t)
    BY DEF Sound
  <2>2. u = [t EXCEPT !.slots = relinked,
               !.oldest = IF e.older = Nil THEN e.newer ELSE @,
               !.newest = IF e.newer = Nil THEN e.older ELSE @]
    BY DEF Unlink
  <2> HIDE DEF relinked, e
  <2> QED BY <2>1, <2>2 DEF IsTable
<1>2. /\ e \in Slot /\ e.older \in Link(t) /\ e.newer \in Link(t)
      /\ e.older # s /\ e.newer # s /\ (e.older # Nil => e.older # e.newer)
  <2>1. e \in Slot /\ e.older \in Link(t) /\ e.newer \in Link(t)
    BY <1>p DEF Sound, Linked
  <2>2. PICK rank \in [Nat -> Nat], top \in Nat : Ranked(t, rank, top)
    BY DEF Sound, Ordered
  <2>3. s # Nil
    BY <1>n, <1>p
  <2>4. e.older # s
    <3> SUFFICES ASSUME e.older = s PROVE FALSE
      OBVIOUS
    <3>1. rank[s] < rank[s] /\ rank[s] \in Nat
      BY <1>p, <2>2, <2>3 DEF Ranked
    <3> QED BY <3>1
  <2>5. e.newer # s
    BY <2>3, <2>4 DEF Sound, Linked
  <2>6. ASSUME e.older # Nil, e.older = e.newer PROVE FALSE
    <3> DEFINE x == e.older
    <3>1. x \in Taken(t) /\ t.slots[x].older = s
      BY <2>1, <2>6 DEF Link, Sound, Linked
    <3>2. rank[x] < rank[s] /\ rank[s] < rank[x]
      BY <2>2, <2>3, <2>6, <3>1 DEF Ranked
    <3>3. rank[x] \in Nat /\ rank[s] \in Nat
      BY <1>p, <2>2, <3>1
    <3> HIDE DEF x
    <3> QED BY <3>2, <3>3
  <2> QED BY <2>1, <2>4, <2>5, <2>6
<1>o. e.older # Nil => e.older \in Taken(t) /\ e.older \in Places(t) /\ t.slots[e.older] \in Slot
  BY <1>2, <1>p DEF Link
<1>w. e.newer # Nil => e.newer \in Taken(t) /\ e.newer \in Places(t) /\ t.slots[e.newer] \in Slot
  BY <1>2, <1>p DEF Link
<1>l. /\ e.older # Nil => t.slots[e.older].newer = s
      /\ e.newer # Nil => t.slots[e.newer].older = s
  BY DEF Sound, Linked
<1>3. /\ u.slots[s] \in Slot /\ u.slots[s].older = Nil /\ u.slots[s].newer = Nil
      /\ u.slots[s].key = e.key /\ u.slots[s].bucket = e.bucket
  <2> DEFINE x == u.slots[s]
  <2>1. x = [e EXCEPT !.older = Nil, !.newer = Nil]
    BY <1>1, <1>p
  <2>2. e \in Slot
    BY <1>2
  <2> HIDE DEF x, e, relinked
  <2>3. x \in Slot /\ x.older = Nil /\ x.newer = Nil /\ x.key = e.key /\ x.bucket = e.bucket
    BY ONLY <2>1, <2>2 DEF Slot, BucketSlot
  <2> QED BY <2>3 DEF x
<1>4. e.older # Nil =>
        /\ u.slots[e.older] \in Slot /\ u.slots[e.older].newer = e.newer
        /\ u.slots[e.older].older = t.slots[e.older].older
        /\ u.slots[e.older].key = t.slots[e.older].key
        /\ u.slots[e.older].bucket = t.slots[e.older].bucket
  <2> SUFFICES ASSUME e.older # Nil PROVE
        LET x == u.slots[e.older] IN
        /\ x \in Slot /\ x.newer = e.newer
        /\ x.older = t.slots[e.older].older
        /\ x.key = t.slots[e.older].key
        /\ x.bucket = t.slots[e.older].bucket
    OBVIOUS
  <2>1. u.slots[e.older] = [t.slots[e.older] EXCEPT !.newer = e.newer]
    BY <1>1, <1>2, <1>o, <1>p
  <2>2. e.newer \in Nat \cup {Nil}
    BY <1>2 DEF Slot, BucketSlot
  <2> QED BY <1>o, <2>1, <2>2 DEF Slot, BucketSlot
<1>5. e.newer # Nil =>
        /\ u.slots[e.newer] \in Slot /\ u.slots[e.newer].older = e.older
        /\ u.slots[e.newer].newer = t.slots[e.newer].newer
        /\ u.slots[e.newer].key = t.slots[e.newer].key
        /\ u.slots[e.newer].bucket = t.slots[e.newer].bucket
  <2> SUFFICES ASSUME e.newer # Nil PROVE
        LET x == u.slots[e.newer] IN
        /\ x \in Slot /\ x.older = e.older
        /\ x.newer = t.slots[e.newer].newer
        /\ x.key = t.slots[e.newer].key
        /\ x.bucket = t.slots[e.newer].bucket
    OBVIOUS
  <2>1. u.slots[e.newer] = [t.slots[e.newer] EXCEPT !.older = e.older]
    BY <1>1, <1>2, <1>w, <1>p
  <2>2. e.older \in Nat \cup {Nil}
    BY <1>2 DEF Slot, BucketSlot
  <2> QED BY <1>w, <2>1, <2>2 DEF Slot, BucketSlot
<1>6. \A i \in Places(t) \ {s, e.older, e.newer} : u.slots[i] = t.slots[i]
  BY <1>1, <1>p
<1>7. Len(u.slots) = Len(t.slots) /\ Places(u) = Places(t) /\ u.slots \in Seq(Slot \cup {Nil})
  <2>1. \A i \in Places(t) : u.slots[i] \in Slot \cup {Nil}
    <3> SUFFICES ASSUME NEW i \in Places(t) PROVE u.slots[i] \in Slot \cup {Nil}
      OBVIOUS
    <3>1. i # Nil /\ t.slots[i] \in Slot \cup {Nil}
      BY <1>n, <1>p
    <3>2. CASE i \in {s, e.older, e.newer}
      BY <1>3, <1>4, <1>5, <3>1, <3>2
    <3>3. CASE i \notin {s, e.older, e.newer}
      BY <1>6, <3>1, <3>3
    <3> QED BY <3>2, <3>3
  <2>2. u.slots = [i \in 1 .. Len(t.slots) |-> u.slots[i]]
    <3>1. relinked = [i \in 1 .. Len(t.slots) |-> relinked[i]]
      BY <1>p DEF Places
    <3> HIDE DEF relinked
    <3> QED BY <1>1, <3>1
  <2>3. u.slots \in [1 .. Len(t.slots) -> Slot \cup {Nil}]
    BY <2>1, <2>2 DEF Places
  <2>4. u.slots \in Seq(Slot \cup {Nil}) /\ Len(u.slots) = Len(t.slots)
    BY <1>p, <2>3
  <2> QED BY <2>4 DEF Places
<1> HIDE DEF relinked
<1>8. Taken(u) = Taken(t)
  <2>1. \A i \in Places(t) : u.slots[i] # Nil <=> t.slots[i] # Nil
    BY <1>3, <1>4, <1>5, <1>6, <1>p, <1>o, <1>w, <1>n
  <2> QED BY <1>7, <2>1 DEF Taken
<1>9. \A i \in Taken(t) : u.slots[i].key = t.slots[i].key /\ u.slots[i].bucket = t.slots[i].bucket
  <2> SUFFICES ASSUME NEW i \in Taken(t)
               PROVE  u.slots[i].key = t.slots[i].key /\ u.slots[i].bucket = t.slots[i].bucket
    OBVIOUS
  <2>1. i # Nil /\ i \in Places(t)
    BY <1>n, <1>p
  <2>2. CASE i \in {s, e.older, e.newer}
    BY <1>3, <1>4, <1>5, <2>1, <2>2
  <2>3. CASE i \notin {s, e.older, e.newer}
    BY <1>6, <2>1, <2>3
  <2> QED BY <2>2, <2>3
<1>10. SameBuckets(t, u)
  BY <1>1, <1>7, <1>8, <1>9 DEF SameBuckets
<1>11. Filed(u)
  BY <1>7, <1>10, FiledKept DEF Sound
<1>12. \A i \in Taken(t) \ {s} :
         /\ u.slots[i].older = IF i = e.newer THEN e.older ELSE t.slots[i].older
         /\ u.slots[i].newer = IF i = e.older THEN e.newer ELSE t.slots[i].newer
  <2> SUFFICES ASSUME NEW i \in Taken(t) \ {s}
               PROVE  /\ u.slots[i].older = IF i = e.newer THEN e.older ELSE t.slots[i].older
                      /\ u.slots[i].newer = IF i = e.older THEN e.newer ELSE t.slots[i].newer
    OBVIOUS
  <2>1. i # Nil /\ i \in Places(t)
    BY <1>n, <1>p
  <2>2. CASE i = e.older
    BY <1>2, <1>4, <2>1, <2>2
  <2>3. CASE i = e.newer
    BY <1>2, <1>5, <2>1, <2>3
  <2>4. CASE i # e.older /\ i # e.newer
    BY <1>6, <2>1, <2>4
  <2> QED BY <2>2, <2>3, <2>4
<1>13. \A i \in Taken(t) : /\ t.slots[i].older = s => i = e.newer
                           /\ t.slots[i].newer = s => i = e.older
  BY <1>n, <1>p DEF Sound, Linked
<1>14. \A i \in Taken(t) : u.slots[i].older # s /\ u.slots[i].newer # s
  <2>1. s # Nil
    BY <1>n, <1>p
  <2> QED BY <1>2, <1>3, <1>12, <1>13, <2>1
<1>15. u.oldest # s /\ u.newest # s
  <2>1. s # Nil /\ (t.oldest # Nil => t.slots[t.oldest].older = Nil)
        /\ (t.newest # Nil => t.slots[t.newest].newer = Nil)
    BY <1>n, <1>p DEF Sound, Linked
  <2> QED BY <1>1, <1>2, <2>1
<1>16. Detached(u, s)
  BY <1>3, <1>8, <1>14, <1>15 DEF Detached
<1>17. Linked(u)
  <2>0. s # Nil /\ Linked(t) /\ Link(u) = Link(t)
    BY <1>n, <1>p, <1>8 DEF Sound, Link
  <2>1. u.oldest \in Link(u) /\ u.newest \in Link(u)
    BY <1>1, <1>2, <2>0 DEF Linked
  <2>2. u.oldest # Nil => u.slots[u.oldest].older = Nil
    <3> SUFFICES ASSUME u.oldest # Nil PROVE u.slots[u.oldest].older = Nil
      OBVIOUS
    <3>1. CASE e.older = Nil
      BY <1>1, <1>5, <3>1
    <3>2. CASE e.older # Nil
      <4>1. t.oldest \in Taken(t) /\ t.slots[t.oldest].older = Nil /\ t.oldest # s
            /\ u.oldest = t.oldest
        BY <1>1, <1>15, <2>0, <3>2 DEF Linked, Link
      <4>2. t.oldest # e.newer
        BY <1>2, <2>0, <4>1 DEF Linked
      <4> QED BY <1>12, <4>1, <4>2
    <3> QED BY <3>1, <3>2
  <2>3. u.newest # Nil => u.slots[u.newest].newer = Nil
    <3> SUFFICES ASSUME u.newest # Nil PROVE u.slots[u.newest].newer = Nil
      OBVIOUS
    <3>1. CASE e.newer = Nil
      BY <1>1, <1>4, <3>1
    <3>2. CASE e.newer # Nil
      <4>1. t.newest \in Taken(t) /\ t.slots[t.newest].newer = Nil /\ t.newest # s
            /\ u.newest = t.newest
        BY <1>1, <1>15, <2>0, <3>2 DEF Linked, Link
      <4>2. t.newest # e.older
        BY <1>2, <2>0, <4>1 DEF Linked
      <4> QED BY <1>12, <4>1, <4>2
    <3> QED BY <3>1, <3>2
  <2>4. ASSUME NEW i \in Taken(u)
        PROVE  /\ u.slots[i].older \in Link(u) /\ u.slots[i].newer \in Link(u)
               /\ u.slots[i].older # Nil => u.slots[u.slots[i].older].newer = i
               /\ u.slots[i].newer # Nil => u.slots[u.slots[i].newer].older = i
    <3>1. CASE i = s
      BY <1>3, <3>1 DEF Link
    <3>2. CASE i # s
      <4>0. /\ i \in Taken(t) \ {s} /\ t.slots[i].older \in Link(t) /\ t.slots[i].newer \in Link(t)
            /\ t.slots[i].older # Nil => t.slots[t.slots[i].older].newer = i
            /\ t.slots[i].newer # Nil => t.slots[t.slots[i].newer].older = i
        BY <1>8, <2>0, <3>2 DEF Linked
      <4>1. u.slots[i].older \in Link(u) /\ u.slots[i].newer \in Link(u)
        BY <1>2, <1>12, <2>0, <4>0
      <4>2. ASSUME u.slots[i].older # Nil PROVE u.slots[u.slots[i].older].newer = i
        <5>1. CASE i = e.newer
          BY <1>2, <1>4, <1>12, <4>0, <4>2, <5>1
        <5>2. CASE i # e.newer
          <6>1. u.slots[i].older = t.slots[i].older /\ t.slots[i].older \in Taken(t) \ {s}
            BY <1>12, <1>14, <4>0, <4>2, <5>2 DEF Link
          <6>2. t.slots[i].older # e.older
            BY <1>l, <3>2, <4>0, <4>2, <6>1
          <6> QED BY <1>12, <4>0, <4>2, <6>1, <6>2
        <5> QED BY <5>1, <5>2
      <4>3. ASSUME u.slots[i].newer # Nil PROVE u.slots[u.slots[i].newer].older = i
        <5>1. CASE i = e.older
          BY <1>2, <1>5, <1>12, <4>0, <4>3, <5>1
        <5>2. CASE i # e.older
          <6>1. u.slots[i].newer = t.slots[i].newer /\ t.slots[i].newer \in Taken(t) \ {s}
            BY <1>12, <1>14, <4>0, <4>3, <5>2 DEF Link
          <6>2. t.slots[i].newer # e.newer
            BY <1>l, <3>2, <4>0, <4>3, <6>1
          <6> QED BY <1>12, <4>0, <4>3, <6>1, <6>2
        <5> QED BY <5>1, <5>2
      <4> QED BY <4>1, <4>2, <4>3
    <3> QED BY <3>1, <3>2
  <2> QED BY <2>1, <2>2, <2>3, <2>4 DEF Linked
<1>18. Ordered(u)
  <2>1. PICK rank \in [Nat -> Nat], top \in Nat : Ranked(t, rank, top)
    BY DEF Sound, Ordered
  <2>2. ASSUME NEW i \in Taken(u), u.slots[i].older # Nil
        PROVE  rank[u.slots[i].older] < rank[i]
    <3>0. i # s /\ i \in Taken(t) /\ s # Nil
      BY <1>3, <1>8, <1>n, <1>p, <2>2
    <3>1. CASE i = e.newer
      <4>1. u.slots[i].older = e.older /\ e.older # Nil /\ t.slots[i].older = s
        <5>1. i \in Taken(t) \ {s} /\ i # Nil
          BY <1>n, <1>p, <3>0
        <5> QED BY <1>12, <1>l, <2>2, <3>1, <5>1
      <4>2. rank[e.older] < rank[s] /\ rank[s] < rank[i]
        BY <2>1, <3>0, <4>1 DEF Ranked
      <4>3. rank[e.older] \in Nat /\ rank[s] \in Nat /\ rank[i] \in Nat
        BY <1>o, <1>p, <3>0, <4>1
      <4> QED BY <4>1, <4>2, <4>3
    <3>2. CASE i # e.newer
      BY <1>12, <2>1, <2>2, <3>0, <3>2 DEF Ranked
    <3> QED BY <3>1, <3>2
  <2>3. Ranked(u, rank, top)
    BY <1>8, <2>1, <2>2 DEF Ranked
  <2> QED BY <2>3 DEF Ordered
<1> QED
  BY <1>1, <1>10, <1>11, <1>16, <1>17, <1>18 DEF Sound

\* link_newest puts a slot that is in no list behind all others.
LEMMA LinkAttaches ==
  ASSUME RateAssumptions, NEW t, Sound(t), NEW s, Detached(t, s), NEW v, v = LinkNewest(t, s)
  PROVE  Sound(v) /\ SameBuckets(t, v)
<1> DEFINE n == t.newest
           linked == [t.slots EXCEPT ![s].older = n, ![s].newer = Nil]
           relinked == IF n = Nil THEN linked ELSE [linked EXCEPT ![n].newer = s]
<1>p. /\ Len(t.slots) \in Nat /\ DOMAIN t.slots = Places(t) /\ Taken(t) \subseteq Places(t)
      /\ Places(t) \subseteq Nat /\ s \in Taken(t)
      /\ \A i \in Taken(t) : t.slots[i] \in Slot
      /\ \A i \in Places(t) : t.slots[i] \in Slot \cup {Nil}
  BY PlacesOf DEF Sound, Detached
<1>n. Nil \notin Nat /\ Nil \notin Slot /\ n \in Link(t) /\ n # s /\ Link(t) \subseteq Nat \cup {Nil}
  BY <1>p DEF RateAssumptions, LimitsAssumption, Slot, Sound, Linked, Detached, Link
<1>1. /\ IsTable(v) /\ v.slots = relinked /\ v.index = t.index /\ v.spare = t.spare
      /\ v.oldest = (IF n = Nil THEN s ELSE t.oldest) /\ v.newest = s
  <2>1. IsTable(t)
    BY DEF Sound
  <2>2. v = [t EXCEPT !.slots = relinked, !.oldest = IF n = Nil THEN s ELSE @, !.newest = s]
    BY DEF LinkNewest
  <2> HIDE DEF relinked, n
  <2> QED BY <2>1, <2>2 DEF IsTable
<1>2. /\ linked[s] = [t.slots[s] EXCEPT !.older = n, !.newer = Nil]
      /\ DOMAIN linked = Places(t)
      /\ \A i \in Places(t) \ {s} : linked[i] = t.slots[i]
  BY <1>p
<1>3. /\ linked[s] \in Slot /\ linked[s].older = n /\ linked[s].newer = Nil
      /\ linked[s].key = t.slots[s].key /\ linked[s].bucket = t.slots[s].bucket
  <2> HIDE DEF linked, n
  <2> QED BY ZenonT(40), <1>2, <1>p, <1>n DEF Slot, BucketSlot
<1> HIDE DEF linked
<1>4. v.slots[s] = linked[s] /\ DOMAIN v.slots = Places(t)
      /\ \A i \in Places(t) \ {s, n} : v.slots[i] = t.slots[i]
  BY <1>1, <1>2, <1>p, <1>n
<1>5. n # Nil =>
        /\ n \in Taken(t) /\ v.slots[n] \in Slot
        /\ v.slots[n].newer = s /\ v.slots[n].older = t.slots[n].older
        /\ v.slots[n].key = t.slots[n].key /\ v.slots[n].bucket = t.slots[n].bucket
  <2> SUFFICES ASSUME n # Nil PROVE
        LET x == v.slots[n] IN
        /\ n \in Taken(t) /\ x \in Slot
        /\ x.newer = s /\ x.older = t.slots[n].older
        /\ x.key = t.slots[n].key /\ x.bucket = t.slots[n].bucket
    OBVIOUS
  <2>1. n \in Taken(t) /\ n \in Places(t) /\ t.slots[n] \in Slot /\ s \in Nat
    BY <1>n, <1>p DEF Link
  <2>2. v.slots[n] = [t.slots[n] EXCEPT !.newer = s]
    <3>1. v.slots = [linked EXCEPT ![n].newer = s]
      BY <1>1
    <3>2. v.slots[n] = [linked[n] EXCEPT !.newer = s]
      BY <1>2, <2>1, <3>1
    <3> QED BY <1>2, <1>n, <2>1, <3>2
  <2> QED BY <2>1, <2>2 DEF Slot, BucketSlot
<1> HIDE DEF relinked
<1>6. ASSUME NEW i \in Taken(t)
      PROVE  /\ v.slots[i] \in Slot
             /\ v.slots[i].key = t.slots[i].key /\ v.slots[i].bucket = t.slots[i].bucket
             /\ v.slots[i].older = IF i = s THEN n ELSE t.slots[i].older
             /\ v.slots[i].newer = IF i = s THEN Nil ELSE IF i = n THEN s ELSE t.slots[i].newer
  <2>1. i # Nil /\ i \in Places(t)
    BY <1>n, <1>p
  <2>2. CASE i = s
    BY <1>3, <1>4, <2>2
  <2>3. CASE i = n
    BY <1>5, <1>n, <2>1, <2>3
  <2>4. CASE i # s /\ i # n
    BY <1>4, <1>p, <2>1, <2>4
  <2> QED BY <2>2, <2>3, <2>4
<1>7. \A i \in Places(t) \ Taken(t) : v.slots[i] = Nil
  <2> SUFFICES ASSUME NEW i \in Places(t) \ Taken(t) PROVE v.slots[i] = Nil
    OBVIOUS
  <2>1. i # s /\ i # n /\ t.slots[i] = Nil
    BY <1>p, <1>n DEF Taken, Link
  <2> QED BY <1>4, <2>1
<1>8. Len(v.slots) = Len(t.slots) /\ Places(v) = Places(t) /\ v.slots \in Seq(Slot \cup {Nil})
  <2>1. \A i \in Places(t) : v.slots[i] \in Slot \cup {Nil}
    BY <1>6, <1>7
  <2>2. v.slots = [i \in Places(t) |-> v.slots[i]]
    <3>1. v.slots = [linked EXCEPT ![n].newer = s] \/ v.slots = linked
      BY <1>1 DEF relinked
    <3> QED BY <3>1, <1>2 DEF linked
  <2>3. v.slots \in [1 .. Len(t.slots) -> Slot \cup {Nil}]
    BY <2>1, <2>2 DEF Places
  <2>4. v.slots \in Seq(Slot \cup {Nil}) /\ Len(v.slots) = Len(t.slots)
    BY <1>p, <2>3
  <2> QED BY <2>4 DEF Places
<1>9. Taken(v) = Taken(t) /\ Link(v) = Link(t)
  <2>1. \A i \in Places(t) : v.slots[i] # Nil <=> i \in Taken(t)
    BY <1>6, <1>7, <1>n
  <2> QED BY <1>8, <1>p, <2>1 DEF Taken, Link
<1>10. SameBuckets(t, v)
  BY <1>1, <1>6, <1>8, <1>9 DEF SameBuckets
<1>11. Filed(v)
  BY <1>8, <1>10, FiledKept DEF Sound
<1>d. /\ Linked(t) /\ s # Nil
      /\ \A i \in Taken(t) : t.slots[i].older # s /\ t.slots[i].newer # s
      /\ t.oldest # s /\ t.slots[s].older = Nil /\ t.slots[s].newer = Nil
  BY <1>n, <1>p DEF Sound, Detached
<1>12. Linked(v)
  <2>1. v.oldest \in Link(v) /\ v.newest \in Link(v) /\ v.slots[v.newest].newer = Nil
    BY <1>1, <1>6, <1>9, <1>d, <1>p DEF Linked, Link
  <2>2. v.oldest # Nil => v.slots[v.oldest].older = Nil
    BY <1>1, <1>6, <1>d, <1>p DEF Linked, Link
  <2>3. ASSUME NEW i \in Taken(v)
        PROVE  /\ v.slots[i].older \in Link(v) /\ v.slots[i].newer \in Link(v)
               /\ v.slots[i].older # Nil => v.slots[v.slots[i].older].newer = i
               /\ v.slots[i].newer # Nil => v.slots[v.slots[i].newer].older = i
    <3>0. /\ i \in Taken(t) /\ t.slots[i].older \in Link(t) /\ t.slots[i].newer \in Link(t)
          /\ t.slots[i].older # Nil => t.slots[t.slots[i].older].newer = i
          /\ t.slots[i].newer # Nil => t.slots[t.slots[i].newer].older = i
          /\ n # Nil => n \in Taken(t) /\ t.slots[n].newer = Nil
      BY <1>5, <1>9, <1>d DEF Linked
    <3>1. v.slots[i].older \in Link(v) /\ v.slots[i].newer \in Link(v)
      BY <1>6, <1>9, <1>n, <1>p, <3>0 DEF Link
    <3>2. ASSUME v.slots[i].older # Nil PROVE v.slots[v.slots[i].older].newer = i
      <4>1. CASE i = s
        BY <1>5, <1>6, <3>0, <3>2, <4>1
      <4>2. CASE i # s
        <5>1. v.slots[i].older = t.slots[i].older /\ t.slots[i].older \in Taken(t) \ {s}
          BY <1>6, <1>d, <3>0, <3>2, <4>2 DEF Link
        <5>2. t.slots[i].older # n
          BY <1>n, <1>p, <3>0, <3>2, <5>1
        <5> QED BY <1>6, <3>0, <3>2, <5>1, <5>2
      <4> QED BY <4>1, <4>2
    <3>3. ASSUME v.slots[i].newer # Nil PROVE v.slots[v.slots[i].newer].older = i
      <4>1. i # s
        BY <1>6, <3>0, <3>3
      <4>2. CASE i = n
        BY <1>6, <1>p, <3>0, <4>1, <4>2
      <4>3. CASE i # n
        <5>1. v.slots[i].newer = t.slots[i].newer /\ t.slots[i].newer \in Taken(t) \ {s}
          BY <1>6, <1>d, <3>0, <3>3, <4>1, <4>3 DEF Link
        <5> QED BY <1>6, <3>0, <3>3, <5>1
      <4> QED BY <4>2, <4>3
    <3> QED BY <3>1, <3>2, <3>3
  <2> QED BY <2>1, <2>2, <2>3 DEF Linked
<1>13. Ordered(v)
  <2>1. PICK rank \in [Nat -> Nat], top \in Nat : Ranked(t, rank, top)
    BY DEF Sound, Ordered
  <2> DEFINE higher == [rank EXCEPT ![s] = top]
  <2>2. higher \in [Nat -> Nat] /\ top + 1 \in Nat /\ s \in Nat
    <3>1. s \in Nat
      BY <1>p
    <3> QED BY <3>1
  <2>3. \A i \in Nat : higher[i] = IF i = s THEN top ELSE rank[i]
    BY <2>1
  <2> HIDE DEF higher
  <2>4. ASSUME NEW i \in Taken(v)
        PROVE  /\ higher[i] < top + 1
               /\ v.slots[i].older # Nil => higher[v.slots[i].older] < higher[i]
    <3>0. i \in Taken(t) /\ i \in Nat /\ rank[i] \in Nat /\ rank[i] < top
      BY <1>9, <1>p, <2>1 DEF Ranked
    <3>1. higher[i] < top + 1
      BY <2>1, <2>3, <3>0
    <3>2. ASSUME v.slots[i].older # Nil PROVE higher[v.slots[i].older] < higher[i]
      <4>1. CASE i = s
        <5>1. v.slots[i].older = n /\ n \in Taken(t) /\ n \in Nat
          BY <1>5, <1>6, <1>p, <3>0, <3>2, <4>1
        <5> QED BY <1>n, <2>1, <2>3, <3>0, <4>1, <5>1 DEF Ranked
      <4>2. CASE i # s
        <5>1. v.slots[i].older = t.slots[i].older /\ t.slots[i].older \in Taken(t) \ {s}
          BY <1>6, <1>9, <1>d, <3>0, <3>2, <4>2 DEF Linked, Link
        <5> QED BY <1>p, <2>1, <2>3, <3>0, <3>2, <4>2, <5>1 DEF Ranked
      <4> QED BY <4>1, <4>2
    <3> QED BY <3>1, <3>2
  <2>5. Ranked(v, higher, top + 1)
    BY <2>4 DEF Ranked
  <2> QED BY <2>2, <2>5 DEF Ordered
<1> QED
  BY <1>1, <1>10, <1>11, <1>12, <1>13 DEF Sound

\* The bucket of a key of the table.
Bucket(t, k) == t.slots[t.index[k]].bucket

\* evict_oldest forgets the oldest slot's key and touches no other bucket.
LEMMA EvictForgets ==
  ASSUME RateAssumptions, NEW t, Sound(t), t.oldest # Nil, NEW v, v = EvictOldest(t)
  PROVE  /\ Sound(v)
         /\ \E k \in DOMAIN t.index :
              /\ t.index[k] = t.oldest
              /\ DOMAIN v.index = DOMAIN t.index \ {k}
              /\ \A j \in DOMAIN v.index : Bucket(v, j) = Bucket(t, j)
<1> DEFINE s == t.oldest
           u == Unlink(t, s)
           k == t.slots[s].key
<1>0. s \in Taken(t)
  BY DEF Sound, Linked, Link
<1>1. Sound(u) /\ Detached(u, s) /\ SameBuckets(t, u)
  BY <1>0, UnlinkDetaches
<1>2. /\ IsTable(v) /\ v.slots = [u.slots EXCEPT ![s] = Nil] /\ v.spare = Append(u.spare, s)
      /\ v.index = Forget(u.index, k) /\ v.oldest = u.oldest /\ v.newest = u.newest
  <2>1. IsTable(u)
    BY <1>1 DEF Sound
  <2>2. v = [u EXCEPT !.slots[s] = Nil, !.spare = Append(@, s), !.index = Forget(@, k)]
    BY DEF EvictOldest
  <2> HIDE DEF u, s, k
  <2> QED BY <2>1, <2>2 DEF IsTable
<1>k. k \in DOMAIN t.index /\ t.index[k] = s
  BY <1>0 DEF Sound, Filed
<1>p. /\ Len(u.slots) \in Nat /\ DOMAIN u.slots = Places(u) /\ Taken(u) \subseteq Places(u)
      /\ Places(u) \subseteq Nat /\ s \in Taken(u)
      /\ \A i \in Taken(u) : u.slots[i] \in Slot
      /\ \A i \in Places(u) : u.slots[i] \in Slot \cup {Nil}
  BY <1>1, PlacesOf DEF Sound, Detached
<1>n. Nil \notin Nat /\ Nil \notin Slot
  BY DEF RateAssumptions, LimitsAssumption, Slot
<1>u. Filed(u) /\ Linked(u) /\ u.index = t.index /\ u.slots[s].key = k
  BY <1>0, <1>1 DEF Sound, SameBuckets
<1> HIDE DEF u, k
<1>3. /\ v.slots[s] = Nil /\ \A i \in Places(u) \ {s} : v.slots[i] = u.slots[i]
  BY <1>2, <1>p
<1>4. v.slots \in Seq(Slot \cup {Nil}) /\ Len(v.slots) = Len(u.slots) /\ Places(v) = Places(u)
  <2>1. u.slots \in Seq(Slot \cup {Nil})
    BY <1>u DEF Filed
  <2>2. v.slots \in Seq(Slot \cup {Nil}) /\ Len(v.slots) = Len(u.slots)
    BY <1>2, <1>p, <2>1
  <2> QED BY <2>2 DEF Places
<1>5. Taken(v) = Taken(u) \ {s} /\ Link(v) = Link(u) \ {s}
  <2>1. s # Nil
    BY <1>n, <1>p
  <2> QED BY <1>3, <1>4, <1>p, <2>1 DEF Taken, Link
<1>6. /\ DOMAIN v.index = DOMAIN t.index \ {k}
      /\ \A j \in DOMAIN v.index : v.index[j] = t.index[j]
  BY <1>2, <1>u DEF Forget
<1>7. \A i \in 1 .. Len(u.spare) : u.spare[i] \in Places(u) \ {s}
  <2>1. u.spare \in Seq(Places(u)) /\ \A i \in 1 .. Len(u.spare) : u.slots[u.spare[i]] = Nil
    BY <1>u DEF Filed
  <2>2. u.slots[s] # Nil
    BY <1>p DEF Taken
  <2>3. \A i \in 1 .. Len(u.spare) : u.spare[i] \in Places(u)
    BY <2>1
  <2> QED BY <2>1, <2>2, <2>3
<1>8. /\ v.spare \in Seq(Places(v)) /\ Len(v.spare) = Len(u.spare) + 1
      /\ v.spare[Len(u.spare) + 1] = s /\ Len(u.spare) \in Nat
      /\ \A i \in 1 .. Len(u.spare) : v.spare[i] = u.spare[i]
  BY <1>2, <1>4, <1>u, <1>p DEF Filed
<1>9. \A i \in 1 .. Len(v.spare) : i = Len(u.spare) + 1 \/ i \in 1 .. Len(u.spare)
  BY <1>8
<1>10. Filed(v)
  <2>1. \A j \in DOMAIN v.index : v.index[j] \in Taken(v) /\ v.slots[v.index[j]].key = j
    <3> SUFFICES ASSUME NEW j \in DOMAIN v.index
                 PROVE  v.index[j] \in Taken(v) /\ v.slots[v.index[j]].key = j
      OBVIOUS
    <3>1. j \in DOMAIN u.index /\ j # k /\ v.index[j] = u.index[j]
      BY <1>6, <1>u
    <3>2. u.index[j] \in Taken(u) /\ u.slots[u.index[j]].key = j
      BY <1>u, <3>1 DEF Filed
    <3>3. u.index[j] # s
      BY <1>u, <3>1, <3>2
    <3> QED BY <1>3, <1>5, <1>p, <3>1, <3>2, <3>3
  <2>2. \A i \in Taken(v) : /\ v.slots[i].key \in DOMAIN v.index
                            /\ v.index[v.slots[i].key] = i
                            /\ v.slots[i].bucket.updated <= now
    <3> SUFFICES ASSUME NEW i \in Taken(v)
                 PROVE  /\ v.slots[i].key \in DOMAIN v.index
                        /\ v.index[v.slots[i].key] = i
                        /\ v.slots[i].bucket.updated <= now
      OBVIOUS
    <3>1. i \in Taken(u) /\ i # s /\ v.slots[i] = u.slots[i]
      BY <1>3, <1>5, <1>p
    <3>2. /\ u.slots[i].key \in DOMAIN t.index /\ t.index[u.slots[i].key] = i
          /\ u.slots[i].bucket.updated <= now
      BY <1>u, <3>1 DEF Filed
    <3> QED BY <1>k, <1>6, <3>1, <3>2
  <2>3. \A i \in 1 .. Len(v.spare) : v.slots[v.spare[i]] = Nil
    <3> SUFFICES ASSUME NEW i \in 1 .. Len(v.spare) PROVE v.slots[v.spare[i]] = Nil
      OBVIOUS
    <3>1. CASE i = Len(u.spare) + 1
      BY <1>3, <1>8, <3>1
    <3>2. CASE i \in 1 .. Len(u.spare)
      <4>1. u.slots[u.spare[i]] = Nil
        BY <1>u, <3>2 DEF Filed
      <4> QED BY <1>3, <1>7, <1>8, <3>2, <4>1
    <3> QED BY <1>9, <3>1, <3>2
  <2>4. \A i, j \in 1 .. Len(v.spare) : v.spare[i] = v.spare[j] => i = j
    <3> SUFFICES ASSUME NEW i \in 1 .. Len(v.spare), NEW j \in 1 .. Len(v.spare),
                        v.spare[i] = v.spare[j]
                 PROVE  i = j
      OBVIOUS
    <3>1. CASE i \in 1 .. Len(u.spare) /\ j \in 1 .. Len(u.spare)
      <4>1. u.spare[i] = u.spare[j]
        BY <1>8, <3>1
      <4> QED BY <1>u, <3>1, <4>1 DEF Filed
    <3>2. CASE i = Len(u.spare) + 1 \/ j = Len(u.spare) + 1
      BY <1>7, <1>8, <1>9, <3>2
    <3> QED BY <1>9, <3>1, <3>2
  <2>5. DOMAIN v.index \subseteq Keys
    BY <1>6, <1>u DEF Filed
  <2> QED BY <1>4, <1>8, <2>1, <2>2, <2>3, <2>4, <2>5 DEF Filed
<1>11. Linked(v)
  <2>1. /\ u.oldest # s /\ u.newest # s
        /\ \A i \in Taken(u) : u.slots[i].older # s /\ u.slots[i].newer # s
    BY <1>1 DEF Detached
  <2>2. \A i \in Taken(v) : i \in Taken(u) /\ v.slots[i] = u.slots[i]
    BY <1>3, <1>5, <1>p
  <2>3. v.oldest \in Link(v) /\ v.newest \in Link(v)
    BY <1>2, <1>5, <1>u, <2>1 DEF Linked
  <2>4. /\ v.oldest # Nil => v.slots[v.oldest].older = Nil
        /\ v.newest # Nil => v.slots[v.newest].newer = Nil
    BY <1>2, <1>u, <2>2, <2>3 DEF Linked, Link
  <2>5. ASSUME NEW i \in Taken(v)
        PROVE  /\ v.slots[i].older \in Link(v) /\ v.slots[i].newer \in Link(v)
               /\ v.slots[i].older # Nil => v.slots[v.slots[i].older].newer = i
               /\ v.slots[i].newer # Nil => v.slots[v.slots[i].newer].older = i
    <3>1. v.slots[i].older \in Link(v) /\ v.slots[i].newer \in Link(v)
      BY <1>5, <1>u, <2>1, <2>2 DEF Linked
    <3> QED BY <1>u, <2>2, <3>1 DEF Linked, Link
  <2> QED BY <2>3, <2>4, <2>5 DEF Linked
<1>12. Ordered(v)
  <2>1. PICK rank \in [Nat -> Nat], top \in Nat : Ranked(u, rank, top)
    BY <1>1 DEF Sound, Ordered
  <2>2. Ranked(v, rank, top)
    BY <1>3, <1>5, <1>p, <2>1 DEF Ranked
  <2> QED BY <2>2 DEF Ordered
<1>13. \A j \in DOMAIN v.index : Bucket(v, j) = Bucket(t, j)
  <2> SUFFICES ASSUME NEW j \in DOMAIN v.index PROVE Bucket(v, j) = Bucket(t, j)
    OBVIOUS
  <2>1. v.index[j] = t.index[j] /\ t.index[j] \in Taken(t) /\ t.index[j] \in Taken(u) \ {s}
    <3>1. j \in DOMAIN t.index /\ v.index[j] = t.index[j]
      BY <1>6
    <3>2. t.index[j] \in Taken(t) /\ Taken(u) = Taken(t) /\ v.index[j] \in Taken(v)
      BY <1>1, <1>10, <3>1 DEF Sound, Filed, SameBuckets
    <3> QED BY <1>5, <3>1, <3>2
  <2>2. v.slots[t.index[j]] = u.slots[t.index[j]]
    BY <1>3, <1>p, <2>1
  <2>3. u.slots[t.index[j]].bucket = t.slots[t.index[j]].bucket
    BY <1>1, <2>1 DEF SameBuckets
  <2> QED BY <2>1, <2>2, <2>3 DEF Bucket
<1> QED
  BY <1>2, <1>6, <1>10, <1>11, <1>12, <1>13, <1>k DEF Sound

\* insert gives a new key a full bucket, in a freed slot if there is one, and
\* touches no other bucket.
LEMMA InsertFills ==
  ASSUME RateAssumptions, now \in Nat, NEW t, Sound(t), NEW k \in Keys, k \notin DOMAIN t.index,
         NEW v, v = Insert(t, k)
  PROVE  /\ Sound(v) /\ DOMAIN v.index = DOMAIN t.index \cup {k}
         /\ Bucket(v, k) = [tokens |-> Full, updated |-> now]
         /\ \A j \in DOMAIN t.index : Bucket(v, j) = Bucket(t, j)
<1> DEFINE reuse == t.spare # <<>>
           s == IF reuse THEN t.spare[Len(t.spare)] ELSE Len(t.slots) + 1
           entry == [key |-> k, older |-> Nil, newer |-> Nil,
                     bucket |-> [tokens |-> Full, updated |-> now]]
           filled == IF reuse THEN [t.slots EXCEPT ![s] = entry] ELSE Append(t.slots, entry)
           left == IF reuse THEN SubSeq(t.spare, 1, Len(t.spare) - 1) ELSE t.spare
           filing == [x \in DOMAIN t.index \cup {k} |-> IF x = k THEN s ELSE t.index[x]]
           w == [t EXCEPT !.slots = filled, !.spare = left, !.index = filing]
<1>1. /\ IsTable(w) /\ w.slots = filled /\ w.spare = left /\ w.index = filing
      /\ w.oldest = t.oldest /\ w.newest = t.newest
  <2>1. IsTable(t)
    BY DEF Sound
  <2> DEFINE o == t.oldest
             n == t.newest
  <2>2. w = [t EXCEPT !.slots = filled, !.spare = left, !.index = filing]
    OBVIOUS
  <2>3. t = [index |-> t.index, slots |-> t.slots, spare |-> t.spare, oldest |-> o, newest |-> n]
    BY <2>1 DEF IsTable
  <2> HIDE DEF w, filled, left, filing
  <2>4. w = [index |-> filing, slots |-> filled, spare |-> left, oldest |-> o, newest |-> n]
    BY <2>2, <2>3
  <2> QED BY <2>4 DEF IsTable
<1>2. v = LinkNewest(w, s)
  BY DEF Insert
<1> HIDE DEF w
<1>p. /\ Len(t.slots) \in Nat /\ DOMAIN t.slots = Places(t) /\ Taken(t) \subseteq Places(t)
      /\ Places(t) \subseteq Nat
      /\ \A i \in Taken(t) : t.slots[i] \in Slot
      /\ \A i \in Places(t) : t.slots[i] \in Slot \cup {Nil}
  BY PlacesOf DEF Sound
<1>n. Nil \notin Nat /\ Nil \notin Slot /\ Full \in Nat
  BY DEF RateAssumptions, LimitsAssumption, QuotaAssumption, Slot, Full
<1>e. entry \in Slot /\ entry # Nil
  BY <1>n DEF Slot, BucketSlot
<1>f. Filed(t) /\ Linked(t) /\ t.slots \in Seq(Slot \cup {Nil}) /\ t.spare \in Seq(Places(t))
  BY DEF Sound, Filed
<1> HIDE DEF entry
<1>3. /\ filled \in Seq(Slot \cup {Nil}) /\ s \in 1 .. Len(filled) /\ filled[s] = entry
      /\ s \notin Taken(t) /\ s \in Nat
      /\ Places(t) \subseteq 1 .. Len(filled) /\ 1 .. Len(filled) \subseteq Places(t) \cup {s}
      /\ \A i \in Places(t) \ {s} : filled[i] = t.slots[i]
  <2>1. CASE reuse
    <3>1. Len(t.spare) \in 1 .. Len(t.spare) /\ s = t.spare[Len(t.spare)]
      BY <1>f, <2>1
    <3>2. s \in Places(t) /\ t.slots[s] = Nil
      BY <1>f, <3>1 DEF Filed
    <3>3. filled = [t.slots EXCEPT ![s] = entry]
      BY <2>1
    <3> HIDE DEF filled, s
    <3>4. filled \in Seq(Slot \cup {Nil}) /\ Len(filled) = Len(t.slots)
      BY <1>e, <1>f, <1>p, <3>2, <3>3
    <3>5. filled[s] = entry /\ \A i \in Places(t) \ {s} : filled[i] = t.slots[i]
      BY <1>p, <3>2, <3>3
    <3> QED BY <1>p, <3>2, <3>4, <3>5 DEF Taken, Places
  <2>2. CASE ~reuse
    <3>1. s = Len(t.slots) + 1 /\ filled = Append(t.slots, entry)
      BY <2>2
    <3> HIDE DEF filled, s
    <3>2. /\ filled \in Seq(Slot \cup {Nil}) /\ Len(filled) = Len(t.slots) + 1
          /\ filled[Len(t.slots) + 1] = entry
          /\ \A i \in 1 .. Len(t.slots) : filled[i] = t.slots[i]
      BY <1>e, <1>f, <3>1
    <3> QED BY <1>p, <3>1, <3>2 DEF Taken, Places
  <2> QED BY <2>1, <2>2
<1>4. /\ left \in Seq(Places(t)) /\ Len(left) <= Len(t.spare) /\ Len(left) \in Nat
      /\ \A i \in 1 .. Len(left) : i \in 1 .. Len(t.spare) /\ left[i] = t.spare[i] /\ left[i] # s
  <2>1. CASE reuse
    <3>1. Len(t.spare) \in 1 .. Len(t.spare) /\ s = t.spare[Len(t.spare)]
          /\ left = SubSeq(t.spare, 1, Len(t.spare) - 1)
      BY <1>f, <2>1
    <3> HIDE DEF left, s
    <3>2. /\ left \in Seq(Places(t)) /\ Len(left) = Len(t.spare) - 1
          /\ \A i \in 1 .. Len(t.spare) - 1 : left[i] = t.spare[i]
      BY <1>f, <3>1
    <3>3. \A i \in 1 .. Len(t.spare) - 1 : t.spare[i] # s
      BY <1>f, <3>1 DEF Filed
    <3> QED BY <1>f, <3>1, <3>2, <3>3
  <2>2. CASE ~reuse
    BY <1>f, <2>2
  <2> QED BY <2>1, <2>2
<1> HIDE DEF filled, left, s
<1>5. /\ Places(w) = Places(t) \cup {s} /\ Taken(w) = Taken(t) \cup {s}
      /\ Link(w) = Link(t) \cup {s} /\ w.slots[s] = entry
      /\ \A i \in Taken(t) : w.slots[i] = t.slots[i]
      /\ \A i \in Places(w) \ Taken(w) : w.slots[i] = Nil
  <2>1. Places(w) = Places(t) \cup {s}
    BY <1>1, <1>3 DEF Places
  <2>2. \A i \in Taken(t) : i \in Places(t) \ {s} /\ w.slots[i] = t.slots[i] /\ w.slots[i] # Nil
    BY <1>1, <1>3, <1>p DEF Taken
  <2>3. \A i \in Places(w) : i = s \/ w.slots[i] = t.slots[i]
    BY <1>1, <1>3, <2>1
  <2>4. Taken(w) = Taken(t) \cup {s}
    BY <1>1, <1>3, <1>e, <2>1, <2>2, <2>3 DEF Taken
  <2> QED BY <1>1, <1>3, <2>1, <2>2, <2>4 DEF Link, Taken
<1>6. Filed(w)
  <2>1. DOMAIN w.index = DOMAIN t.index \cup {k} /\ w.index[k] = s
        /\ \A x \in DOMAIN t.index : w.index[x] = t.index[x]
    BY <1>1
  <2>2. \A x \in DOMAIN w.index : w.index[x] \in Taken(w) /\ w.slots[w.index[x]].key = x
    BY <1>5, <1>f, <2>1 DEF Filed, entry
  <2>3. \A i \in Taken(w) : /\ w.slots[i].key \in DOMAIN w.index
                            /\ w.index[w.slots[i].key] = i
                            /\ w.slots[i].bucket.updated <= now
    <3>1. entry.key = k /\ entry.bucket.updated = now
      BY DEF entry
    <3>2. ASSUME NEW i \in Taken(t)
          PROVE  /\ w.slots[i].key \in DOMAIN w.index /\ w.index[w.slots[i].key] = i
                 /\ w.slots[i].bucket.updated <= now
      BY <1>5, <1>f, <2>1, <3>2 DEF Filed
    <3> QED BY <1>5, <2>1, <3>1, <3>2
  <2>4. w.spare \in Seq(Places(w)) /\ w.spare = left
    BY <1>1, <1>4, <1>5
  <2>5. \A i \in 1 .. Len(w.spare) : w.slots[w.spare[i]] = Nil
    <3> SUFFICES ASSUME NEW i \in 1 .. Len(left) PROVE w.slots[left[i]] = Nil
      BY <2>4
    <3>1. left[i] \in Places(t) /\ t.slots[left[i]] = Nil /\ left[i] # s
      BY <1>4, <1>f DEF Filed
    <3> QED BY <1>5, <3>1 DEF Taken
  <2>6. \A i, j \in 1 .. Len(w.spare) : w.spare[i] = w.spare[j] => i = j
    BY <1>4, <1>f, <2>4 DEF Filed
  <2>7. w.slots \in Seq(Slot \cup {Nil}) /\ DOMAIN w.index \subseteq Keys
    BY <1>1, <1>3, <1>f, <2>1 DEF Filed
  <2> QED BY <2>2, <2>3, <2>4, <2>5, <2>6, <2>7 DEF Filed
<1>7. \A i \in Taken(t) : t.slots[i].older # s /\ t.slots[i].newer # s
  <2>1. s # Nil
    BY <1>3, <1>n
  <2> QED BY <1>3, <1>f, <2>1 DEF Linked, Link
<1>8. Linked(w)
  <2>1. entry.older = Nil /\ entry.newer = Nil /\ s \notin Taken(t) /\ s # Nil
    BY <1>3, <1>n DEF entry
  <2>2. /\ w.oldest \in Link(w) /\ w.newest \in Link(w)
        /\ w.oldest # Nil => w.slots[w.oldest].older = Nil
        /\ w.newest # Nil => w.slots[w.newest].newer = Nil
    BY <1>1, <1>5, <1>f DEF Linked, Link
  <2>3. ASSUME NEW i \in Taken(w)
        PROVE  /\ w.slots[i].older \in Link(w) /\ w.slots[i].newer \in Link(w)
               /\ w.slots[i].older # Nil => w.slots[w.slots[i].older].newer = i
               /\ w.slots[i].newer # Nil => w.slots[w.slots[i].newer].older = i
    <3>1. CASE i = s
      BY <1>5, <2>1, <3>1 DEF Link
    <3>2. CASE i \in Taken(t)
      <4>1. /\ t.slots[i].older \in Link(t) /\ t.slots[i].newer \in Link(t)
            /\ t.slots[i].older # Nil => t.slots[t.slots[i].older].newer = i
            /\ t.slots[i].newer # Nil => t.slots[t.slots[i].newer].older = i
        BY <1>f, <3>2 DEF Linked
      <4> QED BY <1>5, <3>2, <4>1 DEF Link
    <3> QED BY <1>5, <3>1, <3>2
  <2> QED BY <2>2, <2>3 DEF Linked
<1>9. Ordered(w)
  <2>1. PICK rank \in [Nat -> Nat], top \in Nat : Ranked(t, rank, top)
    BY DEF Sound, Ordered
  <2> DEFINE higher == [rank EXCEPT ![s] = top]
  <2>s. s \in Nat
    BY <1>3
  <2>2. higher \in [Nat -> Nat] /\ top + 1 \in Nat
    BY <2>1, <2>s
  <2>3. \A i \in Nat : higher[i] = IF i = s THEN top ELSE rank[i]
    BY <2>1
  <2> HIDE DEF higher
  <2>4. ASSUME NEW i \in Taken(w)
        PROVE  /\ higher[i] < top + 1
               /\ w.slots[i].older # Nil => higher[w.slots[i].older] < higher[i]
    <3>1. CASE i = s
      <4>1. w.slots[i].older = Nil
        BY <1>5, <3>1 DEF entry
      <4>2. higher[i] = top
        BY <2>s, <2>3, <3>1
      <4> QED BY <2>1, <4>1, <4>2
    <3>2. CASE i \in Taken(t)
      <4>1. i \in Nat /\ rank[i] < top /\ rank[i] \in Nat /\ i # s
            /\ (t.slots[i].older # Nil => rank[t.slots[i].older] < rank[i])
        BY <1>p, <1>3, <2>1, <3>2 DEF Ranked
      <4>2. t.slots[i].older # Nil => t.slots[i].older \in Nat /\ t.slots[i].older # s
        BY <1>7, <1>f, <1>p, <3>2 DEF Linked, Link
      <4> QED BY <1>5, <2>1, <2>3, <3>2, <4>1, <4>2
    <3> QED BY <1>5, <3>1, <3>2
  <2>5. Ranked(w, higher, top + 1)
    BY <2>4 DEF Ranked
  <2> QED BY <2>2, <2>5 DEF Ordered
<1>10. Sound(w) /\ Detached(w, s)
  <2>1. w.oldest # s /\ w.newest # s
    BY <1>1, <1>3, <1>f, <1>n DEF Linked, Link
  <2>2. entry.older = Nil /\ entry.newer = Nil /\ s # Nil
    BY <1>3, <1>n DEF entry
  <2>3. \A i \in Taken(w) : w.slots[i].older # s /\ w.slots[i].newer # s
    BY <1>5, <1>7, <2>2
  <2> QED BY <1>1, <1>5, <1>6, <1>8, <1>9, <2>1, <2>2, <2>3 DEF Sound, Detached
<1>11. Sound(v) /\ SameBuckets(w, v)
  BY <1>2, <1>10, LinkAttaches
<1>12. DOMAIN v.index = DOMAIN t.index \cup {k} /\ v.index[k] = s
       /\ \A j \in DOMAIN t.index : v.index[j] = t.index[j]
  BY <1>1, <1>11 DEF SameBuckets
<1>13. Bucket(v, k) = entry.bucket
  BY <1>5, <1>11, <1>12 DEF Bucket, SameBuckets
<1>14. ASSUME NEW j \in DOMAIN t.index PROVE Bucket(v, j) = Bucket(t, j)
  <2>1. t.index[j] \in Taken(t) /\ t.index[j] \in Taken(w)
    BY <1>5, <1>f DEF Filed
  <2> QED BY <1>5, <1>11, <1>12, <2>1 DEF Bucket, SameBuckets
<1> QED
  BY <1>11, <1>12, <1>13, <1>14 DEF entry

\* What a key has now.
Value(t, k) == IF k \in DOMAIN t.index THEN Refilled(Bucket(t, k)) ELSE Full

\* The quota's numbers, with the tokens counted in Period-ths.
LEMMA Quota ==
  ASSUME RateAssumptions
  PROVE  /\ Capacity \in Nat /\ Period \in Nat /\ Full \in Nat /\ Period <= Full
         /\ Full = Capacity * Period /\ IdleTtl \in Nat /\ IdleTtl >= Period /\ Period > 0
<1>1. Capacity \in Nat \ {0} /\ Period \in Nat \ {0} /\ IdleTtl \in Nat /\ IdleTtl >= Period
  BY DEF RateAssumptions, QuotaAssumption, TtlAssumption
<1>2. Full = Capacity * Period
  BY DEF Full
<1>3. Capacity * Period \in Nat /\ Period <= Capacity * Period
  BY <1>1
<1> QED
  BY <1>1, <1>2, <1>3

\* What the index finds for a key.
LEMMA BucketIs ==
  ASSUME NEW t, Sound(t), NEW k \in DOMAIN t.index
  PROVE  /\ t.index[k] \in Taken(t) /\ t.slots[t.index[k]] \in Slot
         /\ Bucket(t, k) \in [tokens : 0 .. Full, updated : Nat]
         /\ Bucket(t, k).updated <= now
<1>1. t.index[k] \in Taken(t) /\ t.slots[t.index[k]] \in Slot
  BY PlacesOf DEF Sound, Filed
<1>2. Bucket(t, k).updated <= now
  BY <1>1 DEF Sound, Filed, Bucket
<1> QED
  BY <1>1, <1>2 DEF Slot, BucketSlot, Bucket

LEMMA Scales ==
  ASSUME NEW a \in Nat, NEW b \in Nat, NEW c \in Nat, a >= b
  PROVE  a * c >= b * c /\ a * c \in Nat
OBVIOUS

\* A refill stays within the capacity, and after idle_ttl it reaches it.
LEMMA RefilledIs ==
  ASSUME RateAssumptions, now \in Nat, NEW b \in [tokens : 0 .. Full, updated : Nat],
         b.updated <= now
  PROVE  /\ Refilled(b) \in 0 .. Full
         /\ now - b.updated >= IdleTtl => Refilled(b) = Full
<1> DEFINE d == now - b.updated
<1>1. d \in Nat /\ b.tokens \in Nat /\ b.tokens <= Full
  BY Quota
<1>2. d * Capacity \in Nat /\ (d >= Period => d * Capacity >= Period * Capacity)
  BY <1>1, Quota, Scales
<1>3. Period * Capacity = Full
  BY Quota
<1>4. Refilled(b) = MinOf(b.tokens + d * Capacity, Full)
  BY DEF Refilled
<1> DEFINE g == d * Capacity
<1>5. g \in Nat /\ (d >= Period => g >= Full)
  BY <1>2, <1>3
<1>6. Refilled(b) = MinOf(b.tokens + g, Full)
  BY <1>4
<1> HIDE DEF g
<1>7. Refilled(b) \in 0 .. Full /\ (d >= Period => Refilled(b) = Full)
  BY <1>1, <1>5, <1>6, Quota DEF MinOf
<1>8. d >= IdleTtl => d >= Period
  BY <1>1, Quota
<1> QED
  BY <1>7, <1>8

LEMMA ValueIs ==
  ASSUME RateAssumptions, now \in Nat, NEW t, Sound(t), NEW k
  PROVE  Value(t, k) \in 0 .. Full
<1>1. CASE k \in DOMAIN t.index
  BY <1>1, BucketIs, RefilledIs DEF Value
<1>2. CASE k \notin DOMAIN t.index
  BY <1>2, Quota DEF Value
<1> QED
  BY <1>1, <1>2

\* What the sweep evicts is full, so that no key's value changes.
LEMMA TurnKeeps ==
  ASSUME RateAssumptions, now \in Nat, NEW t, Sound(t), NEW v, v = Turn(t)
  PROVE  Sound(v) /\ \A k \in Keys : Value(v, k) = Value(t, k)
<1>1. CASE ~Idle(t)
  BY <1>1 DEF Turn
<1>2. CASE Idle(t)
  <2>1. t.oldest # Nil /\ now - t.slots[t.oldest].bucket.updated >= IdleTtl
        /\ v = EvictOldest(t)
    BY <1>2 DEF Idle, Turn
  <2>2. Sound(v)
    BY <2>1, EvictForgets
  <2>3. PICK k \in DOMAIN t.index :
          /\ t.index[k] = t.oldest
          /\ DOMAIN v.index = DOMAIN t.index \ {k}
          /\ \A j \in DOMAIN v.index : Bucket(v, j) = Bucket(t, j)
    BY <2>1, EvictForgets
  <2>4. Refilled(Bucket(t, k)) = Full
    <3>1. now - Bucket(t, k).updated >= IdleTtl
      BY <2>1, <2>3 DEF Bucket
    <3> QED BY <3>1, BucketIs, RefilledIs
  <2> QED BY <2>2, <2>3, <2>4 DEF Value
<1> QED
  BY <1>1, <1>2

\* Nor does it in all its turns, for there is no first turn that changes one.
LEMMA SweepKeeps ==
  ASSUME RateAssumptions, now \in Nat, NEW t, Sound(t)
  PROVE  /\ Sound(Sweep(t))
         /\ \A k \in Keys : Value(Sweep(t), k) = Value(t, k)
<1>b. Budget \in Nat
  BY DEF RateAssumptions, LimitsAssumption
<1>1. PICK g : Turns(g, t, Budget) /\ Sweep(t) = g[Budget]
  BY <1>b, SweepIs
<1> DEFINE Right(v) == Sound(v) /\ \A k \in Keys : Value(v, k) = Value(t, k)
           Bad == {n \in 0 .. Budget : ~Right(g[n])}
<1>2. \A n \in 0 .. Budget : g[n] = IF n = 0 THEN t ELSE Turn(g[n - 1])
  BY <1>1 DEF Turns
<1>3. Bad = {}
  <2> SUFFICES ASSUME Bad # {} PROVE FALSE
    OBVIOUS
  <2>1. PICK n \in Bad : \A m \in Bad : n <= m
    <3>1. Bad \in SUBSET Nat
      BY <1>b
    <3> QED BY <3>1, LeastNumber
  <2>2. n \in 0 .. Budget /\ ~Right(g[n])
    OBVIOUS
  <2>3. n # 0
    BY <1>2, <2>2
  <2>4. n - 1 \in 0 .. Budget /\ n - 1 \notin Bad
    BY <1>b, <2>1, <2>2, <2>3
  <2>5. Right(g[n - 1]) /\ g[n] = Turn(g[n - 1])
    BY <1>2, <2>2, <2>3, <2>4
  <2>6. Right(g[n])
    BY <2>5, TurnKeeps
  <2> QED BY <2>2, <2>6
<1>4. Right(g[Budget])
  BY <1>b, <1>3
<1> QED
  BY <1>1, <1>4

LEMMA SameValues ==
  ASSUME NEW t, Sound(t), NEW v, SameBuckets(t, v)
  PROVE  /\ DOMAIN v.index = DOMAIN t.index /\ v.index = t.index
         /\ \A j \in DOMAIN t.index : Bucket(v, j) = Bucket(t, j)
BY BucketIs DEF SameBuckets, Bucket

\* What Consume does of a table once it is swept.
Touched(t, k) ==
  IF k \in DOMAIN t.index
  THEN LinkNewest(Unlink(t, t.index[k]), t.index[k])
  ELSE Insert(MakeRoom(t), k)

LEMMA IdealCardinalityIs == \A S : Ideal!Cardinality(S) = Cardinality(S)
BY DEF Ideal!Cardinality, Cardinality

\* The bound is met by forgetting one key, and only when there are too many.
LEMMA RoomIsMade ==
  ASSUME RateAssumptions, NEW t, Sound(t), NEW k \in Keys, k \notin DOMAIN t.index,
         NEW m, m = MakeRoom(t)
  PROVE  /\ Sound(m)
         /\ \/ DOMAIN m.index = DOMAIN t.index
            \/ /\ Cardinality(Keys) > MaxKeys
               /\ \E lost \in Keys \ {k} : DOMAIN m.index = DOMAIN t.index \ {lost}
         /\ DOMAIN m.index \subseteq DOMAIN t.index
         /\ \A j \in DOMAIN m.index : Bucket(m, j) = Bucket(t, j)
<1>1. CASE ~(Cardinality(DOMAIN t.index) >= MaxKeys /\ t.oldest # Nil)
  BY <1>1 DEF MakeRoom
<1>2. CASE Cardinality(DOMAIN t.index) >= MaxKeys /\ t.oldest # Nil
  <2>1. m = EvictOldest(t)
    BY <1>2 DEF MakeRoom
  <2>2. Sound(m)
    BY <1>2, <2>1, EvictForgets
  <2>3. PICK lost \in DOMAIN t.index :
          /\ DOMAIN m.index = DOMAIN t.index \ {lost}
          /\ \A j \in DOMAIN m.index : Bucket(m, j) = Bucket(t, j)
    BY <1>2, <2>1, EvictForgets
  <2>4. DOMAIN t.index \cup {k} \subseteq Keys /\ IsFiniteSet(Keys)
    BY DEF RateAssumptions, LimitsAssumption, Sound, Filed
  <2>5. IsFiniteSet(DOMAIN t.index) /\ Cardinality(DOMAIN t.index) \in Nat
    BY <2>4, FS_Subset, FS_CardinalityType
  <2>6. Cardinality(DOMAIN t.index \cup {k}) = Cardinality(DOMAIN t.index) + 1
    BY <2>5, FS_AddElement
  <2>7. Cardinality(DOMAIN t.index \cup {k}) <= Cardinality(Keys) /\ Cardinality(Keys) \in Nat
    BY <2>4, FS_Subset, FS_CardinalityType
  <2>8. MaxKeys \in Nat
    BY DEF RateAssumptions, LimitsAssumption
  <2>9. Cardinality(DOMAIN t.index) >= MaxKeys
    BY <1>2
  <2>10. Cardinality(Keys) > MaxKeys
    BY <2>5, <2>6, <2>7, <2>8, <2>9
  <2> QED BY <2>2, <2>3, <2>4, <2>10
<1> QED
  BY <1>1, <1>2

\* The keys a first request makes the table forget: none, or one to make room.
Losses(k) == {{}} \cup {{j} : j \in Keys \ {k}}
Loses(t, v, k, lost) ==
  /\ lost # {} => Value(t, k) = Full /\ Cardinality(Keys) > MaxKeys
  /\ \A j \in Keys \ {k} :
       Value(v, j) = IF j \in lost THEN Full ELSE Value(t, j)

\* The key's bucket is found or made, last in the order of use.
LEMMA TouchedIs ==
  ASSUME RateAssumptions, now \in Nat, NEW t, Sound(t), NEW k \in Keys, NEW v, v = Touched(t, k)
  PROVE  /\ Sound(v) /\ k \in DOMAIN v.index
         /\ Refilled(Bucket(v, k)) = Value(t, k)
         /\ \E lost \in Losses(k) : Loses(t, v, k, lost)
<1>1. CASE k \in DOMAIN t.index
  <2> DEFINE s == t.index[k]
             u == Unlink(t, s)
  <2>1. Sound(u) /\ Detached(u, s) /\ SameBuckets(t, u)
    BY <1>1, BucketIs, UnlinkDetaches
  <2>2. v = LinkNewest(u, s)
    BY <1>1 DEF Touched
  <2> HIDE DEF u, s
  <2>3. Sound(v) /\ SameBuckets(u, v)
    BY <2>1, <2>2, LinkAttaches
  <2>4. DOMAIN v.index = DOMAIN t.index /\ \A j \in DOMAIN t.index : Bucket(v, j) = Bucket(t, j)
    BY <2>1, <2>3, SameValues
  <2>5. \A j \in Keys : Value(v, j) = Value(t, j)
    BY <2>4 DEF Value
  <2>6. Refilled(Bucket(v, k)) = Value(t, k)
    BY <1>1, <2>4 DEF Value
  <2>7. {} \in Losses(k)
    BY DEF Losses
  <2>8. Loses(t, v, k, {})
    BY <2>5 DEF Loses
  <2> QED BY <1>1, <2>3, <2>4, <2>6, <2>7, <2>8
<1>2. CASE k \notin DOMAIN t.index
  <2> DEFINE m == MakeRoom(t)
  <2>1. /\ Sound(m)
        /\ \/ DOMAIN m.index = DOMAIN t.index
           \/ /\ Cardinality(Keys) > MaxKeys
              /\ \E lost \in Keys \ {k} : DOMAIN m.index = DOMAIN t.index \ {lost}
        /\ DOMAIN m.index \subseteq DOMAIN t.index
        /\ \A j \in DOMAIN m.index : Bucket(m, j) = Bucket(t, j)
    BY <1>2, RoomIsMade
  <2>2. v = Insert(m, k)
    BY <1>2 DEF Touched
  <2> HIDE DEF m
  <2>3. k \notin DOMAIN m.index
    BY <1>2, <2>1
  <2>4. /\ Sound(v) /\ DOMAIN v.index = DOMAIN m.index \cup {k}
        /\ Bucket(v, k) = [tokens |-> Full, updated |-> now]
        /\ \A j \in DOMAIN m.index : Bucket(v, j) = Bucket(m, j)
    BY <2>1, <2>2, <2>3, InsertFills
  <2>5. Value(t, k) = Full /\ Refilled(Bucket(v, k)) = Full
    <3>1. Refilled([tokens |-> Full, updated |-> now])
          = MinOf(Full + (now - now) * Capacity, Full)
      BY DEF Refilled
    <3>2. (now - now) * Capacity = 0
      BY Quota
    <3>3. MinOf(Full + 0, Full) = Full
      BY Quota DEF MinOf
    <3> QED BY <1>2, <2>4, <3>1, <3>2, <3>3 DEF Value
  <2>6. CASE DOMAIN m.index = DOMAIN t.index
    <3>1. \A j \in Keys \ {k} : Value(v, j) = Value(t, j)
      BY <2>1, <2>4, <2>6 DEF Value
    <3>2. {} \in Losses(k)
      BY DEF Losses
    <3>3. Loses(t, v, k, {})
      BY <3>1 DEF Loses
    <3> QED BY <2>4, <2>5, <3>2, <3>3
  <2>7. ASSUME Cardinality(Keys) > MaxKeys,
               NEW gone \in Keys \ {k}, DOMAIN m.index = DOMAIN t.index \ {gone}
        PROVE  \E lost \in Losses(k) : Loses(t, v, k, lost)
    <3>1. \A j \in Keys \ {k} : Value(v, j) = IF j \in {gone} THEN Full ELSE Value(t, j)
      BY <2>1, <2>4, <2>7 DEF Value
    <3>2. {gone} \in Losses(k)
      BY DEF Losses
    <3>3. Loses(t, v, k, {gone})
      BY <2>5, <2>7, <3>1 DEF Loses
    <3> QED BY <3>2, <3>3
  <2> QED BY <2>1, <2>4, <2>5, <2>6, <2>7
<1> QED
  BY <1>1, <1>2

\* Replacing an element keeps a sequence a sequence.
LEMMA ReplacedIn ==
  ASSUME NEW A, NEW q \in Seq(A), NEW i \in 1 .. Len(q), NEW x \in A, NEW r,
         r = [q EXCEPT ![i] = x]
  PROVE  r \in Seq(A) /\ Len(r) = Len(q)
OBVIOUS

\* The bucket's decision is written to its slot.
LEMMA WriteKeeps ==
  ASSUME RateAssumptions, now \in Nat, NEW t, Sound(t), NEW k \in DOMAIN t.index,
         NEW left \in 0 .. Full, NEW v, IsTable(v),
         v.index = t.index, v.spare = t.spare, v.oldest = t.oldest, v.newest = t.newest,
         v.slots = [t.slots EXCEPT ![t.index[k]].bucket = [tokens |-> left, updated |-> now]]
  PROVE  /\ Sound(v) /\ Value(v, k) = left
         /\ \A j \in Keys \ {k} : Value(v, j) = Value(t, j)
<1> DEFINE s == t.index[k]
           b == [tokens |-> left, updated |-> now]
<1>p. /\ Len(t.slots) \in Nat /\ DOMAIN t.slots = Places(t) /\ Taken(t) \subseteq Places(t)
      /\ Places(t) \subseteq Nat
      /\ \A i \in Taken(t) : t.slots[i] \in Slot
      /\ \A i \in Places(t) : t.slots[i] \in Slot \cup {Nil}
  BY PlacesOf DEF Sound
<1>n. Nil \notin Nat /\ Nil \notin Slot
  BY DEF RateAssumptions, LimitsAssumption, Slot
<1>s. s \in Taken(t) /\ s \in Places(t) /\ t.slots[s] \in Slot
  BY <1>p, BucketIs
<1>b. b \in [tokens : 0 .. Full, updated : Nat] /\ b.updated = now /\ b.tokens = left
  OBVIOUS
<1>f. Filed(t) /\ Linked(t) /\ t.slots \in Seq(Slot \cup {Nil})
  BY DEF Sound, Filed
<1>i. k \in DOMAIN t.index /\ v.index = t.index /\ t.index[k] = s
  OBVIOUS
<1> HIDE DEF b, s
<1>1. v.slots[s] = [t.slots[s] EXCEPT !.bucket = b] /\ DOMAIN v.slots = Places(t)
      /\ \A i \in Places(t) \ {s} : v.slots[i] = t.slots[i]
  <2>1. v.slots = [t.slots EXCEPT ![s].bucket = b]
    BY DEF s, b
  <2> QED BY <1>p, <1>s, <2>1
<1>2. /\ v.slots[s] \in Slot /\ v.slots[s].older = t.slots[s].older
      /\ v.slots[s].newer = t.slots[s].newer
      /\ v.slots[s].key = t.slots[s].key /\ v.slots[s].bucket = b
  <2> DEFINE x == v.slots[s]
             y == t.slots[s]
  <2>1. x = [y EXCEPT !.bucket = b] /\ y \in Slot
    BY <1>1, <1>s
  <2> HIDE DEF x, y
  <2>2. x \in Slot /\ x.older = y.older /\ x.newer = y.newer /\ x.key = y.key /\ x.bucket = b
    BY <1>b, <2>1 DEF Slot, BucketSlot
  <2> QED BY <2>2 DEF x, y
<1>3. v.slots \in Seq(Slot \cup {Nil}) /\ Len(v.slots) = Len(t.slots) /\ Places(v) = Places(t)
  <2>1. v.slots = [t.slots EXCEPT ![s] = v.slots[s]]
    BY <1>1, <1>p DEF s
  <2> DEFINE x == v.slots[s]
  <2> HIDE DEF x
  <2>2. v.slots = [t.slots EXCEPT ![s] = x] /\ x \in Slot
    BY <1>2, <2>1 DEF x
  <2> DEFINE A == Slot \cup {Nil}
  <2>a. t.slots \in Seq(A) /\ x \in A
    BY <1>f, <2>2
  <2> HIDE DEF A
  <2>3. v.slots \in Seq(A) /\ Len(v.slots) = Len(t.slots)
    <3>1. s \in 1 .. Len(t.slots)
      BY SMTT(30), <1>s DEF Places
    <3> QED BY ONLY <2>2, <2>a, <3>1, ReplacedIn
  <2> QED BY <2>3 DEF Places, A
<1>4. /\ Taken(v) = Taken(t) /\ Link(v) = Link(t)
  <2>1. \A i \in Places(t) : v.slots[i] # Nil <=> t.slots[i] # Nil
    BY <1>1, <1>2, <1>s, <1>n
  <2> QED BY <1>3, <2>1 DEF Taken, Link
<1>5. ASSUME NEW i \in Taken(t)
      PROVE  /\ v.slots[i].older = t.slots[i].older /\ v.slots[i].newer = t.slots[i].newer
             /\ v.slots[i].key = t.slots[i].key
             /\ v.slots[i].bucket = IF i = s THEN b ELSE t.slots[i].bucket
  BY <1>1, <1>2, <1>p
<1>6. Filed(v)
  <2>1. \A j \in DOMAIN v.index : v.index[j] \in Taken(v) /\ v.slots[v.index[j]].key = j
    BY <1>4, <1>5, <1>f DEF Filed
  <2>2. \A i \in Taken(v) : /\ v.slots[i].key \in DOMAIN v.index
                            /\ v.index[v.slots[i].key] = i
                            /\ v.slots[i].bucket.updated <= now
    BY <1>4, <1>5, <1>f, <1>b DEF Filed
  <2>3. \A i \in 1 .. Len(v.spare) : v.slots[v.spare[i]] = Nil
    <3> SUFFICES ASSUME NEW i \in 1 .. Len(t.spare) PROVE v.slots[t.spare[i]] = Nil
      OBVIOUS
    <3>1. t.spare[i] \in Places(t) /\ t.slots[t.spare[i]] = Nil
      BY <1>f DEF Filed
    <3> QED BY <1>1, <1>s, <1>n, <3>1
  <2>4. /\ DOMAIN v.index \subseteq Keys /\ v.spare \in Seq(Places(v))
        /\ \A i, j \in 1 .. Len(v.spare) : v.spare[i] = v.spare[j] => i = j
    BY SMTT(30), <1>3, <1>f DEF Filed
  <2> QED BY <1>3, <2>1, <2>2, <2>3, <2>4 DEF Filed
<1>7. Linked(v)
  <2>1. /\ v.oldest \in Link(v) /\ v.newest \in Link(v)
        /\ v.oldest # Nil => v.slots[v.oldest].older = Nil
        /\ v.newest # Nil => v.slots[v.newest].newer = Nil
    <3>1. /\ t.oldest \in Link(t) /\ t.newest \in Link(t)
          /\ t.oldest # Nil => t.slots[t.oldest].older = Nil
          /\ t.newest # Nil => t.slots[t.newest].newer = Nil
      BY <1>f DEF Linked
    <3>2. /\ t.oldest # Nil => t.oldest \in Taken(t)
          /\ t.newest # Nil => t.newest \in Taken(t)
      BY <3>1 DEF Link
    <3>3. v.oldest = t.oldest /\ v.newest = t.newest
      BY SMTT(30)
    <3> QED BY <1>4, <1>5, <3>1, <3>2, <3>3
  <2>2. ASSUME NEW i \in Taken(v)
        PROVE  /\ v.slots[i].older \in Link(v) /\ v.slots[i].newer \in Link(v)
               /\ v.slots[i].older # Nil => v.slots[v.slots[i].older].newer = i
               /\ v.slots[i].newer # Nil => v.slots[v.slots[i].newer].older = i
    <3>1. /\ i \in Taken(t)
          /\ t.slots[i].older \in Link(t) /\ t.slots[i].newer \in Link(t)
          /\ t.slots[i].older # Nil => t.slots[t.slots[i].older].newer = i
          /\ t.slots[i].newer # Nil => t.slots[t.slots[i].newer].older = i
      BY <1>4, <1>f DEF Linked
    <3>2. /\ t.slots[i].older # Nil => t.slots[i].older \in Taken(t)
          /\ t.slots[i].newer # Nil => t.slots[i].newer \in Taken(t)
      BY <3>1 DEF Link
    <3> QED BY <1>4, <1>5, <3>1, <3>2
  <2> QED BY <2>1, <2>2 DEF Linked
<1>8. Ordered(v)
  <2>1. PICK rank \in [Nat -> Nat], top \in Nat : Ranked(t, rank, top)
    BY DEF Sound, Ordered
  <2>2. Ranked(v, rank, top)
    BY <1>4, <1>5, <2>1 DEF Ranked
  <2> QED BY <2>2 DEF Ordered
<1>9. Bucket(v, k) = b /\ \A j \in DOMAIN t.index \ {k} : Bucket(v, j) = Bucket(t, j)
  <2>1. Bucket(v, k) = b
    BY <1>5, <1>s, <1>i DEF Bucket
  <2>2. ASSUME NEW j \in DOMAIN t.index \ {k} PROVE Bucket(v, j) = Bucket(t, j)
    <3>1. t.index[j] \in Taken(t) /\ t.index[j] # s
      BY <1>f, <1>i DEF Filed
    <3> QED BY <1>5, <1>i, <3>1 DEF Bucket
  <2> QED BY <2>1, <2>2
<1>10. Value(v, k) = left
  <2>1. Refilled(b) = MinOf(left + (now - now) * Capacity, Full)
    BY <1>b DEF Refilled
  <2>2. (now - now) * Capacity = 0
    BY Quota
  <2>3. MinOf(left + 0, Full) = left
    BY Quota DEF MinOf
  <2> QED BY <1>9, <1>i, <2>1, <2>2, <2>3 DEF Value
<1>11. \A j \in Keys \ {k} : Value(v, j) = Value(t, j)
  BY <1>9, <1>i DEF Value
<1>12. Sound(v)
  <2>1. IsTable(v)
    OBVIOUS
  <2> QED BY <1>6, <1>7, <1>8, <2>1 DEF Sound
<1> QED
  BY <1>10, <1>11, <1>12

RateInv == now \in 0 .. MaxTime /\ Sound(Table)

\* The refinement mapping is the value of the key in the table.
LEMMA TokensAre == \A k : Tokens(k) = Value(Table, k)
BY DEF Tokens, Table, Value, Bucket

LEMMA IdealIs ==
  /\ Ideal!Full = Full
  /\ \A a, b : Ideal!MinOf(a, b) = MinOf(a, b)
BY DEF Ideal!Full, Full, Ideal!MinOf, MinOf

\* The empty table is sound and maps to full buckets.
LEMMA InitRates ==
  ASSUME RateAssumptions, LimitInit
  PROVE  RateInv /\ Ideal!Init
<1>1. Ideal!Init
  BY DEF LimitInit, Ideal!Init, Tokens, Full, Ideal!Full
<1>2. /\ now = 0 /\ index = [k \in {} |-> 0] /\ slots = <<>> /\ spare = <<>>
      /\ oldest = Nil /\ newest = Nil
  BY DEF LimitInit
<1>3. now \in 0 .. MaxTime
  BY <1>2 DEF RateAssumptions, LimitsAssumption
<1> DEFINE t == Table
<1>4. /\ t.index = [k \in {} |-> 0] /\ t.slots = <<>> /\ t.spare = <<>>
      /\ t.oldest = Nil /\ t.newest = Nil /\ IsTable(t)
  BY <1>2 DEF Table, IsTable
<1> HIDE DEF t
<1>5. Places(t) = {} /\ Taken(t) = {} /\ Len(t.spare) = 0 /\ DOMAIN t.index = {}
  BY <1>4 DEF Places, Taken
<1>6. Linked(t)
  BY <1>4, <1>5 DEF Linked, Link
<1>7. Ordered(t)
  <2> DEFINE rank == [i \in Nat |-> 0]
  <2>1. rank \in [Nat -> Nat] /\ 0 \in Nat /\ Ranked(t, rank, 0)
    BY <1>5 DEF Ranked
  <2> HIDE DEF rank
  <2> QED BY <2>1 DEF Ordered
<1>8. Filed(t)
  BY <1>4, <1>5 DEF Filed
<1> QED
  BY <1>1, <1>3, <1>4, <1>6, <1>7, <1>8 DEF RateInv, Sound, t

\* A request is a request of the ideal bucket, which may lose one other key.
LEMMA ConsumeOK ==
  ASSUME RateAssumptions, RateInv, NEW k \in Keys, Consume(k)
  PROVE  /\ RateInv'
         /\ \E lost \in Losses(k) : Ideal!Consume(k, lost)
<1> DEFINE t0 == Table
           t1 == Sweep(t0)
           t2 == Touched(t1, k)
           s == t2.index[k]
           r == Refilled(t2.slots[s].bucket)
           left == IF r >= Period THEN r - Period ELSE r
           z == Table'
<1>1. /\ index' = t2.index /\ spare' = t2.spare
      /\ oldest' = t2.oldest /\ newest' = t2.newest
      /\ slots' = [t2.slots EXCEPT ![s].bucket = [tokens |-> left, updated |-> now]]
      /\ verdict' = <<k, r >= Period>> /\ now' = now
  BY DEF Consume, Touched
<1>2. Sound(t0) /\ now \in 0 .. MaxTime /\ now \in Nat
  BY DEF RateInv, RateAssumptions, LimitsAssumption
<1>v. \A j : Value(t0, j) = Tokens(j)
  BY TokensAre
<1>z. /\ IsTable(z) /\ z.index = index' /\ z.slots = slots' /\ z.spare = spare'
      /\ z.oldest = oldest' /\ z.newest = newest'
  BY DEF Table, IsTable
<1> HIDE DEF t0, z
<1>3. Sound(t1) /\ \A j \in Keys : Value(t1, j) = Value(t0, j)
  BY <1>2, SweepKeeps
<1>t. t2 = Touched(t1, k)
  OBVIOUS
<1> HIDE DEF t1, t2
<1>4. Sound(t2) /\ k \in DOMAIN t2.index /\ Refilled(Bucket(t2, k)) = Value(t1, k)
  BY <1>2, <1>3, <1>t, TouchedIs
<1>5. PICK lost \in Losses(k) : Loses(t1, t2, k, lost)
  BY <1>2, <1>3, <1>t, TouchedIs
<1>l. /\ lost # {} => Value(t1, k) = Full /\ Cardinality(Keys) > MaxKeys
      /\ \A j \in Keys \ {k} :
           Value(t2, j) = IF j \in lost THEN Full ELSE Value(t1, j)
  BY <1>5 DEF Loses
<1>6. r = Tokens(k) /\ r \in 0 .. Full /\ left \in 0 .. Full
  <2>1. r = Value(t1, k) /\ r = Tokens(k)
    BY <1>3, <1>4, <1>v DEF Bucket
  <2>2. Value(t1, k) \in 0 .. Full
    BY <1>2, <1>3, ValueIs
  <2> HIDE DEF r
  <2>3. r \in 0 .. Full
    BY <2>1, <2>2
  <2>4. left \in 0 .. Full
    BY <2>3, Quota
  <2> QED BY <2>1, <2>3, <2>4
<1> HIDE DEF left, r
<1>7. Sound(z) /\ Value(z, k) = left /\ \A j \in Keys \ {k} : Value(z, j) = Value(t2, j)
  <2>1. z.slots = [t2.slots EXCEPT ![t2.index[k]].bucket = [tokens |-> left, updated |-> now]]
    BY <1>1, <1>z
  <2> HIDE DEF s
  <2> QED BY <1>1, <1>2, <1>4, <1>6, <1>z, <2>1, WriteKeeps
<1>8. RateInv'
  <2>1. Sound(Table)'
    BY <1>1, <1>7 DEF Sound, Filed, z
  <2> QED BY <1>1, <1>2, <2>1 DEF RateInv
<1>9. \A j : Tokens(j)' = Value(z, j)
  BY <1>1, <1>z DEF Tokens, Value, Bucket, Refilled
<1>10. Ideal!Consume(k, lost)
  <2>1. lost # {} => Tokens(k) = Full /\ Cardinality(Keys) > MaxKeys
    BY <1>3, <1>l, <1>v
  <2>2. Tokens(k)' = IF Tokens(k) >= Period THEN Tokens(k) - Period
                            ELSE Tokens(k)
    BY <1>6, <1>7, <1>9 DEF left
  <2>3. \A j \in Keys \ {k} :
          Tokens(j)' = IF j \in lost THEN Full ELSE Tokens(j)
    BY <1>3, <1>l, <1>7, <1>9, <1>v
  <2>4. k \notin lost
    BY DEF Losses
  <2>5. verdict' = <<k, Tokens(k) >= Period>>
    BY <1>1, <1>6
  <2>6. \A j \in Keys : Tokens(j)'
          = IF j = k /\ Tokens(k) >= Period THEN Tokens(k) - Period
            ELSE IF j \in lost THEN Full ELSE Tokens(j)
    BY <2>2, <2>3, <2>4
  <2> QED BY <2>1, <2>5, <2>6, IdealIs, IdealCardinalityIs DEF Ideal!Consume
<1> QED
  BY SMTT(30), <1>8, <1>10

\* A tick refills every bucket alike, in the table or not.
LEMMA TickOK ==
  ASSUME RateAssumptions, RateInv, Tick
  PROVE  RateInv' /\ Ideal!Tick
<1> DEFINE t == Table
<1>1. /\ now < MaxTime /\ now' = now + 1 /\ Table' = t /\ verdict' = verdict
      /\ index' = index /\ slots' = slots
  BY DEF Tick, Table
<1>2. Sound(t) /\ now \in 0 .. MaxTime /\ now \in Nat /\ MaxTime \in Nat
  BY DEF RateInv, RateAssumptions, LimitsAssumption
<1>3. RateInv'
  <2>1. Filed(t)'
    <3>1. \A i \in Taken(t) : t.slots[i].bucket.updated \in Nat
      BY <1>2, PlacesOf DEF Sound, Slot, BucketSlot
    <3>2. \A i \in Taken(t) : t.slots[i].bucket.updated <= now'
      BY <1>1, <1>2, <3>1 DEF Sound, Filed
    <3> QED BY <1>1, <1>2, <3>2 DEF Sound, Filed
  <2> QED BY <1>1, <1>2, <2>1 DEF RateInv, Sound
<1>4. ASSUME NEW k \in Keys
      PROVE  Tokens(k)' = MinOf(Tokens(k) + Capacity, Full)
  <2>1. CASE k \in DOMAIN index
    <3> DEFINE b == slots[index[k]].bucket
               d == now - b.updated
    <3>1. b \in [tokens : 0 .. Full, updated : Nat] /\ b.updated <= now
      BY <1>2, <2>1, BucketIs DEF Table, Bucket
    <3>2. Tokens(k) = MinOf(b.tokens + d * Capacity, Full)
      BY <2>1 DEF Tokens, Refilled
    <3>3. Tokens(k)' = MinOf(b.tokens + (now' - b.updated) * Capacity, Full)
      BY <1>1, <2>1 DEF Tokens, Refilled
    <3>4. d \in Nat /\ now' - b.updated = d + 1 /\ b.tokens \in Nat
      BY <1>1, <1>2, <3>1, Quota
    <3> HIDE DEF b, d
    <3>5. (d + 1) * Capacity = d * Capacity + Capacity /\ d * Capacity \in Nat
      BY <3>4, Quota
    <3> DEFINE g == d * Capacity
    <3> HIDE DEF g
    <3>6. MinOf(b.tokens + (g + Capacity), Full)
          = MinOf(MinOf(b.tokens + g, Full) + Capacity, Full)
      <4>1. g \in Nat
        BY <3>5 DEF g
      <4> QED BY <3>4, <4>1, Quota DEF MinOf
    <3> QED BY <3>2, <3>3, <3>4, <3>5, <3>6 DEF g
  <2>2. CASE k \notin DOMAIN index
    <3>1. Tokens(k) = Full /\ Tokens(k)' = Full
      BY <1>1, <2>2 DEF Tokens, Full
    <3> QED BY <3>1, Quota DEF MinOf
  <2> QED BY <2>1, <2>2
<1>5. Ideal!Tick
  BY <1>1, <1>4, IdealIs DEF Ideal!Tick
<1> QED
  BY <1>3, <1>5

LEMMA RateStutters ==
  ASSUME RateInv, UNCHANGED rateVars
  PROVE  RateInv' /\ UNCHANGED Ideal!bucketVars
<1>1. Table' = Table /\ now' = now /\ verdict' = verdict
      /\ index' = index /\ slots' = slots
  BY DEF rateVars, Table
<1>2. RateInv'
  BY <1>1 DEF RateInv, Sound, Filed
<1>3. UNCHANGED Ideal!bucketVars
  BY <1>1 DEF Ideal!bucketVars, Tokens, Refilled
<1> QED
  BY <1>2, <1>3

\* Every step keeps the table sound and maps to a step or a stutter.
LEMMA NextRates ==
  ASSUME RateAssumptions, RateInv, [LimitNext]_(rateVars)
  PROVE  RateInv' /\ [Ideal!Next]_(Ideal!bucketVars)
<1>1. CASE Tick
  BY <1>1, TickOK DEF Ideal!Next
<1>2. ASSUME NEW k \in Keys, Consume(k)
      PROVE  RateInv' /\ Ideal!Next
  BY <1>2, ConsumeOK DEF Losses, Ideal!Next
<1>3. CASE UNCHANGED rateVars
  BY <1>3, RateStutters
<1> QED
  BY <1>1, <1>2, <1>3 DEF LimitNext

\* A sound table has the module's type.
LEMMA RatesAreTyped ==
  ASSUME RateAssumptions, RateInv PROVE LimitTypeOK
<1> DEFINE t == Table
<1>1. /\ Sound(t) /\ now \in 0 .. MaxTime /\ t.index = index /\ t.slots = slots
      /\ t.spare = spare /\ t.oldest = oldest /\ t.newest = newest
  BY DEF RateInv, Table
<1> HIDE DEF t
<1>2. /\ DOMAIN t.slots = Places(t) /\ Taken(t) \subseteq Places(t) /\ Filed(t) /\ Linked(t)
  BY <1>1, PlacesOf DEF Sound
<1> QED
  BY <1>1, <1>2 DEF LimitTypeOK, Filed, Linked, Link, Slot

\* For any quota, bound, budget of the sweep and finite set of keys: the type
\* invariant, and the one shared table with its list, its sweep and its
\* evictions gives every key the decisions of a bucket of its own, and forgets
\* a key that is not idle only to make room for another.
THEOREM RateLimitsHold ==
  ASSUME RateAssumptions
  PROVE  LimitSpec => []LimitTypeOK /\ ImplementsTokenBuckets
<1>1. LimitInit => RateInv /\ Ideal!Init
  BY InitRates
<1>2. RateInv /\ [LimitNext]_(rateVars)
      => RateInv' /\ [Ideal!Next]_(Ideal!bucketVars)
  BY NextRates
<1>3. RateInv => LimitTypeOK
  BY RatesAreTyped
<1>4. ImplementsTokenBuckets
      <=> Ideal!Init /\ [][Ideal!Next]_(Ideal!bucketVars)
  BY DEF ImplementsTokenBuckets, Ideal!Spec
<1> QED
  BY <1>1, <1>2, <1>3, <1>4, PTL DEF LimitSpec

------------------------------------------------------------------------------
(* The MCP server over standard input.                                     *)

\* A frame that is to be heard; the others are rejected.
Readable(frame) == frame.utf8 /\ frame.length <= MaxMessageBytes

StdioReplies == [id : ReplyIds, code : Codes \cup {NoValue}]

\* A session that was opened by one of the first lines.
Greeted(fs, w, k) ==
  \E j \in 1 .. k :
    /\ fs[w[j].frame].message.method = "initialize"
    /\ w[j].reply.code = NoValue

\* What a line answers is what its frame asks for.
Fits(fs, w, i) ==
  LET m == fs[w[i].frame].message
      sound == Readable(fs[w[i].frame]) IN
  /\ ~sound => w[i].reply = Reply(JsonNull, "parse_error")
  /\ sound /\ m.form = "call" /\ m.id # BadId =>
       /\ m.id # JsonNull /\ w[i].reply.id = m.id
       /\ m.method \in Lists \cup Calls /\ w[i].reply.code = NoValue => Greeted(fs, w, i - 1)

StdioTyped ==
  /\ StdioTypeOK /\ next \in Nat
  /\ written \in Seq([frame : Nat, reply : StdioReplies])
  /\ report.messages \in Nat /\ report.responses \in Nat /\ report.notifications \in Nat

\* The buffer holds the bytes consumed until they are too many.
Buffered ==
  pc = "reading" =>
    /\ consumed \in Nat
    /\ tooLarge <=> consumed > MaxMessageBytes + 2
    /\ kept = IF tooLarge THEN 0 ELSE consumed

\* At most one frame is served after the stop, and then the loop looks.
LastFrame ==
  /\ overdue \in {0, 1}
  /\ overdue = 1 => stopped /\ pc \in {"check", "done"}

LinesFit ==
  /\ \A i \in 1 .. Len(written) : written[i].frame \in 1 .. next - 1 /\ Fits(input, written, i)
  /\ \A i, j \in 1 .. Len(written) : i < j => written[i].frame < written[j].frame
  /\ \A f \in 1 .. next - 1 :
       \/ Readable(input[f]) /\ IsNotification(input[f].message)
       \/ \E i \in 1 .. Len(written) : written[i].frame = f

Opened == life # "Uninitialized" => Greeted(input, written, Len(written))

StdioInv ==
  /\ StdioTyped /\ Buffered /\ LastFrame /\ LinesFit /\ Opened
  /\ report.messages = next - 1

\* What is wrong with a message is a reply, and nothing is wrong with a call.
LEMMA MalformedIs ==
  ASSUME NEW m, m.id \in ReplyIds
  PROVE  /\ Malformed(m) \in StdioReplies \cup {NoValue}
         /\ m.form = "call" /\ m.id # BadId => Malformed(m) = NoValue
<1>1. CASE m.form = "text"
  BY <1>1 DEF Malformed, Reply, StdioReplies, ReplyIds, Codes
<1>2. CASE m.form = "value"
  BY <1>2 DEF Malformed, Reply, StdioReplies, ReplyIds, Codes
<1>3. CASE m.form \in {"unversioned", "methodless", "result"}
  BY <1>3 DEF Malformed, Reply, StdioReplies, ReplyIds, Codes
<1>4. CASE m.form = "call" /\ m.id = BadId
  BY <1>4 DEF Malformed, Reply, StdioReplies, ReplyIds, Codes
<1>5. CASE ~(m.form \in {"text", "value", "unversioned", "methodless", "result"}
               \/ (m.form = "call" /\ m.id = BadId))
  BY <1>5 DEF Malformed
<1> QED BY <1>1, <1>2, <1>3, <1>4, <1>5

\* The checks of a method let a list or a call pass in a session that is ready.
LEMMA RefusalIs ==
  ASSUME NEW m
  PROVE  /\ Refusal(m, life) \in Codes \cup {NoValue}
         /\ Refusal(m, life) = NoValue /\ m.method \in Lists \cup Calls => life = "Ready"
         /\ Refusal(m, life) = NoValue /\ m.method = "initialize" => life = "Uninitialized"
<1>1. NoValue \notin Codes
  BY NoValueIsNoReply
<1>2. UnknownCode(m) \in Codes
  BY DEF UnknownCode, Codes
<1> QED BY <1>1, <1>2 DEF Refusal, Codes, Lists, Calls

\* What a call ends with is told as a code or as success.
LEMMA OutcomeIs ==
  ASSUME NEW m, NEW o \in Outcomes(m)
  PROVE  OutcomeCode(o) \in Codes \cup {NoValue}
<1>1. o \in {"success", "rejected", "domain_error", "streaming", "upgrade", "internal",
             "not_json", "own_error", "invalid_params"}
  <2>1. CASE m.method = "tools/call"
    BY <2>1 DEF Outcomes
  <2>2. CASE m.method = "resources/read"
    BY <2>2 DEF Outcomes
  <2>3. CASE m.method \notin {"tools/call", "resources/read"}
    BY <2>3 DEF Outcomes
  <2> QED BY <2>1, <2>2, <2>3
<1>2. CASE o \in {"success", "rejected", "domain_error"}
  BY <1>2 DEF OutcomeCode
<1>3. CASE o \in {"streaming", "upgrade", "internal", "not_json"}
  BY <1>3 DEF OutcomeCode, Codes
<1>4. CASE o \in {"own_error", "invalid_params"}
  BY <1>4 DEF OutcomeCode, Codes
<1> QED BY <1>1, <1>2, <1>3, <1>4

\* A frame's answer, and what it makes of the session.
LEMMA AnswerFits ==
  ASSUME NEW frame, frame.message.id \in ReplyIds, life \in Lifecycle, NEW r \in Answers(frame)
  PROVE  /\ r \in StdioReplies \cup {NoValue} /\ After(frame) \in Lifecycle
         /\ Rejected(frame) => r = Reply(JsonNull, "parse_error")
         /\ r = NoValue => ~Rejected(frame) /\ IsNotification(frame.message)
         /\ ~Rejected(frame) /\ frame.message.form = "call" /\ frame.message.id # BadId /\ r # NoValue =>
              /\ frame.message.id # JsonNull /\ r.id = frame.message.id
              /\ frame.message.method \in Lists \cup Calls /\ r.code = NoValue => life = "Ready"
         /\ After(frame) # "Uninitialized" =>
              life # "Uninitialized" \/ (frame.message.method = "initialize" /\ r # NoValue /\ r.code = NoValue)
<1> DEFINE m == frame.message
<1>1. Malformed(m) \in StdioReplies \cup {NoValue}
      /\ (m.form = "call" /\ m.id # BadId => Malformed(m) = NoValue)
  BY MalformedIs
<1>2. NoValue \notin StdioReplies /\ NoValue \notin Codes
  BY NoValueIsNoReply DEF StdioReplies
<1>3. /\ Refusal(m, life) \in Codes \cup {NoValue}
      /\ Refusal(m, life) = NoValue /\ m.method \in Lists \cup Calls => life = "Ready"
      /\ Refusal(m, life) = NoValue /\ m.method = "initialize" => life = "Uninitialized"
  BY RefusalIs
<1>4. m.id \in ReplyIds /\ JsonNull \in ReplyIds /\ "parse_error" \in Codes
  BY DEF ReplyIds, Codes
<1> HIDE DEF m
<1>5. \A c \in Codes \cup {NoValue} :
        /\ Reply(m.id, c) \in StdioReplies /\ Reply(m.id, c) # NoValue
        /\ Reply(m.id, c).id = m.id /\ Reply(m.id, c).code = c
  BY <1>2, <1>4 DEF Reply, StdioReplies
<1>6. Reply(JsonNull, "parse_error") \in StdioReplies
  BY <1>4 DEF Reply, StdioReplies
<1>7. CASE Rejected(frame)
  <2>1. r = Reply(JsonNull, "parse_error") /\ After(frame) = life
    BY <1>7 DEF Answers, After
  <2> QED BY <1>2, <1>6, <1>7, <2>1
<1>8. CASE ~Rejected(frame) /\ Malformed(m) # NoValue
  <2>1. r = Malformed(m) /\ After(frame) = life
    BY <1>8 DEF Answers, After, m
  <2> QED BY <1>1, <1>2, <1>8, <2>1 DEF m
<1>9. CASE ~Rejected(frame) /\ Malformed(m) = NoValue /\ IsNotification(m)
  <2>1. r = NoValue /\ After(frame) = AfterNotification(m, life)
    BY <1>9 DEF Answers, After, m
  <2>2. After(frame) \in Lifecycle /\ (life = "Uninitialized" => After(frame) = "Uninitialized")
    BY <2>1 DEF AfterNotification, Lifecycle
  <2> QED BY <1>9, <2>1, <2>2 DEF m
<1>10. CASE ~Rejected(frame) /\ Malformed(m) = NoValue /\ ~IsNotification(m)
  <2>1. After(frame) = AfterMethod(m, life)
    BY <1>10 DEF After, m
  <2>2. PICK c \in Codes \cup {NoValue} :
          /\ r = Reply(m.id, c)
          /\ c = Refusal(m, life) \/ (m.method \in Calls /\ Refusal(m, life) = NoValue)
    <3>1. CASE Starts(m, life)
      <4>1. PICK o \in Outcomes(m) : r = Reply(m.id, OutcomeCode(o))
        BY <1>10, <3>1 DEF Answers, m
      <4>2. OutcomeCode(o) \in Codes \cup {NoValue}
        BY <4>1, OutcomeIs
      <4> QED BY <3>1, <4>1, <4>2 DEF Starts
    <3>2. CASE ~Starts(m, life)
      <4>1. r = Reply(m.id, Refusal(m, life))
        BY <1>10, <3>2 DEF Answers, m
      <4> QED BY <1>3, <4>1
    <3> QED BY <3>1, <3>2
  <2>3. /\ r \in StdioReplies /\ r # NoValue /\ r.id = m.id /\ r.code = c
    BY <1>5, <2>2
  <2>4. After(frame) \in Lifecycle
    BY <2>1 DEF AfterMethod, Lifecycle
  <2>5. m.form = "call" => m.id # JsonNull
    BY <1>10 DEF IsNotification
  <2>6. m.method \in Lists \cup Calls /\ r.code = NoValue => life = "Ready"
    BY <1>3, <2>2, <2>3
  <2>7. After(frame) # "Uninitialized" /\ life = "Uninitialized" =>
          m.method = "initialize" /\ r.code = NoValue
    <3>1. "initialize" \notin Calls
      BY DEF Calls
    <3> QED BY <2>1, <2>2, <2>3, <3>1 DEF AfterMethod
  <2> QED BY <1>10, <2>3, <2>4, <2>5, <2>6, <2>7 DEF m
<1> QED BY <1>7, <1>8, <1>9, <1>10

\* However the buffer cut it, a frame is rejected exactly when it is not sound.
LEMMA RejectsRightly ==
  ASSUME StdioInv, pc = "reading", next <= Len(input), consumed = Size(input[next])
  PROVE  /\ input \in FrameLists /\ next \in 1 .. Len(input) /\ input[next].message.id \in ReplyIds
         /\ Rejected(input[next]) <=> ~Readable(input[next])
<1>1. /\ input \in FrameLists /\ next \in 1 .. Len(input) /\ DOMAIN input = 1 .. Len(input)
      /\ Len(input) \in Nat
  BY InputsAreFrames DEF StdioInv, StdioTyped, StdioTypeOK
<1>2. input[next].length \in Nat /\ input[next].end \in {"lf", "crlf", "eof"}
  BY <1>1, InputsAreFrames DEF EndBytes
<1>3. input[next].message.id \in ReplyIds
  BY <1>1 DEF ReplyIds
<1>4. EndBytes[input[next].end] \in 0 .. 2
  BY <1>2 DEF EndBytes
<1>5. consumed = input[next].length + EndBytes[input[next].end]
  BY DEF Size
<1>6. /\ tooLarge <=> consumed > MaxMessageBytes + 2
      /\ kept = IF tooLarge THEN 0 ELSE consumed
  BY DEF StdioInv, Buffered
<1>7. FrameIsTooLarge(input[next]) <=> input[next].length > MaxMessageBytes
  BY SMTT(30), <1>2, <1>4, <1>5, <1>6, LimitsAreNumbers DEF FrameIsTooLarge
<1> QED BY <1>1, <1>2, <1>3, <1>7, LimitsAreNumbers DEF Rejected, Readable

\* The beginning satisfies the invariant.
LEMMA StdioStarts == StdioInit => StdioInv
<1> SUFFICES ASSUME StdioInit PROVE StdioInv
  OBVIOUS
<1>1. Len(input) \in Nat /\ Len(written) = 0
  BY InputsAreFrames DEF StdioInit
<1>2. StdioTyped
  <2>1. next = 1 /\ next \in 1 .. Len(input) + 1
    BY <1>1 DEF StdioInit
  <2>2. written \in Seq([frame : Nat, reply : StdioReplies])
    BY DEF StdioInit
  <2>3. report.messages = 0 /\ report.responses = 0 /\ report.notifications = 0
    BY DEF StdioInit, NoReport
  <2>4. kept \in 0 .. MaxMessageBytes + 2
    BY LimitsAreNumbers DEF StdioInit
  <2>5. stopped \in BOOLEAN /\ tooLarge \in BOOLEAN /\ life \in Lifecycle /\ pc = "check" /\ input \in FrameLists
    BY DEF StdioInit, Lifecycle
  <2> QED BY <2>1, <2>2, <2>3, <2>4, <2>5 DEF StdioTyped, StdioTypeOK
<1>3. Buffered /\ LastFrame /\ Opened
  BY DEF StdioInit, Buffered, LastFrame, Opened
<1>4. LinesFit /\ report.messages = next - 1
  BY <1>1 DEF StdioInit, LinesFit, NoReport
<1> QED BY <1>2, <1>3, <1>4 DEF StdioInv

\* A frame that is served.
LEMMA ServeSteps == ASSUME StdioInv, Serve PROVE StdioInv'
<1> DEFINE frame == input[next]
<1>1. /\ pc = "reading" /\ next \in 1 .. Len(input) /\ consumed = Size(frame) /\ input \in FrameLists
      /\ frame.message.id \in ReplyIds /\ (Rejected(frame) <=> ~Readable(input[next])) /\ Len(input) \in Nat
  BY RejectsRightly, InputsAreFrames DEF Serve, StdioInv, StdioTyped, StdioTypeOK
<1>2. PICK r \in Answers(frame) :
        /\ life' = After(frame) /\ next' = next + 1 /\ pc' \in {"check", "done"}
        /\ written' = IF r = NoValue THEN written ELSE Append(written, [frame |-> next, reply |-> r])
        /\ report'.messages = report.messages + 1
        /\ report'.responses = report.responses + (IF r = NoValue THEN 0 ELSE 1)
        /\ report'.notifications = report.notifications + (IF r = NoValue THEN 1 ELSE 0)
        /\ overdue' = (IF stopped THEN overdue + 1 ELSE overdue)
        /\ UNCHANGED <<input, stopped, consumed, kept, tooLarge>>
  BY DEF Serve
<1>3. life \in Lifecycle
  BY DEF StdioInv, StdioTyped, StdioTypeOK
<1> HIDE DEF frame
<1>4. /\ r \in StdioReplies \cup {NoValue} /\ After(frame) \in Lifecycle
      /\ Rejected(frame) => r = Reply(JsonNull, "parse_error")
      /\ r = NoValue => ~Rejected(frame) /\ IsNotification(frame.message)
      /\ ~Rejected(frame) /\ frame.message.form = "call" /\ frame.message.id # BadId /\ r # NoValue =>
           /\ frame.message.id # JsonNull /\ r.id = frame.message.id
           /\ frame.message.method \in Lists \cup Calls /\ r.code = NoValue => life = "Ready"
      /\ After(frame) # "Uninitialized" =>
           life # "Uninitialized" \/ (frame.message.method = "initialize" /\ r # NoValue /\ r.code = NoValue)
  BY <1>1, <1>2, <1>3, AnswerFits
<1>5. /\ written \in Seq([frame : Nat, reply : StdioReplies]) /\ Len(written) \in Nat /\ next \in Nat
  BY DEF StdioInv, StdioTyped
<1>6. /\ Len(written') = Len(written) + (IF r = NoValue THEN 0 ELSE 1)
      /\ \A i \in 1 .. Len(written) : written'[i] = written[i]
      /\ r # NoValue => written'[Len(written) + 1] = [frame |-> next, reply |-> r]
      /\ written' \in Seq([frame : Nat, reply : StdioReplies])
  <2>1. CASE r = NoValue
    BY <1>2, <1>5, <2>1
  <2>2. CASE r # NoValue
    <3>1. [frame |-> next, reply |-> r] \in [frame : Nat, reply : StdioReplies]
      BY <1>4, <1>5, <2>2
    <3>2. written' = Append(written, [frame |-> next, reply |-> r])
      BY <1>2, <2>2
    <3> QED BY <1>5, <2>2, <3>1, <3>2
  <2> QED BY <2>1, <2>2
<1>8. \A k \in 0 .. Len(written) : Greeted(input, written', k) <=> Greeted(input, written, k)
  <2> SUFFICES ASSUME NEW k \in 0 .. Len(written)
               PROVE  Greeted(input, written', k) <=> Greeted(input, written, k)
    OBVIOUS
  <2>1. \A j \in 1 .. k : written'[j] = written[j]
    BY <1>5, <1>6
  <2> QED BY <2>1 DEF Greeted
<1>9. StdioTyped'
  <2>1. report'.messages \in Nat /\ report'.responses \in Nat /\ report'.notifications \in Nat
        /\ report'.messages = report'.responses + report'.notifications
    <3>1. /\ report.messages \in Nat /\ report.responses \in Nat /\ report.notifications \in Nat
          /\ report.messages = report.responses + report.notifications
      BY DEF StdioInv, StdioTyped, StdioTypeOK
    <3>2. CASE r = NoValue
      <4>1. /\ report'.messages = report.messages + 1
            /\ report'.responses = report.responses + 0
            /\ report'.notifications = report.notifications + 1
        BY <1>2, <3>2
      <4> QED BY <3>1, <4>1
    <3>3. CASE r # NoValue
      <4>1. /\ report'.messages = report.messages + 1
            /\ report'.responses = report.responses + 1
            /\ report'.notifications = report.notifications + 0
        BY <1>2, <3>3
      <4> QED BY <3>1, <4>1
    <3> QED BY <3>2, <3>3
  <2>2. next' \in 1 .. Len(input) + 1 /\ next' \in Nat
    BY <1>1, <1>2
  <2>3. life' \in Lifecycle /\ pc' \in {"check", "reading", "done"}
    BY <1>2, <1>4
  <2>4. /\ input \in FrameLists /\ stopped \in BOOLEAN /\ kept \in 0 .. MaxMessageBytes + 2 /\ tooLarge \in BOOLEAN
    BY DEF StdioInv, StdioTyped, StdioTypeOK
  <2> QED BY <1>2, <1>6, <2>1, <2>2, <2>3, <2>4 DEF StdioTyped, StdioTypeOK
<1>10. Buffered' /\ LastFrame'
  <2>1. Buffered'
    BY <1>2 DEF Buffered
  <2>2. overdue = 0
    BY <1>1 DEF StdioInv, LastFrame
  <2> QED BY <1>2, <2>1, <2>2 DEF LastFrame
<1>11. report'.messages = next' - 1
  BY <1>1, <1>2 DEF StdioInv
<1>12. \A i \in 1 .. Len(written) :
         written[i].frame \in 1 .. next - 1 /\ Fits(input, written', i)
  <2> SUFFICES ASSUME NEW i \in 1 .. Len(written)
               PROVE  written[i].frame \in 1 .. next - 1 /\ Fits(input, written', i)
    OBVIOUS
  <2>1. written[i].frame \in 1 .. next - 1 /\ Fits(input, written, i)
    BY DEF StdioInv, LinesFit
  <2>2. i - 1 \in 0 .. Len(written)
    BY <1>5
  <2>3. written'[i] = written[i]
        /\ (Greeted(input, written', i - 1) <=> Greeted(input, written, i - 1))
    BY <1>6, <1>8, <2>2
  <2> QED BY <2>1, <2>3 DEF Fits
<1>13. r # NoValue => Fits(input, written', Len(written) + 1)
  <2> SUFFICES ASSUME r # NoValue PROVE Fits(input, written', Len(written) + 1)
    OBVIOUS
  <2>1. written'[Len(written) + 1].frame = next /\ written'[Len(written) + 1].reply = r
    BY <1>6
  <2>2. life = "Ready" => Greeted(input, written', Len(written))
    <3>1. life = "Ready" => Greeted(input, written, Len(written))
      BY DEF StdioInv, Opened
    <3>2. Len(written) \in 0 .. Len(written)
      BY <1>5
    <3> QED BY <1>8, <3>1, <3>2
  <2>3. (Len(written) + 1) - 1 = Len(written)
    BY <1>5
  <2>4. Readable(input[next]) <=> ~Rejected(frame)
    BY <1>1
  <2> QED BY <1>4, <2>1, <2>2, <2>3, <2>4 DEF Fits, frame
<1>14. LinesFit'
  <2>1. \A i \in 1 .. Len(written') : written'[i].frame \in 1 .. next' - 1 /\ Fits(input, written', i)
    <3> SUFFICES ASSUME NEW i \in 1 .. Len(written') PROVE written'[i].frame \in 1 .. next' - 1 /\ Fits(input, written', i)
      OBVIOUS
    <3>1. CASE i \in 1 .. Len(written)
      BY <1>1, <1>2, <1>5, <1>6, <1>12, <3>1
    <3>2. CASE i \notin 1 .. Len(written)
      <4>1. i = Len(written) + 1 /\ r # NoValue
        BY <1>5, <1>6, <3>2
      <4> QED BY <1>1, <1>2, <1>5, <1>6, <1>13, <4>1
    <3> QED BY <3>1, <3>2
  <2>2. \A i, j \in 1 .. Len(written') : i < j => written'[i].frame < written'[j].frame
    <3> SUFFICES ASSUME NEW i \in 1 .. Len(written'), NEW j \in 1 .. Len(written'), i < j
                 PROVE  written'[i].frame < written'[j].frame
      OBVIOUS
    <3>1. i \in 1 .. Len(written) /\ written'[i] = written[i]
      BY <1>5, <1>6
    <3>2. CASE j \in 1 .. Len(written)
      BY <1>6, <3>1, <3>2 DEF StdioInv, LinesFit
    <3>3. CASE j \notin 1 .. Len(written)
      <4>1. written'[j].frame = next
        BY <1>5, <1>6, <3>3
      <4>2. written[i].frame \in 1 .. next - 1
        BY <1>12, <3>1
      <4> QED BY <1>1, <3>1, <4>1, <4>2
    <3> QED BY <3>2, <3>3
  <2>3. ASSUME NEW f \in 1 .. next
        PROVE  \/ Readable(input[f]) /\ IsNotification(input[f].message)
               \/ \E i \in 1 .. Len(written') : written'[i].frame = f
    <3>1. CASE f \in 1 .. next - 1
      <4>1. CASE \E i \in 1 .. Len(written) : written[i].frame = f
        <5>1. PICK i \in 1 .. Len(written) : written[i].frame = f
          BY <4>1
        <5>2. i \in 1 .. Len(written') /\ written'[i].frame = f
          BY <1>5, <1>6, <5>1
        <5> QED BY <5>2
      <4>2. CASE ~\E i \in 1 .. Len(written) : written[i].frame = f
        BY <3>1, <4>2 DEF StdioInv, LinesFit
      <4> QED BY <4>1, <4>2
    <3>2. CASE f = next
      <4>1. CASE r = NoValue
        BY <1>1, <1>4, <3>2, <4>1 DEF frame
      <4>2. CASE r # NoValue
        <5>1. Len(written) + 1 \in 1 .. Len(written') /\ written'[Len(written) + 1].frame = f
          BY <1>5, <1>6, <3>2, <4>2
        <5> QED BY <5>1
      <4> QED BY <4>1, <4>2
    <3> QED BY <1>5, <3>1, <3>2
  <2>4. \A f \in 1 .. next' - 1 :
          \/ Readable(input[f]) /\ IsNotification(input[f].message)
          \/ \E i \in 1 .. Len(written') : written'[i].frame = f
    <3>1. next' - 1 = next
      BY <1>2, <1>5
    <3> QED BY <2>3, <3>1
  <2>5. input' = input
    BY <1>2
  <2> QED BY <2>1, <2>2, <2>4, <2>5 DEF LinesFit
<1>15. Opened'
  <2> SUFFICES ASSUME life' # "Uninitialized" PROVE Greeted(input, written', Len(written'))
    BY <1>2 DEF Opened
  <2>1. CASE life # "Uninitialized"
    <3>1. PICK j \in 1 .. Len(written) :
            input[written[j].frame].message.method = "initialize" /\ written[j].reply.code = NoValue
      BY <2>1 DEF StdioInv, Opened, Greeted
    <3>2. j \in 1 .. Len(written') /\ written'[j] = written[j]
      BY SMTT(30), <1>5, <1>6
    <3> QED BY <3>1, <3>2 DEF Greeted
  <2>2. CASE life = "Uninitialized"
    <3>1. frame.message.method = "initialize" /\ r # NoValue /\ r.code = NoValue
      BY <1>2, <1>4, <2>2
    <3>2. Len(written) + 1 \in 1 .. Len(written')
          /\ written'[Len(written) + 1].frame = next /\ written'[Len(written) + 1].reply = r
      BY <1>5, <1>6, <3>1
    <3> QED BY <3>1, <3>2 DEF Greeted, frame
  <2> QED BY <2>1, <2>2
<1> QED BY <1>9, <1>10, <1>11, <1>14, <1>15 DEF StdioInv

\* Every step preserves the invariant.
LEMMA StdioSteps == StdioInv /\ [StdioNext]_stdioVars => StdioInv'
<1> SUFFICES ASSUME StdioInv, [StdioNext]_stdioVars PROVE StdioInv'
  OBVIOUS
<1>q. ASSUME UNCHANGED <<input, next, life, written>>,
             report'.messages = report.messages, report'.responses = report.responses,
             report'.notifications = report.notifications,
             StdioTypeOK', Buffered', LastFrame'
      PROVE  StdioInv'
  <2>1. StdioTyped'
    BY <1>q DEF StdioInv, StdioTyped
  <2>2. LinesFit' /\ Opened' /\ report'.messages = next' - 1
    BY <1>q DEF StdioInv, LinesFit, Fits, Readable, Greeted, Opened
  <2> QED BY <1>q, <2>1, <2>2 DEF StdioInv
<1>t. StdioTypeOK /\ Buffered /\ LastFrame
  BY DEF StdioInv, StdioTyped
<1>1. CASE StopRequested
  BY <1>1, <1>q, <1>t DEF StopRequested, StdioTypeOK, Buffered, LastFrame
<1>2. ASSUME NEW why, Terminate(why) PROVE StdioInv'
  <2>1. UNCHANGED <<input, next, life, written, stopped, consumed, kept, tooLarge, overdue>> /\ pc' = "done"
    BY <1>2 DEF Terminate
  <2>2. report' = [report EXCEPT !.termination = why]
    BY <1>2 DEF Terminate
  <2>3. report'.messages = report.messages /\ report'.responses = report.responses
        /\ report'.notifications = report.notifications
    BY <2>2
  <2>4. StdioTypeOK'
    BY <1>t, <2>1, <2>3 DEF StdioTypeOK
  <2>5. Buffered' /\ LastFrame'
    BY <1>t, <2>1 DEF Buffered, LastFrame
  <2> QED BY <1>q, <2>1, <2>3, <2>4, <2>5
<1>3. CASE TestLimits
  <2>1. CASE pc' = "reading"
    <3>1. /\ UNCHANGED <<input, next, life, written, report, stopped, overdue>> /\ ~stopped
          /\ consumed' = 0 /\ kept' = 0 /\ tooLarge' = FALSE
      BY <1>3, <2>1 DEF TestLimits, Terminate
    <3>2. StdioTypeOK'
      <4>1. kept' \in 0 .. MaxMessageBytes + 2
        BY <3>1, LimitsAreNumbers
      <4>2. tooLarge' \in BOOLEAN
        BY <3>1
      <4> QED BY <1>t, <2>1, <3>1, <4>1, <4>2 DEF StdioTypeOK
    <3>3. Buffered'
      <4>1. consumed' \in Nat /\ ~(consumed' > MaxMessageBytes + 2)
        BY <3>1, LimitsAreNumbers
      <4> QED BY <3>1, <4>1 DEF Buffered
    <3>4. LastFrame'
      BY <1>t, <3>1 DEF LastFrame
    <3> QED BY <1>q, <3>1, <3>2, <3>3, <3>4
  <2>2. CASE pc' # "reading"
    BY <1>2, <1>3, <2>2 DEF TestLimits
  <2> QED BY <2>1, <2>2
<1>4. CASE EndOfInput
  BY <1>2, <1>4 DEF EndOfInput
<1>5. CASE Fill
  <2>1. PICK n \in 1 .. Size(input[next]) - consumed :
          /\ consumed' = consumed + n
          /\ IF tooLarge \/ kept + n > MaxMessageBytes + 2
             THEN tooLarge' = TRUE /\ kept' = 0
             ELSE tooLarge' = tooLarge /\ kept' = kept + n
    BY <1>5 DEF Fill
  <2>2. UNCHANGED <<input, stopped, pc, next, life, written, report, overdue>> /\ pc = "reading"
    BY <1>5 DEF Fill
  <2>3. /\ consumed \in Nat /\ (tooLarge <=> consumed > MaxMessageBytes + 2)
        /\ kept = (IF tooLarge THEN 0 ELSE consumed)
    BY <1>t, <2>2 DEF Buffered
  <2>4. n \in Nat /\ n >= 1
    OBVIOUS
  <2>5. /\ consumed' \in Nat /\ (tooLarge' <=> consumed' > MaxMessageBytes + 2)
        /\ kept' = (IF tooLarge' THEN 0 ELSE consumed') /\ tooLarge' \in BOOLEAN
        /\ kept' \in 0 .. MaxMessageBytes + 2
    <3>1. /\ consumed' \in Nat /\ 0 \in 0 .. MaxMessageBytes + 2
          /\ consumed > MaxMessageBytes + 2 => consumed' > MaxMessageBytes + 2
          /\ consumed + n > MaxMessageBytes + 2 <=> consumed' > MaxMessageBytes + 2
          /\ ~(consumed + n > MaxMessageBytes + 2) => consumed + n \in 0 .. MaxMessageBytes + 2
      BY <2>1, <2>3, <2>4, LimitsAreNumbers
    <3>2. CASE tooLarge
      <4>1. consumed > MaxMessageBytes + 2 /\ tooLarge' = TRUE /\ kept' = 0
        BY <2>1, <2>3, <3>2
      <4> QED BY <3>1, <4>1
    <3>3. CASE ~tooLarge /\ consumed + n > MaxMessageBytes + 2
      <4>1. tooLarge' = TRUE /\ kept' = 0
        BY <2>1, <2>3, <3>3
      <4> QED BY <3>1, <3>3, <4>1
    <3>4. CASE ~tooLarge /\ ~(consumed + n > MaxMessageBytes + 2)
      <4>1. tooLarge' = tooLarge /\ kept' = consumed + n /\ tooLarge \in BOOLEAN
        BY <1>t, <2>1, <2>3, <3>4 DEF StdioTypeOK
      <4>2. kept' = consumed'
        BY <2>1, <4>1
      <4>3. tooLarge' = FALSE
        BY <3>4, <4>1
      <4> QED BY <3>1, <3>4, <4>1, <4>2, <4>3
    <3> QED BY <3>2, <3>3, <3>4
  <2>6. StdioTypeOK' /\ Buffered' /\ LastFrame'
    BY <1>t, <2>2, <2>5 DEF StdioTypeOK, Buffered, LastFrame
  <2> QED BY <1>q, <2>2, <2>6
<1>6. CASE Serve
  BY <1>6, ServeSteps
<1>7. CASE UNCHANGED stdioVars
  BY <1>7, <1>q, <1>t DEF stdioVars, StdioTypeOK, Buffered, LastFrame
<1> QED BY <1>1, <1>3, <1>4, <1>5, <1>6, <1>7 DEF StdioNext

\* The invariant is what the loop promises.
LEMMA StdioKeepsItsWord == StdioInv => FramesAreAnswered
<1> SUFFICES ASSUME StdioInv PROVE FramesAreAnswered
  OBVIOUS
<1>1. StdioTypeOK /\ LinesFit /\ LastFrame /\ report.messages = next - 1
  BY DEF StdioInv, StdioTyped
<1>2. Len(written) \in Nat
  BY DEF StdioInv, StdioTyped
<1>3. overdue <= 1
  BY <1>1 DEF LastFrame
<1>4. \A i \in 1 .. Len(written) : i > 1 => written[i - 1].frame < written[i].frame
  <2> SUFFICES ASSUME NEW i \in 1 .. Len(written), i > 1 PROVE written[i - 1].frame < written[i].frame
    OBVIOUS
  <2>1. i - 1 \in 1 .. Len(written) /\ i - 1 < i
    BY <1>2
  <2> QED BY <1>1, <2>1 DEF LinesFit
<1>5. \A i \in 1 .. Len(written) : Fits(input, written, i)
  BY <1>1 DEF LinesFit
<1>6. \A f \in 1 .. next - 1 :
       (\A i \in 1 .. Len(written) : written[i].frame # f) =>
         input[f].utf8 /\ input[f].length <= MaxMessageBytes /\ IsNotification(input[f].message)
  BY <1>1 DEF LinesFit, Readable
<1> QED BY <1>1, <1>3, <1>4, <1>5, <1>6 DEF FramesAreAnswered, Fits, Greeted, Readable

\* The loop over standard input, for any frames, any sizes of the buffer, any limits and
\* whenever the stop is requested.
THEOREM EveryFrameIsAnswered == StdioSpec => []FramesAreAnswered
<1>1. StdioSpec => []StdioInv
  BY StdioStarts, StdioSteps, PTL DEF StdioSpec
<1> QED BY <1>1, StdioKeepsItsWord, PTL

===============================================================================
