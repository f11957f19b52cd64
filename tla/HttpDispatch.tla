---------------------------- MODULE HttpDispatch ----------------------------
(***************************************************************************)
(* Dispatcher::dispatch (crates/blazingly-http/src/lib.rs): a request      *)
(* passes on_request of the layers in their order, the router, on_operation*)
(* of the layers, the security guard, the body check and the operation,    *)
(* and whatever answers it passes on_response of the layers in reverse.    *)
(* With an empty chain this is dispatch_unlayered.                         *)
(*                                                                         *)
(* The layers modelled are Observability (crates/blazingly-observability), *)
(* whose counters all workers share and whose two halves meet in the       *)
(* request's context, Security, which answers from on_operation, and a     *)
(* limiter, which answers from on_request.  Between two steps of one       *)
(* request other workers run theirs; only the invocation suspends, and an  *)
(* adapter may drop a suspended dispatch (http2.rs StreamWork::poll).      *)
(***************************************************************************)
EXTENDS Integers, Sequences, FiniteSets

CONSTANTS
  Requests, \* requests dispatched, by any worker
  Chains    \* HttpApp.middleware: the chains of layers, one is chosen

Kinds == {"observability", "security", "limiter"}
Scopes == {"all", "prefix", "operation"}

\* What an instance must satisfy; the module that makes it assumes so.
ChainsAssumption ==
  \A c \in Chains :
    /\ c \in Seq([kind : Kinds, scope : Scopes])
    /\ Cardinality({i \in 1..Len(c) : c[i].kind = "observability"}) <= 1

\* The classes of responses that are counted; the status of a protocol switch
\* (101) is in none of them.
Classes == {"2xx", "3xx", "4xx", "5xx"}

VARIABLES
  chain,      \* the layers of the application
  about,      \* what the request is and what its route will be
  stage,      \* where the dispatch is
  layer,      \* the layer that is next in its loop
  known,      \* site.operation is Some
  telemetry,  \* the RequestTelemetry in the request's context
  status,     \* the class of the response that is being completed
  requests,   \* Metrics.requests
  gauge,      \* Metrics.in_flight
  responses,  \* Metrics.responses_2xx .. responses_5xx, and errors
  errors

dispatchVars == <<chain, about, stage, layer, known, telemetry, status, requests,
                  gauge, responses, errors>>
metrics == <<requests, gauge, responses, errors>>

\* A request: its path is under the prefix of the scopes, it is a scrape of
\* the metrics path, and how routing will end: with an operation, which the
\* predicates of the scopes select or do not and which may declare security.
Operations == {"selected", "other"}
Routes == {"bad_target", "asset", "miss"} \union Operations
About ==
  {a \in [inside : BOOLEAN, scrape : BOOLEAN, route : Routes, secured : BOOLEAN] :
     (a.secured => a.route \in Operations) /\ (a.scrape => a.route = "miss")}

DispatchTypeOK ==
  /\ chain \in Chains
  /\ about \in [Requests -> About]
  /\ stage \in [Requests -> {"new", "request", "operation", "invoke", "response",
                             "done", "dropped"}]
  /\ layer \in [Requests -> 0 .. Len(chain) + 1]
  /\ known \in [Requests -> BOOLEAN]
  /\ telemetry \in [Requests -> {"none", "counted", "scrape"}]
  /\ status \in [Requests -> Classes \union {"1xx", "none"}]
  /\ requests \in Nat /\ gauge \in Int /\ errors \in Nat
  /\ responses \in [Classes -> Nat]

DispatchInit ==
  /\ chain \in Chains
  /\ about \in [Requests -> About]
  /\ stage = [r \in Requests |-> "new"]
  /\ layer = [r \in Requests |-> 0]
  /\ known = [r \in Requests |-> FALSE]
  /\ telemetry = [r \in Requests |-> "none"]
  /\ status = [r \in Requests |-> "none"]
  /\ requests = 0 /\ gauge = 0 /\ errors = 0
  /\ responses = [c \in Classes |-> 0]

------------------------------------------------------------------------------
(* Scopes *)

MatchesPath(l, r) == l.scope = "prefix" => about[r].inside

\* Before routing a scope with an operation predicate matches nothing.
MatchesRequest(l, r) == l.scope # "operation" /\ MatchesPath(l, r)

MatchesOperation(l, r) ==
  MatchesPath(l, r) /\ (l.scope = "operation" => about[r].route = "selected")

\* ScopedMiddleware::matches.
Matches(l, r) == IF known[r] THEN MatchesOperation(l, r) ELSE MatchesRequest(l, r)
------------------------------------------------------------------------------
(* Dispatch *)

\* The loop of the stage has come to a layer.
At(r, s) == stage[r] = s /\ layer[r] \in 1 .. Len(chain)

\* Every early return goes through complete_response: the layers in reverse.
Complete(r, class) ==
  /\ stage' = [stage EXCEPT ![r] = "response"]
  /\ layer' = [layer EXCEPT ![r] = Len(chain)]
  /\ status' = [status EXCEPT ![r] = class]

Pass(r) ==
  /\ layer' = [layer EXCEPT ![r] = @ + 1]
  /\ UNCHANGED <<stage, status>>

Enter(r, s) ==
  /\ stage' = [stage EXCEPT ![r] = s]
  /\ layer' = [layer EXCEPT ![r] = 1]
  /\ UNCHANGED status

\* The request arrives and its context is made.
Arrive(r) ==
  /\ stage[r] = "new"
  /\ Enter(r, "request")
  /\ UNCHANGED <<chain, about, known, telemetry, metrics>>

\* Observability::on_request: a scrape is not counted, and answered here.
Observe(r) ==
  /\ telemetry' = [telemetry EXCEPT ![r] = IF about[r].scrape THEN "scrape" ELSE "counted"]
  /\ IF about[r].scrape
     THEN UNCHANGED <<requests, gauge>> /\ Complete(r, "2xx")
     ELSE requests' = requests + 1 /\ gauge' = gauge + 1 /\ Pass(r)

\* on_request of one layer; the limiter answers or lets through.
OnRequest(r) ==
  /\ At(r, "request")
  /\ LET l == chain[layer[r]] IN
     \/ /\ MatchesRequest(l, r) /\ l.kind = "observability"
        /\ Observe(r)
     \/ /\ MatchesRequest(l, r) /\ l.kind = "limiter"
        /\ Complete(r, "4xx") /\ UNCHANGED <<telemetry, requests, gauge>>
     \/ /\ l.kind = "observability" => ~MatchesRequest(l, r)
        /\ Pass(r) /\ UNCHANGED <<telemetry, requests, gauge>>
  /\ UNCHANGED <<chain, about, known, responses, errors>>

\* The target is validated, the documents are served, the route is found.
Route(r) ==
  /\ stage[r] = "request" /\ layer[r] > Len(chain)
  /\ \/ about[r].route \in {"bad_target", "miss"} /\ Complete(r, "4xx") /\ UNCHANGED known
     \/ about[r].route = "asset" /\ Complete(r, "2xx") /\ UNCHANGED known
     \/ /\ about[r].route \in Operations
        /\ known' = [known EXCEPT ![r] = TRUE]
        /\ Enter(r, "operation")
  /\ UNCHANGED <<chain, about, telemetry, metrics>>

\* on_operation of one layer; only Security has one, and it may answer.
OnOperation(r) ==
  /\ At(r, "operation")
  /\ \/ Pass(r)
     \/ /\ Matches(chain[layer[r]], r) /\ chain[layer[r]].kind = "security"
        /\ about[r].secured
        /\ \E class \in {"4xx", "5xx"} : Complete(r, class)
  /\ UNCHANGED <<chain, about, known, telemetry, metrics>>

\* security_guard and the body check: an operation that declares security
\* needs a layer in scope that may verify it (verifies_security, whose default
\* these layers keep).
Guard(r) ==
  /\ stage[r] = "operation" /\ layer[r] > Len(chain)
  /\ LET verified == \E i \in 1..Len(chain) : Matches(chain[i], r) IN
     \/ about[r].secured /\ ~verified /\ Complete(r, "5xx")
     \/ /\ about[r].secured => verified
        /\ Complete(r, "4xx") \/ Enter(r, "invoke")
  /\ UNCHANGED <<chain, about, known, telemetry, metrics>>

\* The operation answers, with any class of status, or 101 for an upgrade.
Answer(r) ==
  /\ stage[r] = "invoke"
  /\ \E class \in Classes \union {"1xx"} : Complete(r, class)
  /\ UNCHANGED <<chain, about, known, telemetry, metrics>>

\* The adapter drops a dispatch that is suspended in its invocation: the peer
\* reset the stream, or the connection is gone.  Nothing of the chain runs.
Drop(r) ==
  /\ stage[r] = "invoke"
  /\ stage' = [stage EXCEPT ![r] = "dropped"]
  /\ UNCHANGED <<chain, about, layer, known, telemetry, status, metrics>>

\* Mutant: a scrape is finished like any request.
FinishAlways(r) ==
  /\ gauge' = gauge - 1
  /\ LET class == IF status[r] \in Classes THEN status[r] ELSE "5xx" IN
       responses' = [responses EXCEPT ![class] = @ + 1]
  /\ errors' = IF status[r] \in {"4xx", "5xx"} THEN errors + 1 ELSE errors
  /\ UNCHANGED requests

\* Metrics::finish, for the request that on_request has counted.
Finish(r) ==
  IF telemetry[r] = "counted"
  THEN /\ gauge' = gauge - 1
       /\ LET class == IF status[r] \in Classes THEN status[r] ELSE "5xx" IN
            responses' = [responses EXCEPT ![class] = @ + 1]
       /\ errors' = IF status[r] \in {"4xx", "5xx"} THEN errors + 1 ELSE errors
       /\ UNCHANGED requests
  ELSE UNCHANGED metrics

\* on_response of one layer.
OnResponse(r) ==
  /\ At(r, "response")
  /\ layer' = [layer EXCEPT ![r] = @ - 1]
  /\ LET l == chain[layer[r]] IN
     IF Matches(l, r) /\ l.kind = "observability"
     THEN Finish(r)
     ELSE UNCHANGED metrics
  /\ UNCHANGED <<chain, about, stage, known, telemetry, status>>

\* The response leaves the dispatcher.
Return(r) ==
  /\ stage[r] = "response" /\ layer[r] = 0
  /\ stage' = [stage EXCEPT ![r] = "done"]
  /\ UNCHANGED <<chain, about, layer, known, telemetry, status, metrics>>

Dispatch(r) ==
  \/ Arrive(r) \/ OnRequest(r) \/ Route(r) \/ OnOperation(r) \/ Guard(r)
  \/ Answer(r) \/ OnResponse(r) \/ Return(r)

DispatchNext == \E r \in Requests : Dispatch(r) \/ Drop(r)

DispatchSpec == DispatchInit /\ [][DispatchNext]_dispatchVars

------------------------------------------------------------------------------
(* Properties *)

\* Observability's layers that on_response has still to come to.
Ahead(r) ==
  {i \in 1..Len(chain) :
     /\ chain[i].kind = "observability" /\ MatchesRequest(chain[i], r)
     /\ stage[r] \in {"request", "operation", "invoke", "dropped"} \/ i <= layer[r]}

\* The requests the gauge has counted in and not yet out.
Counted ==
  {r \in Requests :
     telemetry[r] = "counted" /\ stage[r] # "done" /\ Ahead(r) # {}}

\* Whatever layer answers, on whatever way a request takes through the chain
\* and with other workers' requests in between, a request is counted out once
\* when it was counted in and never otherwise: the counters stay in balance.
\* A dropped dispatch is never counted out.
MetricsBalance ==
  /\ gauge = Cardinality(Counted)
  /\ requests = gauge + responses["2xx"] + responses["3xx"]
                      + responses["4xx"] + responses["5xx"]
  /\ errors <= responses["4xx"] + responses["5xx"]

=============================================================================
