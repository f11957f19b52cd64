----------------------------- MODULE HttpLayers -----------------------------
(***************************************************************************)
(* The layers of crates/blazingly-middleware/src/lib.rs that decide from   *)
(* the head of a request: ProxyHeaders, TrustedHost, Cors and RateLimit,   *)
(* in the order the application adds them.  One request passes on_request  *)
(* of each; the first answer, or the handler's, passes on_response of all  *)
(* of them in reverse (HttpDispatch has the whole of the dispatcher).      *)
(*                                                                         *)
(* What the layers hand to each other is the request's context: the client *)
(* address, the scheme and the host in effect.  An address is a family and *)
(* a number of Width bits; a host is its labels and what follows the       *)
(* colon; header lists are sequences of lines of parsed elements, NotGiven   *)
(* where the parser gives up.                                              *)
(***************************************************************************)
EXTENDS Naturals, Sequences, SequencesExt

CONSTANTS
  Chains,   \* chains of layers, one is chosen
  Heads,    \* request heads, one is chosen
  Width,    \* bits of an address
  NotGiven

\* Layers: [kind |-> "proxy", trusted, all], [kind |-> "host", patterns, missing],
\* [kind |-> "cors", origins, methods, headers, credentials], [kind |-> "limit",
\* global].  The wildcard is an origin like the others.
AnyOrigin == [scheme |-> "*", labels |-> <<>>, port |-> "none"]

VARIABLES
  chain, head,
  stage, station,       \* where the dispatch is
  client, proto, host,  \* HttpRequestContext
  charged,              \* the bucket RateLimit took a token from, for each charge
  handled,              \* the handler answered
  reply                 \* the status and the headers the layers set

headVars == <<chain, head, stage, station, client, proto, host, charged, handled, reply>>
inEffect == <<client, proto, host>>

ValidSchemes == {"http", "https"}  \* those valid_scheme accepts, of the ones used
NoResponse ==
  [status |-> 0, origin |-> NotGiven, credentials |-> FALSE, methods |-> {},
   headers |-> <<>>, vary |-> <<>>]

\* Of the variables that change; the chain and the head are what they were.
HeadTypeOK ==
  /\ stage \in {"request", "response", "done"} /\ station \in 0 .. Len(chain) + 1
  /\ proto \in ValidSchemes
  /\ Len(charged) <= 1 /\ handled \in BOOLEAN
  /\ DOMAIN reply = DOMAIN NoResponse

HeadInit ==
  /\ chain \in Chains /\ head \in Heads
  /\ stage = "request" /\ station = 1
  /\ client = head.peer /\ proto = "http" /\ host = head.host
  /\ charged = <<>> /\ handled = FALSE /\ reply = NoResponse

------------------------------------------------------------------------------
(* Names *)

Ending(s, n) == SubSeq(s, Len(s) - n + 1, Len(s))

\* wildcard_host_matches: the suffix behind a dot, with something before it.
IsBelow(labels, suffix) ==
  /\ Len(labels) > Len(suffix) /\ Ending(labels, Len(suffix)) = suffix
  /\ SubSeq(labels, 1, Len(labels) - Len(suffix)) # <<"">>

\* normalized_host: without trailing dots, which have empty labels, and without
\* a port of digits; what else follows a colon stays and matches no pattern.
NormalizedHost(h) ==
  CASE h.port = "none" -> SubSeq(h.labels, 1,
         SelectLastInSeq(h.labels, LAMBDA label : label # ""))
    [] h.port = "digits" -> h.labels
    [] h.port = "path" -> <<"", "">>

\* TrustedHost::allows.  A pattern is [any, below, labels].
TrustsHost(l, h) ==
  \E p \in l.patterns :
    \/ p.any
    \/ ~p.below /\ p.labels = NormalizedHost(h)
    \/ p.below /\ IsBelow(NormalizedHost(h), p.labels)

\* origin_matches, for an exact pattern, scheme://*.domain (whose first label is
\* the star) and the wildcard.  The port of an origin is part of its text.
OriginMatches(p, o) ==
  \/ p = AnyOrigin \/ p = o
  \/ /\ p.labels # <<>> /\ Head(p.labels) = "*" /\ Len(p.labels) > 1
     /\ p.scheme = o.scheme /\ p.port = o.port /\ IsBelow(o.labels, Tail(p.labels))

\* IpNetwork::contains, masked_v4, masked_v6.
InNetwork(network, address) ==
  /\ network.family = address.family
  /\ LET low == 2 ^ (Width - network.prefix) IN
       network.bits \div low = address.bits \div low

------------------------------------------------------------------------------
(* ProxyHeaders *)

\* ip_list and forwarded_for_values: what does not parse is left out.
Parsed(hops) == SelectSeq(hops, LAMBDA hop : hop # NotGiven)

\* joined_header; X-Forwarded-For counts where Forwarded names no address.
ForwardedFor(q) ==
  LET entries == FlattenSeq(q.forwarded)
      named == Parsed([i \in 1 .. Len(entries) |-> entries[i].for])
  IN IF named # <<>> THEN named ELSE Parsed(FlattenSeq(q.xfor))

Trusts(l, address) == l.all \/ \E n \in l.trusted : InNetwork(n, address)

\* Mutant: the word of the first hop, whoever adds to the list, is taken for it.
TrustedClientFirst(l, peer, hops) ==
  IF hops # <<>> /\ Trusts(l, peer) THEN Head(hops) ELSE peer

\* trusted_client_ip: from the peer towards the client, as long as who reports
\* a hop is trusted.
TrustedClient(l, peer, hops) ==
  LET current[i \in 0 .. Len(hops)] ==
        IF i = 0 THEN peer
        ELSE IF Trusts(l, current[i - 1]) THEN hops[Len(hops) - i + 1]
        ELSE current[i - 1]
  IN current[Len(hops)]

\* forwarded_parameter and first_list_value: of the first element only.
FirstOf(q, name, others) ==
  LET entries == FlattenSeq(q.forwarded)
      values == FlattenSeq(others)
  IN IF entries # <<>> /\ Head(entries)[name] # NotGiven THEN Head(entries)[name]
     ELSE IF values # <<>> THEN Head(values) ELSE NotGiven

\* ProxyHeaders::on_request.
Normalize(l) ==
  LET hops == ForwardedFor(head)
      reported == FirstOf(head, "proto", head.xproto)
      named == FirstOf(head, "host", head.xhost)
  IN IF ~l.all /\ (client = NotGiven \/ ~Trusts(l, client))
     THEN UNCHANGED inEffect
     ELSE /\ client' = IF client # NotGiven THEN TrustedClient(l, client, hops)
                       ELSE IF hops # <<>> THEN Head(hops) ELSE client
          /\ proto' = IF reported \in ValidSchemes THEN reported ELSE proto
          /\ host' = IF named # NotGiven /\ named.port # "path" THEN named ELSE host

------------------------------------------------------------------------------
(* Cors *)

\* append_vary.
AppendVary(vary, name) == IF Contains(vary, name) THEN vary ELSE Append(vary, name)

AllowedOrigin(l, o) == \E p \in l.origins : OriginMatches(p, o)

\* Cors::apply_headers.
ApplyHeaders(l, origin, r) ==
  LET open == AnyOrigin \in l.origins /\ ~l.credentials IN
  [r EXCEPT !.origin = IF open THEN AnyOrigin ELSE origin,
            !.vary = IF open THEN @ ELSE AppendVary(@, "origin"),
            !.credentials = @ \/ l.credentials]

\* Cors::apply_preflight_headers and preflight_headers.
ApplyPreflightHeaders(l, requested, r) ==
  [r EXCEPT
    !.methods = l.methods,
    !.headers = IF requested # <<>> THEN requested
                ELSE IF "*" \in l.headers
                     THEN IF l.credentials THEN <<>> ELSE <<"*">>
                ELSE SetToSeq(l.headers),
    !.vary = AppendVary(AppendVary(@, "access-control-request-method"),
                        "access-control-request-headers")]

Answer(status) == [NoResponse EXCEPT !.status = status]

\* Cors::intercept: the answer, or NotGiven.
Intercept(l) ==
  LET origin == Head(head.origins)
      requested == FlattenSeq(head.headers)
  IN IF Len(head.origins) > 1 THEN Answer(400)
     ELSE IF head.origins = <<>> THEN NotGiven
     ELSE IF ~AllowedOrigin(l, origin)
          THEN IF head.method = "OPTIONS" THEN Answer(403) ELSE NotGiven
     ELSE IF head.method # "OPTIONS" \/ head.wants = NotGiven THEN NotGiven
     ELSE IF \/ head.wants \notin l.methods
             \/ "*" \notin l.headers /\ \E n \in ToSet(requested) : n \notin l.headers
          THEN Answer(403)
     ELSE ApplyPreflightHeaders(l, requested, ApplyHeaders(l, origin, Answer(204)))

\* Cors::on_response.
CorsOnResponse(l) ==
  IF Len(head.origins) = 1 /\ AllowedOrigin(l, Head(head.origins))
  THEN ApplyHeaders(l, Head(head.origins), reply)
  ELSE reply

------------------------------------------------------------------------------
(* What an instance must satisfy: a layer of each kind at most (the module    *)
(* that makes it assumes so); allow_origin and allow_credentials panic on the *)
(* wildcard origin together with credentials; and NotGiven is nothing else.     *)

IsSequence(s) == s \in Seq(ToSet(s))

ChainAssumption ==
  \A c \in Chains :
    /\ IsSequence(c)
    /\ \A i, j \in 1 .. Len(c) : c[i].kind = c[j].kind => i = j
    /\ \A i \in 1 .. Len(c) :
         c[i].kind = "cors" =>
           /\ \A o \in c[i].origins : IsSequence(o.labels)
           /\ IsFiniteSet(c[i].headers) /\ c[i].credentials \in BOOLEAN
           /\ ~(c[i].credentials /\ AnyOrigin \in c[i].origins)
HeadsAssumption ==
  \A q \in Heads :
    /\ IsSequence(q.origins) /\ NotGiven \notin ToSet(q.origins)
    /\ IsSequence(ForwardedFor(q)) /\ IsSequence(FlattenSeq(q.headers))

LayersAssumption ==
  /\ Width \in Nat /\ NotGiven \notin {AnyOrigin, Answer(400)}
  /\ ChainAssumption /\ HeadsAssumption

------------------------------------------------------------------------------
(* The chain *)

Respond(r) ==
  /\ reply' = r /\ stage' = "response" /\ station' = Len(chain)

Pass == station' = station + 1 /\ UNCHANGED <<stage, reply>>

\* TrustedHost::on_request.
CheckHost(l) ==
  IF (host = NotGiven /\ l.missing) \/ (host # NotGiven /\ TrustsHost(l, host))
  THEN Pass
  ELSE Respond(Answer(400))

\* RateLimit::key and on_request; the store decides (RateLimitStore).
Charge(l) ==
  /\ charged' = Append(charged, IF l.global THEN NotGiven ELSE client)
  /\ Pass \/ Respond(Answer(429))

OnRequest ==
  /\ stage = "request" /\ station <= Len(chain)
  /\ LET l == chain[station] IN
     \/ l.kind = "proxy" /\ Normalize(l) /\ Pass /\ UNCHANGED charged
     \/ l.kind = "host" /\ CheckHost(l) /\ UNCHANGED <<inEffect, charged>>
     \/ /\ l.kind = "cors"
        /\ IF Intercept(l) = NotGiven THEN Pass ELSE Respond(Intercept(l))
        /\ UNCHANGED <<inEffect, charged>>
     \/ l.kind = "limit" /\ Charge(l) /\ UNCHANGED inEffect
  /\ UNCHANGED <<chain, head, handled>>

\* The rest of the dispatch; what it answers may vary on the origin already.
HandleHead ==
  /\ stage = "request" /\ station > Len(chain)
  /\ \E vary \in {<<>>, <<"origin">>, <<"accept-encoding">>} :
       Respond([Answer(200) EXCEPT !.vary = vary])
  /\ handled' = TRUE
  /\ UNCHANGED <<chain, head, inEffect, charged>>

OnResponse ==
  /\ stage = "response" /\ station > 0
  /\ reply' = IF chain[station].kind = "cors" THEN CorsOnResponse(chain[station]) ELSE reply
  /\ station' = station - 1
  /\ UNCHANGED <<chain, head, stage, inEffect, charged, handled>>

Return ==
  /\ stage = "response" /\ station = 0
  /\ stage' = "done"
  /\ UNCHANGED <<chain, head, station, inEffect, charged, handled, reply>>

HeadNext == OnRequest \/ HandleHead \/ OnResponse \/ Return

HeadSpec == HeadInit /\ [][HeadNext]_headVars

------------------------------------------------------------------------------
(* Properties *)

LayersOf(kind) == {i \in 1 .. Len(chain) : chain[i].kind = kind}

\* The address a request counts as coming from is the peer's, or one that was
\* reported by a trusted hop behind trusted hops only; and it is not that of a
\* trusted proxy which itself reported another.  What a client writes in front
\* of the headers its proxy extends changes nothing.
ClientIsReported ==
  LET hops == ForwardedFor(head) IN
  client # head.peer =>
    \E p \in LayersOf("proxy"), i \in 1 .. Len(hops) :
      /\ client = hops[i]
      /\ chain[p].all \/ Trusts(chain[p], head.peer)
      /\ \A j \in i + 1 .. Len(hops) : Trusts(chain[p], hops[j])
      /\ Trusts(chain[p], client) => i = 1

\* The handler runs only under a host that TrustedHost allows, wherever it is
\* in the chain; a host that a proxy reports is in effect only where
\* ProxyHeaders comes before it.
HostIsAllowed ==
  handled => \A i \in LayersOf("host") :
    LET seen == IF \E p \in LayersOf("proxy") : p < i THEN host ELSE head.host IN
      IF seen = NotGiven THEN chain[i].missing ELSE TrustsHost(chain[i], seen)

\* A token is taken from the bucket of the client as the layers before have
\* found it, once for a request, and a request that is refused has not run.
ChargedAsSeen ==
  \A i \in 1 .. Len(charged) : \A l \in LayersOf("limit") :
    charged[i] = IF chain[l].global THEN NotGiven
                 ELSE IF \E p \in LayersOf("proxy") : p < l THEN client
                 ELSE head.peer

\* A response names an origin only when Cors allows the request's only origin,
\* whichever layer answered; never the wildcard with credentials; and one that
\* names the origin says that it varies by it, once.
OriginsAreAllowed ==
  /\ reply.origin # NotGiven =>
       /\ Len(head.origins) = 1
       /\ \E i \in LayersOf("cors") : AllowedOrigin(chain[i], head.origins[1])
       /\ reply.origin = AnyOrigin => ~reply.credentials
       /\ reply.origin # AnyOrigin =>
            reply.origin = head.origins[1] /\ Contains(reply.vary, "origin")
  /\ \A i, j \in 1 .. Len(reply.vary) : reply.vary[i] = reply.vary[j] => i = j

\* When the response returns, an allowed origin is named whatever layer
\* answered; a preflight that succeeds has asked for an allowed method and
\* allowed headers, and none but a request that is no preflight has run.
OriginsAreTold ==
  stage = "done" =>
    \A i \in LayersOf("cors") :
      /\ Len(head.origins) = 1 /\ AllowedOrigin(chain[i], head.origins[1]) =>
           reply.origin # NotGiven
      /\ reply.status = 204 =>
           /\ head.wants \in chain[i].methods
           /\ "*" \notin chain[i].headers =>
                ToSet(reply.headers) \subseteq chain[i].headers
      /\ handled => Len(head.origins) < 2

HeadsDecide ==
  /\ HeadTypeOK /\ ClientIsReported /\ HostIsAllowed /\ ChargedAsSeen
  /\ OriginsAreAllowed /\ OriginsAreTold
===============================================================================
