------------------------------ MODULE MCServices ------------------------------
(***************************************************************************)
(* Small instances of the services around the operations, which many       *)
(* threads or requests share: blocking calls and their cancellation        *)
(* (BlockingCall), sessions (SessionLayer), credentials (SecurityChecks),  *)
(* the MCP servers (McpHttp, McpStdio), the labelled metrics               *)
(* (MetricsRegistry) and the shipped layers (HttpLayers, CompressionLayer, *)
(* StaticFiles); and the arguments an operation takes (OperationInputs)    *)
(* and what it answers (OperationResponses), over each transport.  They    *)
(* share no state, so that their product would show nothing more: each     *)
(* behaviour runs one of them, chosen in the initial state, beside the     *)
(* others at rest.  MCProgress checks that a blocking call ends.           *)
(***************************************************************************)
EXTENDS BlockingCall, SessionLayer, SecurityChecks, McpHttp, McpStdio, MetricsRegistry,
        HttpLayers, CompressionLayer, StaticFiles, TLC

Parts == {"calls", "sessions", "security", "mcp", "stdio", "metrics", "heads",
          "bodies", "files", "inputs", "answers"}

VARIABLES part,
  handler, placeholders, taking, invocation, decided,
  operation, phase, invoked, answered

inputsVars == <<handler, placeholders, taking, invocation, decided>>
answerVars == <<operation, phase, invoked, answered>>

------------------------------------------------------------------------------
(* One operation under a scheme with scopes, one without, both, an unknown  *)
(* one or none; layers that verify some of them, in either mode, everywhere *)
(* or under a prefix, and layers that only claim to verify.                 *)
MCTemplate == <<"a", "{}">>

Requirement(scheme, scopes) == [scheme |-> scheme, scopes |-> scopes]
Scheme(name, kind, scopes) == [name |-> name, kind |-> kind, scopes |-> scopes]
Layer(security, verifies, prefix, verifiers) ==
  [security |-> security, verifies |-> verifies, prefix |-> prefix, verifiers |-> verifiers]
Application(requirements, schemes, layers, optOut, checked) ==
  [requirements |-> requirements, schemes |-> schemes, layers |-> layers,
   optOut |-> optOut, checked |-> checked]

OAuth == Scheme("x", "oauth2", {"s"})
Schemes == <<OAuth, Scheme("y", "basic", {})>>
MCRequirements ==
  {<<>>, <<Requirement("x", {"s"})>>, <<Requirement("x", {}), Requirement("y", {})>>,
   <<Requirement("z", {})>>, <<Requirement("y", {"s"})>>,
   <<Requirement("y", {}), Requirement("y", {})>>}

Entry(kind, mode) == [kind |-> kind, mode |-> mode]
Verifiers ==
  {[x |-> Entry("bearer", mode), y |-> Entry("basic", "Optional")] :
     mode \in {"Required", "Optional"}} \cup
  {[x |-> Entry("bearer", "Optional"), y |-> Entry("apiKey", "Required")],
   [x |-> Entry("session", "Required")]}
NoVerifier == [n \in {} |-> None]
Layers ==
  {<<>>} \cup {<<Layer(TRUE, TRUE, p, v)>> : p \in {<<>>, <<"a", "b">>}, v \in Verifiers} \cup
  {<<Layer(FALSE, b, <<"a">>, NoVerifier), Layer(TRUE, TRUE, <<>>, v)>> :
     b \in BOOLEAN, v \in Verifiers} \cup
  {<<Layer(FALSE, b, <<"a", "b">>, NoVerifier)>> : b \in BOOLEAN}

MCApplications ==
  {Application(q, Schemes, l, o, c) : q \in MCRequirements, l \in Layers, o, c \in BOOLEAN} \cup
  {Application(q, <<OAuth>>, l, FALSE, TRUE) : q \in MCRequirements, l \in Layers}
Public == Application(<<>>, Schemes, <<>>, FALSE, TRUE)

\* Tokens inside and outside their validity, which ends one tick late.
Token(signed, exp, nbf, scopes) ==
  [signed |-> signed, exp |-> exp, nbf |-> nbf, scopes |-> scopes]
Tokens ==
  {Token(TRUE, 5, 0, {"s"}), Token(TRUE, 4, None, {}), Token(TRUE, 3, 0, {"s"}),
   Token(FALSE, 9, 0, {"s"}), Token(TRUE, 9, 7, {"s"})}
Authorizations ==
  {None} \cup {[scheme |-> "bearer", token |-> t] : t \in Tokens} \cup
  {[scheme |-> "basic", token |-> Token(s, None, None, {})] : s \in BOOLEAN}
Presents(path, authorization, key, cookie) ==
  [path |-> path, authorization |-> authorization, key |-> key, cookie |-> cookie]
MCPresented ==
  {Presents(p, a, None, None) : p \in {<<"a", "b">>, <<"a", "d">>}, a \in Authorizations} \cup
  {Presents(<<"a", "b">>, None, k, c) :
     k \in {None, Token(TRUE, 0, 0, {})},
     c \in {None, Token(TRUE, 4, None, {"s"}), Token(TRUE, 3, 0, {"s"})}}

------------------------------------------------------------------------------
(* Two session ids, an audit log of two events and four requests: messages  *)
(* that are malformed in each way, and the methods with a tool that asks    *)
(* for confirmation and one that does not.                                  *)
MCTools == [t |-> TRUE, u |-> FALSE]

Message(form, id, method, valid, subject, confirmed) ==
  [form |-> form, id |-> id, method |-> method, valid |-> valid,
   subject |-> subject, confirmed |-> confirmed]
Call(id, method, subject) == Message("call", id, method, TRUE, subject, FALSE)

MCMessages ==
  {Message(f, "1", "initialize", TRUE, None, FALSE) :
     f \in {"text", "result", "unversioned"}} \cup
  {Message("call", "1", "initialize", v, None, FALSE) : v \in BOOLEAN} \cup
  {Call("null", "notifications/initialized", None), Call("2", "tools/list", None),
   Call("bad id", "ping", None), Call("2", "tools/call", "t"),
   Message("call", "2", "tools/call", TRUE, "t", TRUE), Call("2", "tools/call", "u"),
   Call("2", "resources/read", "unknown"), Call("2", "prompts/get", "p")}

------------------------------------------------------------------------------
(* Frames at, under and over the limit of four bytes, in each ending.  *)
Frame(length, end, utf8, message) ==
  [length |-> length, end |-> end, utf8 |-> utf8, message |-> message]
Hello == {Frame(l, "lf", TRUE, Call("1", "initialize", None)) : l \in 3 .. 5}
Ready == {Frame(2, "lf", u, Call("null", "notifications/initialized", None)) : u \in BOOLEAN}
Final == {Frame(l, e, TRUE, Call("2", "tools/call", "u")) : l \in 4 .. 6, e \in {"crlf", "eof"}}
Short == <<Frame(2, "eof", TRUE, Call("null", "notifications/initialized", None))>>

MCFrameLists ==
  {<<h, r, l>> : h \in Hello, r \in Ready, l \in Final}
    \cup {<<r, h>> : r \in Ready, h \in Hello} \cup {Short}

------------------------------------------------------------------------------
(* Three threads, and one label set to a family. *)
Finish(route, status, value) ==
  [op |-> "finish", method |-> "GET", route |-> route, status |-> status, value |-> value]
Recording(kind, labels, value) ==
  [op |-> "record", name |-> "m", kind |-> kind, labels |-> labels, value |-> value]

MCCalls ==
  {Finish("/a", 200, 1), Finish("/b", 200, 2), Finish("/b", 404, 3)} \cup
  {[op |-> "track", queue |-> q] : q \in {"p", "q"}} \cup
  {[op |-> "register", name |-> "m", kind |-> k] : k \in Kinds} \cup
  {[op |-> "register", name |-> "reserved", kind |-> "gauge"]} \cup
  {Recording("counter", l, 2) : l \in {"x", "y"}} \cup {Recording("gauge", "x", 1)} \cup
  {Recording("histogram", l, 2) : l \in {"x", "y", NoLabels}}
MCBounds == <<1, 2>>

------------------------------------------------------------------------------
(* Addresses of three bits, of which 4 and 5 are proxies'; the layers in    *)
(* three orders; and requests that vary one of their headers at a time.     *)
Address(family, bits) == [family |-> family, bits |-> bits]
Network(family, bits, prefix) == [family |-> family, bits |-> bits, prefix |-> prefix]
Proxy == Address("v4", 4)
Proxies(all) ==
  [kind |-> "proxy", all |-> all, trusted |-> {Network("v4", 4, 2), Network("v6", 0, 0)}]

Host(labels, port) == [labels |-> labels, port |-> port]
Pattern(labels, below) == [any |-> FALSE, below |-> below, labels |-> labels]
Hosting(missing) ==
  [kind |-> "host", missing |-> missing,
   patterns |-> {Pattern(<<"a", "x">>, FALSE), Pattern(<<"x">>, TRUE)}]

Origin(name, labels, port) == [scheme |-> name, labels |-> labels, port |-> port]
Crossing(origin, names, credentials) ==
  [kind |-> "cors", origins |-> {origin}, methods |-> {"GET"}, headers |-> names,
   credentials |-> credentials]
Crossings ==
  {Crossing(Origin("*", <<>>, "none"), {"*"}, FALSE),
   Crossing(Origin("https", <<"*", "x">>, "none"), {"h"}, TRUE),
   Crossing(Origin("https", <<"x">>, "none"), {"*"}, TRUE)}
Quota(whole) == [kind |-> "limit", global |-> whole]

MCChains ==
  {<<Quota(FALSE)>>} \cup
  {<<Proxies(a), Hosting(a), c, Quota(FALSE)>> : a \in BOOLEAN, c \in Crossings} \cup
  {<<Quota(a), Hosting(a), Proxies(FALSE), c>> : a \in BOOLEAN, c \in Crossings} \cup
  {<<c, Quota(FALSE), Proxies(a)>> : a \in BOOLEAN, c \in Crossings}

Bare ==
  [peer |-> Proxy, method |-> "GET", host |-> Host(<<"a", "x">>, "none"), origins |-> <<>>,
   wants |-> None, headers |-> <<>>, forwarded |-> <<>>, xfor |-> <<>>, xproto |-> <<>>,
   xhost |-> <<>>]
\* Lines of X-Forwarded-For: trusted and untrusted hops, and one that is unknown.
Reported ==
  {<<>>, <<<<Address("v4", 1)>>>>, <<<<Address("v4", 2), Address("v4", 5)>>>>,
   <<<<Address("v4", 5), None>>, <<Address("v4", 2), Proxy>>>>,
   <<<<Address("v4", 5), Address("v6", 1)>>>>, <<<<Address("v4", 2), None>>, <<Proxy>>>>}
MCHosts ==
  {Host(<<"a", "x", "", "">>, "none"), Host(<<"b", "x">>, "digits"),
   Host(<<"a", "x", "">>, "digits"), Host(<<"x">>, "none"), Host(<<"", "x">>, "none"),
   Host(<<"a", "x">>, "path"), Host(<<"a", "y">>, "none")}
Forwards(address, named) ==
  <<<<[for |-> address, proto |-> named, host |-> None]>>,
    <<[for |-> Proxy, proto |-> "https", host |-> Host(<<"a", "x">>, "none")]>>>>
MCOrigins ==
  {<<o>> : o \in {Origin("https", <<"b", "x">>, "none"), Origin("https", <<"x">>, "none"),
                  Origin("http", <<"b", "x">>, "none"),
                  Origin("https", <<"b", "x">>, "8443")}}
  \cup {<<Origin("https", <<"x">>, "none"), Origin("https", <<"y">>, "none")>>}

MCHeads ==
  {Bare} \cup
  {[Bare EXCEPT !.peer = p, !.xfor = h] :
     p \in {None, Address("v4", 5), Address("v4", 1), Address("v6", 4)}, h \in Reported} \cup
  {[Bare EXCEPT !.forwarded = Forwards(a, p), !.xfor = <<<<Address("v4", 1)>>>>,
                !.xproto = <<<<"https">>>>] :
     a \in {None, Address("v4", 3)}, p \in {None, "http", "no scheme"}} \cup
  {[Bare EXCEPT !.host = h] : h \in MCHosts \cup {None}} \cup
  {[Bare EXCEPT !.host = h, !.xhost = <<<<n>>>>, !.peer = p] :
     h \in {None, Host(<<"y">>, "none")}, n \in MCHosts, p \in {Proxy, Address("v4", 1)}} \cup
  {[Bare EXCEPT !.method = m, !.origins = o, !.wants = w, !.headers = h] :
     m \in {"GET", "OPTIONS"}, o \in MCOrigins, w \in {None, "GET", "PUT"},
     h \in {<<>>, <<<<"h">>>>, <<<<"h">>, <<"k">>>>}}

------------------------------------------------------------------------------
(* One or two compressing layers, responses of each kind they must leave,   *)
(* and producers that end, fail and give empty chunks.                      *)
Item(name, quality) == [name |-> name, quality |-> quality]
Made(status, encoding, noTransform, streaming) ==
  [status |-> status, compressible |-> TRUE, encoding |-> encoding,
   noTransform |-> noTransform, stream |-> streaming, etag |-> "strong",
   length |-> ~streaming, vary |-> <<"origin">>, size |-> 3]
MCOriginals ==
  UNION {{Made(200, None, FALSE, b), Made(206, None, FALSE, b), Made(101, None, FALSE, b),
          Made(200, "gzip", FALSE, b), Made(404, None, TRUE, b),
          [Made(200, None, FALSE, b) EXCEPT !.compressible = FALSE],
          [Made(404, None, FALSE, b) EXCEPT !.size = 1, !.vary = <<"accept-encoding">>,
                                            !.etag = None]} : b \in BOOLEAN}

MCAcceptances ==
  {None, <<>>, <<Item("gzip", 10)>>, <<Item("gzip", 5), Item("br", 5), Item("deflate", 10)>>,
   <<Item("br", 0), Item("*", 3)>>, <<Item("br", 10), Item("br", 0), Item("gzip", 0)>>}
MCChunks == [a |-> <<1, 2>>, b |-> <<3>>, c |-> <<>>]
MCSources ==
  {<<"a", "c", "b", "end">>, <<"c", "error">>, <<"a", "b", "error">>, <<"end">>}

------------------------------------------------------------------------------
(* A root with two files, a link inside and one that leads out of it.       *)
Plainly == [kind |-> "file"]
Directory == [kind |-> "dir"]
Link(target) == [kind |-> "link", to |-> target]
MCTree ==
  (<<>> :> Directory) @@ (<<"w">> :> Directory) @@ (<<"w", "i">> :> Plainly)
  @@ (<<"w", "a">> :> Plainly) @@ (<<"w", "l">> :> Link(<<"w", "a">>))
  @@ (<<"w", "up">> :> Link(<<"o">>)) @@ (<<"o">> :> Directory) @@ (<<"o", "i">> :> Plainly)
Segments == {"s", "", ".", "a", "l", "up", "i", "a:b", "%2e%2e", "a%2fb", "%z"}
MCDecoded ==
  [s \in Segments |->
     CASE s = "%z" -> None [] s = "%2e%2e" -> <<"..">> [] s = "a%2fb" -> <<"a", "b">>
       [] OTHER -> <<s>>]

Fetch(target, with, bytes) == [target |-> target, method |-> with, range |-> bytes]
Part(first, end) == [first |-> first, last |-> end]
MCAsks ==
  {Fetch(<<"s">> \o t, "GET", None) :
     t \in {<<>>, <<"l">>, <<".", "a">>, <<"up">>, <<"%2e%2e">>, <<"%z">>, <<"a:b">>,
            <<"a%2fb">>}} \cup
  {Fetch(<<"s", "a">>, v, None) : v \in {"GET", "HEAD", "POST", "OPTIONS"}} \cup
  {Fetch(<<"s", "a">>, "GET", p) :
     p \in {Part(0, 1), Part(1, 0), Part(1, 5), Part(3, None), Part(None, 0), Part(None, 2)}} \cup
  {Fetch(<<"s">>, "GET", p) : p \in {Part(0, None), Part(None, 1)}} \cup
  {Fetch(<<"a">>, "GET", None)}
MCRoot == <<"w">>
MCPrefix == <<"s">>
MCInitial == {(<<"w", "a">> :> 3) @@ (<<"w", "i">> :> 0) @@ (<<"o", "i">> :> 1)}

------------------------------------------------------------------------------
(* Handlers with one argument of each kind, owned, shared and optional, and *)
(* the pairs that clash; providers that read inputs of their own, alike and *)
(* in conflict; a model with an alias, a list and a field that may be null. *)
Field(name, alias, item, list, nullable, default, least) ==
  [name |-> name, alias |-> alias, item |-> item, list |-> list,
   nullable |-> nullable, default |-> default, least |-> least]
Shape(form, item, fields) == [form |-> form, item |-> item, fields |-> fields]
MCTypes ==
  [int |-> Shape("scalar", "int", <<>>), text |-> Shape("scalar", "text", <<>>),
   ints |-> Shape("list", "int", <<>>),
   file |-> Shape("scalar", "binary", <<>>), files |-> Shape("list", "binary", <<>>),
   filter |-> Shape("model", "text",
     <<Field("limit", "max", "int", FALSE, FALSE, FALSE, 1),
       Field("tags", None, "text", TRUE, TRUE, FALSE, 0)>>),
   form |-> Shape("model", "text",
     <<Field("title", "name", "text", FALSE, FALSE, TRUE, 0),
       Field("photo", None, "binary", FALSE, FALSE, FALSE, 0)>>)]
Arg(name, kind, of) ==
  [name |-> name, kind |-> kind, of |-> of, held |-> "owned", optional |-> FALSE]
Maybe(a) == [a EXCEPT !.optional = TRUE]
Shared(a) == [a EXCEPT !.held = "shared"]
Unique(a) == [a EXCEPT !.held = "unique"]
MCProviders ==
  [pager |-> [args |-> <<Arg("page", "Query", "int"), Arg("db", "Depends", "database")>>,
              lifetime |-> "request", async |-> FALSE],
   ranked |-> [args |-> <<Arg("page", "Query", "text"), Arg("pager", "Depends", "pager")>>,
              lifetime |-> "transient", async |-> TRUE],
   viewer |-> [args |-> <<Arg("token", "Header", "text"), Arg("pager", "Depends", "pager")>>,
              lifetime |-> "request", async |-> TRUE],
   database |-> [args |-> <<>>, lifetime |-> "singleton", async |-> FALSE]]
MCHandlers ==
  {[args |-> x, tool |-> TRUE] : x \in {
     <<Arg("id", "Path", "int"), Maybe(Arg("page", "Query", "int"))>>,
     <<Arg("filter", "Query", "filter")>>,
     <<Maybe(Arg("filter", "Query", "filter"))>>,
     <<Arg("ids", "Query", "ints")>>,
     <<Arg("token", "Header", "text"), Maybe(Arg("theme", "Cookie", "int"))>>,
     <<Arg("filter", "Form", "filter")>>,
     <<Arg("ids", "Form", "ints")>>,
     <<Maybe(Arg("filter", "Form", "filter"))>>,
     <<Arg("body", "Json", "filter")>>,
     <<Maybe(Arg("body", "Json", "filter")), Arg("page", "Query", "int")>>,
     <<Arg("form", "Multipart", "form")>>,
     <<Arg("document", "File", "file"), Arg("content", "Query", "text")>>,
     <<Arg("documents", "File", "files")>>,
     <<Maybe(Arg("document", "File", "file"))>>,
     <<Arg("filter", "Query", "filter"), Arg("max", "Header", "int")>>,
     <<Shared(Arg("pager", "Depends", "pager"))>>,
     <<Arg("page", "Query", "int"), Arg("viewer", "Direct", "viewer")>>,
     <<Arg("upload", "Stream", "file")>>}}
  \cup {[args |-> x, tool |-> FALSE] : x \in {
     <<Arg("upload", "Stream", "file"), Arg("ids", "Query", "ints")>>,
     <<Arg("socket", "WebSocket", "file"), Arg("who", "Extension", "text"), Arg("parts", "Extract", "text")>>,
     <<Arg("filter", "Json", "filter"), Arg("form", "Multipart", "form")>>,
     <<Shared(Arg("page", "Query", "int"))>>,
     <<Unique(Arg("db", "Direct", "database"))>>,
     <<Maybe(Arg("id", "Path", "int"))>>,
     <<Arg("id", "Path", "int"), Arg("id", "Header", "text")>>,
     <<Arg("ranked", "Depends", "ranked")>>}}

Taking == INSTANCE OperationInputs WITH
  Types <- MCTypes, Providers <- MCProviders, Handlers <- MCHandlers, MaxPairs <- 2,
  stage <- taking, call <- invocation, answer <- decided

------------------------------------------------------------------------------
(* Return types: each base alone, wrappers in several orders, statuses that *)
(* are refused, and failures of which two share a status.                   *)
Stat(s) == [kind |-> "Status", status |-> s, task |-> None, header |-> None]
Task(t) == [kind |-> "Background", status |-> 0, task |-> t, header |-> None]
Headers(n) == [kind |-> "WithHeaders", status |-> 0, task |-> None, header |-> n]
Variant(status, code, payload, headers) ==
  [status |-> status, code |-> code, payload |-> payload, headers |-> headers]
Failures == <<Variant(404, "not_found", FALSE, {}), Variant(409, "taken", TRUE, {"retry-after"}),
              Variant(409, "gone", FALSE, {})>>
Op(wraps, base, shape, errors, security, tool) ==
  [wraps |-> wraps, base |-> base, shape |-> shape, errors |-> errors, security |-> security,
   decodes |-> security # "none", tool |-> tool]
Full == [exposure |-> "full", confirmation |-> FALSE]
MCOperations ==
  {Op(<<>>, base, "object", <<>>, "none", Full) :
     base \in {"Json", "Created", "Accepted", "PreparedJson", "NoContent", "StreamingBody", "Sse",
               "Html", "HttpUpgrade"}}
  \cup {Op(w, base, shape, <<>>, "scopes", Full) :
     w \in {<<Stat(203), Task("a"), Headers("x-page"), Task("b")>>, <<Stat(202), Stat(206)>>,
            <<Headers("bad name"), Task("a")>>},
     base \in {"Json", "Created", "StreamingBody", "WebSocketUpgrade"}, shape \in {"list", "maybe"}}
  \cup {Op(<<Stat(s)>>, base, "object", <<>>, "none", Full) : s \in {199, 204, 304, 400}, base \in {"NoContent", "Json"}}
  \cup {Op(<<Task("a")>>, "Json", "text", Failures, s, [exposure |-> e, confirmation |-> TRUE]) :
         s \in {"none", "scheme"}, e \in {"full", "summary_only"}}
  \cup {Op(<<>>, "Json", "object", <<v>>, "none", None) :
         v \in {Variant(300, "moved", FALSE, {}), Variant(500, "down", TRUE, {}),
                Variant(422, "odd", FALSE, {"bad name"})}}

Telling == INSTANCE OperationResponses WITH
  Operations <- MCOperations, Statuses <- {404, 500}, ran <- invoked, response <- answered

------------------------------------------------------------------------------
ASSUME InstancesAreValid ==
  /\ SessionAssumption /\ SecurityAssumption /\ HttpAssumption
  /\ LayersAssumption /\ BodiesAssumption /\ FilesAssumption

\* A part that is not chosen starts, and stays, in one of its initial states.
MCInit ==
  /\ part \in Parts
  /\ part # "sessions" => stored = TRUE
  /\ part # "security" => app = Public
  /\ part # "stdio" => input = Short
  /\ part # "heads" => chain = <<Quota(FALSE)>> /\ head = Bare
  /\ part # "bodies" =>
       /\ verb = "GET" /\ accepted = None /\ passes = 1
       /\ coded = Made(200, None, FALSE, FALSE) /\ source = <<"end">>
  /\ Init /\ SessionInit /\ SecurityInit /\ McpInit /\ StdioInit
  /\ MetricsInit /\ HeadInit /\ CodingInit /\ FilesInit
  /\ Taking!Init /\ Telling!Init

MCNext ==
  /\ \/ part = "calls" /\ Next
     \/ part = "sessions" /\ SessionNext
     \/ part = "security" /\ SecurityNext
     \/ part = "mcp" /\ McpNext
     \/ part = "stdio" /\ StdioNext
     \/ part = "metrics" /\ MetricsNext
     \/ part = "heads" /\ HeadNext
     \/ part = "bodies" /\ CodingNext
     \/ part = "files" /\ FilesNext
     \/ part = "inputs" /\ Taking!Next
     \/ part = "answers" /\ Telling!Next
  /\ part # "calls" => UNCHANGED vars
  /\ part # "sessions" => UNCHANGED sessionVars
  /\ part # "security" => UNCHANGED securityVars
  /\ part # "mcp" => UNCHANGED mcpVars
  /\ part # "stdio" => UNCHANGED stdioVars
  /\ part # "metrics" => UNCHANGED metricsVars
  /\ part # "heads" => UNCHANGED headVars
  /\ part # "bodies" => UNCHANGED bodyVars
  /\ part # "files" => UNCHANGED fileVars
  /\ part # "inputs" => UNCHANGED inputsVars
  /\ part # "answers" => UNCHANGED answerVars
  /\ UNCHANGED part

mcVars ==
  <<part, vars, sessionVars, securityVars, mcpVars, stdioVars, metricsVars, headVars,
    bodyVars, fileVars, inputsVars, answerVars>>

MCSpec == MCInit /\ [][MCNext]_mcVars

\* Tasks, cancellers and wakers are interchangeable.
Interchangeable == Permutations(Tasks) \cup Permutations(Cancellers)
                   \cup Permutations(Wakers)

------------------------------------------------------------------------------
(* The properties, each stated and explained in its module, with the type   *)
(* invariant of the part it is about; AwaitIsSound, SessionsAreSound,        *)
(* AccessIsEarned, McpIsOrderly, HeadsDecide, BodiesAreFaithful,            *)
(* FilesAreWhole, FramesAreAnswered and NothingIsMiscounted are their       *)
(* modules' own.                                                            *)

\* The document says what an operation takes and what it answers.
DocumentIsHonest ==
  /\ part = "inputs" => Taking!InputsTypeOK /\ Taking!DocumentIsHonest
  /\ part = "answers" => Telling!ResponsesTypeOK /\ Telling!ResponsesAreTold
\* A tool call gives an operation what HTTP gives it, and answers what HTTP answers.
TransportsAgree ==
  /\ part = "inputs" => Taking!TransportsAgree
  /\ part = "answers" => Telling!ToolsAnswerAlike
===============================================================================
