------------------------------ MODULE MCRequests ------------------------------
(***************************************************************************)
(* Small instances of the parts a request passes through and of those that *)
(* prepare for it or follow it: the dispatch through the layers            *)
(* (HttpDispatch), mounts and routes (Router), the rate limit              *)
(* (RateLimitStore), a multipart body (MultipartStream), a WebSocket       *)
(* (WebSocketSession), a validated string (PatternMatcher), the startup    *)
(* migrations (Migrations), the provider graph and its plan                *)
(* (ProviderChain), the messages left for later (QueueWorker), and what    *)
(* the macros make of a declared field (ApiModels) and of a pattern        *)
(* (PatternSyntax).  They share no state, so that their product would show *)
(* nothing more: each behaviour runs one of them, chosen in the initial    *)
(* state, beside the others at rest.                                       *)
(***************************************************************************)
EXTENDS QueueWorker, HttpDispatch, RateLimitStore, Migrations, WebSocketSession, TLC

Parts == {"dispatch", "router", "limit", "multipart", "socket", "matcher",
          "migrations", "providers", "queue", "contract", "syntax"}

VARIABLES part,
  definition, routes, nodes, table, filter, asked, result,
  body, pulled, window, reading, mpStage, calling, fields, failure,
  pattern, anchoredStart, anchoredEnd, value, program, active, marks,
  generation, repeats, position, matched,
  app, compiled, regs, ran, decoders, plan, handler, problem, sync_chain, call,
  field, expanded, payload, reply, faults, text, typed

routerVars == <<definition, routes, nodes, table, filter, asked, result>>
multipartVars ==
  <<body, pulled, window, reading, mpStage, calling, fields, failure>>
matcherVars ==
  <<pattern, anchoredStart, anchoredEnd, value, program, active, marks,
    generation, repeats, position, matched>>
providerVars ==
  <<app, compiled, regs, ran, decoders, plan, handler, problem, sync_chain, call>>
contractVars == <<field, expanded, payload, reply, faults>>
syntaxVars == <<text, typed>>

------------------------------------------------------------------------------
(* The dispatch: no layer; observability before two layers that answer      *)
(* themselves and behind them, in every scope ("all" is "prefix" inside it).  *)
L(kind, scope) == [kind |-> kind, scope |-> scope]

MCChains ==
  {<<>>,
   <<L("observability", "prefix"), L("limiter", "all"), L("security", "operation")>>,
   <<L("security", "all"), L("limiter", "prefix"), L("observability", "operation")>>}

------------------------------------------------------------------------------
(* The router: templates of up to three segments, none of the same shape as *)
(* another, and paths that fit several of them or none.                     *)
P == "{}"

MCTemplates ==
  {<<"a">>, <<P>>, <<"a", "b", P>>, <<P, "b", "a">>, <<"a", P, "a">>} \cup
  {<<s, t>> : s \in {"a", "b", P}, t \in {"a", P}}

MCPaths ==
  {<<"a">>, <<"c">>, <<"a", "b", "a">>, <<"a", "b", "c">>, <<"c", "b", "a">>} \cup
  {<<s, t>> : s \in {"a", "b", "c"}, t \in {"a", "c"}}

\* One module of two operations, mounted twice in another plugin.
Mount(prefix, namespace) == [prefix |-> prefix, namespace |-> namespace]
Declared(id, path, outer, inner) ==
  [id |-> <<id>>, tool |-> <<id>>, method |-> "GET", path |-> path, mounts |-> <<outer, inner>>]
MCModules ==
  {<<Declared("n", s, outer, first), Declared("n", t, outer, second), Declared("k", u, outer, second)>> :
     s \in {<<"">>, <<P>>}, t \in {<<"">>, <<P>>}, u \in {<<"c">>, <<P>>},
     outer \in {Mount(<<>>, <<>>), Mount(<<<<P>>>>, <<>>), Mount(<<<<"a">>>>, <<<<"v">>>>)},
     first \in {Mount(<<>>, <<>>), Mount(<<<<"a", "">>>>, <<>>), Mount(<<<<"a">>>>, <<<<"v">>>>),
               Mount(<<<<"a">>>>, <<<<"w", "-", "v">>>>)},
     second \in {Mount(<<<<"b">>>>, <<<<"v">>>>), Mount(<<<<"a">>>>, <<<<"v", ".", "w">>>>),
                Mount(<<<<"b">>>>, <<<<"w", "_", "v">>>>), Mount(<<>>, <<<<"w">>>>)}}

Routing == INSTANCE Router WITH
  Literals <- {"a", "b", "c"}, Parameter <- P, Methods <- {"GET", "POST"},
  Templates <- MCTemplates, Paths <- MCPaths, MaxRoutes <- 3, Modules <- MCModules

------------------------------------------------------------------------------
(* Multipart bodies: a part whose data begins a delimiter and turns out not *)
(* to be one, header blocks around the limit, too many parts, and bodies    *)
(* that are malformed in each of the places.                                *)
CrLf == <<"cr", "lf">>
Dashes == <<"-", "-">>
Delimiter == Dashes \o <<"b">>

Pieces == {<<"cr">>, CrLf, Dashes, <<"b">>, <<"x">>}
Datas == {<<>>} \cup Pieces \cup {f \o g : f, g \in Pieces}
           \cup {f \o g \o h : f, g, h \in Pieces}
           \cup {CrLf \o Delimiter \o f \o g : f, g \in Pieces}
PartOf(head, data) == CrLf \o head \o CrLf \o CrLf \o data \o CrLf \o Delimiter
Header(n) == [i \in 1 .. n |-> "h"]

MCBodies ==
  {Delimiter \o PartOf(<<"h">>, d) \o Dashes : d \in Datas} \cup
  {Delimiter \o PartOf(Header(n), <<"x">>) \o PartOf(Header(m), <<>>) \o Dashes :
     n \in 1 .. 5, m \in 1 .. 2} \cup
  {Delimiter \o PartOf(<<"h">>, <<"x">>) \o PartOf(<<"h">>, <<>>)
     \o PartOf(<<"h">>, <<>>) \o Dashes,
   Delimiter \o Dashes, Delimiter \o <<"x", "x">>, Dashes \o <<"x">>,
   Delimiter \o PartOf(<<"x">>, <<>>) \o Dashes,
   Delimiter \o PartOf(<<"h">>, <<>>) \o <<"-", "x">>}

Reading == INSTANCE MultipartStream WITH
  Bodies <- MCBodies, MaxChunk <- 3, MaxHeader <- 4, MaxParts <- 2,
  stage <- mpStage

------------------------------------------------------------------------------
(* WebSocket frames: every sequence of up to three; messages at and over the  *)
(* limit, and with a fragment that is, control frames between the fragments,  *)
(* and every reason to refuse a frame.                                        *)
F(op, fin, size) == [op |-> op, fin |-> fin, size |-> size]

MCFrames ==
  {F("text", TRUE, 2), F("text", FALSE, 2), F("continuation", TRUE, 2),
   F("continuation", FALSE, 1), F("ping", TRUE, 0), F("close", TRUE, 0)}
MCFrameLists ==
  UNION {[1 .. n -> MCFrames] : n \in 1 .. 3} \cup
  {<<F("binary", TRUE, 5)>>, <<F("ping", FALSE, 0)>>, <<F("unmasked", TRUE, 0)>>,
   <<F("unsupported", TRUE, 0), F("close", TRUE, 1), F("close", TRUE, 2)>>,
   <<F("binary", FALSE, 4), F("continuation", TRUE, 1), F("continuation", TRUE, 0),
     F("pong", TRUE, 1)>>,
   <<F("text", FALSE, 1), F("text", FALSE, 1), F("continuation", FALSE, 4),
     F("continuation", TRUE, 3)>>,
   <<F("text", FALSE, 1), F("ping", TRUE, 0), F("continuation", FALSE, 1),
     F("continuation", TRUE, 1), F("close", TRUE, 0)>>}
MCMisread ==
  {<<>>, <<F("continuation", TRUE, 0), F("close", TRUE, 0)>>, <<F("text", TRUE, 1)>>,
   <<F("unsupported", FALSE, 0)>>, <<F("unmasked", FALSE, 0)>>}

------------------------------------------------------------------------------
(* Patterns: one and two alternatives of up to two quantified characters, and *)
(* quantified groups; one character is two bytes long.                        *)
A == <<1>>
B == <<2>>
E == <<195, 169>>

One(class) == [op |-> "single", class |-> class]
Quantifier(op, node) == [op |-> op, of |-> node]
Sequence(of) == [op |-> "sequence", of |-> of]
Choice(of) == [op |-> "choice", of |-> of]
Atoms == {One({A}), One({A, B}), One({B, E})}
Quantified == Atoms \cup
  {Quantifier(op, n) : op \in {"optional", "star", "plus"}, n \in {One({A}), One({B, E})}}
Small == {Sequence(s) : s \in {<<>>, <<One({A})>>, <<One({B}), One({A})>>,
                               <<Quantifier("star", One({A})), One({B})>>}}

MCPatterns ==
  {Choice(<<Sequence(s)>>) : s \in {<<>>} \cup {<<q>> : q \in Quantified}
                                       \cup (Quantified \X Atoms) \cup (Atoms \X Quantified)} \cup
  {Choice(s) : s \in Small \X Small} \cup
  {Sequence(<<Quantifier(op, Choice(s)), One({B})>>) :
     op \in {"optional", "star", "plus"}, s \in Small \X Small}
MCValues == {<<>>, <<A>>, <<E>>, <<A, B>>, <<B, A>>, <<E, B>>, <<A, A, B>>, <<A, B, A>>}

Matching == INSTANCE PatternMatcher WITH
  Alphabet <- {A, B, E}, Patterns <- MCPatterns, Values <- MCValues,
  MaxStates <- 4, MaxLiterals <- 3, MaxGeneration <- 4, answer <- matched

------------------------------------------------------------------------------
(* Migrations: an old and a new release, and one whose second script differs. *)
MCSetOf == [old |-> <<1, 2>>, new |-> <<1, 2, 3>>, other |-> <<1, 2, 3>>]
MCSumOf == [old |-> <<1, 2>>, new |-> <<1, 2, 3>>, other |-> <<1, 9, 3>>]

------------------------------------------------------------------------------
(* Applications: providers of A and B in a plugin and its child, in every     *)
(* lifetime and with every dependency between them, cycles included; three    *)
(* plugins of which one or the other is asked for C, with an override or none. *)
Input(name, type) == [name |-> name, type |-> type]
I == Input("i", "Text")
J == Input("j", "Number")
Provider(type, life, deps, inputs) ==
  LET filled == inputs # <<>> /\ life # "singleton"
  IN [type |-> type, life |-> life, deps |-> deps, inputs |-> inputs, async |-> FALSE,
      from |-> IF filled THEN "slots" ELSE "factory", fails |-> filled, tear |-> "none"]
Waits(p, yes) == [p EXCEPT !.async = yes]
Torn(p) == [p EXCEPT !.tear = IF p.async THEN "async" ELSE "sync"]
Lives == {"singleton", "request", "transient"}
OfA == {<<>>} \cup {<<Provider("A", l, d, <<>>)>> : l \in Lives, d \in {<<>>, <<"B">>}}
OfB == {<<>>} \cup {<<Provider("B", l, d, <<>>)>> : l \in Lives, d \in {<<>>, <<"A">>}}
Plugins(parents, providers, scope, wants, override) ==
  [parent |-> parents, providers |-> providers, scope |-> scope,
   wants |-> wants, override |-> override]

Overrides == {<<>>} \cup
  {<<[scope |-> s, type |-> t]>> : <<s, t>> \in {<<0, "B">>, <<2, "A">>, <<4, "A">>}}

\* The applications that are called: a value, a value of the request that is
\* torn down, a transient one and a #[provider] with two inputs and all three;
\* the child has a provider of its own; none, one or two of them wait.
MCServed ==
  {Plugins(<<0, 1>>,
     <<<<[Provider("V", "singleton", <<>>, <<>>) EXCEPT !.from = "value"],
         Torn(Waits(Provider("A", "request", <<"V">>, <<>>), w[1])),
         Waits(Provider("B", "transient", <<"A">>, <<>>), w[2]),
         Waits(Provider("C", "request", <<"B", "V">>, <<J, I>>), w[3])>>,
       own>>, s, <<"C", "B", "A">>, <<>>) :
     <<w, s>> \in {<<[i \in 1..3 |-> i \in on], 1>> : on \in {{}, {2}, {1, 3}}} \cup
                {<<[i \in 1..3 |-> i = 2], 2>>},
     own \in {<<[Torn(Provider("A", "request", <<"B">>, <<>>)) EXCEPT !.fails = TRUE]>>}} \cup
  {Plugins(<<0>>, <<<<[Provider("V", "singleton", <<>>, <<>>) EXCEPT !.fails = TRUE]>>>>,
           1, <<"V", "V">>, <<>>)}

MCApplications ==
  {Plugins(<<0, 1>>, <<a \o b, c \o d>>, 2, <<"A", "B">>, <<>>) :
     a, c \in OfA, b, d \in OfB} \cup
  {Plugins(<<0, 1, 1>>,
     <<<<Provider("A", l, <<"B">>, <<>>), Provider("B", k, <<>>, <<>>),
         Provider("C", m, <<"A", "B">>, <<I>>)>>,
       b, <<Provider("A", "request", <<>>, <<J>>)>>>>, s, <<"C", "A", "C">>, o) :
     l, k \in Lives, m \in {"request", "transient"}, b \in OfA \cup OfB,
     s \in {2, 3}, o \in Overrides} \cup
  {Plugins(<<0>>, <<<<Provider("A", "singleton", <<>>, <<I>>)>>>>, 1, <<"A">>, <<>>),
   Plugins(<<0>>, <<<<Provider("A", "request", <<>>, <<>>), Provider("A", "request", <<>>, <<>>)>>>>,
           1, <<"A">>, <<>>),
   Plugins(<<0>>, <<<<Provider("A", "request", <<>>, <<I>>),
                      Provider("B", "request", <<"A">>, <<J, Input("i", "Number")>>)>>>>,
           1, <<"B">>, <<>>)} \cup MCServed

Providing == INSTANCE ProviderChain WITH
  Applications <- MCApplications, Calls <- {1, 2}, Served <- MCServed

------------------------------------------------------------------------------
(* Declared fields: every type, plain, bundled with rules, collected and      *)
(* nested, under every pair of rules, and optional ones under every rule;     *)
(* numbers count halves.                                                      *)
Text(s) == <<"str", s>>
Number(n) == <<"num", n>>
List(s) == <<"arr", s>>
Object(f) == <<"obj", f>>
Bound(v) == [v |-> v, float |-> FALSE]
FloatBound(v) == [v |-> v, float |-> TRUE]
Member(name, type, optional, rules) ==
  [name |-> name, of |-> type, optional |-> optional, rules |-> rules]
ValueType(of, rules) == [form |-> "value", of |-> of, rules |-> rules]
ListOf(type) == [form |-> "vec", of |-> type]

\* Slug's validator names the field it expects to be declared on.
Refusing(values, path) == [validator |-> [refuses |-> values, path |-> path]]
MCTypes ==
  [Text |-> [form |-> "text"], Int |-> [form |-> "integer"], Float |-> [form |-> "float"],
   Bool |-> [form |-> "bool"],
   Level |-> [form |-> "enum", variants |-> <<Text(<<"a">>), Text(<<"b">>)>>],
   Blank |-> [form |-> "enum", variants |-> <<Text(<<>>)>>],
   Inner |-> [form |-> "model",
              fields |-> <<Member("f", "Int", FALSE, [minimum |-> Bound(2)]),
                           Member("g", "Title", TRUE, <<>>)>>],
   Title |-> ValueType("Text", [max_length |-> 1]), Headline |-> ValueType("Title", <<>>),
   Slug |-> ValueType("Text", [min_length |-> 1] @@ Refusing({Text(<<"a">>)}, <<<<"key", "f">>>>)),
   Tags |-> ValueType("Titles", [max_length |-> 1]),
   Ints |-> ListOf("Int"), Titles |-> ListOf("Title"), Slugs |-> ListOf("Slug"),
   Inners |-> ListOf("Inner"), Grid |-> ListOf("Titles")]

Texts == {Text(<<>>), Text(<<"a">>), Text(<<"a", "b">>)}
Numbers == {Number(n) : n \in {-2, 0, 1, 2, 4}}
Inners ==
  {Object([f |-> Number(0)]), Object([f |-> Number(2), g |-> Text(<<"a">>)]),
   Object([g |-> Text(<<"a">>)]), Object([f |-> Number(2), g |-> Text(<<"a", "b">>)])}
Lists(of) == {List(<<>>)} \cup {List(<<x>>) : x \in of} \cup {List(<<x, y>>) : x, y \in of}
TitleLists ==
  Lists(Texts \ {Text(<<>>)}) \cup {List(<<Text(<<"a">>), Text(<<>>), Text(<<"b">>)>>)}
MCPayloads ==
  [t \in DOMAIN MCTypes |->
     CASE t \in {"Text", "Title", "Headline", "Slug"} -> Texts
       [] t \in {"Int", "Float"} -> Numbers
       [] t = "Bool" -> {<<"bool", TRUE>>, Number(0)}
       [] t \in {"Level", "Blank"} -> {Text(<<"a">>), Text(<<>>)}
       [] t = "Inner" -> Inners
       [] t = "Inners" -> Lists(Inners)
       [] t = "Ints" -> Lists({Number(0), Number(2)})
                          \cup {List(<<Number(0), Number(2), Number(4)>>)}
       [] t = "Grid" -> {List(<<x>>) : x \in TitleLists}
       [] OTHER -> TitleLists]

Written ==
  {<<>>, [min_length |-> 1], [min_length |-> 2], [max_length |-> 1],
   [minimum |-> Bound(2)], [minimum |-> FloatBound(1)], [maximum |-> Bound(2)],
   [exclusive_minimum |-> Bound(0)], [exclusive_maximum |-> Bound(4)],
   [multiple_of |-> Bound(4)], [multiple_of |-> Bound(0)],
   [min_items |-> 2], [max_items |-> 1], [unique_items |-> TRUE],
   [pattern |-> "p"], [email |-> TRUE],
   [default |-> Text(<<"a">>)], [default |-> <<"num", 2, FALSE>>],
   [default |-> <<"num", 1, TRUE>>], [default |-> <<"bool", TRUE>>],
   Refusing({Text(<<"a">>), Number(2)}, <<>>),
   Refusing({Text(<<"a">>), Number(2)}, <<<<"key", "f">>>>),
   Refusing({Object([f |-> Number(2), g |-> Text(<<"a">>)])}, <<<<"key", "g">>>>)}

MCDeclarations ==
  {Member("f", t, FALSE, x @@ y) : t \in DOMAIN MCTypes, x, y \in Written} \cup
  {Member("f", t, TRUE, x) : t \in DOMAIN MCTypes, x \in Written}
MCLanguages == [p |-> {<<"a">>, <<"a", "b">>}]

Declaring == INSTANCE ApiModels WITH
  Types <- MCTypes, Values <- MCPayloads, Declarations <- MCDeclarations,
  Languages <- MCLanguages, Emails <- {<<"a", "b">>},
  ScanLimit <- 2, Sample <- <<"a", "b">>, PadLimit <- 2, body <- payload

------------------------------------------------------------------------------
(* Patterns as they are written: three characters after each of the starts,   *)
(* under limits of five characters, one group and two members of a class.     *)
Ascending ==
  <<"$", "(", ")", "*", "-", "?", "[", "\\", "]", "^", "b", "d", "{", "|">>
MCAlphabet == {Ascending[i] : i \in DOMAIN Ascending}
MCCode == [c \in MCAlphabet |-> CHOOSE i \in DOMAIN Ascending : Ascending[i] = c]
Spelling == INSTANCE PatternSyntax WITH
  Alphabet <- MCAlphabet, Code <- MCCode,
  Starts <- {<<>>, <<"(", "b">>, <<"[", "b", "-">>, <<"[", "\\", "-", "-">>},
  MaxTyped <- 3, MaxChars <- 5, MaxDepth <- 1, MaxMembers <- 2

------------------------------------------------------------------------------
(* Two workers on one topic, three attempts per message, a backoff that       *)
(* doubles once before its cap; one worker stops and one lease expires.       *)
ThreeTries ==
  [max_attempts |-> 3, initial_backoff |-> 1, max_backoff |-> 2, multiplier |-> 2]

------------------------------------------------------------------------------
ASSUME InstancesAreValid ==
  /\ ChainsAssumption /\ Routing!RouterAssumption
  /\ QuotaAssumption /\ LimitsAssumption /\ TtlAssumption
  /\ Reading!BodiesAssumption /\ Reading!ChunkAssumption
  /\ FramesAssumption /\ SessionAssumption
  /\ Matching!PatternAssumption
  /\ VersionsAssumption /\ NoVersionAssumption
  /\ SetsAssumption /\ HistoryAssumption
  /\ Declaring!TypesAssumption
  /\ Providing!ProvidersAssumption /\ Providing!CallsAssumption

\* A part that is not chosen starts, and stays, in one of its initial states.  The
\* first request is of every kind, the second one a path of every route in scope.
MCInit ==
  /\ part \in Parts
  /\ part # "dispatch" =>
       chain = <<>> /\ about = CHOOSE a \in [Requests -> About] : TRUE
  /\ part # "multipart" => body = Delimiter \o Dashes
  /\ part # "socket" => frames = <<F("ping", FALSE, 0)>>
  /\ part # "matcher" =>
       /\ pattern = Choice(<<Sequence(<<>>)>>) /\ value = <<>>
       /\ anchoredStart = TRUE /\ anchoredEnd = TRUE
       /\ generation = 0 /\ marks = <<0>> /\ repeats = "never"
  /\ part # "providers" =>
       app = Plugins(<<0>>, <<<<Provider("A", "singleton", <<>>, <<I>>)>>>>, 1, <<"A">>, <<>>)
  /\ part # "queue" => deadTopic = TRUE
  /\ part # "syntax" => text = <<>>
  /\ Init /\ DispatchInit /\ Routing!Init /\ LimitInit /\ Reading!Init
  /\ TalkInit /\ Matching!Init /\ MigrationsInit /\ Providing!ChainInit
  /\ Declaring!Init /\ Spelling!Init
  /\ part = "dispatch" => about["r2"].inside /\ ~about["r2"].secured

MCNext ==
  /\ \/ part = "queue" /\ Next
     \/ part = "dispatch" /\ DispatchNext
     \/ part = "router" /\ Routing!Next
     \/ part = "limit" /\ LimitNext
     \/ part = "multipart" /\ Reading!Next
     \/ part = "socket" /\ TalkNext
     \/ part = "matcher" /\ Matching!Next
     \/ part = "migrations" /\ MigrationsNext
     \/ part = "providers" /\ Providing!ChainNext
     \/ part = "contract" /\ Declaring!Next
     \/ part = "syntax" /\ Spelling!Next
  /\ part # "queue" => UNCHANGED vars
  /\ part # "dispatch" => UNCHANGED dispatchVars
  /\ part # "router" => UNCHANGED routerVars
  /\ part # "limit" => UNCHANGED rateVars
  /\ part # "multipart" => UNCHANGED multipartVars
  /\ part # "socket" => UNCHANGED socketVars
  /\ part # "matcher" => UNCHANGED matcherVars
  /\ part # "migrations" => UNCHANGED migrationVars
  /\ part # "providers" => UNCHANGED providerVars
  /\ part # "contract" => UNCHANGED contractVars
  /\ part # "syntax" => UNCHANGED syntaxVars
  /\ UNCHANGED part

mcVars ==
  <<part, vars, dispatchVars, routerVars, rateVars, multipartVars,
    socketVars, matcherVars, migrationVars, providerVars, contractVars, syntaxVars>>

MCSpec == MCInit /\ [][MCNext]_mcVars

------------------------------------------------------------------------------
(* The properties, each stated and explained in its module.  Those that are *)
(* slow to evaluate are evaluated where they are about; MetricsBalance,     *)
(* ImplementsTokenBuckets, MigrationsAgree, SessionIsOrderly and the         *)
(* queue's are their modules' own.                                          *)

\* The type invariant of every part (their TypeOKs), and the representation
\* invariant of the bucket table.
StatesAreSound ==
  /\ part = "queue" => TypeOK
  /\ part = "dispatch" => DispatchTypeOK
  /\ part = "router" => Routing!TypeOK
  /\ part = "limit" => LimitTypeOK /\ TableIsConsistent
  /\ part = "multipart" => Reading!TypeOK
  /\ part = "socket" => TalkTypeOK
  /\ part = "matcher" => Matching!TypeOK
  /\ part = "migrations" => MigrationsTypeOK
  /\ part = "providers" => Providing!TypeOK /\ Providing!ChainTypeOK

\* A request is read as it was meant: its path by the best template that fits,
\* whatever is mounted beside it, and its body cut into the parts it has.
RequestsAreUnderstood ==
  /\ part = "router" => Routing!RecognizesTheBest /\ Routing!MountsStayApart
  /\ part = "multipart" => Reading!StreamIsFaithful
\* A pattern matches what it means, and what the macro lets through compiles.
MatchingIsRight ==
  /\ part = "matcher" => Matching!MatchingIsRight
  /\ part = "syntax" => Spelling!TypeOK /\ Spelling!LintAgrees

\* An application that starts provides what its operations need, and is declared
\* as it was written.
BuildIsSound ==
  /\ part = "providers" => Providing!ProvidersAreRight
  /\ part = "contract" => Declaring!TypeOK /\ Declaring!ContractAgrees
===============================================================================
