--------------------------- MODULE OperationInputs ---------------------------
(***************************************************************************)
(* The arguments of an operation, from the signature to the handler.  The  *)
(* operation macro refuses signatures it cannot serve, the build folds in  *)
(* what the providers read and checks the names, OpenAPI and MCP publish   *)
(* the inputs, and one of two transports extracts each of them again, by   *)
(* code of its own: an HTTP request gives raw text by source and index,    *)
(* a tool call gives one JSON object.  Whatever is published, extracted    *)
(* and rejected was derived three times from one signature, and must       *)
(* agree.                                                                  *)
(*                                                                         *)
(* Text is one of a few samples: numbers, "null", a word, and "%" for what *)
(* does not percent-decode (or, in a part, is not UTF-8).  JSON values are *)
(* tuples tagged by their kind.                                            *)
(***************************************************************************)
EXTENDS Naturals, FiniteSets, SequencesExt

CONSTANTS
  None,       \* no alias, no call yet
  Types,      \* the TypeDescriptor of each type: form, item, fields
  Providers,  \* the providers by type: arguments, lifetime, whether async
  Handlers,   \* the signatures that are expanded
  MaxPairs    \* bound: pairs, parts and keys of one call

VARIABLES
  handler,      \* the function under #[operation]
  placeholders, \* the names in its path
  stage,        \* source, refused, expanded, unbuildable, built, called
  call,         \* the transport and what it carried
  answer        \* the rejection, or the values the handler was called with

inputsVars == <<handler, placeholders, stage, call, answer>>

Texts == {"1", "0", "null", "word", "%"}
Encoded == "Zm9v"                      \* base64 text, for what a tool sends as a file
Null == <<"null">>
Bad == <<"bad">>                       \* does not decode
Absent == <<"absent">>
Parked == <<"file">>                   \* what stands for an upload in the document
Rejected(status, code) == <<"rejected", status, code>>

BodyKinds == {"Json", "Form", "Multipart", "File", "Stream"}
ParameterKinds == {"Path", "Query", "Header", "Cookie"}
DependencyKinds == {"Depends", "Direct"}

------------------------------------------------------------------------------
\* operation_inputs: what a signature may declare.
SignatureIsFit(args) ==
  /\ \A a \in ToSet(args) :
       /\ a.held # "unique"
       /\ a.held = "shared" => a.kind \in DependencyKinds
       /\ a.kind = "Path" => ~a.optional
  /\ Cardinality({i \in DOMAIN args : args[i].kind \in BodyKinds}) <= 1

\* provider_tokens: a provider reads scalars, and only while there is a request.
ProviderIsFit(p) ==
  /\ \A a \in ToSet(p.args) :
       /\ a.kind \in ParameterKinds \cup {"Depends"}
       /\ a.kind = "Path" => ~a.optional
  /\ p.lifetime = "singleton" => ~p.async /\ \A a \in ToSet(p.args) : a.kind = "Depends"

Expands(h) ==
  /\ SignatureIsFit(h.args)
  /\ h.tool => \A a \in ToSet(h.args) : a.kind # "Stream"
  /\ \A p \in DOMAIN Providers : ProviderIsFit(Providers[p])

Needs(args) == [i \in DOMAIN SelectSeq(args, LAMBDA a : a.kind \in DependencyKinds) |->
                  SelectSeq(args, LAMBDA a : a.kind \in DependencyKinds)[i].of]

\* plan_operation_inputs: the providers a handler reaches, last pushed first.
RECURSIVE Reached(_, _)
Reached(pending, visited) ==
  IF pending = <<>> THEN visited
  ELSE LET p == Last(pending) IN
       IF p \in ToSet(visited) \/ Providers[p].lifetime = "singleton"
         THEN Reached(Front(pending), visited)
         ELSE Reached(Front(pending) \o Needs(Providers[p].args), Append(visited, p))

ProviderReads(h) ==
  LET reached == Reached(Needs(h.args), <<>>) IN
  FlattenSeq([i \in DOMAIN reached |->
    SelectSeq(Providers[reached[i]].args, LAMBDA a : a.kind \in ParameterKinds)])

SameSlot(a, b) == a.kind = b.kind /\ a.name = b.name
ConflictingProviderInput(h) ==
  \E a, b \in ToSet(ProviderReads(h)) :
    SameSlot(a, b) /\ <<a.of, a.optional>> # <<b.of, b.optional>>

\* One decoder per source and name, before the arguments of the handler.
Slots(h) ==
  LET reads == ProviderReads(h)
      first == {i \in DOMAIN reads : \A j \in 1 .. i - 1 : ~SameSlot(reads[j], reads[i])}
  IN  [n \in 1 .. Cardinality(first) |->
         reads[CHOOSE i \in first : Cardinality({j \in first : j <= i}) = n]]

\* Mutant: what the providers read stays out of the contract.
InputsUnfolded(h) == SelectSeq(h.args, LAMBDA a : a.kind \in ParameterKinds \cup BodyKinds)

\* The contract's inputs: those the handler declares, then those folded in.
Inputs(h) ==
  LET declared == SelectSeq(h.args, LAMBDA a : a.kind \in ParameterKinds \cup BodyKinds)
  IN  declared \o SelectSeq(Slots(h), LAMBDA s : ~\E a \in ToSet(declared) : SameSlot(a, s))

IsModel(a) == Types[a.of].form = "model"
Fields(a) == Types[a.of].fields

\* input_public_names: the names of a model's fields, or the argument's own.
PublicNames(a) ==
  IF IsModel(a) THEN [i \in DOMAIN Fields(a) |-> Fields(a)[i].name] ELSE <<a.name>>

\* validate_operation_inputs
BuildsWith(h, names) ==
  LET inputs == Inputs(h)
      paths == SelectSeq(inputs, LAMBDA a : a.kind = "Path")
      public == FlattenSeq([i \in DOMAIN inputs |-> PublicNames(inputs[i])])
  IN  /\ ~ConflictingProviderInput(h)
      /\ names = UNION {ToSet(PublicNames(a)) : a \in ToSet(paths)}
      /\ IsInjective(public)

------------------------------------------------------------------------------
\* Decoding, shared by the transports: serde, then the rules of the model.
FitsItem(item, v) ==
  \/ item = "int" /\ v[1] = "num"
  \/ item = "text" /\ v[1] = "str"
  \/ item = "binary" /\ v = Parked

Fits(item, list, v) ==
  IF list THEN v[1] = "list" /\ \A x \in ToSet(v[2]) : FitsItem(item, x)
  ELSE FitsItem(item, v)

Keys(f) == <<f.name>> \o IF f.alias = None THEN <<>> ELSE <<f.alias>>

\* One field, from the keys of an object: a name and its alias are one field twice.
DecodeField(f, object) ==
  LET keys == ToSet(Keys(f)) \cap DOMAIN object
      v == object[CHOOSE k \in keys : TRUE]
  IN  CASE Cardinality(keys) > 1 -> Bad
        [] keys = {} /\ f.nullable -> Null
        [] keys = {} /\ ~f.nullable -> IF f.default THEN <<"default">> ELSE Bad
        [] OTHER -> IF (v = Null /\ f.nullable) \/ Fits(f.item, f.list, v) THEN v ELSE Bad

DecodeModel(a, v) ==
  LET decoded == [i \in DOMAIN Fields(a) |-> DecodeField(Fields(a)[i], v[2])]
  IN  IF v[1] # "object" \/ Bad \in ToSet(decoded) THEN Bad ELSE <<"model", decoded>>

DecodeValue(a, v) ==
  IF a.optional /\ v = Null THEN Null
  ELSE IF IsModel(a) THEN IF v[1] = "object" THEN DecodeModel(a, v) ELSE Bad
  ELSE IF Fits(Types[a.of].item, Types[a.of].form = "list", v) THEN v ELSE Bad

\* validate_decoded: a scalar carries no rules.
BreaksARule(a, decoded) ==
  decoded[1] = "model" /\ \E i \in DOMAIN Fields(a) :
    decoded[2][i][1] = "num" /\ decoded[2][i][2] < Fields(a)[i].least

\* decode_rejection: only the source decides the code.
Undecodable(a) == Rejected(422, IF a.kind = "Json" THEN "invalid_json" ELSE "invalid_input")

\* extract_argument, once the document of the argument is assembled.
Extract(a, v) ==
  LET decoded == IF v[1] = "rejected" THEN v ELSE DecodeValue(a, v) IN
  CASE v[1] = "rejected" -> v
    [] decoded = Bad -> Undecodable(a)
    [] OTHER -> IF BreaksARule(a, decoded) THEN Rejected(422, "validation_error") ELSE decoded

Missing(a) == IF a.optional THEN Null ELSE Rejected(422, "missing_input")

\* A field is read under its name or else its alias, whichever is there.
Look(f, found) ==
  LET hits == {i \in DOMAIN Keys(f) : found[Keys(f)[i]] # Absent}
      key == Keys(f)[Min(hits)]
  IN  IF hits = {} THEN {} ELSE {<<key, found[key]>>}

\* The model's document; an optional model of which nothing arrived is none.
Document(a, given) ==
  IF given = {} /\ a.optional THEN Null
  ELSE <<"object", [k \in {g[1] : g \in given} |-> (CHOOSE g \in given : g[1] = k)[2]]>>

\* FilePayload::from_uploads
Payload(a, count) ==
  CASE a.optional /\ count = 0 -> Null
    [] count = 1 \/ (Types[a.of].form = "list" /\ count > 0) -> <<"files", count>>
    [] OTHER -> Rejected(422, "invalid_file_count")

------------------------------------------------------------------------------
\* HTTP: raw text, looked up by source, name and index.
Leading(s, sound) == SubSeq(s, 1, Cardinality({n \in DOMAIN s : 1 .. n \subseteq sound}))

Pairs(r, kind) ==
  CASE kind = "Query" -> r.query [] kind = "Header" -> r.header
    [] kind = "Cookie" -> r.cookie [] kind = "Form" -> r.body[2]

\* The values by index until there is none: an undecodable name ends the lookup
\* of every name behind it, an undecodable value that of its own.
Given(r, kind, name) ==
  IF kind = "Path" THEN IF name \in DOMAIN r.path THEN <<r.path[name]>> ELSE <<>>
  ELSE LET decodes(t) == kind \in {"Query", "Form"} => t # "%"
           pairs == Pairs(r, kind)
           read == SelectSeq(Leading(pairs, {i \in DOMAIN pairs : decodes(pairs[i].name)}),
                             LAMBDA p : p.name = name)
       IN  Leading([i \in DOMAIN read |-> read[i].text],
                   {i \in DOMAIN read : decodes(read[i].text)})

\* raw_scalar_value: a number is read as JSON, and "null" is JSON too.
Scalar(text, item) ==
  CASE item = "int" /\ text \in {"1", "0"} -> <<"num", IF text = "1" THEN 1 ELSE 0>>
    [] item = "int" /\ text = "null" -> Null
    [] OTHER -> <<"str", text>>

RawTyped(texts, item, list) ==
  CASE texts = <<>> -> Absent
    [] list -> <<"list", [i \in DOMAIN texts |-> Scalar(texts[i], item)]>>
    [] OTHER -> Scalar(texts[1], item)

RawArgument(a, r) ==
  LET t == Types[a.of]
      raw == RawTyped(Given(r, a.kind, a.name), t.item, t.form = "list")
  IN  IF IsModel(a)
        THEN Document(a, UNION {
               Look(f, [k \in ToSet(Keys(f)) |-> RawTyped(Given(r, a.kind, k), f.item, f.list)]) :
               f \in ToSet(t.fields)})
        ELSE IF raw = Absent THEN Missing(a) ELSE raw

\* multipart_parts_value: all parts of that name for a list, else the first one.
PartsValue(parts, item, list) ==
  LET read == IF list \/ parts = <<>> THEN parts ELSE <<parts[1]>>
      values == [i \in DOMAIN read |->
                   IF item = "binary" THEN Parked ELSE Scalar(read[i].text, item)]
  IN  CASE read = <<>> -> Absent
        [] item # "binary" /\ \E p \in ToSet(read) : p.text = "%" ->
             Rejected(422, "invalid_multipart")
        [] OTHER -> IF list THEN <<"list", values>> ELSE values[1]

\* multipart_argument_value: by the names of the fields, not by their aliases.
MultipartArgument(a, r) ==
  LET named(k) == SelectSeq(r.body[2], LAMBDA p : p.name = k)
      t == Types[a.of]
      found == {<<f.name, PartsValue(named(f.name), f.item, f.list)>> : f \in ToSet(t.fields)}
      value == PartsValue(named(a.name), t.item, t.form = "list")
  IN  CASE r.body = <<"broken">> -> Rejected(422, "invalid_multipart")
        [] r.body # <<"broken">> /\ IsModel(a) ->
             IF \E x \in found : x[2][1] = "rejected"
               THEN Rejected(422, "invalid_multipart")
               ELSE Document(a, {x \in found : x[2] # Absent})
        [] OTHER -> IF value = Absent THEN Missing(a) ELSE value

\* WebSocketRequest::from_invocation, in the order of its tests.
Handshake(r) ==
  CASE r.upgrade = "plain" -> Rejected(400, "websocket_upgrade_required")
    [] r.upgrade = "old" -> Rejected(400, "unsupported_websocket_version")
    [] r.upgrade = "keyless" -> Rejected(400, "invalid_websocket_key")
    [] OTHER -> <<"handshake">>

\* A dependency is handed over by reference, or cloned.
Dependency(a) == <<IF a.held = "shared" \/ a.kind = "Depends" THEN "handle" ELSE "clone">>

FromHttp(a, r) ==
  CASE a.kind \in ParameterKinds \cup {"Form"} -> Extract(a, RawArgument(a, r))
    [] a.kind = "Json" -> Extract(a, r.body[2])
    [] a.kind = "Multipart" -> Extract(a, MultipartArgument(a, r))
    [] a.kind = "File" ->
         IF r.body = <<"broken">> THEN Rejected(422, "invalid_multipart")
         ELSE Payload(a, Len(SelectSeq(r.body[2], LAMBDA p : p.name = a.name)))
    [] a.kind = "Stream" -> <<"stream">>
    [] a.kind = "Extract" -> <<"parts">>
    [] a.kind = "Extension" ->
         IF r.installed THEN <<"extension">> ELSE Rejected(500, "missing_request_extension")
    [] a.kind = "WebSocket" -> Handshake(r)
    [] OTHER -> Dependency(a)

------------------------------------------------------------------------------
\* Mutant: the fields of a tool's arguments are found by their names alone.
StructuredByName(a, args) ==
  IF IsModel(a)
  THEN Document(a, {<<f.name, args[f.name]>> :
                      f \in {g \in ToSet(Fields(a)) : g.name \in DOMAIN args}})
  ELSE IF a.name \in DOMAIN args THEN args[a.name] ELSE Missing(a)

\* A tool call: one JSON object, given as a function of its keys.
StructuredArgument(a, args) ==
  LET value == IF a.name \in DOMAIN args /\ args[a.name][1] = "object" THEN args[a.name]
               ELSE Document(a, UNION {
                      Look(f, [k \in ToSet(Keys(f)) |-> IF k \in DOMAIN args THEN args[k] ELSE Absent]) :
                      f \in ToSet(Fields(a))})
  IN  IF IsModel(a)
      THEN IF a.optional /\ value[1] = "object" /\ DOMAIN value[2] = {} THEN Null ELSE value
      ELSE IF a.name \in DOMAIN args THEN args[a.name] ELSE Missing(a)

\* upload_from_value: base64 text, an object that carries some, or the file spelled out.
IsUpload(v) ==
  CASE v[1] = "str" -> v[2] = Encoded
    [] v[1] = "object" -> \E k \in {"base64", "data", "content"} \cap DOMAIN v[2] :
                            v[2][k] = <<"str", Encoded>>
    [] OTHER -> v = Parked

\* upload_arguments: where the key is missing, the arguments as a whole are the file.
UploadArgument(a, args) ==
  LET v == IF a.name \in DOMAIN args THEN args[a.name] ELSE <<"object", args>>
      uploads == IF v[1] = "list" THEN v[2] ELSE <<v>>
  IN  CASE v = Null -> IF a.optional THEN Null ELSE Missing(a)
        [] v # Null /\ \E u \in ToSet(uploads) : ~IsUpload(u) -> Undecodable(a)
        [] OTHER -> Payload(a, Len(uploads))

FromTool(a, args) ==
  CASE a.kind \in ParameterKinds \cup {"Json", "Form", "Multipart"} ->
         Extract(a, StructuredArgument(a, args))
    [] a.kind = "File" -> UploadArgument(a, args)
    [] a.kind = "Extract" -> Rejected(400, "transport_mismatch")
    [] a.kind = "Extension" -> Rejected(500, "extension_transport_mismatch")
    [] a.kind = "WebSocket" -> Rejected(400, "websocket_requires_http")
    [] OTHER -> Dependency(a)

------------------------------------------------------------------------------
\* Providers' inputs are decoded first, then the arguments in order; the first
\* rejection answers.
Read(h) == Slots(h) \o h.args

Outcome(values) ==
  LET rejected == {i \in DOMAIN values : values[i][1] = "rejected"} IN
  IF rejected = {} THEN <<"called", values>> ELSE values[Min(rejected)]

BodyOf(h) == SelectSeq(h.args, LAMBDA a : a.kind \in BodyKinds)

UrlIsDecodable(r) == \A p \in ToSet(r.query) : "%" \notin {p.name, p.text}

\* validate_body: the limit, then the media type of what is read as a whole.
BodyFault(h, r) ==
  CASE BodyOf(h) = <<>> -> None
    [] BodyOf(h) # <<>> /\ r.fault = "large" -> Rejected(413, "payload_too_large")
    [] BodyOf(h) # <<>> /\ BodyOf(h)[1].kind # "Stream" /\ r.fault = "media" ->
         Rejected(415, "unsupported_media_type")
    [] OTHER -> None

\* dispatch_unlayered, from the routed request to the handler.
HttpAnswer(h, r) ==
  CASE ~UrlIsDecodable(r) -> Rejected(400, "invalid_url_encoding")
    [] UrlIsDecodable(r) /\ BodyFault(h, r) # None -> BodyFault(h, r)
    [] OTHER -> Outcome([i \in DOMAIN Read(h) |-> FromHttp(Read(h)[i], r)])

ToolAnswer(h, args) == Outcome([i \in DOMAIN Read(h) |-> FromTool(Read(h)[i], args)])

------------------------------------------------------------------------------
\* The calls that are tried: the names a caller may know, at the sources that are read.
NamesAt(h, kind) ==
  UNION {IF IsModel(a) THEN UNION {ToSet(Keys(f)) : f \in ToSet(Fields(a))} ELSE {a.name} :
         a \in {b \in ToSet(Read(h)) : b.kind = kind}}

SourcesRead(h) == {a.kind : a \in {b \in ToSet(Read(h)) : b.kind \in
                     {"Query", "Header", "Cookie", "Form", "Multipart", "File"}}}
Length(h) == IF Cardinality(SourcesRead(h)) > 1 THEN 1 ELSE MaxPairs

PairsAt(h, kind) ==
  IF kind \notin SourcesRead(h) THEN {<<>>}
  ELSE SeqOf([name : NamesAt(h, kind) \cup (IF kind \in {"Query", "Form"} THEN {"%"} ELSE {}),
                   text : Texts], Length(h))

Values ==
  {Null, <<"num", 0>>, <<"num", 1>>, <<"str", "word">>, <<"str", Encoded>>, Parked,
   <<"list", << <<"num", 1>> >> >>, <<"list", << <<"str", "word">> >> >>,
   <<"object", [k \in {"base64"} |-> <<"str", Encoded>>]>>}

Objects(names) ==
  UNION {[keys -> Values] : keys \in {k \in SUBSET names : Cardinality(k) <= MaxPairs}}

Bodies(h) ==
  IF BodyOf(h) = <<>> THEN {<<"none">>}
  ELSE LET kind == BodyOf(h)[1].kind IN
    CASE kind = "Form" -> {<<"pairs", p>> : p \in PairsAt(h, kind)}
      [] kind = "Json" -> {<<"json", v>> : v \in
           {Bad, Null, <<"num", 1>>} \cup {<<"object", o>> : o \in Objects(NamesAt(h, kind))}}
      [] kind \in {"Multipart", "File"} -> {<<"broken">>} \cup {<<"parts", p>> : p \in PairsAt(h, kind)}
      [] OTHER -> {<<"none">>}

Has(h, kind) == \E a \in ToSet(h.args) : a.kind = kind

------------------------------------------------------------------------------
Init ==
  /\ handler = [args |-> <<>>, tool |-> FALSE]
  /\ placeholders = {} /\ stage = "source" /\ call = None /\ answer = None

\* operation_tokens
Expand(h) ==
  /\ stage = "source"
  /\ handler' = h
  /\ stage' = IF Expands(h) THEN "expanded" ELSE "refused"
  /\ UNCHANGED <<placeholders, call, answer>>

Build(names) ==
  /\ stage = "expanded"
  /\ placeholders' = names
  /\ stage' = IF BuildsWith(handler, names) THEN "built" ELSE "unbuildable"
  /\ UNCHANGED <<handler, call, answer>>

CallHttp(r) ==
  /\ stage = "built"
  /\ stage' = "called"
  /\ call' = <<"http", r>>
  /\ answer' = HttpAnswer(handler, r)
  /\ UNCHANGED <<handler, placeholders>>

CallTool(args) ==
  /\ stage = "built" /\ handler.tool
  /\ stage' = "called"
  /\ call' = <<"tool", args>>
  /\ answer' = ToolAnswer(handler, args)
  /\ UNCHANGED <<handler, placeholders>>

Next ==
  \/ \E h \in Handlers : Expand(h)
  \/ \E names \in SUBSET NamesAt(handler, "Path") : Build(names)
  \/ /\ stage = "built"
     /\ \E path \in [placeholders -> {"1", "word"}], query \in PairsAt(handler, "Query"),
           header \in PairsAt(handler, "Header"), cookie \in PairsAt(handler, "Cookie"),
           body \in Bodies(handler), fault \in {"none", "media", "large"},
           upgrade \in IF Has(handler, "WebSocket") THEN {"plain", "old", "keyless", "good"} ELSE {"plain"},
           installed \in IF Has(handler, "Extension") THEN BOOLEAN ELSE {FALSE} :
          CallHttp([path |-> path, query |-> query, header |-> header, cookie |-> cookie,
                    body |-> body, fault |-> fault, upgrade |-> upgrade, installed |-> installed])
  \/ /\ stage = "built"
     /\ \E args \in Objects(UNION {NamesAt(handler, k) : k \in ParameterKinds \cup BodyKinds}) :
          CallTool(args)

InputsTypeOK ==
  /\ stage \in {"source", "refused", "expanded", "unbuildable", "built", "called"}
  /\ stage \in {"source", "refused", "expanded"} => placeholders = {}
  /\ (stage = "called") = (call # None) /\ (call = None) = (answer = None)

------------------------------------------------------------------------------
\* What is published of an input: parameter_values, and the schema of a body,
\* which states what the model requires once there is a body.
Parameters(a) ==
  IF IsModel(a)
    THEN {[name |-> f.name, keys |-> ToSet(Keys(f)), item |-> f.item, list |-> f.list,
           least |-> f.least, needed |-> ~f.nullable /\ ~f.default,
           required |-> (a.kind \in BodyKinds \/ ~a.optional) /\ ~f.nullable /\ ~f.default] : f \in ToSet(Fields(a))}
    ELSE {[name |-> a.name, keys |-> {a.name}, item |-> Types[a.of].item,
           list |-> Types[a.of].form = "list", least |-> 0, needed |-> ~a.optional,
           required |-> ~a.optional]}

\* source_rejection_codes and rejection_codes: the 422s OpenAPI tells of.
SourceCodes(kind) ==
  CASE kind = "Json" -> {"validation_error", "invalid_json"}
    [] kind \in ParameterKinds \cup {"Form"} -> {"validation_error", "invalid_input"}
    [] kind = "Multipart" -> {"validation_error", "invalid_multipart", "invalid_input"}
    [] kind = "File" -> {"invalid_multipart", "invalid_file_count"}
    [] OTHER -> {}

RejectionCodes(h) ==
  UNION {SourceCodes(a.kind) \cup
         (IF a.kind \notin {"Json", "File", "Stream"} /\ ~IsModel(a) /\ (~a.optional \/ a.kind = "Path")
            THEN {"missing_input"} ELSE {}) : a \in ToSet(Inputs(h))}

\* The samples a schema allows.
TextFits(p, text) ==
  /\ p.item = "int" => text \in {"1", "0"} /\ (p.least > 0 => text = "1")
  /\ p.item = "text" => text # "%"
ValueFits(p, v) == Fits(p.item, p.list, v) /\ (v[1] = "num" => v[2] >= p.least)

\* What a request carries of a parameter: its texts, parts or value, by its name.
Carried(a, r, name) ==
  CASE a.kind \in {"Multipart", "File"} ->
         LET parts == SelectSeq(r.body[2], LAMBDA p : p.name = name)
         IN  [i \in DOMAIN parts |-> parts[i].text]
    [] a.kind = "Json" -> IF name \in DOMAIN r.body[2][2] THEN <<r.body[2][2][name]>> ELSE <<>>
    [] OTHER -> Given(r, a.kind, name)

Readable(h, r) ==
  /\ r.fault = "none"
  /\ r.body # <<"broken">>
  /\ r.body[1] = "json" => r.body[2][1] = "object"

\* A request as the document asks for it.  Of a model that is optional as a whole
\* the document shows no field as required; either all it needs is there or nothing.
Conforms(h, r) ==
  /\ Readable(h, r)
  /\ UrlIsDecodable(r)
  /\ r.body[1] \in {"pairs", "parts"} => \A p \in ToSet(r.body[2]) : p.name # "%"
  /\ \A a \in ToSet(Inputs(h)) : a.kind # "Stream" =>
       LET carried == [p \in Parameters(a) |-> Carried(a, r, p.name)] IN
       /\ \A p \in Parameters(a) :
            /\ p.required => carried[p] # <<>>
            /\ \A x \in ToSet(carried[p]) :
                 IF a.kind = "Json" THEN ValueFits(p, x) ELSE TextFits(p, x)
            /\ \A k \in p.keys \ {p.name} : Carried(a, r, k) = <<>>
            /\ a.kind = "File" /\ ~p.list => Len(carried[p]) <= 1
       /\ (\E p \in Parameters(a) : carried[p] # <<>>) =>
             \A p \in Parameters(a) : p.needed => carried[p] # <<>>

\* A request the document allows reaches the handler, one without something the
\* document requires does not; every 422 is one the document tells of; and a path
\* that was matched has a value for every argument read from it.  (Code: OpenAPI
\* derives parameters and codes from the contract by rules of its own, openapi/
\* src/lib.rs:868-928 and 1000-1027, which must mirror executor/src/lib.rs:3811-4246.)
DocumentIsHonest ==
  stage = "called" /\ call[1] = "http" =>
    LET r == call[2] IN
    /\ Conforms(handler, r) /\ ~Has(handler, "WebSocket") /\ (Has(handler, "Extension") => r.installed)
         => answer[1] = "called"
    /\ (\E a \in ToSet(Inputs(handler)) : a.kind # "Stream" /\ Readable(handler, r) /\
          \E p \in Parameters(a) :
            /\ p.required /\ \A k \in p.keys : Carried(a, r, k) = <<>>
            /\ a.optional => \E q \in Parameters(a) : Carried(a, r, q.name) # <<>>)
         => answer[1] # "called"
    /\ answer[1] = "rejected" /\ answer[2] = 422 => answer[3] \in RejectionCodes(handler)
    /\ \A a \in ToSet(Inputs(handler)) : a.kind = "Path" => FromHttp(a, r) # Missing(a)

\* The arguments of a tool that say what a request said.
Said(a, r) ==
  LET raw(k, item, list) ==
        IF a.kind = "Multipart" THEN PartsValue(SelectSeq(r.body[2], LAMBDA p : p.name = k), item, list)
        ELSE RawTyped(Given(r, a.kind, k), item, list)
      t == Types[a.of]
      heard(f) == IF a.kind = "Multipart" THEN [f EXCEPT !.alias = None] ELSE f
  IN  CASE a.kind = "Json" -> IF r.body[2] = Null THEN {} ELSE {<<k, r.body[2][2][k]>> : k \in DOMAIN r.body[2][2]}
        [] a.kind = "File" ->
             LET n == Len(SelectSeq(r.body[2], LAMBDA p : p.name = a.name)) IN
             {<<a.name, IF n = 1 THEN <<"str", Encoded>> ELSE <<"list", [i \in 1 .. n |-> <<"str", Encoded>>]>> >>}
        [] a.kind \notin {"Json", "File"} /\ IsModel(a) ->
             UNION {Look(heard(f), [k \in ToSet(Keys(heard(f))) |-> raw(k, f.item, f.list)]) :
                      f \in ToSet(t.fields)}
        [] OTHER -> LET v == raw(a.name, t.item, t.form = "list")
                    IN  IF v = Absent THEN {} ELSE {<<a.name, v>>}

\* A tool that is told what an accepted request said calls the handler with the same
\* values, unless two inputs share a key (an alias of one may be a name of another).
\* (Code: select_model_fields, field_input_names and upload_arguments must find by
\* key what the lookups by source found, executor/src/lib.rs:3900-4232.)
TransportsAgree ==
  stage = "called" /\ call[1] = "http" /\ answer[1] = "called" /\ handler.tool =>
    LET said == UNION {Said(a, call[2]) : a \in ToSet(Inputs(handler))}
        keys == {s[1] : s \in said}
        args == [k \in keys |-> (CHOOSE s \in said : s[1] = k)[2]]
    IN  \/ ToolAnswer(handler, args) = answer
        \/ \E a, b \in ToSet(Inputs(handler)) :
             a # b /\ \E x \in Parameters(a), y \in Parameters(b) : x.keys \cap y.keys # {}
==============================================================================
