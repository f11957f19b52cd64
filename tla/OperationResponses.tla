-------------------------- MODULE OperationResponses --------------------------
(***************************************************************************)
(* What an operation answers, from its return type to the client.  The     *)
(* macros read status, body and failures off the return type and publish   *)
(* them; at run time the value itself becomes an outcome, wrapper by       *)
(* wrapper, and each transport makes its own answer of the outcome: HTTP   *)
(* a response that error handlers may rework, MCP a tool result.  Nothing  *)
(* but these conversions makes the answer and the document agree.          *)
(*                                                                         *)
(* Bodies are told apart by their JSON kind and media type, headers by     *)
(* name; how a request is refused before the handler runs is modelled in   *)
(* OperationInputs and SecurityChecks, and is an outcome here.             *)
(***************************************************************************)
EXTENDS Naturals, FiniteSets, SequencesExt

CONSTANTS
  None,       \* no body, no tool, no answer yet
  Operations, \* the return types that are expanded, with what else is published
  Statuses    \* what error handlers may set

VARIABLES
  operation,  \* the operation under the macro
  phase,      \* source, refused, published, answered
  ran,        \* what happened when it was called
  response    \* what the client was answered

responsesVars == <<operation, phase, ran, response>>

NoBody == {"NoContent"}
Streams == {"StreamingBody", "Sse"}
Upgrades == {"HttpUpgrade", "WebSocketUpgrade"}

BaseStatus(base) ==
  CASE base = "NoContent" -> 204 [] base = "Created" -> 201 [] base = "Accepted" -> 202 [] OTHER -> 200

------------------------------------------------------------------------------
\* success_output: the outermost Status decides, and every Status is checked
\* against the body below it.
StatusIsFit(o) ==
  \A w \in ToSet(o.wraps) : w.kind = "Status" =>
    /\ w.status \in 200 .. 399
    /\ w.status \in {204, 304} => o.base \in NoBody

PublishedStatus(o) ==
  LET set == SelectSeq(o.wraps, LAMBDA w : w.kind = "Status") IN
  IF set = <<>> THEN BaseStatus(o.base) ELSE set[1].status

HeaderIsFit(name) == name # "bad name"
VariantIsFit(v) == v.status \in 400 .. 599 /\ \A n \in v.headers : HeaderIsFit(n)

Expands(o) == StatusIsFit(o) /\ \A v \in ToSet(o.errors) : VariantIsFit(v)

\* response_media_type: only raw bytes are not JSON.
PublishedMedia(base) ==
  IF base \in {"StreamingBody"} \cup Upgrades THEN "bytes" ELSE "json"

\* error_descriptor_tokens and error_schema: what is published of a variant.
Described(v) ==
  [status |-> v.status, is |-> "failure", code |-> v.code, media |-> "json",
   headers |-> v.headers, details |-> v.payload]

\* security_responses, and the 422 of inputs that may be rejected.
Derived(o) ==
  (IF o.decodes THEN {422} ELSE {})
    \cup (IF o.security # "none" THEN {401} ELSE {})
    \cup (IF o.security = "scopes" THEN {403} ELSE {})

\* operation_value: the responses by status, where a later one of a status
\* replaces an earlier one, and where the derived ones come last.
Published(o) ==
  LET success == [status |-> PublishedStatus(o), is |-> "success", code |-> None,
                  media |-> IF o.base \in NoBody THEN None ELSE PublishedMedia(o.base),
                  headers |-> {}, details |-> FALSE]
      declared == <<success>> \o [i \in DOMAIN o.errors |-> Described(o.errors[i])]
      last(s) == declared[Max({i \in DOMAIN declared : declared[i].status = s})]
      statuses == {declared[i].status : i \in DOMAIN declared}
  IN  [s \in statuses \cup Derived(o) |->
         IF s \in statuses THEN last(s)
         ELSE [status |-> s, is |-> "derived", code |-> None, media |-> "json",
               headers |-> {}, details |-> FALSE]]

------------------------------------------------------------------------------
\* into_execution_outcome, from the value inwards: what the base becomes.
Succeeded(is, status, media, body) ==
  [is |-> is, status |-> status, code |-> None, media |-> media, body |-> body,
   headers |-> {}, details |-> FALSE, tasks |-> <<>>]
Failed(is, status, code, headers, details) ==
  [is |-> is, status |-> status, code |-> code, media |-> None, body |-> None,
   headers |-> headers, details |-> details, tasks |-> <<>>]
Internal(code) == Failed("internal", 500, code, {}, FALSE)

BaseOutcome(o, run) ==
  CASE o.base = "NoContent" -> Succeeded("success", 204, None, None)
    [] o.base = "StreamingBody" -> Succeeded("stream", 200, "bytes", None)
    [] o.base = "Sse" -> Succeeded("stream", 200, "events", None)
    [] o.base = "Html" -> Succeeded("success", 200, "html", "markup")
    [] o.base \in Upgrades -> Succeeded("upgrade", 101, None, None)
    [] o.base = "PreparedJson" -> Succeeded("success", 200, "json", run.body)
    [] OTHER -> IF run.serializes THEN Succeeded("success", BaseStatus(o.base), "json", run.body)
                ELSE Internal("serialization_failed")

\* Background: tasks ride on a success only.
Scheduled(outcome, task) ==
  IF outcome.is \in {"success", "stream", "upgrade"}
    THEN [outcome EXCEPT !.tasks = Append(@, task)] ELSE outcome

\* Status: an upgrade and a failure keep theirs.
Restated(outcome, status) ==
  IF outcome.is \in {"success", "stream"} THEN [outcome EXCEPT !.status = status] ELSE outcome

\* WithHeaders: an invalid header is an internal error, whatever is inside.
Headed(outcome, name) ==
  CASE ~HeaderIsFit(name) -> Internal("invalid_response_header")
    [] HeaderIsFit(name) /\ outcome.is = "internal" -> outcome
    [] OTHER -> [outcome EXCEPT !.headers = @ \cup {name}]

Wrap(outcome, w) ==
  CASE w.kind = "Status" -> Restated(outcome, w.status)
    [] w.kind = "Background" -> Scheduled(outcome, w.task)
    [] OTHER -> Headed(outcome, w.header)

\* The generated into_failure of a variant.
Raised(v, serializes) ==
  IF v.payload /\ ~serializes THEN Internal("serialization_failed")
  ELSE Failed("domain", v.status, v.code, v.headers, v.payload)

\* Result, and what stands in for the handler's outcome when it did not run.
Outcome(o, run) ==
  CASE run.is = "returned" -> FoldRight(LAMBDA w, outcome : Wrap(outcome, w), o.wraps, BaseOutcome(o, run))
    [] run.is = "failed" -> Raised(o.errors[run.variant], run.serializes)
    [] run.is = "dependency" -> Failed("domain", 403, "not_yours", {}, FALSE)
    [] OTHER -> Failed("rejected", 422, "invalid_input", {}, TRUE)

------------------------------------------------------------------------------
\* outcome_result and fail: an error handler may rework the response, but the
\* status of a typed failure is published and stays.
Reworked(failure, status) ==
  IF status = None \/ failure.is = "domain" THEN failure ELSE [failure EXCEPT !.status = status]

HttpResponse(outcome, status, injected) ==
  LET failure == [outcome EXCEPT !.media = "json", !.code = IF outcome.is = "internal" THEN "internal_error" ELSE @]
      answered == IF outcome.is \in {"success", "stream", "upgrade"} THEN outcome
                  ELSE Reworked(failure, status)
  IN  [answered EXCEPT !.tasks = @ \o injected]

\* security_guard and the verifying layers, before the operation.
Unauthorized(o, run) ==
  Failed("guard", IF run.is = "forbidden" THEN 403 ELSE 401, run.is, {}, FALSE)

------------------------------------------------------------------------------
\* result_schema and object_result: what is no object is put into one.
ObjectResult(body) == IF body = "object" THEN <<"itself", body>> ELSE <<"result", body>>

\* outputSchema, as tool_value publishes it.
OutputSchema(o) ==
  IF o.base \in NoBody \/ o.tool.exposure # "full" THEN None
  ELSE IF o.shape = "object" THEN <<"itself", "object">> ELSE <<"result", o.shape>>

ToolResult(error, code, structured) == [error |-> error, code |-> code, structured |-> structured]
Protocol(code) == ToolResult("protocol", code, None)

\* call_tool: an outcome, but for its headers and background tasks.
ToolResponse(o, run, confirmed) ==
  LET outcome == Outcome(o, run) IN
  CASE o.tool.confirmation /\ ~confirmed -> ToolResult("tool", "confirmation_required", None)
    [] (~o.tool.confirmation \/ confirmed) /\ outcome.is \in {"stream", "upgrade", "internal"} ->
         Protocol("-32603")
    [] (~o.tool.confirmation \/ confirmed) /\ outcome.is = "success" ->
         IF outcome.media = "html" THEN Protocol("-32603")
         ELSE ToolResult("none", None,
                IF outcome.body = None \/ o.tool.exposure # "full" THEN None
                ELSE ObjectResult(outcome.body))
    [] OTHER -> ToolResult("tool", outcome.code, None)

------------------------------------------------------------------------------
Runs(o) ==
  [is : {"returned"}, body : IF o.shape = "maybe" THEN {"object", "null"} ELSE {o.shape},
   serializes : BOOLEAN, variant : {0}]
  \cup [is : {"failed"}, body : {None}, serializes : BOOLEAN, variant : DOMAIN o.errors]
  \cup [is : {"dependency"}, body : {None}, serializes : {TRUE}, variant : {0}]
  \cup [is : IF o.decodes THEN {"rejected"} ELSE {}, body : {None}, serializes : {TRUE}, variant : {0}]

Refusals(o) ==
  CASE o.security = "none" -> {} [] o.security = "scheme" -> {"unauthorized"}
    [] OTHER -> {"unauthorized", "forbidden"}

Init ==
  /\ operation = None /\ phase = "source" /\ ran = None /\ response = None

\* operation_output, error_tokens, and the document made of what they found.
Expand(o) ==
  /\ phase = "source"
  /\ operation' = o
  /\ phase' = IF Expands(o) THEN "published" ELSE "refused"
  /\ UNCHANGED <<ran, response>>

AnswerHttp(run, status, injected) ==
  /\ phase = "published"
  /\ phase' = "answered"
  /\ ran' = <<"http", run>>
  /\ response' = HttpResponse(Outcome(operation, run), status, injected)
  /\ UNCHANGED operation

Refuse(run, status) ==
  /\ phase = "published"
  /\ phase' = "answered"
  /\ ran' = <<"http", run>>
  /\ response' = HttpResponse(Unauthorized(operation, run), status, <<>>)
  /\ UNCHANGED operation

AnswerTool(run, confirmed) ==
  /\ phase = "published" /\ operation.tool # None
  /\ phase' = "answered"
  /\ ran' = <<"tool", run>>
  /\ response' = ToolResponse(operation, run, confirmed)
  /\ UNCHANGED operation

Next ==
  \/ \E o \in Operations : Expand(o)
  \/ /\ phase = "published"
     /\ \E run \in Runs(operation) :
          \/ \E status \in Statuses \cup {None}, injected \in {<<>>, <<"injected">>} :
               AnswerHttp(run, status, injected)
          \/ \E confirmed \in BOOLEAN : AnswerTool(run, confirmed)
  \/ /\ phase = "published"
     /\ \E refusal \in Refusals(operation), status \in Statuses \cup {None} :
          Refuse([is |-> refusal, body |-> None, serializes |-> TRUE, variant |-> 0], status)

ResponsesTypeOK ==
  /\ phase \in {"source", "refused", "published", "answered"}
  /\ (phase = "source") = (operation = None)
  /\ (phase = "answered") = (ran # None) /\ (ran = None) = (response = None)

------------------------------------------------------------------------------
\* An answer of the operation is one the document tells of: a success by status,
\* media type and body, a typed failure by status, code, headers and details, or by
\* the status alone where a later variant has it too; and no error handler takes a
\* typed failure elsewhere.  What is answered otherwise is known: upgrades and the
\* types of other crates that call themselves a string (Sse, Html), a provider's
\* own failure, and what error handlers make of refusals.  (Code: success_output
\* and error_descriptor_tokens, macros/src/lib.rs:4332 and 1772, beside the impls of
\* OperationOutput, executor/src/lib.rs:1411-1566, and fail, http/src/lib.rs:1676.)
AnswersArePublished ==
  phase = "answered" /\ ran[1] = "http" =>
    LET o == operation
        document == Published(o)
        told == document[response.status]
        declared == [status |-> response.status, code |-> response.code,
                     headers |-> response.headers, payload |-> response.details]
        variant == o.errors[ran[2].variant]
        shadowed == \E i \in DOMAIN o.errors :
                      /\ i > ran[2].variant /\ o.errors[i].status = variant.status
                      /\ told.code = o.errors[i].code
    IN  CASE response.is \in {"success", "stream"} ->
               /\ response.status \in DOMAIN document
               /\ told.is = "success"
               /\ o.base \in {"Sse", "Html"} \/ told.media = response.media
          [] response.is = "domain" /\ ran[2].is = "failed" ->
               /\ response.status \in DOMAIN document
               /\ told.is = "failure"
               /\ declared = variant
               /\ told.code = response.code \/ shadowed
               /\ shadowed \/ (told.headers = response.headers /\ told.details = response.details)
          [] response.is = "rejected" -> 422 \in DOMAIN document
          [] response.is = "guard" -> (IF response.code = "forbidden" THEN 403 ELSE 401) \in DOMAIN document
          [] OTHER -> TRUE

\* Tasks of the value run after a success, in their order and before injected ones,
\* and are dropped with it; injected ones run whatever is answered.  (Code: the
\* comment on Background, executor/src/lib.rs:1479-1484, and dispatch_unlayered.)
TasksFollowTheAnswer ==
  phase = "answered" /\ ran[1] = "http" /\ ran[2].is \in {"returned", "failed"} =>
    LET own == FoldRight(LAMBDA w, tasks : IF w.kind = "Background" THEN Append(tasks, w.task) ELSE tasks,
                         operation.wraps, <<>>)
        kept == response.is \in {"success", "stream", "upgrade"}
    IN  \E injected \in {<<>>, <<"injected">>} :
          response.tasks = (IF kept /\ ran[2].is = "returned" THEN own ELSE <<>>) \o injected

\* A tool's result and the HTTP answer of the same run tell of the same failure, and
\* what a result carries fits the schema the tool declares, but for the null of an
\* optional body.  Streams, upgrades and markup can only fail, after they ran.
\* (Code: call_tool, mcp/src/lib.rs:103-206, beside outcome_result; result_schema
\* beside object_result, 264-311.)
ToolsAnswerAlike ==
  phase = "answered" /\ ran[1] = "tool" =>
    LET o == operation
        http == HttpResponse(Outcome(o, ran[2]), None, <<>>)
        empty == response.structured = None /\ http.body = None
    IN  CASE response.code = "confirmation_required" /\ o.tool.confirmation -> TRUE
          [] response.error = "none" ->
               /\ http.is = "success"
               /\ empty \/ o.shape = "maybe" \/ response.structured = OutputSchema(o)
          [] response.error = "protocol" ->
               http.code = "internal_error" \/ o.base \in Streams \cup Upgrades \cup {"Html"}
          [] OTHER -> response.error = "tool" /\ http.code = response.code /\ http.status \in 400 .. 599

ResponsesAreTold == AnswersArePublished /\ TasksFollowTheAnswer
==============================================================================
