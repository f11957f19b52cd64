----------------------------- MODULE McpProtocol -----------------------------
(***************************************************************************)
(* What an MCP server answers (crates/blazingly-mcp/src/jsonrpc.rs,        *)
(* lib.rs and registry.rs), whatever carries the messages: one message of  *)
(* a session in a state of its lifecycle is refused, answered, or starts a *)
(* call of an operation, a resource's reader or a prompt's renderer.       *)
(*                                                                         *)
(* A message is a record.  form says how far it decodes; valid that its    *)
(* params have the shape its method asks for; subject is the tool, the     *)
(* resource or the prompt they name.  Contents are left out.               *)
(***************************************************************************)
EXTENDS Naturals, Sequences

CONSTANTS
  Tools,     \* the MCP tools' names, to whether the operation asks for
             \* confirmation
  Resources, Prompts, \* what the registry holds
  JsonNull,      \* JSON's null, and no id
  NoValue

Lifecycle == {"Uninitialized", "Awaiting", "Ready"}

\* An id that is neither a string nor an integer.
BadId == "bad id"

Lists == {"tools/list", "resources/list", "prompts/list"}
Calls == {"tools/call", "resources/read", "prompts/get"}

\* The errors of a reply, by what they say.
Codes ==
  {"parse_error", "invalid_request", "invalid_params", "method_not_found",
   "not_initialized", "not_found", "internal_error", "own_error"}

Reply(id, code) == [id |-> id, code |-> code]

\* handle_line and handle_value, before the method: what is wrong with the
\* message itself, and the id the error carries.
Malformed(m) ==
  CASE m.form = "text"  -> Reply(JsonNull, "parse_error")
    [] m.form = "value" -> Reply(JsonNull, "invalid_request")
    [] m.form \in {"unversioned", "methodless", "result"} -> Reply(m.id, "invalid_request")
    [] m.form = "call" /\ m.id = BadId -> Reply(JsonNull, "invalid_request")
    [] OTHER -> NoValue

IsNotification(m) == m.form = "call" /\ m.id = JsonNull

\* handle_notification
AfterNotification(m, life) ==
  IF m.method = "notifications/initialized" /\ life = "Awaiting" THEN "Ready" ELSE life

Known(m) ==
  CASE m.method = "tools/call" -> m.subject \in DOMAIN Tools
    [] m.method = "resources/read" -> m.subject \in Resources
    [] OTHER -> m.subject \in Prompts

UnknownCode(m) == IF m.method = "resources/read" THEN "not_found" ELSE "invalid_params"

\* The checks of each method, in its order: NoValue if it goes through.
Refusal(m, life) ==
  IF m.method \notin {"initialize", "ping"} \cup Lists \cup Calls THEN "method_not_found"
  ELSE IF m.method = "initialize" /\ life # "Uninitialized" THEN "invalid_request"
  ELSE IF m.method \in Lists \cup Calls /\ life # "Ready" THEN "not_initialized"
  ELSE IF m.method # "ping" /\ ~m.valid THEN "invalid_params"
  ELSE IF m.method \in Calls /\ ~Known(m) THEN UnknownCode(m) ELSE NoValue

\* call_tool: an operation that asks for confirmation is not invoked without.
NeedsConfirmation(m) ==
  m.method = "tools/call" /\ Tools[m.subject] /\ ~m.confirmed

Starts(m, life) ==
  m.method \in Calls /\ Refusal(m, life) = NoValue /\ ~NeedsConfirmation(m)

AfterMethod(m, life) ==
  IF m.method = "initialize" /\ Refusal(m, life) = NoValue THEN "Awaiting" ELSE life

\* What the awaited call can end with.  A rejection and a domain error are
\* results the agent sees (isError); what cannot be a tool result is not.
Outcomes(m) ==
  CASE m.method = "tools/call" ->
         {"success", "rejected", "domain_error", "streaming", "upgrade", "internal", "not_json"}
    [] m.method = "resources/read" -> {"success", "own_error"}
    [] OTHER -> {"success", "invalid_params"}

OutcomeCode(outcome) ==
  CASE outcome \in {"success", "rejected", "domain_error"} -> NoValue
    [] outcome \in {"streaming", "upgrade", "internal", "not_json"} -> "internal_error"
    [] OTHER -> outcome

\* record_audit: the event of an answered request.
Event(m, sid, code) ==
  [method |-> m.method, subject |-> IF m.method \in Calls THEN m.subject ELSE NoValue,
   session |-> sid, code |-> code]
===============================================================================
