------------------------------- MODULE McpHttp -------------------------------
(***************************************************************************)
(* StreamableHttpServer (crates/blazingly-mcp/src/http.rs) with the        *)
(* lifecycle of each session and the audit log (audit.rs).  handle takes   *)
(* the server mutably, so that requests follow one another; a request can  *)
(* be dropped only while it awaits an operation, a reader or a renderer.   *)
(***************************************************************************)
EXTENDS McpProtocol, FiniteSets

CONSTANTS
  Sids,       \* ids the factory yields, repeated ones among them
  Messages,
  LogCapacity,   \* of the BoundedAuditLog
  MaxRequests \* bound on the requests of a behaviour

HttpAssumption ==
  /\ LogCapacity \in Nat /\ MaxRequests \in Nat
  /\ NoValue \notin Sids \cup Lifecycle \cup Codes

\* What keeps a request from being looked at, in the order of the checks.
Faults == [size |-> 413, origin |-> 403, type |-> 415, accept |-> 406]

VARIABLES
  sessions,  \* each session's lifecycle; a session that is not there is NoValue
  calling,   \* the message and the session of the awaited call
  events,    \* BoundedAuditLog.events
  answer,    \* the last response: its status, the session header and the reply
  posts,  \* requests so far
  handed,    \* the sessions whose id a client was given and has not deleted (history)
  noticed,   \* those of them whose client has said it is initialized (history)
  ran,       \* the operations that ran: session and message (history)
  answers    \* every answered request as its event (history)

mcpVars == <<sessions, calling, events, answer, posts, handed, noticed, ran, answers>>

Response(status, sid, reply) == [status |-> status, sid |-> sid, reply |-> reply]

McpInit ==
  /\ sessions = [s \in Sids |-> NoValue]
  /\ calling = NoValue /\ events = <<>> /\ answers = <<>>
  /\ answer = Response(0, NoValue, NoValue)
  /\ posts = 0 /\ handed = {} /\ noticed = {} /\ ran = {}

Arrives ==
  /\ calling = NoValue /\ posts < MaxRequests
  /\ posts' = posts + 1

Responds(status, sid, reply) == answer' = Response(status, sid, reply)

\* BoundedAuditLog::record
RecordEvent(event) ==
  /\ answers' = Append(answers, event)
  /\ events' = IF LogCapacity = 0 THEN events
               ELSE Append(IF Len(events) = LogCapacity THEN Tail(events) ELSE events, event)

NoEvent == UNCHANGED <<events, answers>>

------------------------------------------------------------------------------
(* What the endpoint answers by itself *)

Refuse(fault) ==
  /\ Arrives /\ Responds(Faults[fault], NoValue, NoValue)
  /\ NoEvent /\ UNCHANGED <<sessions, calling, handed, noticed, ran>>

Get ==
  /\ Arrives /\ Responds(405, NoValue, NoValue)
  /\ NoEvent /\ UNCHANGED <<sessions, calling, handed, noticed, ran>>

DeleteSession(header) ==
  /\ Arrives
  /\ IF header \in Sids /\ sessions[header] # NoValue
     THEN /\ sessions' = [sessions EXCEPT ![header] = NoValue]
          /\ handed' = handed \ {header} /\ noticed' = noticed \ {header}
          /\ Responds(204, NoValue, NoValue)
     ELSE /\ Responds(IF header = NoValue THEN 400 ELSE 404, NoValue, NoValue)
          /\ UNCHANGED <<sessions, handed, noticed>>
  /\ NoEvent /\ UNCHANGED <<calling, ran>>

\* post: a body that does not decode, and a client's response to a request.
PostUnread(m) ==
  /\ Arrives /\ m.form \in {"text", "result"}
  /\ IF m.form = "text"
     THEN Responds(400, NoValue, Malformed(m))
     ELSE Responds(202, NoValue, NoValue)
  /\ NoEvent /\ UNCHANGED <<sessions, calling, handed, noticed, ran>>

------------------------------------------------------------------------------
(* initialize_session *)

Initializes(m) == m.form \in {"unversioned", "call"} /\ m.method = "initialize"

\* The reply of the session's new server, which is not yet in the table.
Greeting(m) ==
  IF Malformed(m) # NoValue THEN Malformed(m)
  ELSE Reply(m.id, Refusal(m, "Uninitialized"))

InitializeRefused(m, header) ==
  /\ Arrives /\ Initializes(m)
  /\ \/ header # NoValue /\ Responds(400, NoValue, NoValue)
     \/ header = NoValue /\ Responds(500, NoValue, NoValue) \* eight ids in use or invalid
     \/ header = NoValue /\ IsNotification(m) /\ Responds(400, NoValue, NoValue)
  /\ NoEvent /\ UNCHANGED <<sessions, calling, handed, noticed, ran>>

\* Mutant: the session is entered before the reply is known.
InitializeEarly(m, header, sid) ==
  /\ Arrives /\ Initializes(m) /\ header = NoValue /\ ~IsNotification(m)
  /\ sessions[sid] = NoValue
  /\ sessions' = [sessions EXCEPT ![sid] = AfterMethod(m, "Uninitialized")]
  /\ IF Malformed(m) = NoValue THEN RecordEvent(Event(m, sid, Greeting(m).code)) ELSE NoEvent
  /\ IF Greeting(m).code # NoValue
     THEN Responds(400, NoValue, Greeting(m)) /\ UNCHANGED handed
     ELSE Responds(200, sid, Greeting(m)) /\ handed' = handed \cup {sid}
  /\ UNCHANGED <<calling, noticed, ran>>

InitializeSession(m, header, sid) ==
  /\ Arrives /\ Initializes(m) /\ header = NoValue /\ ~IsNotification(m)
  /\ sessions[sid] = NoValue \* unique_session_id
  /\ IF Malformed(m) = NoValue THEN RecordEvent(Event(m, sid, Greeting(m).code)) ELSE NoEvent
  /\ IF Greeting(m).code # NoValue
     THEN Responds(400, NoValue, Greeting(m)) /\ UNCHANGED <<sessions, handed>>
     ELSE /\ sessions' = [sessions EXCEPT ![sid] = AfterMethod(m, "Uninitialized")]
          /\ Responds(200, sid, Greeting(m))
          /\ handed' = handed \cup {sid}
  /\ UNCHANGED <<calling, noticed, ran>>

------------------------------------------------------------------------------
(* Messages of a session *)

ToSession(m) == Arrives /\ m.form \notin {"text", "result"} /\ ~Initializes(m)

PostMissed(m, header, version) ==
  /\ ToSession(m)
  /\ \/ header = NoValue /\ Responds(400, NoValue, NoValue)
     \/ header # NoValue /\ ~version /\ Responds(400, NoValue, NoValue)
     \/ header # NoValue /\ version /\ (header \notin Sids \/ sessions[header] = NoValue)
          /\ Responds(404, NoValue, NoValue)
  /\ NoEvent /\ UNCHANGED <<sessions, calling, handed, noticed, ran>>

Reaches(m, header, version) ==
  ToSession(m) /\ version /\ header \in Sids /\ sessions[header] # NoValue

PostNotification(m, header, version) ==
  /\ Reaches(m, header, version) /\ IsNotification(m)
  /\ sessions' = [sessions EXCEPT ![header] = AfterNotification(m, @)]
  /\ noticed' = IF m.method = "notifications/initialized" THEN noticed \cup {header} ELSE noticed
  /\ Responds(202, NoValue, NoValue)
  /\ NoEvent /\ UNCHANGED <<calling, handed, ran>>

\* A message that is answered at once.
PostAnswered(m, header, version) ==
  /\ Reaches(m, header, version) /\ ~IsNotification(m)
  /\ \/ /\ Malformed(m) # NoValue
        /\ Responds(200, NoValue, Malformed(m)) /\ NoEvent
     \/ /\ Malformed(m) = NoValue /\ ~Starts(m, sessions[header])
        /\ LET code == Refusal(m, sessions[header]) IN
           Responds(200, NoValue, Reply(m.id, code)) /\ RecordEvent(Event(m, header, code))
  /\ UNCHANGED <<sessions, calling, handed, noticed, ran>>

PostCall(m, header, version) ==
  /\ Reaches(m, header, version) /\ ~IsNotification(m)
  /\ Malformed(m) = NoValue /\ Starts(m, sessions[header])
  /\ calling' = [message |-> m, sid |-> header]
  /\ ran' = IF m.method = "tools/call" THEN ran \cup {calling'} ELSE ran
  /\ NoEvent /\ UNCHANGED <<sessions, answer, handed, noticed>>

CallEnds ==
  /\ calling # NoValue
  /\ \E outcome \in Outcomes(calling.message) :
       /\ Responds(200, NoValue, Reply(calling.message.id, OutcomeCode(outcome)))
       /\ RecordEvent(Event(calling.message, calling.sid, OutcomeCode(outcome)))
  /\ calling' = NoValue
  /\ UNCHANGED <<sessions, posts, handed, noticed, ran>>

\* The future of handle is dropped: nothing is answered or recorded.
CallDropped ==
  /\ calling # NoValue /\ calling' = NoValue
  /\ NoEvent /\ UNCHANGED <<sessions, answer, posts, handed, noticed, ran>>

McpNext ==
  \/ \E f \in DOMAIN Faults : Refuse(f)
  \/ Get \/ CallEnds \/ CallDropped
  \/ \E h \in Sids \cup {NoValue} : DeleteSession(h)
  \/ \E m \in Messages :
       \/ PostUnread(m)
       \/ \E h \in Sids \cup {NoValue} :
            \/ InitializeRefused(m, h)
            \/ \E s \in Sids : InitializeSession(m, h, s)
            \/ \E v \in BOOLEAN :
                 \/ PostMissed(m, h, v) \/ PostNotification(m, h, v)
                 \/ PostAnswered(m, h, v) \/ PostCall(m, h, v)

McpSpec == McpInit /\ [][McpNext]_mcpVars

------------------------------------------------------------------------------
McpTypeOK ==
  /\ sessions \in [Sids -> Lifecycle \cup {NoValue}]
  /\ calling = NoValue \/ (calling.message \in Messages /\ calling.sid \in Sids)
  /\ Len(events) <= LogCapacity
  /\ answer.status \in {0, 200, 202, 204, 400, 403, 404, 405, 406, 413, 415, 500}
  /\ posts \in 0 .. MaxRequests
  /\ handed \subseteq Sids /\ noticed \subseteq Sids

\* The sessions in the table are exactly those whose id a client was given and
\* has not deleted: a failed initialize leaves none behind.  A session is ready
\* only after its own client's notification, an id that is used again starts
\* from the beginning, no operation that asks for confirmation ran without, and
\* the audit log holds the last of the answered requests in their order.
McpIsOrderly ==
  /\ McpTypeOK
  /\ {s \in Sids : sessions[s] # NoValue} = handed
  /\ {s \in Sids : sessions[s] = "Ready"} = noticed
  /\ \A s \in Sids : sessions[s] # "Uninitialized"
  /\ \A c \in ran : Tools[c.message.subject] => c.message.confirmed
  /\ \E n \in 0 .. Len(answers) :
       /\ events = SubSeq(answers, n + 1, Len(answers))
       /\ n > 0 => Len(events) = LogCapacity

===============================================================================
