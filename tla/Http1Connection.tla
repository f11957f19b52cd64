---------------------------- MODULE Http1Connection ----------------------------
(***************************************************************************)
(* One HTTP/1 connection of crates/blazingly-native/src/lib.rs, on either  *)
(* of its two paths: serve_native_connection, which collects pipelined     *)
(* responses and writes them in batches, and serve_connection, which TLS   *)
(* and other transports use and which writes each response at once.        *)
(*                                                                         *)
(* The peer's bytes are counted in units.  Two units make a request head,  *)
(* one of which may arrive before the other, and each unit of a body is a  *)
(* chunk.  A step ends where the code awaits; what a head says, what the   *)
(* application answers and when timers run out are chosen freely.          *)
(***************************************************************************)
EXTENDS Naturals, Sequences, SequencesExt

CONSTANTS Owned,         \* TransportOwnership: an upgrade can take the transport
          MaxBatch,      \* ServerLimits::max_pipeline_batch
          MaxRequests,   \* ServerLimits::max_requests_per_connection
          MaxBody,       \* ServerLimits::max_body_bytes, in units
          MaxUnits       \* bound: units the peer sends

ASSUME LimitsAssumption ==
  /\ Owned \in BOOLEAN
  /\ {MaxBatch, MaxRequests} \subseteq Nat \ {0}
  /\ MaxBody \in Nat /\ MaxUnits \in Nat

HeadUnits == 2

Requests == [body : 0..MaxBody + 1, stream : BOOLEAN, keep : BOOLEAN,
             expect : {"none", "continue", "unsupported"}]

Responses == [kind : {"full", "streaming", "upgrade"}, tasks : BOOLEAN]

VARIABLES
  native,    \* the path: TRUE for serve_native_connection
  pc,        \* where the connection's task waits
  unread,    \* units in the socket
  sent,      \* units the peer has sent
  eof,       \* the peer has closed its side
  buffer,    \* units in the connection's buffer, from the current request on
  req,       \* the parsed head
  left,      \* units of a streamed body still to come
  answer,    \* the handler's response, while the connection holds it
  wire,      \* wire_response: entries not yet written
  out,       \* entries written to the socket
  batch,     \* buffered_responses
  done,      \* completed_requests
  shutdown,  \* ShutdownState::requested
  at,        \* completed_requests when it was set (history)
  started,   \* requests whose background tasks have been spawned (history)
  failed     \* the task returned an error

peer == <<unread, sent, eof>>
conn == <<buffer, req, left, answer>>
mode == <<native, shutdown, at>>
vars == <<pc, peer, conn, wire, out, batch, done, mode, started, failed>>

NoAnswer == [kind |-> "none", tasks |-> FALSE]

Init ==
  /\ native \in BOOLEAN
  /\ pc = "head"
  /\ unread = 0 /\ sent = 0 /\ eof = FALSE
  /\ buffer = 0 /\ left = 0 /\ answer = NoAnswer
  /\ req = [body |-> 0, stream |-> FALSE, keep |-> TRUE, expect |-> "none"]
  /\ wire = <<>> /\ out = <<>>
  /\ batch = 0 /\ done = 0
  /\ shutdown = FALSE /\ at = 0
  /\ started = {}
  /\ failed = FALSE

(* The request that is being served. *)
Current == done + 1

Entry(r, kind, keep) == [req |-> r, kind |-> kind, keep |-> keep]

------------------------------------------------------------------------------
(* The peer, and the shutdown handle. *)

PeerSends ==
  /\ ~eof /\ sent < MaxUnits
  /\ sent' = sent + 1 /\ unread' = unread + 1
  /\ UNCHANGED <<pc, eof, conn, wire, out, batch, done, mode, started, failed>>

PeerCloses ==
  /\ ~eof /\ eof' = TRUE
  /\ UNCHANGED <<pc, unread, sent, conn, wire, out, batch, done, mode, started, failed>>

Shutdown ==
  /\ ~shutdown /\ shutdown' = TRUE /\ at' = done
  /\ UNCHANGED <<native, pc, peer, conn, wire, out, batch, done, started, failed>>

------------------------------------------------------------------------------
(* Writing. *)

\* flush_native_pending: everything in wire, and what follows it, is written.
FlushWith(es) == out' = out \o wire \o es /\ wire' = <<>>

Flush == FlushWith(<<>>)

\* Mutant: the interim status overtakes the responses in the buffer.
ContinueOvertakes ==
  /\ out' = out \o <<Entry(Current, "interim", TRUE)>> \o wire
  /\ wire' = <<>> /\ batch' = 0

\* write_continue and write_continue_native.
WriteContinue ==
  /\ FlushWith(<<Entry(Current, "interim", TRUE)>>)
  /\ batch' = 0

\* write_rejection_native, after which every caller returns.
Reject ==
  /\ FlushWith(<<Entry(Current, "reject", FALSE)>>)
  /\ pc' = "closed"
  /\ UNCHANGED <<peer, conn, batch, done, mode, started, failed>>

\* A read or a write fails, or a write or body deadline passes.
Breaks ==
  /\ pc \notin {"closed", "upgraded"}
  /\ pc' = "closed" /\ failed' = TRUE
  /\ UNCHANGED <<peer, conn, wire, out, batch, done, mode, started>>

Goes(next) == pc' = next /\ UNCHANGED <<peer, done, mode, started, failed>>

------------------------------------------------------------------------------
(* The head. *)

\* parse_head finds a whole head; what it says is arbitrary.
ParseHead ==
  /\ pc = "head" /\ buffer >= HeadUnits
  /\ req' \in Requests
  /\ Goes("gate")
  /\ UNCHANGED <<buffer, left, answer, wire, out, batch>>

\* It finds a malformed head, or one that has outgrown max_header_bytes.
RejectHead == pc = "head" /\ buffer > 0 /\ Reject

\* Mutant: responses stay in the buffer while the peer's next bytes are awaited.
AwaitHeadUnflushed ==
  /\ pc = "head" /\ buffer < HeadUnits
  /\ Goes("read")
  /\ UNCHANGED <<conn, wire, out, batch>>

AwaitHead ==
  /\ pc = "head" /\ buffer < HeadUnits
  /\ Flush /\ batch' = 0
  /\ Goes("read")
  /\ UNCHANGED conn

\* native_read_more: some of what the peer has sent.
ReadMore(from, next) ==
  /\ pc = from /\ unread > 0
  /\ \E n \in 1..unread : unread' = unread - n /\ buffer' = buffer + n
  /\ pc' = next
  /\ UNCHANGED <<sent, eof, req, left, answer, wire, out, batch, done, mode, started, failed>>

ReadHead == ReadMore("read", "head")

AtEnd(from) == pc = from /\ unread = 0 /\ eof

\* The peer has closed, or the idle timeout of a connection with no request.
HeadEnds ==
  /\ pc = "read" /\ (buffer = 0 \/ AtEnd("read"))
  /\ Goes("closed")
  /\ UNCHANGED <<conn, wire, out, batch>>

\* header_read_timeout passes over a partial head.
HeadDeadline == pc = "read" /\ buffer > 0 /\ Reject

------------------------------------------------------------------------------
(* Between the head and the body. *)

RejectsRequest == req.expect = "unsupported" \/ req.body > MaxBody

RejectRequest == pc = "gate" /\ RejectsRequest /\ Reject

\* 100 Continue, the route, and for a streamed body the flush before it.
Admit ==
  /\ pc = "gate" /\ ~RejectsRequest
  /\ IF req.expect = "continue" /\ req.body > 0 THEN WriteContinue
     ELSE IF req.stream THEN Flush /\ UNCHANGED batch
     ELSE UNCHANGED <<wire, out, batch>>
  /\ IF req.stream
     THEN Goes("upload") /\ left' = req.body /\ buffer' = buffer - HeadUnits
     ELSE Goes("body") /\ UNCHANGED <<left, buffer>>
  /\ UNCHANGED <<req, answer>>

------------------------------------------------------------------------------
(* A buffered body. *)

RequestUnits == HeadUnits + req.body

BodyComplete ==
  /\ pc = "body" /\ buffer >= RequestUnits
  /\ Goes("handler")
  /\ UNCHANGED <<conn, wire, out, batch>>

AwaitBody ==
  /\ pc = "body" /\ buffer < RequestUnits
  /\ Flush /\ batch' = 0
  /\ Goes("readbody")
  /\ UNCHANGED conn

ReadBody == ReadMore("readbody", "body")

\* The body is malformed, or the peer closes before its end.
RejectBody ==
  /\ (pc = "body" /\ req.body > 0) \/ AtEnd("readbody")
  /\ Reject

------------------------------------------------------------------------------
(* A streamed body: dispatch_streaming relays it while the handler runs. *)

\* From the buffer first, then from the socket, whose surplus is kept.
Relay ==
  /\ pc = "upload" /\ left > 0
  /\ \/ /\ buffer > 0 /\ buffer' = buffer - 1 /\ left' = left - 1
        /\ UNCHANGED unread
     \/ /\ buffer = 0 /\ unread > 0
        /\ \E n \in 1..unread :
             /\ unread' = unread - n
             /\ left' = IF n >= left THEN 0 ELSE left - n
             /\ buffer' = IF n > left THEN n - left ELSE 0
  /\ UNCHANGED <<pc, sent, eof, req, answer, wire, out, batch, done, mode, started, failed>>

\* The handler answers while its body is still being relayed.
AnswersEarly ==
  /\ pc = "upload" /\ left > 0 /\ answer = NoAnswer
  /\ answer' \in Responses
  /\ UNCHANGED <<pc, peer, buffer, req, left, wire, out, batch, done, mode, started, failed>>

\* The decoder rejects the body, or the peer closes before its end.
RejectUpload ==
  /\ pc = "upload" /\ left > 0
  /\ buffer > 0 \/ AtEnd("upload")
  /\ Reject

------------------------------------------------------------------------------
(* The response. *)

KeepsAlive == req.keep /\ done + 1 < MaxRequests /\ ~shutdown

\* Mutant: the loop forgets max_requests_per_connection.
ContinuesPastLimit(keep) == IF req.keep /\ ~shutdown THEN "head" ELSE "closed"

Continues(keep) == IF keep THEN "head" ELSE "closed"

\* consume_prefix, which the streamed request has had before.
Consume ==
  buffer' = IF req.stream THEN buffer ELSE buffer - RequestUnits

\* schedule_background, once write_response has returned.
Schedule(a) == started' = IF a.tasks THEN started \cup {Current} ELSE started

BatchIsFull(n) == n >= MaxBatch

\* write_response_native leaves a whole response in the buffer.  It is written
\* with its batch: when MaxBatch is reached or MAX_PIPELINE_WRITE_BYTES is (the
\* choice of full), which a streamed request does not test, or at the end.
RespondFull(a) ==
  LET w == Append(wire, Entry(Current, "full", KeepsAlive))
      n == IF req.stream THEN 1 ELSE batch + 1
  IN /\ a.kind = "full"
     /\ \E full \in BOOLEAN :
          /\ full => ~req.stream
          /\ ~req.stream /\ BatchIsFull(n) => full
          /\ batch' = IF full THEN 0 ELSE n
          /\ IF full \/ ~KeepsAlive THEN out' = out \o w /\ wire' = <<>>
             ELSE wire' = w /\ UNCHANGED out

\* write_response writes it.
RespondFullCompat(a) ==
  /\ a.kind = "full"
  /\ FlushWith(<<Entry(Current, "full", KeepsAlive)>>)
  /\ UNCHANGED batch

\* The head of a streaming response takes the pending responses with it, and
\* says what becomes of the connection.
RespondStreaming(a) ==
  /\ a.kind = "streaming"
  /\ FlushWith(<<Entry(Current, "head", KeepsAlive)>>)
  /\ answer' = a
  /\ pc' = "stream"
  /\ UNCHANGED <<peer, buffer, req, left, batch, done, mode, started, failed>>

\* An upgrade takes the transport and what is buffered of the peer's bytes.
RespondUpgrade(a) ==
  /\ a.kind = "upgrade" /\ (native \/ Owned)
  /\ FlushWith(<<Entry(Current, "switch", TRUE)>>)
  /\ Schedule(a) /\ Consume
  /\ pc' = "upgraded"
  /\ UNCHANGED <<peer, req, left, answer, batch, done, mode, failed>>

\* 501, from a transport that only borrows its stream.
RefuseUpgrade(a) == a.kind = "upgrade" /\ ~native /\ ~Owned /\ Reject

\* A whole response is encoded, its tasks are spawned, its request is consumed.
Respond(a) ==
  \/ /\ IF native THEN RespondFull(a) ELSE RespondFullCompat(a)
     /\ Schedule(a) /\ Consume
     /\ done' = done + 1
     /\ pc' = Continues(KeepsAlive)
     /\ answer' = NoAnswer
     /\ UNCHANGED <<peer, req, left, mode, failed>>
  \/ RespondStreaming(a) \/ RespondUpgrade(a) \/ RefuseUpgrade(a)

\* The handler of a buffered request, and that of a streamed one whose body has
\* ended: its answer is the one it gave, or the one it gives now.
HandlerAnswers ==
  \/ pc = "handler" /\ \E a \in Responses : Respond(a)
  \/ /\ pc = "upload" /\ left = 0
     /\ \E a \in IF answer = NoAnswer THEN Responses ELSE {answer} : Respond(a)

\* The stream ends; an error in it, or a length that is not the declared one,
\* is a case of Breaks.
StreamEnds ==
  /\ pc = "stream"
  /\ out' = Append(out, Entry(Current, "end", Last(out).keep))
  /\ Schedule(answer) /\ Consume
  /\ done' = done + 1 /\ batch' = 0
  /\ pc' = Continues(Last(out).keep)
  /\ answer' = NoAnswer
  /\ UNCHANGED <<peer, req, left, wire, mode, failed>>

\* Mutant: no deadline on a body that is read into the buffer.
BodyDeadlineOnUploads == pc = "upload" /\ left > 0 /\ buffer = 0 /\ Breaks

\* body_read_timeout.
BodyDeadline ==
  /\ pc = "readbody" \/ (pc = "upload" /\ left > 0 /\ buffer = 0)
  /\ Breaks

(* What the connection does of itself when its peer does nothing more. *)
Serves ==
  \/ ParseHead \/ AwaitHead \/ ReadHead \/ HeadEnds \/ HeadDeadline
  \/ RejectRequest \/ Admit
  \/ BodyComplete \/ AwaitBody \/ ReadBody \/ RejectBody
  \/ Relay \/ AnswersEarly \/ RejectUpload \/ BodyDeadline
  \/ HandlerAnswers \/ StreamEnds

Next == PeerSends \/ PeerCloses \/ Shutdown \/ RejectHead \/ Serves \/ Breaks

Spec == Init /\ [][Next]_vars

(* Handlers and their streams end; reads have deadlines. *)
FairSpec == Spec /\ WF_vars(Serves)

------------------------------------------------------------------------------
(* Properties *)

(* Everything answered so far, as the peer will read it. *)
Answered == out \o wire

\* The response of request r is whole in s.
IsWhole(s, r) == \E i \in DOMAIN s : s[i].req = r /\ s[i].kind \in {"full", "end"}

Kinds == {"interim", "full", "head", "end", "switch", "reject"}

\* Every variable has its type.
TypeOK ==
  /\ pc \in {"head", "read", "gate", "body", "readbody", "upload", "handler",
             "stream", "closed", "upgraded"}
  /\ native \in BOOLEAN /\ unread \in Nat /\ sent \in 0..MaxUnits /\ eof \in BOOLEAN
  /\ buffer \in Nat /\ left \in Nat /\ req \in Requests
  /\ answer \in Responses \cup {NoAnswer}
  /\ wire \in Seq([req : Nat, kind : Kinds, keep : BOOLEAN])
  /\ out \in Seq([req : Nat, kind : Kinds, keep : BOOLEAN])
  /\ batch \in Nat /\ done \in Nat /\ shutdown \in BOOLEAN /\ at \in Nat
  /\ started \subseteq Nat /\ failed \in BOOLEAN

\* Every completed request has its whole response, and the peer reads the
\* entries in the order of the requests, each request's last one once: neither
\* a batch, nor a 100 Continue, nor a stream overtakes what is pending.
AnsweredInOrder ==
  /\ \A r \in 1..done : IsWhole(Answered, r)
  /\ \A i, j \in DOMAIN Answered : i < j =>
       /\ Answered[i].req <= Answered[j].req
       /\ Answered[i].req = Answered[j].req => Answered[i].kind \in {"interim", "head"}

\* The connection never waits for its peer, and never ends in order, with a
\* response in its buffer: a peer that waits for its answer gets it.
NothingIsHeldBack ==
  pc \in {"read", "readbody", "upload", "stream", "upgraded"} \/ (pc = "closed" /\ ~failed)
    => wire = <<>>

\* Nothing follows an entry that announced the close of the connection, except
\* the rest of the same response.
CloseIsLast ==
  \A i \in DOMAIN Answered : ~Answered[i].keep =>
    \A j \in DOMAIN Answered : j > i => Answered[j].req = Answered[i].req

\* Shutdown lets at most two more requests be answered: the one being served,
\* and when that one was already streaming, the one behind it.
FewAfterShutdown == shutdown => done <= at + 2

\* Both: the connection ends soon, and with the response that says so.
CloseIsFinal == CloseIsLast /\ FewAfterShutdown

\* README.md:162 and the comment of Background in blazingly-core/src/lib.rs:
\* the work of a background task starts after its response is sent.
TasksAfterBody ==
  \A r \in started : \E i \in DOMAIN out : out[i].req = r /\ out[i].kind \in {"full", "end", "switch"}

\* with_max_pipeline_batch: no more than MaxBatch responses are coalesced into
\* one write.  It holds from two on: with a batch of one the response of a
\* streamed request, which does not test the bound, waits for the next one.
CoalescesAtMostABatch ==
  [][done' = done + 1 \/ (pc # "stream" /\ pc' = "stream") => Len(wire) < MaxBatch]_vars

\* After shutdown the connection ends, whatever its peer does.
ShutdownCloses == shutdown ~> pc \in {"closed", "upgraded"}
===============================================================================
