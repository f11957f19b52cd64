------------------------------ MODULE Http2Streams ------------------------------
(***************************************************************************)
(* The streams of one HTTP/2 connection: crates/blazingly-native/src/      *)
(* http2.rs with the body channel of src/lib.rs (IncomingBodySender and    *)
(* NativeIncomingBody).                                                    *)
(*                                                                         *)
(* One task reads frames and drives every stream's work: the handler, then *)
(* the poll of a streaming response, and beside them the poll that returns *)
(* receive-window credit for what the handler has read.  The frame codec   *)
(* is a library: a frame is an event, and a DATA frame carries one unit or *)
(* none.  Credit is attributed to the stream whose data it stands for.     *)
(***************************************************************************)
EXTENDS Naturals, FiniteSets

CONSTANTS Streams,
          MaxBody,  \* ServerLimits::max_body_bytes, in units
          MaxData   \* bound: units the peer sends on a stream

ASSUME BoundsAssumption == MaxBody \in Nat /\ MaxData \in Nat

VARIABLES
  remote,     \* what the peer has sent: "idle", "open", "ended" or "reset"
  data,       \* units of DATA received on each stream
  requests,   \* Streams::requests, heads whose handler has not started
  bodies,     \* Streams::bodies
  rejected,   \* Streams::rejected
  active,     \* Streams::active
  cancelled,  \* Streams::cancelled
  tokens,     \* Streams::tokens that have been cancelled
  work,       \* the stream's work in in_flight: "none", "handler" or "body"
  credit,     \* streams with a credit poll in in_flight
  received,   \* RequestBody::received
  credited,   \* RequestBody::credited
  ended,      \* RequestBody::ended
  queue,      \* the channel's queued units
  consumed,   \* IncomingBodyState::consumed_bytes
  open,       \* IncomingBodyState::receiver_open
  closed,     \* IncomingBodyState::closed
  windows,    \* [conn, stream]: credit returned for each stream's data
  reply,      \* what was sent: "none", "head", "whole" or "reset"
  afterReset, \* streams something was sent on after their reset (history)
  top,        \* the loop is at its test of shutdown
  shutdown,   \* ShutdownState::requested
  inputClosed,
  over        \* serve_connection has returned

book == <<requests, rejected, active, cancelled, tokens>>
body == <<bodies, received, credited, ended>>
channel == <<queue, consumed, open, closed>>
wire == <<reply, afterReset>>
loop == <<top, shutdown, inputClosed, over>>
vars == <<remote, data, book, work, credit, body, channel, windows, wire, loop>>

Zero == [s \in Streams |-> 0]
No == [s \in Streams |-> FALSE]

Init ==
  /\ remote = [s \in Streams |-> "idle"] /\ data = Zero
  /\ requests = {} /\ rejected = {} /\ active = {} /\ cancelled = {} /\ tokens = {}
  /\ work = [s \in Streams |-> "none"] /\ credit = {}
  /\ bodies = {} /\ received = Zero /\ credited = Zero /\ ended = No
  /\ queue = Zero /\ consumed = Zero /\ open = No /\ closed = No
  /\ windows = [s \in Streams |-> [conn |-> 0, stream |-> 0]]
  /\ reply = [s \in Streams |-> "none"] /\ afterReset = {}
  /\ top = FALSE /\ shutdown = FALSE /\ inputClosed = FALSE /\ over = FALSE

------------------------------------------------------------------------------
(* The loop of serve_connection. *)

\* One activity, after which the loop starts again.
Activity == ~over /\ ~top /\ top' = TRUE /\ UNCHANGED <<shutdown, inputClosed, over>>

Shutdown ==
  /\ ~shutdown /\ shutdown' = TRUE
  /\ UNCHANGED <<remote, data, book, work, credit, body, channel, windows, wire, top, inputClosed, over>>

\* The top of the loop: GOAWAY and return, or the end of input and of all work.
LoopTop ==
  /\ top /\ ~over
  /\ top' = FALSE
  /\ over' = (shutdown \/ (inputClosed /\ credit = {} /\ \A s \in Streams : work[s] = "none"))
  /\ UNCHANGED <<remote, data, book, work, credit, body, channel, windows, wire, shutdown, inputClosed>>

InputCloses ==
  /\ ~over /\ ~top /\ ~inputClosed
  /\ inputClosed' = TRUE /\ top' = TRUE
  /\ UNCHANGED <<remote, data, book, work, credit, body, channel, windows, wire, shutdown, over>>

\* A frame: process_input handles one event of the codec.
Frame == Activity /\ ~inputClosed

------------------------------------------------------------------------------
(* Sending. *)

\* replenish_connection_window and replenish_receive_window.
ReplenishConnection(s, n) == windows' = [windows EXCEPT ![s].conn = @ + n]

Replenish(s, n) == windows' = [windows EXCEPT ![s] = [conn |-> @.conn + n, stream |-> @.stream + n]]

Reset(s) == remote[s] = "reset" \/ reply[s] = "reset"

\* The codec takes nothing more for a stream that was reset.
Send(s, what) ==
  /\ reply' = [reply EXCEPT ![s] = IF Reset(s) THEN @ ELSE what]
  /\ afterReset' = IF Reset(s) THEN afterReset \cup {s} ELSE afterReset

------------------------------------------------------------------------------
(* Work in flight. *)

\* Streams::retire.
Retire(s) ==
  /\ active' = active \ {s} /\ cancelled' = cancelled \ {s} /\ tokens' = tokens \ {s}

\* Mutant: the work of a reset stream is left to run.
CancelUnsignalled(s) ==
  /\ cancelled' = IF s \in active THEN cancelled \cup {s} ELSE cancelled
  /\ UNCHANGED tokens

\* cancel_stream.  A stream has a token for as long as it is active.
Cancel(s) ==
  /\ cancelled' = IF s \in active THEN cancelled \cup {s} ELSE cancelled
  /\ tokens' = IF s \in active THEN tokens \cup {s} ELSE tokens

\* enqueue_dispatch.
Dispatch(s) ==
  /\ work' = [work EXCEPT ![s] = "handler"]
  /\ active' = active \cup {s}
  /\ UNCHANGED <<cancelled, tokens>>

\* incoming_body_channel.
OpenBody(s, end) ==
  /\ open' = [open EXCEPT ![s] = TRUE]
  /\ closed' = [closed EXCEPT ![s] = end]
  /\ bodies' = IF end THEN bodies ELSE bodies \cup {s}
  /\ credit' = IF end THEN credit ELSE credit \cup {s}
  /\ UNCHANGED <<queue, consumed, received, credited, ended>>

\* NativeIncomingBody::drop, when the handler or its response lets the body go.
DropBody(s) == open' = [open EXCEPT ![s] = FALSE]

------------------------------------------------------------------------------
(* process_input *)

Opens(s, end) ==
  Frame /\ remote[s] = "idle" /\ remote' = [remote EXCEPT ![s] = IF end THEN "ended" ELSE "open"]

\* A head that is malformed, or declares too long a body, is answered here.
RejectHead(s, end) ==
  /\ Opens(s, end)
  /\ Send(s, "whole")
  /\ rejected' = IF end THEN rejected ELSE rejected \cup {s}
  /\ UNCHANGED <<data, requests, active, cancelled, tokens, work, credit, body, channel, windows>>

\* begin_streaming_request.
StreamingHead(s, end) ==
  /\ Opens(s, end)
  /\ OpenBody(s, end) /\ Dispatch(s)
  /\ UNCHANGED <<data, requests, rejected, windows, wire>>

BufferedHead(s, end) ==
  /\ Opens(s, end)
  /\ IF end THEN Dispatch(s) /\ UNCHANGED requests
     ELSE requests' = requests \cup {s} /\ UNCHANGED <<work, active, cancelled, tokens>>
  /\ UNCHANGED <<data, rejected, credit, body, channel, windows, wire>>

\* A DATA frame of n units, the last of the stream or not.
Arrives(s, n, end) ==
  /\ Frame /\ remote[s] = "open" /\ reply[s] # "reset" /\ (n = 0 => end)
  /\ data[s] + n <= MaxData
  /\ data' = [data EXCEPT ![s] = @ + n]
  /\ remote' = [remote EXCEPT ![s] = IF end THEN "ended" ELSE "open"]

DataOfRejected(s, n, end) ==
  /\ Arrives(s, n, end) /\ s \in rejected
  /\ Replenish(s, n)
  /\ rejected' = IF end THEN rejected \ {s} ELSE rejected
  /\ UNCHANGED <<requests, active, cancelled, tokens, work, credit, body, channel, wire>>

\* receive_streaming_data past the limit: the body fails, the work is dropped,
\* and what it held of the window is returned with this frame.
BodyTooLong(s, n, end) ==
  /\ Arrives(s, n, end) /\ s \in bodies \ rejected /\ received[s] + n > MaxBody
  /\ closed' = [closed EXCEPT ![s] = TRUE]
  /\ bodies' = bodies \ {s}
  /\ Cancel(s)
  /\ ReplenishConnection(s, received[s] - credited[s] + n)
  /\ Send(s, "whole")
  /\ rejected' = IF end THEN rejected ELSE rejected \cup {s}
  /\ UNCHANGED <<requests, active, work, credit, received, credited, ended, queue, consumed, open>>

\* receive_streaming_data: pushed to the handler, or credited at once when the
\* handler has let the body go.
BodyData(s, n, end) ==
  /\ Arrives(s, n, end) /\ s \in bodies \ rejected /\ received[s] + n <= MaxBody
  /\ received' = [received EXCEPT ![s] = @ + n]
  /\ ended' = [ended EXCEPT ![s] = @ \/ end]
  /\ closed' = [closed EXCEPT ![s] = @ \/ end]
  /\ IF open[s]
     THEN queue' = [queue EXCEPT ![s] = @ + n] /\ UNCHANGED <<credited, windows>>
     ELSE /\ credited' = [credited EXCEPT ![s] = @ + n]
          /\ IF end THEN ReplenishConnection(s, n) ELSE Replenish(s, n)
          /\ UNCHANGED queue
  /\ UNCHANGED <<book, work, credit, bodies, consumed, open, wire>>

\* Data of a buffered request, credited as it arrives and bounded by the limit.
BufferedData(s, n, end) ==
  /\ Arrives(s, n, end) /\ s \in requests \ (bodies \cup rejected)
  /\ Replenish(s, n)
  /\ IF data[s] + n > MaxBody
     THEN /\ requests' = requests \ {s}
          /\ Send(s, "whole")
          /\ rejected' = IF end THEN rejected ELSE rejected \cup {s}
          /\ UNCHANGED <<work, active, cancelled, tokens>>
     ELSE /\ IF end THEN Dispatch(s) /\ requests' = requests \ {s}
             ELSE UNCHANGED <<work, active, cancelled, tokens, requests>>
          /\ UNCHANGED <<rejected, wire>>
  /\ UNCHANGED <<credit, body, channel>>

\* Data of a stream without a record: RST_STREAM.
StrayData(s, n, end) ==
  /\ Arrives(s, n, end) /\ s \notin rejected \cup bodies \cup requests
  /\ Replenish(s, n)
  /\ Send(s, "reset")
  /\ UNCHANGED <<book, work, credit, body, channel>>

Trailers(s) ==
  /\ Frame /\ remote[s] = "open" /\ reply[s] # "reset"
  /\ remote' = [remote EXCEPT ![s] = "ended"]
  /\ IF s \in rejected
     THEN rejected' = rejected \ {s}
          /\ UNCHANGED <<requests, active, cancelled, tokens, work, ended, closed>>
     ELSE IF s \in bodies
     THEN ended' = [ended EXCEPT ![s] = TRUE] /\ closed' = [closed EXCEPT ![s] = TRUE]
          /\ UNCHANGED <<book, work>>
     ELSE IF s \in requests
     THEN Dispatch(s) /\ requests' = requests \ {s} /\ UNCHANGED <<rejected, ended, closed>>
     ELSE UNCHANGED <<book, work, ended, closed>>
  /\ UNCHANGED <<data, credit, bodies, received, credited, queue, consumed, open, windows, wire>>

Resettable(s) ==
  /\ remote[s] \in {"open", "ended"} /\ reply[s] # "reset"
  /\ remote[s] = "ended" => reply[s] # "whole"

\* Mutant: what the body held of the connection's window is not returned.
PeerResetsUncredited(s) ==
  /\ Frame /\ Resettable(s)
  /\ remote' = [remote EXCEPT ![s] = "reset"]
  /\ requests' = requests \ {s} /\ rejected' = rejected \ {s}
  /\ closed' = [closed EXCEPT ![s] = @ \/ s \in bodies]
  /\ bodies' = bodies \ {s}
  /\ Cancel(s)
  /\ UNCHANGED <<data, active, work, credit, received, credited, ended, queue, consumed, open, windows, wire>>

\* RST_STREAM from the peer.
PeerResets(s) ==
  /\ Frame /\ Resettable(s)
  /\ remote' = [remote EXCEPT ![s] = "reset"]
  /\ requests' = requests \ {s} /\ rejected' = rejected \ {s}
  /\ closed' = [closed EXCEPT ![s] = @ \/ s \in bodies]
  /\ bodies' = bodies \ {s}
  /\ IF s \in bodies THEN ReplenishConnection(s, received[s] - credited[s]) ELSE UNCHANGED windows
  /\ Cancel(s)
  /\ UNCHANGED <<data, active, work, credit, received, credited, ended, queue, consumed, open, wire>>

\* The codec reports that a stream is closed on both sides.
StreamCloses(s) ==
  /\ Frame
  /\ Reset(s) \/ (remote[s] = "ended" /\ reply[s] = "whole")
  /\ s \in requests \cup rejected \cup (active \ cancelled)
  /\ requests' = requests \ {s} /\ rejected' = rejected \ {s}
  /\ cancelled' = IF s \in active THEN cancelled \cup {s} ELSE cancelled
  /\ UNCHANGED <<remote, data, active, tokens, work, credit, body, channel, windows, wire>>

------------------------------------------------------------------------------
(* The handlers: they read, and let go of their body, while their work is  *)
(* polled.                                                                 *)

Polled(s) ==
  ~over /\ ~top /\ work[s] # "none" /\ s \notin tokens /\ open[s]

\* NativeIncomingBody::poll_next.
Reads(s) ==
  /\ Polled(s) /\ queue[s] > 0
  /\ queue' = [queue EXCEPT ![s] = @ - 1]
  /\ consumed' = [consumed EXCEPT ![s] = @ + 1]
  /\ UNCHANGED <<remote, data, book, work, credit, body, open, closed, windows, wire, loop>>

LetsGo(s) ==
  /\ Polled(s) /\ DropBody(s)
  /\ UNCHANGED <<remote, data, book, work, credit, body, queue, consumed, closed, windows, wire, loop>>

------------------------------------------------------------------------------
(* handle_completed_work: StreamWork::poll looks at the token first. *)

Completes(s, w) ==
  /\ Activity /\ work[s] = w /\ s \notin tokens
  /\ UNCHANGED <<remote, data, requests, rejected, credit, body, queue, consumed, closed, windows>>

\* The stream's work is over and its body is dropped.
Leaves(s) == work' = [work EXCEPT ![s] = "none"] /\ Retire(s) /\ DropBody(s)

WorkCancelled(s) ==
  /\ Activity /\ work[s] # "none" /\ s \in tokens
  /\ Leaves(s)
  /\ UNCHANGED <<remote, data, requests, rejected, credit, body, queue, consumed, closed, windows, wire>>

\* begin_response: a response without a stream is sent whole.
AnswersWhole(s) ==
  /\ Completes(s, "handler") /\ Leaves(s)
  /\ IF s \in cancelled THEN UNCHANGED wire ELSE Send(s, "whole")

\* A streaming response is polled next; it may have taken the body with it.
AnswersStreaming(s) ==
  /\ Completes(s, "handler")
  /\ IF s \in cancelled THEN Leaves(s) /\ UNCHANGED wire
     ELSE /\ Send(s, "head")
          /\ work' = [work EXCEPT ![s] = "body"]
          /\ \E keeps \in BOOLEAN : IF keeps THEN UNCHANGED open ELSE DropBody(s)
          /\ UNCHANGED <<active, cancelled, tokens>>

BodyChunk(s) ==
  /\ Completes(s, "body")
  /\ IF s \in cancelled THEN Leaves(s) /\ UNCHANGED wire
     ELSE Send(s, "head") /\ UNCHANGED <<work, active, cancelled, tokens, open>>

BodyEnd(s) ==
  /\ Completes(s, "body") /\ Leaves(s)
  /\ IF s \in cancelled THEN UNCHANGED wire ELSE Send(s, "whole")

BodyError(s) == Completes(s, "body") /\ Leaves(s) /\ Send(s, "reset")

------------------------------------------------------------------------------
(* The credit poll: IncomingBodySender::consumed, handle_consumed_credit. *)

Finished(s) == ~open[s] \/ (closed[s] /\ queue[s] = 0)

\* What was read is credited; when nothing more can be read, so is the rest.
CreditPolled(s) ==
  /\ Activity /\ s \in credit /\ (consumed[s] > 0 \/ Finished(s))
  /\ consumed' = [consumed EXCEPT ![s] = 0]
  /\ credit' = IF s \in bodies /\ ~Finished(s) THEN credit ELSE credit \ {s}
  /\ bodies' = IF Finished(s) THEN bodies \ {s} ELSE bodies
  /\ IF s \in bodies
     THEN LET n == IF Finished(s) THEN received[s] - credited[s] ELSE consumed[s] IN
          /\ credited' = [credited EXCEPT ![s] = @ + n]
          /\ IF ended[s] THEN ReplenishConnection(s, n) ELSE Replenish(s, n)
     ELSE UNCHANGED <<credited, windows>>
  /\ UNCHANGED <<remote, data, book, work, received, ended, queue, open, closed, wire>>

------------------------------------------------------------------------------
Heads(s) ==
  \E end \in BOOLEAN : RejectHead(s, end) \/ StreamingHead(s, end) \/ BufferedHead(s, end)

Data(s) ==
  \E n \in 0..1, end \in BOOLEAN :
    \/ DataOfRejected(s, n, end) \/ BodyTooLong(s, n, end) \/ BodyData(s, n, end)
    \/ BufferedData(s, n, end) \/ StrayData(s, n, end)

Ends(s) == AnswersWhole(s) \/ AnswersStreaming(s) \/ BodyEnd(s) \/ BodyError(s)

Next ==
  \/ Shutdown \/ LoopTop \/ InputCloses
  \/ \E s \in Streams :
       \/ Heads(s) \/ Data(s) \/ Trailers(s) \/ PeerResets(s) \/ StreamCloses(s)
       \/ Reads(s) \/ LetsGo(s)
       \/ Ends(s) \/ BodyChunk(s) \/ WorkCancelled(s) \/ CreditPolled(s)

Spec == Init /\ [][Next]_vars

(* Handlers and their streams end; the task polls all the work it holds. *)
FairSpec ==
  /\ Spec /\ WF_vars(LoopTop)
  /\ \A s \in Streams : SF_vars(Ends(s)) /\ SF_vars(WorkCancelled(s)) /\ SF_vars(CreditPolled(s))

------------------------------------------------------------------------------
(* Properties *)

\* Every variable has its type.
TypeOK ==
  /\ remote \in [Streams -> {"idle", "open", "ended", "reset"}]
  /\ data \in [Streams -> Nat]
  /\ {requests, bodies, rejected, active, cancelled, tokens, credit, afterReset} \subseteq SUBSET Streams
  /\ work \in [Streams -> {"none", "handler", "body"}]
  /\ received \in [Streams -> Nat] /\ credited \in [Streams -> Nat]
  /\ queue \in [Streams -> Nat] /\ consumed \in [Streams -> Nat]
  /\ {ended, open, closed} \subseteq [Streams -> BOOLEAN]
  /\ windows \in [Streams -> [conn : Nat, stream : Nat]]
  /\ reply \in [Streams -> {"none", "head", "whole", "reset"}]
  /\ {top, shutdown, inputClosed, over} \subseteq BOOLEAN

\* What a body still holds of its windows.
Held(s) == IF s \in bodies THEN received[s] - credited[s] ELSE 0

\* Every byte the peer sent is held by a body or has given its credit back to
\* the connection's window, once, whichever way its stream ends; the stream's
\* own window is whole too while the peer can use it.
CreditConserved ==
  \A s \in Streams :
    /\ windows[s].conn + Held(s) = data[s]
    /\ (remote[s] = "open" /\ s \notin rejected) => windows[s].stream + Held(s) = data[s]

\* A body holds credit for exactly what its handler has yet to read and what it
\* has read since the last credit poll: a handler that reads on is never stalled.
HeldIsUnread ==
  \A s \in bodies : open[s] => received[s] - credited[s] = queue[s] + consumed[s]

\* Both: no credit is lost, given twice or withheld.
CreditIsRight == CreditConserved /\ HeldIsUnread

\* Nothing is sent on a stream that the peer has reset, although its handler or
\* its response was under way.
QuietAfterPeerReset == \A s \in afterReset : remote[s] # "reset"

\* When the peer is done with a stream and no work is left for it, the
\* connection keeps no record of it.
StreamsAreForgotten ==
  \A s \in Streams :
    (remote[s] \in {"ended", "reset"} /\ work[s] = "none" /\ s \notin credit) =>
      s \notin requests \cup bodies \cup rejected \cup active \cup cancelled \cup tokens

\* Both: a stream that is over is neither written to nor remembered.
StreamsEndQuietly == QuietAfterPeerReset /\ StreamsAreForgotten

\* The comment in receive_streaming_data: data for a handler that let its body
\* go is discarded, and costs nothing but its credit.
LateDataIsDiscarded == 
  [][\A s \in Streams : work[s] # "none" /\ data'[s] > data[s] => reply'[s] # "reset"]_vars

\* Whatever its handlers do with them, all bytes are credited in the end.
CreditReturns ==
  \A s \in Streams : windows[s].conn < data[s] ~> windows[s].conn = data[s] \/ over

===============================================================================
