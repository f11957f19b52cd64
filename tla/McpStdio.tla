------------------------------- MODULE McpStdio -------------------------------
(***************************************************************************)
(* serve_supervised (crates/blazingly-mcp-stdio/src/lib.rs): a loop that   *)
(* reads one newline-delimited frame at a time through a buffer of any     *)
(* size, hands it to one JSON-RPC server and writes what it answers; a     *)
(* supervisor on another thread may ask it to stop.                        *)
(*                                                                         *)
(* A frame is its length without the line's end, how the line ends, and    *)
(* what it holds: a message, or bytes that are not UTF-8.                  *)
(***************************************************************************)
EXTENDS McpProtocol, FiniteSets

CONSTANTS
  FrameLists,      \* the inputs: sequences of frames
  MaxMessageBytes, \* StdioConfig
  MaxMessages, MaxRejected \* NoValue where there is no limit

ASSUME LimitsAreNumbers ==
  /\ MaxMessageBytes \in Nat
  /\ MaxMessages \in (Nat \ {0}) \cup {NoValue} /\ MaxRejected \in (Nat \ {0}) \cup {NoValue}

EndBytes == [lf |-> 1, crlf |-> 2, eof |-> 0]

\* The ids a reply may carry.
ReplyIds == {JsonNull} \cup UNION {{i[f].message.id : f \in DOMAIN i} : i \in FrameLists}

ASSUME InputsAreFrames ==
  \A i \in FrameLists :
    /\ Len(i) \in Nat /\ DOMAIN i = 1 .. Len(i)
    /\ \A f \in DOMAIN i : i[f].length \in Nat /\ i[f].end \in DOMAIN EndBytes
ASSUME NoValueIsNoReply ==
  NoValue \notin Codes /\ NoValue \notin [id : ReplyIds, code : Codes \cup {NoValue}]

VARIABLES
  input,     \* the frames, the last one perhaps without an end of line
  stopped,   \* StdioSupervisor.stopped
  pc,        \* where the loop is
  next,      \* the index of the frame being read, or to be read
  consumed,  \* how many of its bytes have been consumed
  kept,      \* bytes.len()
  tooLarge,  \* too_large
  life,      \* the JSON-RPC server's lifecycle
  written,   \* the lines written: the frame each answers, and the reply
  report,    \* StdioReport
  overdue    \* frames read since the supervisor asked to stop (history)

stdioVars == <<input, stopped, pc, next, consumed, kept, tooLarge, life, written,
               report, overdue>>

NoReport == [messages |-> 0, responses |-> 0, notifications |-> 0, rejected |-> 0,
             termination |-> NoValue]

StdioInit ==
  /\ input \in FrameLists /\ stopped = FALSE /\ pc = "check"
  /\ next = 1 /\ consumed = 0 /\ kept = 0 /\ tooLarge = FALSE
  /\ life = "Uninitialized" /\ written = <<>>
  /\ report = NoReport /\ overdue = 0

StopRequested ==
  /\ ~stopped /\ stopped' = TRUE
  /\ UNCHANGED <<input, pc, next, consumed, kept, tooLarge, life, written, report, overdue>>

Reached(count, maximum) == maximum # NoValue /\ count >= maximum

Terminate(why) ==
  /\ pc' = "done" /\ report' = [report EXCEPT !.termination = why]
  /\ UNCHANGED <<input, stopped, next, consumed, kept, tooLarge, life, written, overdue>>

\* The head of the loop.
TestLimits ==
  /\ pc = "check"
  /\ \/ stopped /\ Terminate("Supervisor")
     \/ ~stopped /\ Reached(report.messages, MaxMessages) /\ Terminate("MessageLimit")
     \/ /\ ~stopped /\ ~Reached(report.messages, MaxMessages)
        /\ pc' = "reading" /\ consumed' = 0 /\ kept' = 0 /\ tooLarge' = FALSE
        /\ UNCHANGED <<input, stopped, next, life, written, report, overdue>>

EndOfInput ==
  /\ pc = "reading" /\ next > Len(input) /\ Terminate("EndOfInput")

Size(frame) == frame.length + EndBytes[frame.end]

\* read_frame: one filling of the buffer, up to the end of the line.
Fill ==
  /\ pc = "reading" /\ next <= Len(input) /\ consumed < Size(input[next])
  /\ \E n \in 1 .. Size(input[next]) - consumed :
       /\ consumed' = consumed + n
       /\ IF tooLarge \/ kept + n > MaxMessageBytes + 2
          THEN tooLarge' = TRUE /\ kept' = 0
          ELSE UNCHANGED tooLarge /\ kept' = kept + n
  /\ UNCHANGED <<input, stopped, pc, next, life, written, report, overdue>>

\* A mutant: the limit is compared with the bytes as they were read.
CountsTheLineEnd(frame) == tooLarge \/ kept > MaxMessageBytes

\* The frame without its end of line.
FrameIsTooLarge(frame) == tooLarge \/ kept - EndBytes[frame.end] > MaxMessageBytes

Rejected(frame) == FrameIsTooLarge(frame) \/ ~frame.utf8

\* handle_line to its end: block_on parks the thread over what it awaits.
Answers(frame) ==
  IF Rejected(frame) THEN {Reply(JsonNull, "parse_error")}
  ELSE LET m == frame.message IN
       IF Malformed(m) # NoValue THEN {Malformed(m)}
       ELSE IF IsNotification(m) THEN {NoValue}
       ELSE IF Starts(m, life) THEN {Reply(m.id, OutcomeCode(o)) : o \in Outcomes(m)}
       ELSE {Reply(m.id, Refusal(m, life))}

After(frame) ==
  IF Rejected(frame) \/ Malformed(frame.message) # NoValue THEN life
  ELSE IF IsNotification(frame.message) THEN AfterNotification(frame.message, life)
  ELSE AfterMethod(frame.message, life)

\* The body of the loop once the frame is complete.
Serve ==
  /\ pc = "reading" /\ next <= Len(input) /\ consumed = Size(input[next])
  /\ LET frame == input[next]
         rejected == report.rejected + (IF Rejected(frame) THEN 1 ELSE 0) IN
     \E reply \in Answers(frame) :
       /\ life' = After(frame)
       /\ written' = IF reply = NoValue THEN written
                     ELSE Append(written, [frame |-> next, reply |-> reply])
       /\ report' =
            [messages |-> report.messages + 1, rejected |-> rejected,
             responses |-> report.responses + (IF reply = NoValue THEN 0 ELSE 1),
             notifications |-> report.notifications + (IF reply = NoValue THEN 1 ELSE 0),
             termination |-> IF Reached(rejected, MaxRejected) THEN "RejectedFrameLimit"
                             ELSE NoValue]
       /\ pc' = IF Reached(rejected, MaxRejected) THEN "done" ELSE "check"
  /\ next' = next + 1
  /\ overdue' = IF stopped THEN overdue + 1 ELSE overdue
  /\ UNCHANGED <<input, stopped, consumed, kept, tooLarge>>

StdioNext == StopRequested \/ TestLimits \/ EndOfInput \/ Fill \/ Serve

StdioSpec == StdioInit /\ [][StdioNext]_stdioVars

------------------------------------------------------------------------------
StdioTypeOK ==
  /\ input \in FrameLists /\ stopped \in BOOLEAN /\ pc \in {"check", "reading", "done"}
  /\ next \in 1 .. Len(input) + 1 /\ kept \in 0 .. MaxMessageBytes + 2
  /\ tooLarge \in BOOLEAN /\ life \in Lifecycle
  /\ report.messages = report.responses + report.notifications

\* A frame is rejected exactly when it holds more than the limit or is not
\* UTF-8, however the buffer cut it; each frame is answered by at most one line
\* and only notifications by none, in their order and under their id; the
\* handshake is answered before anything it gates; and once the supervisor has
\* asked to stop, at most the frame being read is still served.
FramesAreAnswered ==
  /\ StdioTypeOK
  /\ \A i \in 1 .. Len(written) :
       /\ i > 1 => written[i - 1].frame < written[i].frame
       /\ LET frame == input[written[i].frame]
              ok == frame.utf8 /\ frame.length <= MaxMessageBytes
              m == frame.message IN
          /\ ~ok => written[i].reply = Reply(JsonNull, "parse_error")
          /\ ok /\ m.form = "call" /\ m.id # BadId =>
               /\ m.id # JsonNull /\ written[i].reply.id = m.id
               /\ m.method \in Lists \cup Calls /\ written[i].reply.code = NoValue =>
                    \E j \in 1 .. i - 1 :
                      /\ input[written[j].frame].message.method = "initialize"
                      /\ written[j].reply.code = NoValue
  /\ \A f \in 1 .. next - 1 :
       (\A i \in 1 .. Len(written) : written[i].frame # f) =>
         input[f].utf8 /\ input[f].length <= MaxMessageBytes /\ IsNotification(input[f].message)
  /\ overdue <= 1
  /\ report.messages = next - 1

===============================================================================
