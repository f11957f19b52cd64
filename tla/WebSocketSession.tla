-------------------------- MODULE WebSocketSession --------------------------
(***************************************************************************)
(* WebSocket of crates/blazingly-realtime/src/lib.rs: receive, send, close *)
(* and process_frame over an upgraded transport, which delivers the peer's *)
(* frames in chunks cut anywhere (NativeUpgradedIo and CompatUpgradedIo of *)
(* crates/blazingly-native/src/lib.rs).                                    *)
(*                                                                         *)
(* The peer sends a sequence of frames [op, fin, size]; positions in it    *)
(* stand for payloads, and the read buffer is the interval of bytes from   *)
(* `consumed` to `arrived`.  Payloads are short, so a frame has six bytes  *)
(* before its payload: two of header and the mask.  Payloads being left    *)
(* out, whether a text is UTF-8 and a Close decodes is a choice, where     *)
(* their sizes leave one.                                                  *)
(*                                                                         *)
(* An error ends the call of receive, not the session: the application may *)
(* call again, and the frame that was refused has gone or is still there.  *)
(***************************************************************************)
EXTENDS Integers, Sequences, FiniteSets, SequencesExt

CONSTANTS FrameLists, \* the sequences of frames a peer may send
          Misread,    \* what may be read for frames behind bytes that were lost
          Reads,      \* the lengths of chunks the transport may deliver
          MaxMessage, \* max_message_bytes
          MaxSends    \* bound of the application's messages

\* "unmasked" stands for every header refused as it is, "unsupported" for the
\* opcodes process_frame does not know.
Ops == {"continuation", "text", "binary", "close", "ping", "pong", "unmasked", "unsupported"}
Data == {"text", "binary"}
Frames == [op : Ops, fin : BOOLEAN, size : 0 .. 125]

\* What an instance must satisfy; the module that makes it assumes so.
FramesAssumption == FrameLists \cup Misread \subseteq Seq(Frames)
SessionAssumption ==
         MaxMessage \in Nat \ {0} /\ Reads \subseteq Nat \ {0} /\ MaxSends \in Nat

VARIABLES frames,   \* what the peer sends, as far as the session reads it
          arrived,  \* bytes read from the transport, and kept
          consumed, \* bytes of the frames decoded so far
          decoded,  \* how many frames that are
          fragmented, \* the frames of the message in progress, <<>> for None
          closeSent,
          receiving, \* a call of receive is in progress
          received, \* what receive returned: a kind and the frames it is made of
          dropped,  \* the frames decoded whose receive returned an error
          written,  \* the kinds of the frames written: Said
          socket,   \* "open", or "shut": what is written fails
          ended     \* the transport has said that no more bytes come

socketVars == <<frames, arrived, consumed, decoded, fragmented, closeSent,
                receiving, received, dropped, written, socket, ended>>

\* A Close of receive or close, a Close of send, an answer to a Ping, and any
\* other message of send.
Said == {"close", "sent close", "pong", "sent"}
Closes == {"close", "sent close"}

FrameBytes(f) == 6 + f.size
Bytes(fs) == FoldSeq(LAMBDA f, n : n + FrameBytes(f), 0, fs)
Size(ids) == FoldSeq(LAMBDA i, n : n + frames[i].size, 0, ids)

TalkTypeOK ==
  /\ frames \in Seq(Frames) /\ decoded \in 0 .. Len(frames)
  /\ consumed = Bytes(SubSeq(frames, 1, decoded)) /\ consumed <= arrived
  /\ fragmented \in Seq(1 .. decoded) /\ {closeSent, receiving, ended} \subseteq BOOLEAN
  /\ dropped \subseteq 1 .. decoded
  /\ written \in Seq(Said) /\ socket \in {"open", "shut"}

\* WebSocket::new.
TalkInit ==
  /\ frames \in FrameLists
  /\ arrived = 0 /\ consumed = 0 /\ decoded = 0 /\ fragmented = <<>>
  /\ closeSent = FALSE /\ receiving = FALSE /\ received = <<>> /\ dropped = {}
  /\ written = <<>> /\ socket = "open" /\ ended = FALSE

\* The application calls receive again, after whatever it returned.
CallReceive ==
  /\ ~receiving /\ receiving' = TRUE
  /\ UNCHANGED <<frames, arrived, consumed, decoded, fragmented, closeSent,
                 received, dropped, written, socket, ended>>

------------------------------------------------------------------------------
(* decode_frame: the next frame, refused, incomplete or taken. *)

NextFrame == frames[decoded + 1]
HeaderArrived == decoded < Len(frames) /\ arrived - consumed >= 2
FrameArrived ==
  decoded < Len(frames) /\ arrived - consumed >= FrameBytes(NextFrame)
IsControl(f) == f.op \in {"close", "ping", "pong"}

\* What the two bytes of the header let it refuse; the payload may be missing.
IsRefused(f) ==
  f.op = "unmasked" \/ (IsControl(f) /\ ~f.fin) \/ f.size > MaxMessage

\* The frame stays in the buffer: every later call finds it there again.
RefuseHeader ==
  /\ receiving /\ HeaderArrived /\ IsRefused(NextFrame)
  /\ receiving' = FALSE
  /\ UNCHANGED <<frames, arrived, consumed, decoded, fragmented, closeSent,
                 received, dropped, written, socket, ended>>

TakeFrame ==
  /\ receiving /\ FrameArrived /\ ~IsRefused(NextFrame)
  /\ consumed' = consumed + FrameBytes(NextFrame) /\ decoded' = decoded + 1
  /\ UNCHANGED <<frames, arrived, ended>>

\* The frame is dealt with, and receive returns a message, an error, or goes on.
HandOver(kind, ids) ==
  /\ received' = Append(received, [kind |-> kind, ids |-> ids])
  /\ receiving' = FALSE /\ UNCHANGED dropped
ReturnError ==
  /\ dropped' = dropped \cup {decoded + 1}
  /\ receiving' = FALSE /\ UNCHANGED received
GoOn == UNCHANGED <<receiving, received, dropped>>

\* data_message: a text that is not UTF-8 is an error.
HandOverData(kind, ids) ==
  \/ HandOver(kind, ids)
  \/ kind = "text" /\ Size(ids) > 0 /\ ReturnError

\* io.write.  When a stream fails, so do the writes after it.
Write(kind) ==
  socket = "open" /\ written' = Append(written, kind) /\ UNCHANGED socket
WriteFails == socket' = "shut" /\ UNCHANGED written

------------------------------------------------------------------------------
(* process_frame, one action per arm. *)

\* Mutant: a continuation that is not the last ends the message.
ProcessContinuationAsFinal ==
  /\ TakeFrame /\ NextFrame.op = "continuation"
  /\ IF fragmented = <<>> \/ Size(fragmented) + NextFrame.size > MaxMessage
     THEN ReturnError /\ UNCHANGED fragmented
     ELSE /\ fragmented' = <<>>
          /\ HandOverData(frames[fragmented[1]].op, Append(fragmented, decoded + 1))
  /\ UNCHANGED <<closeSent, written, socket>>

\* One with no message in progress, or too much for it, is refused; the message
\* stays in progress without it.
ProcessContinuation ==
  /\ TakeFrame /\ NextFrame.op = "continuation"
  /\ IF fragmented = <<>> \/ Size(fragmented) + NextFrame.size > MaxMessage
     THEN ReturnError /\ UNCHANGED fragmented
     ELSE IF NextFrame.fin
     THEN /\ fragmented' = <<>>
          /\ HandOverData(frames[fragmented[1]].op, Append(fragmented, decoded + 1))
     ELSE fragmented' = Append(fragmented, decoded + 1) /\ GoOn
  /\ UNCHANGED <<closeSent, written, socket>>

\* A whole message; one in fragments may be in progress, and stays so.
ProcessWhole ==
  /\ TakeFrame /\ NextFrame.op \in Data /\ NextFrame.fin
  /\ HandOverData(NextFrame.op, <<decoded + 1>>)
  /\ UNCHANGED <<fragmented, closeSent, written, socket>>

ProcessFirstFragment ==
  /\ TakeFrame /\ NextFrame.op \in Data /\ ~NextFrame.fin
  /\ IF fragmented # <<>> THEN ReturnError /\ UNCHANGED fragmented
     ELSE fragmented' = <<decoded + 1>> /\ GoOn
  /\ UNCHANGED <<closeSent, written, socket>>

\* decode_close refuses one byte, and may refuse more: a code or a reason that
\* is not valid.
ProcessBadClose ==
  /\ TakeFrame /\ NextFrame.op = "close" /\ NextFrame.size > 0
  /\ ReturnError /\ UNCHANGED <<fragmented, closeSent, written, socket>>

ProcessClose ==
  /\ TakeFrame /\ NextFrame.op = "close" /\ NextFrame.size # 1
  /\ \/ closeSent /\ HandOver("close", <<decoded + 1>>)
        /\ UNCHANGED <<closeSent, written, socket>>
     \/ ~closeSent /\ Write("close") /\ closeSent' = TRUE
        /\ HandOver("close", <<decoded + 1>>)
     \/ ~closeSent /\ WriteFails /\ ReturnError /\ UNCHANGED closeSent
  /\ UNCHANGED fragmented

ProcessPing ==
  /\ TakeFrame /\ NextFrame.op = "ping"
  /\ \/ Write("pong") /\ HandOver("ping", <<decoded + 1>>)
     \/ WriteFails /\ ReturnError
  /\ UNCHANGED <<fragmented, closeSent>>

ProcessPong ==
  /\ TakeFrame /\ NextFrame.op = "pong"
  /\ HandOver("pong", <<decoded + 1>>)
  /\ UNCHANGED <<fragmented, closeSent, written, socket>>

ProcessUnsupported ==
  /\ TakeFrame /\ NextFrame.op = "unsupported"
  /\ ReturnError /\ UNCHANGED <<fragmented, closeSent, written, socket>>

------------------------------------------------------------------------------
(* The transport, and the application's own frames. *)

\* receive has no whole frame, and no reason to refuse the one it has.
Starved ==
  /\ receiving /\ ~FrameArrived /\ ~(HeaderArrived /\ IsRefused(NextFrame))

IsTooMuch(n) == (arrived - consumed) + n > MaxMessage + 14

Read(n) ==
  /\ Starved /\ ~ended /\ arrived + n <= Bytes(frames) /\ ~IsTooMuch(n)
  /\ arrived' = arrived + n
  /\ UNCHANGED <<frames, consumed, decoded, fragmented, closeSent, receiving,
                 received, dropped, written, socket, ended>>

\* A chunk that would overfill the buffer is an error, and lost.  What the
\* session keeps is joined to the bytes behind the loss, which begin and end
\* anywhere in the peer's frames: it may take them for any others.
ReadTooMuch(n) ==
  /\ Starved /\ ~ended /\ arrived + n <= Bytes(frames) /\ IsTooMuch(n)
  /\ receiving' = FALSE
  /\ \E others \in Misread :
       frames' = SubSeq(frames, 1, decoded)
                   \o (IF HeaderArrived THEN <<NextFrame>> ELSE <<>>) \o others
  /\ UNCHANGED <<arrived, consumed, decoded, fragmented, closeSent,
                 received, dropped, written, socket, ended>>

\* The transport ends, wherever the peer stopped, and receive returns None; or
\* a read fails.
ReadEnd ==
  /\ Starved /\ receiving' = FALSE /\ ended' \in {ended, TRUE}
  /\ UNCHANGED <<frames, arrived, consumed, decoded, fragmented, closeSent,
                 received, dropped, written, socket>>

\* send, between two calls of receive: a Close sets the flag and does not ask
\* for it.  What message_payload or the limit refuses is not written.
Send(kind) ==
  /\ ~receiving
  /\ Len(SelectSeq(written, LAMBDA k : k \in {"sent", "sent close"})) < MaxSends
  /\ \/ Write(kind) /\ closeSent' = (closeSent \/ kind = "sent close")
     \/ WriteFails /\ UNCHANGED closeSent
  /\ UNCHANGED <<frames, arrived, consumed, decoded, fragmented,
                 receiving, received, dropped, ended>>

\* close: the close frame if none was sent, then the transport's shutdown,
\* which leaves the reading side as it is (NativeUpgradedIo: the writing side,
\* too).
Close ==
  /\ ~receiving
  /\ \/ closeSent /\ UNCHANGED <<closeSent, written>> /\ socket' \in {socket, "shut"}
     \/ /\ ~closeSent /\ socket = "open" /\ closeSent' = TRUE
        /\ written' = Append(written, "close") /\ socket' \in {"open", "shut"}
     \/ ~closeSent /\ WriteFails /\ UNCHANGED closeSent
  /\ UNCHANGED <<frames, arrived, consumed, decoded, fragmented, receiving,
                 received, dropped, ended>>

TalkNext ==
  \/ CallReceive \/ RefuseHeader
  \/ ProcessContinuation \/ ProcessWhole \/ ProcessFirstFragment
  \/ ProcessBadClose \/ ProcessClose \/ ProcessPing \/ ProcessPong
  \/ ProcessUnsupported
  \/ \E n \in Reads : Read(n) \/ ReadTooMuch(n)
  \/ ReadEnd \/ Close
  \/ \E kind \in {"sent", "sent close"} : Send(kind)

TalkSpec == TalkInit /\ [][TalkNext]_socketVars

------------------------------------------------------------------------------
(* Properties. *)

\* The frames from the fragment at i to the one at l that belong together:
\* every continuation between them, but those that receive refused.
PartsBetween(i, l) ==
  {i} \cup {j \in i + 1 .. l : frames[j].op = "continuation" /\ j \notin dropped}

InOrder(ids) == \A p, q \in DOMAIN ids : p < q => ids[p] < ids[q]

\* A message is delivered once, in order, from its first frame through its
\* final one, and lacks no frame between them unless a receive returned an
\* error for it: wherever the transport cut the bytes, whatever came between
\* the fragments, and however often the application went on after an error.
MessagesAreWhole ==
  /\ \A m \in DOMAIN received : received[m].kind \in Data =>
       LET ids == received[m].ids IN
         /\ InOrder(ids) /\ ToSet(ids) = PartsBetween(ids[1], Last(ids))
         /\ received[m].kind = frames[ids[1]].op
         /\ \A j \in ToSet(ids) : frames[j].fin <=> j = Last(ids)
  /\ \A m, n \in DOMAIN received : m < n => Last(received[m].ids) < Last(received[n].ids)

\* A peer's Close that receive returns has been answered, and neither receive
\* nor close says Close where one was said before, even by send.
CloseIsSaidOnce ==
  /\ \A p, q \in DOMAIN written : p < q /\ written[p] \in Closes => written[q] # "close"
  /\ (\E m \in DOMAIN received : received[m].kind = "close") =>
       \E p \in DOMAIN written : written[p] \in Closes

\* Both: what either side of a session is told is whole, in order and final.
SessionIsOrderly == MessagesAreWhole /\ CloseIsSaidOnce

==============================================================================
