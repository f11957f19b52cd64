--------------------------- MODULE UploadChannel ---------------------------
(***************************************************************************)
(* The streaming upload of an HTTP/1 request                               *)
(* (crates/blazingly-native/src/lib.rs): dispatch_streaming relays the     *)
(* body from the socket into the channel IncomingBodyState while it polls  *)
(* the response future, and NativeIncomingBody is read by the handler, by  *)
(* the body of its response, or by a task the handler started.             *)
(*                                                                         *)
(* The relay and the handler share one task and one thread; a step is what *)
(* runs between two awaits.  Bytes are numbered from 1 to Length, a chunk  *)
(* is the pair of its first and last byte.  Both framings are covered: a   *)
(* relayed chunk is what the buffer holds (Content-Length) or a part of it *)
(* (one data range of the chunked decoder).                                *)
(***************************************************************************)
EXTENDS Naturals, Sequences

CONSTANTS Length, \* bytes of the request body
          Window, \* limits.stream_read_bytes
          Failure \* the Err item of the channel

ASSUME LengthAssumption == Length \in Nat
ASSUME WindowAssumption == Window \in Nat \ {0}
ASSUME FailureAssumption == Failure \notin Nat \X Nat

MaxQueued == 2 * Window

VARIABLES relay,        \* where dispatch_streaming is
          buffered,     \* body bytes in the connection buffer
          taken,        \* body bytes relayed or discarded so far
          chunk,        \* the chunk send_streaming_chunk delivers
          relayOpen,    \* its local receiver_open
          responded,    \* response.is_some()
          chunks,       \* IncomingBodyState.chunks
          queued,       \* IncomingBodyState.queued_bytes
          closed,       \* IncomingBodyState.closed
          receiverOpen, \* IncomingBodyState.receiver_open
          producerWaker, consumerWaker,
          holder,       \* who has the body: handler, response or task
          reader,       \* what that reader has seen
          received      \* bytes it has read

channel == <<chunks, queued, closed, receiverOpen, producerWaker, consumerWaker>>
relaying == <<relay, buffered, taken, chunk, relayOpen, responded>>
reading == <<holder, reader, received>>
uploadVars == <<relaying, channel, reading>>

NoChunk == <<0, 0>>
Size(c) == IF c = Failure THEN 0 ELSE c[2] + 1 - c[1]

\* Part of the body may have arrived with the request head.
UploadInit ==
  /\ relay = "next" /\ buffered \in 0 .. Length /\ taken = 0 /\ chunk = NoChunk
  /\ relayOpen = TRUE /\ responded = FALSE
  /\ chunks = <<>> /\ queued = 0 /\ closed = FALSE /\ receiverOpen = TRUE
  /\ producerWaker = FALSE /\ consumerWaker = FALSE
  /\ holder = "handler" /\ reader = "reading" /\ received = 0

\* consumer_waker.take().wake(): a sleeping reader is polled again.
WakeConsumer ==
  /\ consumerWaker' = FALSE
  /\ reader' = IF consumerWaker /\ reader = "asleep" THEN "reading" ELSE reader

\* producer_waker.take().wake(): a relay blocked in send is polled again.
WakeProducer ==
  /\ producerWaker' = FALSE
  /\ relay' = IF producerWaker /\ relay = "blocked" THEN "send" ELSE relay

------------------------------------------------------------------------------
(* dispatch_streaming and send_streaming_chunk *)

\* Take the next bytes of the buffer; they are skipped when the receiver is
\* known to be gone, or when the response is ready.
NextChunk ==
  /\ relay = "next" /\ buffered > 0 /\ taken < Length
  /\ \E n \in 1 .. buffered :
       /\ buffered' = buffered - n /\ taken' = taken + n
       /\ IF relayOpen /\ ~responded
          THEN /\ chunk' = <<taken + 1, taken + n>> /\ relay' = "send"
               /\ UNCHANGED relayOpen
          ELSE /\ relayOpen' = FALSE /\ UNCHANGED <<chunk, relay>>
  /\ UNCHANGED <<responded, channel, reading>>

\* IncomingBodySender::send when the receiver is gone.
SendRefused ==
  /\ relay = "send" /\ ~receiverOpen
  /\ relayOpen' = FALSE /\ chunk' = NoChunk /\ relay' = "next"
  /\ UNCHANGED <<buffered, taken, responded, channel, reading>>

\* Mutant: a chunk is admitted whenever the limit is not yet reached.
SendLate ==
  /\ relay = "send" /\ receiverOpen
  /\ chunks = <<>> \/ queued < MaxQueued
  /\ chunks' = Append(chunks, chunk) /\ queued' = queued + Size(chunk)
  /\ WakeConsumer
  /\ chunk' = NoChunk /\ relay' = "next"
  /\ UNCHANGED <<buffered, taken, relayOpen, responded, closed, receiverOpen,
                 producerWaker, holder, received>>

\* An empty queue takes any chunk; otherwise the chunk must fit.
SendAdmitted ==
  /\ relay = "send" /\ receiverOpen
  /\ chunks = <<>> \/ queued + Size(chunk) <= MaxQueued
  /\ chunks' = Append(chunks, chunk) /\ queued' = queued + Size(chunk)
  /\ WakeConsumer
  /\ chunk' = NoChunk /\ relay' = "next"
  /\ UNCHANGED <<buffered, taken, relayOpen, responded, closed, receiverOpen,
                 producerWaker, holder, received>>

SendWaits ==
  /\ relay = "send" /\ receiverOpen
  /\ chunks # <<>> /\ queued + Size(chunk) > MaxQueued
  /\ producerWaker' = TRUE /\ relay' = "blocked"
  /\ UNCHANGED <<buffered, taken, chunk, relayOpen, responded, chunks, queued,
                 closed, receiverOpen, consumerWaker, reading>>

\* The buffer is empty and the body is not complete: read_body_chunk.
NeedMore ==
  /\ relay = "next" /\ buffered = 0 /\ taken < Length
  /\ relay' = "read"
  /\ UNCHANGED <<buffered, taken, chunk, relayOpen, responded, channel, reading>>

ReadSome ==
  /\ relay = "read"
  /\ \E n \in 1 .. Window : n <= Length - taken /\ buffered' = n
  /\ relay' = "next"
  /\ UNCHANGED <<taken, chunk, relayOpen, responded, channel, reading>>

\* A request that ends in an error drops its response future, and with it a
\* body that the handler or the response holds.
DropWithResponse ==
  IF holder # "task" /\ reader \in {"reading", "asleep"}
  THEN receiverOpen' = FALSE /\ reader' = "dropped"
  ELSE UNCHANGED <<receiverOpen, reader>>

\* The body read deadline, or the end of the input in the middle of the body:
\* fail, then the error return.  A task that holds the body is woken.
ReadFails ==
  /\ relay = "read"
  /\ relay' = "error" /\ closed' = TRUE /\ producerWaker' = FALSE
  /\ chunks' = IF receiverOpen THEN Append(chunks, Failure) ELSE chunks
  /\ IF holder = "task"
     THEN WakeConsumer /\ UNCHANGED receiverOpen
     ELSE DropWithResponse /\ consumerWaker' = FALSE
  /\ UNCHANGED <<buffered, taken, chunk, relayOpen, responded, queued, holder,
                 received>>

\* A read that errors, or a malformed or oversized chunked body: the error
\* returns by `?`, with neither fail nor close.
ReadErrors ==
  /\ relay \in {"read", "next"} /\ taken < Length
  /\ relay' = "error" /\ DropWithResponse
  /\ UNCHANGED <<buffered, taken, chunk, relayOpen, responded, chunks, queued,
                 closed, producerWaker, consumerWaker, holder, received>>

\* The body is complete: close, then the response is awaited.
Close ==
  /\ relay = "next" /\ taken = Length
  /\ relay' = IF responded THEN "done" ELSE "respond"
  /\ closed' = TRUE /\ WakeConsumer /\ producerWaker' = FALSE
  /\ UNCHANGED <<buffered, taken, chunk, relayOpen, responded, chunks, queued,
                 receiverOpen, holder, received>>

------------------------------------------------------------------------------
(* The response future, polled by send, read and the end of the relay. *)

Polled == ~responded /\ relay \in {"send", "blocked", "read", "respond"}

\* The handler hands the body to a task of its own.
HandOver ==
  /\ Polled /\ holder = "handler" /\ reader = "reading"
  /\ holder' = "task"
  /\ UNCHANGED <<relaying, channel, reader, received>>

\* The response is ready.  A chunk that was being sent is dropped, and so is
\* the rest of the upload.  The body goes into the response or is dropped,
\* unless a task has it.
Respond ==
  /\ Polled
  /\ responded' = TRUE /\ chunk' = NoChunk
  /\ relayOpen' = (relayOpen /\ relay \notin {"send", "blocked"})
  /\ relay' = CASE relay \in {"send", "blocked"} -> "next"
                [] relay = "read" -> "read"
                [] relay = "respond" -> "done"
  /\ \/ /\ holder = "handler" /\ reader # "dropped"
        /\ holder' = "response"
        /\ reader' = IF reader = "asleep" THEN "reading" ELSE reader
        /\ UNCHANGED receiverOpen
     \/ holder # "task" /\ DropWithResponse /\ UNCHANGED holder
     \/ holder = "task" /\ UNCHANGED <<holder, receiverOpen, reader>>
  /\ UNCHANGED <<buffered, taken, chunks, queued, closed, producerWaker,
                 consumerWaker, received>>

------------------------------------------------------------------------------
(* NativeIncomingBody *)

\* The handler runs inside the response future, the response when the server
\* writes it, a task whenever it is scheduled.
ReaderRuns ==
  \/ holder = "handler" /\ Polled
  \/ holder = "response" /\ relay = "done"
  \/ holder = "task"

PollChunk ==
  /\ ReaderRuns /\ reader = "reading" /\ chunks # <<>>
  /\ chunks' = Tail(chunks) /\ queued' = queued - Size(Head(chunks))
  /\ IF Head(chunks) = Failure
     THEN reader' = "failed" /\ UNCHANGED received
     ELSE received' = received + Size(Head(chunks)) /\ UNCHANGED reader
  /\ WakeProducer
  /\ UNCHANGED <<buffered, taken, chunk, relayOpen, responded, closed,
                 receiverOpen, consumerWaker, holder>>

PollEnd ==
  /\ ReaderRuns /\ reader = "reading" /\ chunks = <<>> /\ closed
  /\ reader' = "ended"
  /\ UNCHANGED <<relaying, channel, holder, received>>

PollPending ==
  /\ ReaderRuns /\ reader = "reading" /\ chunks = <<>> /\ ~closed
  /\ consumerWaker' = TRUE /\ reader' = "asleep"
  /\ UNCHANGED <<relaying, chunks, queued, closed, receiverOpen, producerWaker,
                 holder, received>>

\* Drop for NativeIncomingBody, by a reader that has read enough.
DropBody ==
  /\ ReaderRuns /\ reader \in {"reading", "ended", "failed"}
  /\ receiverOpen' = FALSE /\ reader' = "dropped" /\ WakeProducer
  /\ UNCHANGED <<buffered, taken, chunk, relayOpen, responded, chunks, queued,
                 closed, consumerWaker, holder, received>>

Relay ==
  \/ NextChunk \/ SendRefused \/ SendAdmitted \/ SendWaits \/ NeedMore
  \/ ReadSome \/ ReadFails \/ ReadErrors \/ Close
Read == PollChunk \/ PollEnd \/ PollPending

UploadNext == Relay \/ HandOver \/ Respond \/ Read \/ DropBody

UploadSpec == UploadInit /\ [][UploadNext]_uploadVars

\* The relay makes progress (every read has a deadline), a request timeout is
\* configured, so that the response becomes ready, and a reader that is awake
\* polls.
FairUploadSpec ==
  /\ UploadSpec
  /\ WF_uploadVars(Relay) /\ WF_uploadVars(Respond) /\ WF_uploadVars(Read)

------------------------------------------------------------------------------
UploadTypeOK ==
  /\ relay \in {"next", "send", "blocked", "read", "respond", "done", "error"}
  /\ buffered \in 0 .. Length /\ taken \in 0 .. Length
  /\ relayOpen \in BOOLEAN /\ responded \in BOOLEAN
  /\ chunks \in Seq((Nat \X Nat) \cup {Failure}) /\ chunk \in Nat \X Nat
  /\ queued \in Nat /\ closed \in BOOLEAN /\ receiverOpen \in BOOLEAN
  /\ producerWaker \in BOOLEAN /\ consumerWaker \in BOOLEAN
  /\ holder \in {"handler", "response", "task"}
  /\ reader \in {"reading", "asleep", "ended", "failed", "dropped"}
  /\ received \in Nat

\* What was read and what is queued is a prefix of the body, without a gap
\* and without a repetition, and its size is what queued_bytes says; more
\* than two windows are queued only as one single chunk.
QueueIsAPrefix ==
  LET data == {i \in 1 .. Len(chunks) : chunks[i] # Failure}
      start(i) == IF i = 1 THEN received ELSE chunks[i - 1][2]
  IN /\ \A i \in data : chunks[i][1] = start(i) + 1
     /\ data = 1 .. Len(chunks) \/ data = 1 .. Len(chunks) - 1
     /\ queued = IF data = {} THEN 0
                 ELSE chunks[CHOOSE i \in data : i + 1 \notin data][2] - received
     /\ queued <= MaxQueued \/ data = {1}

\* Nobody sleeps on the channel beside what it waits for: a blocked relay has
\* a full queue and an open receiver before it, a sleeping reader an empty
\* and open queue, and each has left its waker.
NobodySleepsBesideWork ==
  /\ relay = "blocked" => producerWaker /\ receiverOpen /\ chunks # <<>>
  /\ reader = "asleep" => consumerWaker /\ chunks = <<>> /\ ~closed

\* The channel between the two is sound in both respects.
RelayIsSound == UploadTypeOK /\ QueueIsAPrefix /\ NobodySleepsBesideWork

\* An upload ends: neither the relay nor the handler can wait for the other
\* for ever.
UploadSettles == <>(relay \in {"done", "error"})

\* docs/architecture.md: "a truncated upload cannot be reported as a complete
\* one".  A reader that sees the end has the whole body.
EndMeansWhole == reader = "ended" => received = Length
==============================================================================
