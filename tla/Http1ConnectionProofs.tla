------------------------- MODULE Http1ConnectionProofs -------------------------
(***************************************************************************)
(* What the peer of Http1Connection reads, for every limit and every       *)
(* number of units: whole responses in order, none held back, none after   *)
(* the close was announced, and few once shutdown is requested; and what a *)
(* client of StaticFiles downloads, for every tree and every change of it. *)
(***************************************************************************)
EXTENDS Http1Connection, StaticFiles, TLAPS, SequenceTheorems

Entries == [req : Nat, kind : Kinds, keep : BOOLEAN]

Over == pc \in {"closed", "upgraded"}

\* The buffer holds what the stage of the request has still to consume, and a
\* streamed body is never collected in it.
Buffered ==
  /\ pc \in {"body", "readbody", "handler"} => ~req.stream
  /\ pc = "gate" => buffer >= HeadUnits
  /\ pc = "upload" => req.stream
  /\ pc \in {"handler", "stream"} /\ ~req.stream => buffer >= RequestUnits

\* A streaming response under way has written its head, and its entry is last.
StreamUnderWay ==
  pc = "stream" => /\ Answered # <<>>
                   /\ Last(Answered).req = Current /\ Last(Answered).kind = "head"

Sound == TypeOK /\ Buffered /\ NothingIsHeldBack
Shape == Sound /\ StreamUnderWay

\* Entries of earlier requests are final, those of the current one are not.
EntriesUpToCurrent ==
  \A i \in DOMAIN Answered :
    /\ Answered[i].req <= Current
    /\ Answered[i].req = Current /\ ~Over => Answered[i].kind \in {"interim", "head"}

\* Only the last entry announces a close, and then nothing but its own
\* streamed body is still to be sent.
CloseIsNear ==
  \A i \in DOMAIN Answered : ~Answered[i].keep =>
    Over \/ (pc = "stream" /\ i = Len(Answered))

\* How far the connection can be past the shutdown.
Closing ==
  shutdown =>
    \/ done = at
    \/ done = at + 1 /\ (pc = "stream" => ~Last(Answered).keep)
    \/ done = at + 2 /\ pc = "closed"

\* What is pending was counted, and the count stays below the bound.
Batched == Len(wire) <= batch /\ batch < MaxBatch

IInv ==
  /\ Shape /\ AnsweredInOrder /\ EntriesUpToCurrent
  /\ CloseIsLast /\ CloseIsNear /\ Closing

USE DEF peer, conn, mode

------------------------------------------------------------------------------
(* Sequences of entries *)

\* The two buffers are sequences of entries, and so is what they make together.
LEMMA AnsweredType ==
  ASSUME TypeOK
  PROVE  out \in Seq(Entries) /\ wire \in Seq(Entries) /\ Answered \in Seq(Entries)
<1>1. out \in Seq(Entries) /\ wire \in Seq(Entries)
  BY DEF TypeOK, Entries
<1> QED BY <1>1, ConcatProperties DEF Answered

\* Entries have the type of what is written.
LEMMA EntryType ==
  ASSUME TypeOK, NEW k \in Kinds, NEW b \in BOOLEAN
  PROVE  Entry(Current, k, b) \in Entries
BY DEF TypeOK, Entries, Entry, Current

\* Everything answered is what was answered before, and e.
Emits(e) == e \in Entries /\ Answered' = Append(Answered, e)

\* A flush moves what is pending and adds nothing.
LEMMA FlushEffect ==
  ASSUME TypeOK, Flush
  PROVE  /\ out' \in Seq(Entries) /\ wire' \in Seq(Entries)
         /\ wire' = <<>> /\ Answered' = Answered
<1>1. out \in Seq(Entries) /\ wire \in Seq(Entries) /\ out \o wire \in Seq(Entries)
  BY AnsweredType DEF Answered
<1>2. out' = (out \o wire) \o <<>> /\ wire' = <<>>
  BY DEF Flush, FlushWith
<1>3. out' = out \o wire
  BY <1>1, <1>2, ConcatEmptySeq
<1>4. (out \o wire) \o <<>> = out \o wire
  BY <1>1, ConcatEmptySeq
<1>5. <<>> \in Seq(Entries)
  OBVIOUS
<1> QED BY <1>1, <1>2, <1>3, <1>4, <1>5 DEF Answered

\* A flush with an entry moves what is pending and adds the entry after it.
LEMMA FlushWithEffect ==
  ASSUME TypeOK, NEW e \in Entries, FlushWith(<<e>>)
  PROVE  out' \in Seq(Entries) /\ wire' \in Seq(Entries) /\ wire' = <<>> /\ Emits(e)
<1>1. out \in Seq(Entries) /\ wire \in Seq(Entries) /\ out \o wire \in Seq(Entries)
  BY AnsweredType DEF Answered
<1>2. out' = (out \o wire) \o <<e>> /\ wire' = <<>>
  BY DEF FlushWith
<1>3. out' = Append(out \o wire, e) /\ out' \in Seq(Entries)
  BY <1>1, <1>2, AppendIsConcat, AppendProperties
<1>4. out' \o <<>> = out'
  BY <1>3, ConcatEmptySeq
<1>5. <<>> \in Seq(Entries)
  OBVIOUS
<1> QED BY <1>2, <1>3, <1>4, <1>5 DEF Emits, Answered

\* An entry left in the buffer is answered too, after what was there.
LEMMA PendEffect ==
  ASSUME TypeOK, NEW e \in Entries, wire' = Append(wire, e), out' = out
  PROVE  wire' \in Seq(Entries) /\ Emits(e)
<1>1. out \in Seq(Entries) /\ wire \in Seq(Entries) /\ out \o wire \in Seq(Entries)
  BY AnsweredType DEF Answered
<1>2. <<e>> \in Seq(Entries)
  OBVIOUS
<1>3. wire' = wire \o <<e>> /\ wire' \in Seq(Entries)
  BY <1>1, AppendIsConcat, AppendProperties
<1>4. out \o (wire \o <<e>>) = (out \o wire) \o <<e>>
  BY <1>1, <1>2, ConcatAssociative
<1>5. (out \o wire) \o <<e>> = Append(out \o wire, e)
  BY <1>1, AppendIsConcat
<1> QED BY <1>3, <1>4, <1>5 DEF Emits, Answered

\* What Append does to a sequence of entries.
LEMMA EmitsEffect ==
  ASSUME TypeOK, NEW e, Emits(e)
  PROVE  /\ Answered' # <<>> /\ Last(Answered)' = e
         /\ DOMAIN Answered' = 1 .. Len(Answered) + 1 /\ DOMAIN Answered = 1 .. Len(Answered)
         /\ Len(Answered) \in Nat /\ Len(Answered') = Len(Answered) + 1
         /\ \A i \in DOMAIN Answered : Answered'[i] = Answered[i] /\ Answered[i] \in Entries
         /\ Answered'[Len(Answered) + 1] = e
<1>1. Answered \in Seq(Entries) /\ e \in Entries
  BY AnsweredType DEF Emits
<1> DEFINE A == Answered
           B == Answered'
<1>2. /\ B # <<>> /\ DOMAIN B = 1 .. Len(A) + 1 /\ DOMAIN A = 1 .. Len(A)
      /\ Len(A) \in Nat /\ Len(B) = Len(A) + 1
      /\ \A i \in DOMAIN A : B[i] = A[i] /\ A[i] \in Entries
      /\ B[Len(A) + 1] = e
  <2> HIDE DEF A, B
  <2>1. A \in Seq(Entries) /\ B = Append(A, e)
    BY <1>1 DEF Emits, A, B
  <2> QED BY <1>1, <2>1, AppendProperties
<1> QED BY <1>2 DEF Last

------------------------------------------------------------------------------
(* What a step adds to what is answered *)

\* Nothing.
Quiet ==
  /\ Answered' = Answered /\ done' = done
  /\ pc' = "stream" => pc = "stream"
  /\ pc = "stream" => pc' \in {"stream", "closed"}
  /\ Over => pc' = pc
  /\ UNCHANGED <<shutdown, at>> \/ (at' = done /\ pc' = pc)

\* An entry of the current request that is not its last, or ends the connection.
Adds ==
  /\ ~Over /\ pc # "stream" /\ done' = done /\ UNCHANGED <<shutdown, at>>
  /\ \E e \in Entries :
       /\ Emits(e) /\ e.req = Current
       /\ \/ e.kind = "interim" /\ e.keep /\ pc' \in {"upload", "body"}
          \/ e.kind = "head" /\ (e.keep => ~shutdown) /\ pc' = "stream"
          \/ e.kind = "switch" /\ e.keep /\ pc' = "upgraded"
          \/ e.kind = "reject" /\ pc' = "closed"

\* The last entry of the current request.
Finishes ==
  /\ ~Over /\ done' = done + 1 /\ UNCHANGED <<shutdown, at>>
  /\ \E e \in Entries :
       /\ Emits(e) /\ e.req = Current /\ e.kind \in {"full", "end"}
       /\ pc' = Continues(e.keep)
       /\ IF pc = "stream" THEN e.keep = Last(Answered).keep ELSE e.keep => ~shutdown

Outcome == Sound' /\ (Quiet \/ Adds \/ Finishes)

\* The peer and the shutdown handle touch nothing of the connection's.
LEMMA Environment ==
  ASSUME Shape, PeerSends \/ PeerCloses \/ Shutdown
  PROVE  Outcome
<1> USE DEF Shape, Sound
<1>1. CASE PeerSends
  BY <1>1, LimitsAssumption DEF PeerSends, Outcome, TypeOK, Buffered, RequestUnits,
     NothingIsHeldBack, Quiet, Answered, Over
<1>2. CASE PeerCloses
  BY <1>2 DEF PeerCloses, Outcome, TypeOK, Buffered, RequestUnits, NothingIsHeldBack,
     Quiet, Answered, Over
<1>3. CASE Shutdown
  BY <1>3 DEF Shutdown, Outcome, TypeOK, Buffered, RequestUnits, NothingIsHeldBack, Quiet,
     Answered, Over
<1> QED BY <1>1, <1>2, <1>3

\* A rejection writes what is pending before it, and closes.
LEMMA RejectKeeps ==
  ASSUME Shape, ~Over, pc # "stream", Reject
  PROVE  Outcome
<1> USE DEF Shape, Sound
<1>1. Entry(Current, "reject", FALSE) \in Entries
  BY EntryType DEF Kinds
<1>2. /\ out' \in Seq(Entries) /\ wire' = <<>>
      /\ Emits(Entry(Current, "reject", FALSE))
  BY <1>1, FlushWithEffect DEF Reject
<1>3. Sound'
  BY <1>2 DEF Reject, TypeOK, Entries, Buffered, NothingIsHeldBack
<1>4. Adds
  BY <1>1, <1>2 DEF Reject, Adds, Entry
<1> QED BY <1>3, <1>4 DEF Outcome

\* A broken connection is over.
LEMMA BreaksKeeps ==
  ASSUME Shape, Breaks
  PROVE  Outcome
BY DEF Shape, Sound, Breaks, Outcome, TypeOK, Buffered, NothingIsHeldBack, Quiet, Answered,
   Over

\* Reading, waiting and parsing write only what is pending.
LEMMA ReadingKeeps ==
  ASSUME Shape,
         \/ ParseHead \/ AwaitHead \/ ReadHead \/ HeadEnds
         \/ BodyComplete \/ AwaitBody \/ ReadBody
  PROVE  Outcome
<1> USE DEF Shape, Sound, HeadUnits, Over
<1>1. CASE ParseHead
  <2>1. UNCHANGED <<wire, out>> /\ pc' = "gate"
    BY <1>1 DEF ParseHead, Goes
  <2>2. TypeOK'
    BY <1>1 DEF ParseHead, Goes, TypeOK
  <2>3. Buffered' /\ NothingIsHeldBack' /\ Quiet
    BY <1>1, <2>1 DEF ParseHead, Goes, Buffered, NothingIsHeldBack, Quiet, Answered
  <2> QED BY <2>2, <2>3 DEF Outcome
<1>2. CASE AwaitHead \/ AwaitBody
  <2>1. /\ out' \in Seq(Entries) /\ wire' \in Seq(Entries)
        /\ wire' = <<>> /\ Answered' = Answered
    BY <1>2, FlushEffect DEF AwaitHead, AwaitBody
  <2>2. TypeOK'
    <3>1. /\ pc' \in {"read", "readbody"} /\ batch' = 0
          /\ UNCHANGED <<peer, conn, done, mode, started, failed>>
      BY <1>2 DEF AwaitHead, AwaitBody, Goes
    <3> QED BY <2>1, <3>1 DEF TypeOK, Entries
  <2>3. Buffered' /\ NothingIsHeldBack' /\ Quiet
    BY <1>2, <2>1 DEF AwaitHead, AwaitBody, Goes, Buffered, NothingIsHeldBack, Quiet
  <2> QED BY <2>2, <2>3 DEF Outcome
<1>3. CASE ReadMore("read", "head") \/ ReadMore("readbody", "body")
  <2>1. PICK n \in 1 .. unread : unread' = unread - n /\ buffer' = buffer + n
    BY <1>3 DEF ReadMore
  <2>2. unread' \in Nat /\ buffer' \in Nat
    BY <2>1 DEF TypeOK
  <2>3. TypeOK'
    BY <1>3, <2>2 DEF ReadMore, TypeOK
  <2>4. Buffered' /\ NothingIsHeldBack' /\ Quiet
    BY <1>3 DEF ReadMore, Buffered, NothingIsHeldBack, Quiet, Answered
  <2> QED BY <2>3, <2>4 DEF Outcome
<1>4. CASE HeadEnds \/ BodyComplete
  <2>1. TypeOK'
    BY <1>4 DEF HeadEnds, BodyComplete, Goes, TypeOK
  <2>2. Buffered' /\ NothingIsHeldBack' /\ Quiet
    BY <1>4 DEF HeadEnds, BodyComplete, Goes, AtEnd, Buffered, RequestUnits,
       NothingIsHeldBack, Quiet, Answered
  <2> QED BY <2>1, <2>2 DEF Outcome
<1> QED BY <1>1, <1>2, <1>3, <1>4 DEF ReadHead, ReadBody

\* A streamed body only moves units.
LEMMA UploadKeeps ==
  ASSUME Shape, Relay \/ AnswersEarly
  PROVE  Outcome
<1> USE DEF Shape, Sound, Over
<1>1. CASE AnswersEarly
  <2>1. TypeOK'
    BY <1>1 DEF AnswersEarly, TypeOK
  <2>2. Buffered' /\ NothingIsHeldBack' /\ Quiet
    BY <1>1 DEF AnswersEarly, Buffered, NothingIsHeldBack, Quiet, Answered
  <2> QED BY <2>1, <2>2 DEF Outcome
<1>2. CASE Relay
  <2>1. buffer' \in Nat /\ left' \in Nat /\ unread' \in Nat
    BY <1>2 DEF Relay, TypeOK
  <2>2. TypeOK'
    BY <1>2, <2>1 DEF Relay, TypeOK
  <2>3. Buffered' /\ NothingIsHeldBack' /\ Quiet
    BY <1>2 DEF Relay, Buffered, NothingIsHeldBack, Quiet, Answered
  <2> QED BY <2>2, <2>3 DEF Outcome
<1> QED BY <1>1, <1>2

\* Past the gate a request has its 100 Continue and, if its body is streamed,
\* nothing pending.
LEMMA AdmitKeeps ==
  ASSUME Shape, Admit
  PROVE  Outcome
<1> USE DEF Shape, Sound, Over
<1> DEFINE e == Entry(Current, "interim", TRUE)
<1>1. /\ pc = "gate" /\ UNCHANGED <<peer, done, mode, started, failed, req, answer>>
      /\ IF req.stream THEN pc' = "upload" /\ left' = req.body /\ buffer' = buffer - HeadUnits
                       ELSE pc' = "body" /\ UNCHANGED <<left, buffer>>
  BY DEF Admit, Goes
<1>2. /\ out' \in Seq(Entries) /\ wire' \in Seq(Entries) /\ batch' \in Nat
      /\ req.stream => wire' = <<>>
      /\ Answered' = Answered \/ (e \in Entries /\ Emits(e))
  <2>1. CASE WriteContinue
    <3>1. e \in Entries
      BY EntryType DEF Kinds
    <3>2. /\ out' \in Seq(Entries) /\ wire' \in Seq(Entries) /\ wire' = <<>>
          /\ Emits(e) /\ batch' = 0
      BY <2>1, <3>1, FlushWithEffect DEF WriteContinue
    <3> HIDE DEF e
    <3> QED BY <3>1, <3>2
  <2>2. CASE Flush /\ UNCHANGED batch
    <3>1. /\ out' \in Seq(Entries) /\ wire' \in Seq(Entries) /\ wire' = <<>>
          /\ Answered' = Answered /\ batch' = batch
      BY <2>2, FlushEffect
    <3>2. batch \in Nat
      BY DEF TypeOK
    <3> HIDE DEF e
    <3> QED BY <3>1, <3>2
  <2>3. CASE ~req.stream /\ UNCHANGED <<wire, out, batch>>
    BY <2>3, AnsweredType DEF Answered, TypeOK
  <2> QED BY <2>1, <2>2, <2>3 DEF Admit
<1>3. buffer' \in Nat /\ left' \in Nat
  BY <1>1, LimitsAssumption DEF Buffered, HeadUnits, TypeOK, Requests
<1>4. TypeOK'
  BY <1>1, <1>2, <1>3 DEF TypeOK, Entries
<1>5. Buffered' /\ NothingIsHeldBack'
  BY <1>1, <1>2 DEF Buffered, NothingIsHeldBack
<1>6. Quiet \/ Adds
  BY <1>1, <1>2 DEF Quiet, Adds, Entry
<1> QED BY <1>4, <1>5, <1>6 DEF Outcome

------------------------------------------------------------------------------
(* The response *)

\* Where a response is given: a whole request, and nothing pending if it was streamed.
Answering(a) ==
  /\ pc \in {"handler", "upload"} /\ a \in Responses
  /\ req.stream \/ buffer >= RequestUnits
  /\ pc = "upload" => wire = <<>>

\* Consuming the request and scheduling its tasks keep the types.
LEMMA ConsumeTypes ==
  ASSUME TypeOK, NEW a, Consume, Schedule(a), req.stream \/ buffer >= RequestUnits
  PROVE  buffer' \in Nat /\ started' \subseteq Nat
<1>1. RequestUnits \in Nat
  BY LimitsAssumption DEF RequestUnits, HeadUnits, TypeOK, Requests
<1>2. buffer' \in Nat
  BY <1>1 DEF Consume, TypeOK
<1>3. started' \subseteq Nat
  BY DEF Schedule, TypeOK, Current
<1> QED BY <1>2, <1>3

\* KeepsAlive is the keep of an entry, and says that no shutdown is requested.
LEMMA KeepsAliveFact ==
  ASSUME TypeOK
  PROVE  KeepsAlive \in BOOLEAN /\ (KeepsAlive => ~shutdown)
BY DEF KeepsAlive, TypeOK, Requests

\* A whole response is written or left pending after what was pending; if it
\* closes the connection it is written.
LEMMA WholeEffect ==
  ASSUME Shape, NEW a, IF native THEN RespondFull(a) ELSE RespondFullCompat(a)
  PROVE  /\ out' \in Seq(Entries) /\ wire' \in Seq(Entries) /\ batch' \in Nat
         /\ Emits(Entry(Current, "full", KeepsAlive))
         /\ ~KeepsAlive => wire' = <<>>
<1> USE DEF Shape, Sound
<1> DEFINE e == Entry(Current, "full", KeepsAlive)
<1>1. e \in Entries
  BY EntryType, KeepsAliveFact DEF Kinds
<1>2. out \in Seq(Entries) /\ wire \in Seq(Entries) /\ batch \in Nat
  BY AnsweredType DEF TypeOK
<1>3. CASE ~native
  <2>1. FlushWith(<<e>>) /\ batch' = batch
    BY <1>3 DEF RespondFullCompat
  <2>2. out' \in Seq(Entries) /\ wire' \in Seq(Entries) /\ wire' = <<>> /\ Emits(e)
    BY <1>1, <2>1, FlushWithEffect
  <2> QED BY <1>2, <2>1, <2>2
<1>4. CASE native
  <2>1. batch' \in Nat
    BY <1>2, <1>4 DEF RespondFull
  <2>2. CASE out' = out \o Append(wire, e) /\ wire' = <<>>
    <3>1. Append(wire, e) = wire \o <<e>> /\ <<e>> \in Seq(Entries)
      BY <1>1, <1>2, AppendIsConcat
    <3>2. out \o (wire \o <<e>>) = (out \o wire) \o <<e>>
      BY <1>2, <3>1, ConcatAssociative
    <3>3. FlushWith(<<e>>)
      BY <2>2, <3>1, <3>2 DEF FlushWith
    <3>4. out' \in Seq(Entries) /\ wire' \in Seq(Entries) /\ wire' = <<>> /\ Emits(e)
      BY <1>1, <3>3, FlushWithEffect
    <3> QED BY <2>1, <3>4
  <2>3. CASE wire' = Append(wire, e) /\ out' = out /\ KeepsAlive
    <3>1. wire' \in Seq(Entries) /\ Emits(e)
      BY <1>1, <2>3, PendEffect
    <3> QED BY <1>2, <2>1, <2>3, <3>1
  <2> QED BY <1>4, <2>2, <2>3 DEF RespondFull
<1> QED BY <1>3, <1>4

\* Whatever a handler answers.
LEMMA RespondKeeps ==
  ASSUME Shape, NEW a, Answering(a), Respond(a)
  PROVE  Outcome
<1> USE DEF Shape, Sound, Over, Answering
<1>0. KeepsAlive \in BOOLEAN /\ (KeepsAlive => ~shutdown)
  BY KeepsAliveFact
<1>1. CASE /\ IF native THEN RespondFull(a) ELSE RespondFullCompat(a)
           /\ Schedule(a) /\ Consume
           /\ done' = done + 1
           /\ pc' = Continues(KeepsAlive)
           /\ answer' = NoAnswer
           /\ UNCHANGED <<peer, req, left, mode, failed>>
  <2> DEFINE e == Entry(Current, "full", KeepsAlive)
  <2>1. /\ out' \in Seq(Entries) /\ wire' \in Seq(Entries) /\ batch' \in Nat
        /\ Emits(e) /\ (~KeepsAlive => wire' = <<>>)
    BY <1>1, WholeEffect
  <2>2. pc' \in {"head", "closed"} /\ (~KeepsAlive <=> pc' = "closed")
    BY <1>0, <1>1 DEF Continues
  <2>3. buffer' \in Nat /\ started' \subseteq Nat
    BY <1>1, ConsumeTypes
  <2>4. done' \in Nat
    BY <1>1 DEF TypeOK
  <2>5. TypeOK'
    BY <1>1, <2>1, <2>2, <2>3, <2>4 DEF TypeOK, Entries
  <2>6. Buffered' /\ NothingIsHeldBack'
    BY <2>1, <2>2 DEF Buffered, NothingIsHeldBack
  <2>7. e \in Entries /\ e.req = Current /\ e.kind = "full" /\ e.keep = KeepsAlive
    BY <2>1 DEF Emits, Entry
  <2>8. Finishes
    <3> HIDE DEF e
    <3> QED BY <1>0, <1>1, <2>1, <2>7 DEF Finishes
  <2> QED BY <2>5, <2>6, <2>8 DEF Outcome
<1>2. CASE RespondStreaming(a)
  <2> DEFINE e == Entry(Current, "head", KeepsAlive)
  <2>1. e \in Entries
    BY <1>0, EntryType DEF Kinds
  <2>2. out' \in Seq(Entries) /\ wire' \in Seq(Entries) /\ wire' = <<>> /\ Emits(e)
    BY <1>2, <2>1, FlushWithEffect DEF RespondStreaming
  <2>3. TypeOK'
    BY <1>2, <2>2 DEF RespondStreaming, TypeOK, Entries
  <2>4. Buffered' /\ NothingIsHeldBack'
    BY <1>2, <2>2 DEF RespondStreaming, Buffered, RequestUnits, NothingIsHeldBack
  <2>5. e.req = Current /\ e.kind = "head" /\ e.keep = KeepsAlive
    BY DEF Entry
  <2>6. Adds
    <3> HIDE DEF e
    <3> QED BY <1>0, <1>2, <2>1, <2>2, <2>5 DEF RespondStreaming, Adds
  <2> QED BY <2>3, <2>4, <2>6 DEF Outcome
<1>3. CASE RespondUpgrade(a)
  <2> DEFINE e == Entry(Current, "switch", TRUE)
  <2>1. e \in Entries
    BY EntryType DEF Kinds
  <2>2. out' \in Seq(Entries) /\ wire' \in Seq(Entries) /\ wire' = <<>> /\ Emits(e)
    BY <1>3, <2>1, FlushWithEffect DEF RespondUpgrade
  <2>3. buffer' \in Nat /\ started' \subseteq Nat
    BY <1>3, ConsumeTypes DEF RespondUpgrade
  <2>4. TypeOK'
    BY <1>3, <2>2, <2>3 DEF RespondUpgrade, TypeOK, Entries
  <2>5. Buffered' /\ NothingIsHeldBack'
    BY <1>3, <2>2 DEF RespondUpgrade, Buffered, NothingIsHeldBack
  <2>6. e.req = Current /\ e.kind = "switch" /\ e.keep = TRUE
    BY DEF Entry
  <2>7. Adds
    <3> HIDE DEF e
    <3> QED BY <1>3, <2>1, <2>2, <2>6 DEF RespondUpgrade, Adds
  <2> QED BY <2>4, <2>5, <2>7 DEF Outcome
<1>4. CASE RefuseUpgrade(a)
  BY <1>4, RejectKeeps DEF RefuseUpgrade
<1> QED BY <1>1, <1>2, <1>3, <1>4 DEF Respond

\* Both places a response is given from.
LEMMA HandlerKeeps ==
  ASSUME Shape, HandlerAnswers
  PROVE  Outcome
<1> USE DEF Shape, Sound
<1>1. CASE pc = "handler" /\ \E a \in Responses : Respond(a)
  <2>1. PICK a \in Responses : Respond(a)
    BY <1>1
  <2>2. Answering(a)
    BY <1>1 DEF Answering, Buffered
  <2> QED BY <2>1, <2>2, RespondKeeps
<1>2. CASE /\ pc = "upload" /\ left = 0
           /\ \E a \in IF answer = NoAnswer THEN Responses ELSE {answer} : Respond(a)
  <2>1. PICK a \in Responses : Respond(a)
    BY <1>2 DEF TypeOK
  <2>2. Answering(a)
    BY <1>2 DEF Answering, Buffered, NothingIsHeldBack
  <2> QED BY <2>1, <2>2, RespondKeeps
<1> QED BY <1>1, <1>2 DEF HandlerAnswers

\* The end of a streaming response follows its head, with nothing in between.
LEMMA StreamKeeps ==
  ASSUME Shape, StreamEnds
  PROVE  Outcome
<1> USE DEF Shape, Sound, Over
<1> DEFINE k == Last(Answered).keep
           e == Entry(Current, "end", k)
<1>1. out \in Seq(Entries) /\ wire = <<>> /\ Answered = out /\ out # <<>>
  <2>1. out \in Seq(Entries) /\ wire = <<>>
    BY AnsweredType DEF StreamEnds, NothingIsHeldBack
  <2>2. out \o <<>> = out
    BY <2>1, ConcatEmptySeq
  <2> QED BY <2>1, <2>2 DEF Answered, StreamUnderWay, StreamEnds
<1>2. k \in BOOLEAN /\ Last(out).keep = k
  <2>1. Len(out) \in DOMAIN out
    BY <1>1
  <2>2. out[Len(out)] \in Entries
    BY <1>1, <2>1
  <2> QED BY <1>1, <2>2 DEF Last, Entries
<1>3. e \in Entries
  BY <1>2, EntryType DEF Kinds
<1>4. out' = Append(out, e) /\ wire' = <<>>
  BY <1>1, <1>2 DEF StreamEnds
<1>5. out' \in Seq(Entries) /\ wire' \in Seq(Entries) /\ out' \o <<>> = out'
  <2> HIDE DEF e
  <2>1. out' \in Seq(Entries)
    BY <1>1, <1>3, <1>4, AppendProperties
  <2> QED BY <1>4, <2>1, ConcatEmptySeq
<1>6. Emits(e)
  BY <1>1, <1>3, <1>4, <1>5 DEF Emits, Answered
<1>7. pc' \in {"head", "closed"} /\ pc' = Continues(k)
  BY <1>2 DEF StreamEnds, Continues
<1>8. buffer' \in Nat /\ started' \subseteq Nat
  BY ConsumeTypes DEF StreamEnds, Buffered
<1>9. TypeOK'
  BY <1>5, <1>7, <1>8 DEF StreamEnds, TypeOK, Entries
<1>10. Buffered' /\ NothingIsHeldBack'
  BY <1>4, <1>7 DEF Buffered, NothingIsHeldBack
<1>11. e.req = Current /\ e.kind = "end" /\ e.keep = k
  BY DEF Entry
<1>12. Finishes
  <2> HIDE DEF e
  <2> QED BY <1>3, <1>6, <1>7, <1>11 DEF StreamEnds, Finishes
<1> QED BY <1>9, <1>10, <1>12 DEF Outcome

\* Every step is quiet, adds an entry or finishes a request.
LEMMA StepOutcome ==
  ASSUME Shape, Next
  PROVE  Outcome
<1>1. CASE PeerSends \/ PeerCloses \/ Shutdown
  BY <1>1, Environment
<1>2. CASE Breaks \/ BodyDeadline
  BY <1>2, BreaksKeeps DEF BodyDeadline
<1>3. CASE RejectHead \/ HeadDeadline \/ RejectRequest \/ RejectBody \/ RejectUpload
  <2>1. ~Over /\ pc # "stream" /\ Reject
    BY <1>3 DEF RejectHead, HeadDeadline, RejectRequest, RejectBody, RejectUpload, AtEnd,
       Over
  <2> QED BY <2>1, RejectKeeps
<1>4. CASE \/ ParseHead \/ AwaitHead \/ ReadHead \/ HeadEnds
           \/ BodyComplete \/ AwaitBody \/ ReadBody
  BY <1>4, ReadingKeeps
<1>5. CASE Relay \/ AnswersEarly
  BY <1>5, UploadKeeps
<1>6. CASE Admit
  BY <1>6, AdmitKeeps
<1>7. CASE HandlerAnswers
  BY <1>7, HandlerKeeps
<1>8. CASE StreamEnds
  BY <1>8, StreamKeeps
<1> QED BY <1>1, <1>2, <1>3, <1>4, <1>5, <1>6, <1>7, <1>8 DEF Next, Serves

------------------------------------------------------------------------------
(* The invariant *)

\* The facts of a step that adds entry e.
Added(e) ==
  /\ Len(Answered) \in Nat
  /\ DOMAIN Answered = 1 .. Len(Answered) /\ DOMAIN Answered' = 1 .. Len(Answered) + 1
  /\ Len(Answered') = Len(Answered) + 1
  /\ \A i \in DOMAIN Answered : Answered'[i] = Answered[i] /\ Answered[i] \in Entries
  /\ Answered'[Len(Answered) + 1] = e /\ e \in Entries
  /\ Answered' # <<>> /\ Last(Answered)' = e

\* Quiet steps keep the invariant: what is answered stays as it is.
LEMMA QuietKeeps ==
  ASSUME IInv, Quiet, Sound'
  PROVE  IInv'
<1>1. Answered' = Answered /\ done' = done /\ Current' = Current
  BY DEF Quiet, Current
<1>2. StreamUnderWay' /\ AnsweredInOrder'
  BY <1>1 DEF IInv, Shape, Quiet, StreamUnderWay, AnsweredInOrder, IsWhole, Last
<1>3. EntriesUpToCurrent'
  BY <1>1 DEF IInv, Quiet, EntriesUpToCurrent, Over
<1>4. CloseIsLast'
  BY <1>1 DEF IInv, CloseIsLast
<1>5. CloseIsNear'
  BY <1>1 DEF IInv, Quiet, CloseIsNear, Over
<1>6. Closing'
  BY <1>1 DEF IInv, Quiet, Closing, Last, Over
<1> QED BY <1>2, <1>3, <1>4, <1>5, <1>6 DEF IInv, Shape

\* An entry that is not its request's last keeps the invariant.
LEMMA AddsKeeps ==
  ASSUME IInv, Adds, Sound'
  PROVE  IInv'
<1>1. PICK e \in Entries :
        /\ Emits(e) /\ e.req = Current
        /\ \/ e.kind = "interim" /\ e.keep /\ pc' \in {"upload", "body"}
           \/ e.kind = "head" /\ (e.keep => ~shutdown) /\ pc' = "stream"
           \/ e.kind = "switch" /\ e.keep /\ pc' = "upgraded"
           \/ e.kind = "reject" /\ pc' = "closed"
  BY DEF Adds
<1>2. Added(e)
  BY <1>1, EmitsEffect DEF IInv, Shape, Sound, Added
<1>3. Current' = Current /\ done' = done /\ ~Over /\ pc # "stream" /\ done \in Nat
  BY DEF Adds, Current, IInv, Shape, Sound, TypeOK
<1>4. StreamUnderWay'
  BY <1>1, <1>2, <1>3 DEF StreamUnderWay, Added
<1>5. AnsweredInOrder'
  <2>1. ASSUME NEW r \in 1 .. done PROVE IsWhole(Answered, r)'
    BY <1>2, <2>1 DEF IInv, AnsweredInOrder, IsWhole, Added
  <2>2. ASSUME NEW i \in DOMAIN Answered', NEW j \in DOMAIN Answered', i < j
        PROVE  /\ Answered'[i].req <= Answered'[j].req
               /\ Answered'[i].req = Answered'[j].req =>
                    Answered'[i].kind \in {"interim", "head"}
    <3>1. i \in DOMAIN Answered /\ (j \in DOMAIN Answered \/ j = Len(Answered) + 1)
      BY <1>2, <2>2 DEF Added
    <3>2. CASE j \in DOMAIN Answered
      BY <1>2, <2>2, <3>1, <3>2 DEF IInv, AnsweredInOrder, Added
    <3>3. CASE j = Len(Answered) + 1
      BY <1>1, <1>2, <1>3, <3>1, <3>3 DEF IInv, EntriesUpToCurrent, Added
    <3> QED BY <3>1, <3>2, <3>3
  <2> QED BY <1>3, <2>1, <2>2 DEF AnsweredInOrder
<1>6. EntriesUpToCurrent'
  <2>1. ASSUME NEW i \in DOMAIN Answered'
        PROVE  /\ Answered'[i].req <= Current
               /\ Answered'[i].req = Current /\ ~Over' =>
                    Answered'[i].kind \in {"interim", "head"}
    <3>1. CASE i \in DOMAIN Answered
      BY <1>2, <1>3, <3>1 DEF IInv, EntriesUpToCurrent, Added
    <3>2. CASE i = Len(Answered) + 1
      BY <1>1, <1>2, <1>3, <3>2 DEF Added, Current, Over
    <3> QED BY <1>2, <3>1, <3>2 DEF Added
  <2> QED BY <1>3, <2>1 DEF EntriesUpToCurrent
<1>7. \A i \in DOMAIN Answered : Answered[i].keep
  BY <1>3 DEF IInv, CloseIsNear
<1>8. CloseIsLast'
  BY <1>2, <1>7 DEF CloseIsLast, Added
<1>9. CloseIsNear'
  BY <1>1, <1>2, <1>7 DEF CloseIsNear, Added, Over
<1>10. Closing'
  <2>1. UNCHANGED <<shutdown, at>> /\ Last(Answered)' = e
    BY <1>2 DEF Adds, Added
  <2>2. shutdown => done = at \/ done = at + 1
    BY <1>3 DEF IInv, Closing, Over
  <2> QED BY <1>1, <1>3, <2>1, <2>2 DEF Closing
<1> QED BY <1>4, <1>5, <1>6, <1>8, <1>9, <1>10 DEF IInv, Shape

\* The last entry of the current request keeps the invariant.
LEMMA FinishesKeeps ==
  ASSUME IInv, Finishes, Sound'
  PROVE  IInv'
<1>1. PICK e \in Entries :
        /\ Emits(e) /\ e.req = Current /\ e.kind \in {"full", "end"}
        /\ pc' = Continues(e.keep)
        /\ IF pc = "stream" THEN e.keep = Last(Answered).keep ELSE e.keep => ~shutdown
  BY DEF Finishes
<1>2. Added(e)
  BY <1>1, EmitsEffect DEF IInv, Shape, Sound, Added
<1>3. /\ done \in Nat /\ done' = done + 1 /\ Current = done + 1 /\ Current' = done + 2
      /\ ~Over
  BY DEF Finishes, Current, IInv, Shape, Sound, TypeOK
<1>4. pc' = IF e.keep THEN "head" ELSE "closed"
  BY <1>1 DEF Continues
<1>5. StreamUnderWay'
  BY <1>4 DEF StreamUnderWay
<1>6. AnsweredInOrder'
  <2>1. ASSUME NEW r \in 1 .. done + 1 PROVE IsWhole(Answered, r)'
    <3>1. CASE r \in 1 .. done
      BY <1>2, <3>1 DEF IInv, AnsweredInOrder, IsWhole, Added
    <3>2. CASE r = done + 1
      BY <1>1, <1>2, <1>3, <3>2 DEF IsWhole, Added
    <3> QED BY <1>3, <3>1, <3>2
  <2>2. ASSUME NEW i \in DOMAIN Answered', NEW j \in DOMAIN Answered', i < j
        PROVE  /\ Answered'[i].req <= Answered'[j].req
               /\ Answered'[i].req = Answered'[j].req =>
                    Answered'[i].kind \in {"interim", "head"}
    <3>1. i \in DOMAIN Answered /\ (j \in DOMAIN Answered \/ j = Len(Answered) + 1)
      BY <1>2, <2>2 DEF Added
    <3>2. CASE j \in DOMAIN Answered
      BY <1>2, <2>2, <3>1, <3>2 DEF IInv, AnsweredInOrder, Added
    <3>3. CASE j = Len(Answered) + 1
      BY <1>1, <1>2, <1>3, <3>1, <3>3 DEF IInv, EntriesUpToCurrent, Added
    <3> QED BY <3>1, <3>2, <3>3
  <2> QED BY <1>3, <2>1, <2>2 DEF AnsweredInOrder
<1>7. EntriesUpToCurrent'
  <2>1. ASSUME NEW i \in DOMAIN Answered' PROVE Answered'[i].req < done + 2
    <3>1. CASE i \in DOMAIN Answered
      <4>1. Answered'[i].req <= done + 1 /\ Answered'[i].req \in Nat
        BY <1>2, <1>3, <3>1 DEF IInv, EntriesUpToCurrent, Added, Entries
      <4> QED BY <1>3, <4>1
    <3>2. CASE i = Len(Answered) + 1
      BY <1>1, <1>2, <1>3, <3>2 DEF Added
    <3> QED BY <1>2, <3>1, <3>2 DEF Added
  <2>2. ASSUME NEW i \in DOMAIN Answered' PROVE Answered'[i].req \in Nat
    BY <1>2 DEF Added, Entries
  <2> QED BY <1>3, <2>1, <2>2 DEF EntriesUpToCurrent
<1>8. \A i \in DOMAIN Answered :
        ~Answered[i].keep => i = Len(Answered) /\ Answered[i].req = Current /\ ~e.keep
  <2>1. SUFFICES ASSUME NEW i \in DOMAIN Answered, ~Answered[i].keep
                 PROVE  i = Len(Answered) /\ Answered[i].req = Current /\ ~e.keep
    OBVIOUS
  <2>2. pc = "stream" /\ i = Len(Answered)
    BY <1>3, <2>1 DEF IInv, CloseIsNear
  <2> QED BY <1>1, <2>1, <2>2 DEF IInv, Shape, StreamUnderWay, Last
<1>9. CloseIsLast'
  <2>1. ASSUME NEW i \in DOMAIN Answered', ~Answered'[i].keep,
               NEW j \in DOMAIN Answered', j > i
        PROVE  Answered'[j].req = Answered'[i].req
    <3>1. i \in DOMAIN Answered
      BY <1>2, <2>1 DEF Added
    <3>2. i = Len(Answered) /\ Answered[i].req = Current
      BY <1>2, <1>8, <2>1, <3>1 DEF Added
    <3>3. j = Len(Answered) + 1
      BY <1>2, <2>1, <3>2 DEF Added
    <3> QED BY <1>1, <1>2, <3>1, <3>2, <3>3 DEF Added
  <2> QED BY <2>1 DEF CloseIsLast
<1>10. CloseIsNear'
  <2>1. ASSUME NEW i \in DOMAIN Answered', ~Answered'[i].keep PROVE pc' = "closed"
    <3>1. CASE i \in DOMAIN Answered
      BY <1>2, <1>4, <1>8, <2>1, <3>1 DEF Added
    <3>2. CASE i = Len(Answered) + 1
      BY <1>2, <1>4, <2>1, <3>2 DEF Added
    <3> QED BY <1>2, <3>1, <3>2 DEF Added
  <2> QED BY <2>1 DEF CloseIsNear, Over
<1>11. Closing'
  <2>1. UNCHANGED <<shutdown, at>>
    BY DEF Finishes
  <2>2. shutdown /\ done # at => done = at + 1 /\ (pc = "stream" => ~Last(Answered).keep)
    BY <1>3 DEF IInv, Closing, Over
  <2>3. shutdown /\ done # at => pc' = "closed"
    BY <1>1, <1>4, <2>2
  <2>4. pc' # "stream" /\ at \in Nat
    BY <1>4 DEF IInv, Shape, Sound, TypeOK
  <2> QED BY <1>3, <2>1, <2>2, <2>3, <2>4 DEF Closing
<1> QED BY <1>5, <1>6, <1>7, <1>9, <1>10, <1>11 DEF IInv, Shape

\* The inductive invariant holds before the first request.
LEMMA InitIInv == Init => IInv
<1> SUFFICES ASSUME Init PROVE IInv
  OBVIOUS
<1>1. out = <<>> /\ wire = <<>> /\ done = 0 /\ pc = "head" /\ ~shutdown
  BY DEF Init
<1>2. Answered = <<>>
  <2>1. <<>> \in Seq(Entries)
    OBVIOUS
  <2>2. \A s \in Seq(Entries) : s \o <<>> = s
    BY ConcatEmptySeq
  <2>3. out \o <<>> = out
    BY <1>1, <2>1, <2>2
  <2> QED BY <1>1, <2>3 DEF Answered
<1>3. TypeOK
  <2>1. req \in Requests
    BY LimitsAssumption DEF Init, Requests
  <2>2. wire \in Seq([req : Nat, kind : Kinds, keep : BOOLEAN])
        /\ out \in Seq([req : Nat, kind : Kinds, keep : BOOLEAN])
    BY <1>1
  <2>3. sent \in 0 .. MaxUnits /\ 0 \in Nat /\ started \subseteq Nat
    BY LimitsAssumption DEF Init
  <2> QED BY <2>1, <2>2, <2>3 DEF Init, TypeOK
<1>4. Buffered /\ NothingIsHeldBack /\ StreamUnderWay /\ Closing
  BY <1>1 DEF Buffered, NothingIsHeldBack, StreamUnderWay, Closing
<1>5. DOMAIN Answered = {}
  BY <1>2
<1>6. AnsweredInOrder
  BY <1>1, <1>5 DEF AnsweredInOrder
<1>7. EntriesUpToCurrent /\ CloseIsLast /\ CloseIsNear
  BY <1>5 DEF EntriesUpToCurrent, CloseIsLast, CloseIsNear
<1> QED BY <1>3, <1>4, <1>6, <1>7 DEF IInv, Shape, Sound

\* The inductive invariant is inductive.
LEMMA StepIInv == IInv /\ [Next]_vars => IInv'
<1> SUFFICES ASSUME IInv, [Next]_vars PROVE IInv'
  OBVIOUS
<1>1. CASE Next
  <2>1. Outcome
    BY <1>1, StepOutcome DEF IInv
  <2> QED BY <2>1, QuietKeeps, AddsKeeps, FinishesKeeps DEF Outcome
<1>2. CASE UNCHANGED vars
  <2>1. UNCHANGED <<pc, unread, sent, eof, buffer, req, left, answer, wire, out, batch, done,
                    native, shutdown, at, started, failed>>
    BY <1>2 DEF vars
  <2>2. Sound'
    BY <2>1 DEF IInv, Shape, Sound, TypeOK, Buffered, RequestUnits, NothingIsHeldBack
  <2>3. Quiet
    BY <2>1 DEF Quiet, Answered, Over
  <2> QED BY <2>2, <2>3, QuietKeeps
<1> QED BY <1>1, <1>2

\* The inductive invariant holds in every behaviour.
LEMMA AlwaysIInv == Spec => []IInv
BY InitIInv, StepIInv, PTL DEF Spec

------------------------------------------------------------------------------
(* The theorems *)

\* Every variable keeps its type.
THEOREM TypeCorrect == Spec => []TypeOK
<1>1. IInv => TypeOK
  BY DEF IInv, Shape, Sound
<1> QED BY <1>1, AlwaysIInv, PTL

\* Batches, interim responses and streams never overtake one another: the peer
\* reads the responses in the order of its requests, each whole and once.
THEOREM ResponsesAreInOrder == Spec => []AnsweredInOrder
<1>1. IInv => AnsweredInOrder
  BY DEF IInv
<1> QED BY <1>1, AlwaysIInv, PTL

\* Wherever the connection waits for its peer, flush_native_pending came first.
THEOREM NoResponseIsHeldBack == Spec => []NothingIsHeldBack
<1>1. IInv => NothingIsHeldBack
  BY DEF IInv, Shape, Sound
<1> QED BY <1>1, AlwaysIInv, PTL

\* After an entry that announces the close only the rest of its body follows.
THEOREM NothingFollowsClose == Spec => []CloseIsLast
<1>1. IInv => CloseIsLast
  BY DEF IInv
<1> QED BY <1>1, AlwaysIInv, PTL

\* At most two more requests are answered once shutdown is requested.
THEOREM ShutdownIsNear == Spec => []FewAfterShutdown
<1>1. ASSUME IInv PROVE FewAfterShutdown
  <2>1. done \in Nat /\ at \in Nat /\ Closing
    BY <1>1 DEF IInv, Shape, Sound, TypeOK
  <2> QED BY <2>1 DEF Closing, FewAfterShutdown
<1>2. IInv => FewAfterShutdown
  BY <1>1
<1> QED BY <1>2, AlwaysIInv, PTL

\* An announced close is final, and shutdown is at most two requests away.
THEOREM CloseEndsTheConnection == Spec => []CloseIsFinal
BY NothingFollowsClose, ShutdownIsNear, PTL DEF CloseIsFinal

------------------------------------------------------------------------------
(* The bound on a write *)

\* What is pending has been counted, and the count stays below the bound.
LEMMA BatchedStep ==
  ASSUME MaxBatch >= 2, Shape, Batched, Next
  PROVE  Batched'
<1> USE LimitsAssumption DEF Shape, Sound, Batched
<1>0. wire \in Seq(Entries) /\ batch \in Nat /\ Len(<<>>) = 0 /\ MaxBatch \in Nat
  BY AnsweredType DEF TypeOK
<1>1. CASE UNCHANGED <<wire, batch>>
  BY <1>1
<1>2. CASE wire' = <<>> /\ batch' \in {0, batch}
  BY <1>0, <1>2
<1>3. CASE PeerSends \/ PeerCloses \/ Shutdown \/ Breaks \/ BodyDeadline \/ ParseHead
           \/ ReadHead \/ HeadEnds \/ BodyComplete \/ ReadBody \/ Relay \/ AnswersEarly
  BY <1>1, <1>3 DEF PeerSends, PeerCloses, Shutdown, Breaks, BodyDeadline, ParseHead,
     Goes, ReadHead, ReadMore, HeadEnds, BodyComplete, ReadBody, Relay, AnswersEarly
<1>4. CASE Reject
  BY <1>2, <1>4 DEF Reject, FlushWith
<1>5. CASE AwaitHead \/ AwaitBody \/ Admit
  BY <1>1, <1>2, <1>5 DEF AwaitHead, AwaitBody, Admit, WriteContinue, Flush, FlushWith
<1>6. CASE StreamEnds
  BY <1>2, <1>6 DEF StreamEnds, NothingIsHeldBack
<1>7. ASSUME NEW a, Respond(a), req.stream => wire = <<>>
      PROVE  Batched'
  <2>1. CASE RespondStreaming(a) \/ RespondUpgrade(a) \/ RefuseUpgrade(a)
    BY <1>2, <1>4, <2>1 DEF RespondStreaming, RespondUpgrade, RefuseUpgrade, FlushWith
  <2>2. CASE RespondFullCompat(a)
    BY <1>2, <2>2 DEF RespondFullCompat, FlushWith
  <2>3. CASE RespondFull(a)
    <3>1. PICK full \in BOOLEAN :
            LET n == IF req.stream THEN 1 ELSE batch + 1
                w == Append(wire, Entry(Current, "full", KeepsAlive))
            IN /\ ~req.stream /\ n >= MaxBatch => full
               /\ batch' = IF full THEN 0 ELSE n
               /\ wire' = <<>> \/ wire' = w
               /\ full => wire' = <<>>
      BY <2>3 DEF RespondFull, BatchIsFull
    <3>2. CASE wire' = <<>>
      BY <1>0, <3>1, <3>2
    <3>3. CASE wire' = Append(wire, Entry(Current, "full", KeepsAlive)) /\ ~full
      <4>1. Len(wire') = Len(wire) + 1
        BY <1>0, <3>3
      <4> QED BY <1>0, <1>7, <3>1, <3>3, <4>1
    <3> QED BY <3>1, <3>2, <3>3
  <2> QED BY <1>7, <2>1, <2>2, <2>3 DEF Respond
<1>8. CASE HandlerAnswers
  <2>1. PICK a : Respond(a)
    BY <1>8 DEF HandlerAnswers
  <2>2. req.stream => wire = <<>>
    BY <1>8 DEF HandlerAnswers, Buffered, NothingIsHeldBack
  <2> QED BY <1>7, <2>1, <2>2
<1>9. CASE RejectHead \/ HeadDeadline \/ RejectRequest \/ RejectBody \/ RejectUpload
  BY <1>4, <1>9 DEF RejectHead, HeadDeadline, RejectRequest, RejectBody, RejectUpload
<1> QED BY <1>3, <1>5, <1>6, <1>8, <1>9 DEF Next, Serves

\* The bound that with_max_pipeline_batch sets is kept, from two on: a streamed
\* request does not test it, so with one its response may meet the next.
THEOREM BatchIsBounded ==
  ASSUME MaxBatch >= 2
  PROVE  Spec => CoalescesAtMostABatch
<1>1. Init => Batched
  BY LimitsAssumption DEF Init, Batched
<1>2. IInv /\ Batched /\ [Next]_vars => Batched'
  <2> SUFFICES ASSUME IInv, Batched, [Next]_vars PROVE Batched'
    OBVIOUS
  <2>1. CASE Next
    BY <2>1, BatchedStep DEF IInv
  <2>2. CASE UNCHANGED vars
    BY <2>2 DEF vars, Batched
  <2> QED BY <2>1, <2>2
<1>3. IInv /\ Batched /\ [Next]_vars =>
        [done' = done + 1 \/ (pc # "stream" /\ pc' = "stream") => Len(wire) < MaxBatch]_vars
  <2> SUFFICES ASSUME IInv, Batched PROVE Len(wire) < MaxBatch
    OBVIOUS
  <2>1. Len(wire) \in Nat /\ batch \in Nat /\ MaxBatch \in Nat
    BY AnsweredType, LimitsAssumption DEF IInv, Shape, Sound, TypeOK
  <2> QED BY <2>1 DEF Batched
<1> QED BY <1>1, <1>2, <1>3, AlwaysIInv, PTL DEF Spec, CoalescesAtMostABatch

------------------------------------------------------------------------------
(* StaticFiles: what a client downloads while files are replaced. *)

\* Bytes of any version a file had.
AllBytes == (Files \X Nat) \X Nat

\* What is or was on the disk: its tag is told with its version ever after.
Written(m) ==
  /\ m.length \in Nat /\ m.modified \in Nat /\ m.version \in Files \X Nat
  /\ [version |-> m.version, tag |-> Tag(m)] \in versions

\* A sequence is the bytes from the first on of a version with the tag.
OfOneVersion(bytes, tag) ==
  \E v \in versions :
    v.tag = tag /\ \A i \in 1 .. Len(bytes) : bytes[i] = <<v.version, i - 1>>

ServingPath == serving \in {"located", "checked", "reading"}

FilesTyped ==
  /\ time \in 0 .. MaxTime /\ changes \in 0 .. MaxChanges /\ fetches \in 0 .. MaxFetches
  /\ serving \in {"idle", "asked", "located", "checked", "reading", "answered"}
  /\ raced \in BOOLEAN
  /\ DOMAIN disk = Files /\ \A p \in Files : disk[p] = NotThere \/ Written(disk[p])

\* The layer holds a file of the tree, metadata it read, and a range of it.
Held ==
  /\ found # NotThere => found \in Files /\ IsPrefix(Root, found)
  /\ ServingPath => found \in Files
  /\ serving \in {"checked", "reading"} => Written(seen)

\* A range is of the file, and where the request says.
RangeFits ==
  serving = "reading" /\ range.kind = "part" =>
    /\ range.start \in Nat /\ range.end \in Nat
    /\ range.start <= range.end /\ range.end < seen.length
    /\ asked.range # NotThere
    /\ asked.range.first # NotThere => range.start = asked.range.first

\* An answer with a body tells of the metadata, and its body is of the file read.
BodyTold ==
  Replied({200, 206}) /\ asked.method = "GET" =>
    /\ Written(seen)
    /\ served.tag = Tag(seen) /\ served.total = seen.length
    /\ served.length \in Nat /\ served.start \in Nat
    /\ served.body \in Seq(AllBytes) /\ Len(served.body) = served.length
    /\ ~raced => \A i \in 1 .. served.length :
                   served.body[i] = <<seen.version, served.start + i - 1>>
    /\ served.status = 200 => served.start = 0 /\ (raced \/ served.length = seen.length)
    /\ served.status = 206 =>
         /\ served.length > 0 /\ served.start + served.length <= seen.length
         /\ asked.range # NotThere
         /\ asked.range.first # NotThere => served.start = asked.range.first

\* An answer without one: the request's validator is good for the metadata.
StillGood ==
  Replied({304}) =>
    /\ Written(seen)
    /\ IF asked.ifNoneMatch # NotThere
       THEN asked.ifNoneMatch \in {<<"*">>, Tag(seen)}
       ELSE Seconds(seen.modified) <= asked.ifModifiedSince

\* A copy that nothing excuses is of one version, and as long as its tag says.
CopyFits ==
  copy # NotThere =>
    /\ copy.bytes \in Seq(AllBytes) /\ copy.tag \in Nat \X Nat
    /\ copy.mixed \in BOOLEAN /\ copy.whole \in BOOLEAN
    /\ ~copy.mixed /\ ~Twins(copy.tag) => OfOneVersion(copy.bytes, copy.tag)
    /\ ~copy.mixed /\ copy.whole => Len(copy.bytes) = copy.tag[1]

\* A request asks for the rest of the copy, or whether the whole copy is current.
AskedOfCopy ==
  serving # "idle" =>
    /\ asked.range # NotThere =>
         /\ asked.range.first \in Nat \cup {NotThere}
         /\ asked.range.last \in Nat \cup {NotThere}
         /\ asked.range.first # NotThere \/ asked.range.last # NotThere
    /\ copy # NotThere /\ ~copy.whole =>
         asked.range.first = Len(copy.bytes) /\ asked.ifNoneMatch = NotThere
    /\ copy # NotThere /\ copy.whole =>
         /\ asked.range = NotThere
         /\ asked.ifNoneMatch # NotThere => asked.ifNoneMatch = copy.tag

FilesInv ==
  /\ FilesTyped /\ Held /\ RangeFits /\ BodyTold /\ StillGood /\ CopyFits /\ AskedOfCopy

------------------------------------------------------------------------------
(* The steps of an answer, of the client and of the disk *)

\* What a path resolves to is below the root, with links and with the index.

LEMMA ResolvesInside ==
  ASSUME NEW candidate, NEW file, file = ResolveFile(candidate), file # NotThere
  PROVE  file \in Files /\ IsPrefix(Root, file)
<1> DEFINE resolved == Canonical(candidate)
<1>1. resolved # NotThere => resolved \in DOMAIN Tree BY DEF Canonical, Exists
<1> QED BY <1>1 DEF ResolveFile, Files

LEMMA LocatesInside ==
  ASSUME NEW segments, Locate(segments) # NotThere
  PROVE  Locate(segments) \in Files /\ IsPrefix(Root, Locate(segments))
<1>1. \/ Locate(segments) = ResolveFile(Append(Root, Index))
      \/ Locate(segments) = ResolveFile(Root \o segments)
  BY DEF Locate
<1> QED BY <1>1, ResolvesInside

\* A range lies within the file and starts where it is asked to.
LEMMA RangeIsWithin ==
  ASSUME FilesAssumption, NEW m, m.length \in Nat, RangeOf(m).kind = "part",
         asked.range # NotThere =>
           /\ asked.range.first \in Nat \cup {NotThere}
           /\ asked.range.last \in Nat \cup {NotThere}
           /\ asked.range.first # NotThere \/ asked.range.last # NotThere
  PROVE  /\ RangeOf(m).start \in Nat /\ RangeOf(m).end \in Nat
         /\ RangeOf(m).start <= RangeOf(m).end /\ RangeOf(m).end < m.length
         /\ asked.range # NotThere
         /\ asked.range.first # NotThere => RangeOf(m).start = asked.range.first
<1> DEFINE spec == asked.range
           part == [kind |-> "part",
                    start |-> IF spec.first # NotThere THEN spec.first
                              ELSE IF spec.last > m.length THEN 0 ELSE m.length - spec.last,
                    end |-> IF spec.first = NotThere \/ spec.last = NotThere
                                 \/ spec.last >= m.length
                            THEN m.length - 1 ELSE spec.last]
<1>1. /\ spec # NotThere
      /\ ~(spec.first # NotThere /\ spec.last # NotThere /\ spec.last < spec.first)
      /\ m.length # 0 /\ ~(spec.first = NotThere /\ spec.last = 0)
      /\ ~(spec.first # NotThere /\ spec.first >= m.length)
      /\ RangeOf(m) = part
  BY DEF RangeOf
<1>2. /\ spec.first \in Nat \cup {NotThere} /\ spec.last \in Nat \cup {NotThere}
      /\ spec.first # NotThere \/ spec.last # NotThere
  BY <1>1
<1>3. CASE spec.first = NotThere
  <2>1. spec.last \in Nat /\ spec.last # 0 BY <1>1, <1>2, <1>3
  <2>2. /\ part.start = IF spec.last > m.length THEN 0 ELSE m.length - spec.last
        /\ part.end = m.length - 1
    BY <1>3
  <2> QED BY <1>1, <1>3, <2>1, <2>2
<1>4. CASE spec.first # NotThere
  <2>1. /\ spec.first \in Nat /\ spec.first < m.length /\ part.start = spec.first
    BY <1>1, <1>2, <1>4
  <2>2. CASE spec.last = NotThere \/ spec.last >= m.length
    <3>1. part.end = m.length - 1 BY <1>4, <2>2
    <3> QED BY <1>1, <2>1, <3>1
  <2>3. CASE ~(spec.last = NotThere \/ spec.last >= m.length)
    <3>1. part.end = spec.last BY <1>4, <2>3
    <3> QED BY <1>1, <1>2, <1>4, <2>1, <2>3, <3>1
  <2> QED BY <2>2, <2>3
<1> QED BY <1>3, <1>4

\* s is the n bytes of a version from first on.
BytesFrom(s, version, first, n) ==
  /\ s \in Seq(AllBytes) /\ Len(s) = n
  /\ \A i \in 1 .. n : s[i] = <<version, first + i - 1>>

\* The bytes read are as many as asked for, of the version read.
LEMMA BytesAre ==
  ASSUME NEW file, file.version \in Files \X Nat,
         NEW first \in Nat, NEW n \in Nat
  PROVE  BytesFrom(Bytes(file, first, first + n - 1), file.version, first, n)
<1> DEFINE e(i) == <<file.version, first + i - 1>>
<1>1. first + n - 1 - first + 1 = n OBVIOUS
<1>2. Bytes(file, first, first + n - 1) = [i \in 1 .. n |-> e(i)]
  BY <1>1 DEF Bytes
<1>3. \A i \in 1 .. n : e(i) \in AllBytes
  BY DEF AllBytes
<1> HIDE DEF e
<1>4. [i \in 1 .. n |-> e(i)] \in Seq(AllBytes) BY <1>3, IsASeq
<1>5. Len([i \in 1 .. n |-> e(i)]) = n OBVIOUS
<1>6. \A i \in 1 .. n : [j \in 1 .. n |-> e(j)][i] = e(i) OBVIOUS
<1>7. \A i \in 1 .. n : Bytes(file, first, first + n - 1)[i] = <<file.version, first + i - 1>>
  BY <1>2, <1>6 DEF e
<1> QED BY <1>2, <1>4, <1>5, <1>7 DEF BytesFrom

LEMMA InitFiles == ASSUME FilesAssumption, FilesInit PROVE FilesInv
<1>1. PICK length \in Initial :
        disk = [p \in Files |-> [version |-> <<p, 0>>, length |-> length[p], modified |-> 0]]
  BY DEF FilesInit
<1>2. FilesTyped
  <2>1. ASSUME NEW p \in Files PROVE Written(disk[p])
    <3>1. disk[p] = [version |-> <<p, 0>>, length |-> length[p], modified |-> 0] BY <1>1
    <3>2. length[p] \in Nat BY DEF FilesAssumption
    <3>3. [version |-> disk[p].version, tag |-> Tag(disk[p])] \in versions BY DEF FilesInit
    <3> QED BY <3>1, <3>2, <3>3 DEF Written
  <2>2. DOMAIN disk = Files BY <1>1
  <2>3. /\ time = 0 /\ changes = 0 /\ fetches = 0 /\ serving = "idle" /\ raced = FALSE
        /\ MaxTime \in Nat /\ MaxChanges \in Nat /\ MaxFetches \in Nat
    BY DEF FilesInit, FilesAssumption
  <2>4. 0 \in 0 .. MaxTime /\ 0 \in 0 .. MaxChanges /\ 0 \in 0 .. MaxFetches BY <2>3
  <2>5. \A p \in Files : disk[p] = NotThere \/ Written(disk[p]) BY <2>1
  <2> QED BY <2>2, <2>3, <2>4, <2>5, Zenon DEF FilesTyped
<1>3. serving = "idle" /\ found = NotThere /\ copy = NotThere BY DEF FilesInit
<1> QED BY <1>2, <1>3 DEF FilesInv, Held, ServingPath, RangeFits, BodyTold, StillGood,
                     CopyFits, AskedOfCopy, Replied

\* An answer leaves the files, the request and the copy alone, and tells a body or
\* that a validator is good only where it does.
LEMMA ReplyKeeps ==
  ASSUME FilesAssumption, FilesInv, NEW r, ReplyWith(r),
         UNCHANGED found, raced' \in BOOLEAN, serving # "idle",
         BodyTold', StillGood'
  PROVE  FilesInv'
<1> USE DEF ReplyWith
<1>1. versions' = versions /\ copy' = copy /\ asked' = asked OBVIOUS
<1>2. FilesTyped' BY <1>1 DEF FilesInv, FilesTyped, Written
<1>3. Held' BY DEF FilesInv, Held, ServingPath
<1>4. RangeFits' BY DEF RangeFits
<1>5. CopyFits' BY <1>1 DEF FilesInv, CopyFits, OfOneVersion, Twins
<1>6. AskedOfCopy' BY <1>1 DEF FilesInv, AskedOfCopy
<1> QED BY <1>2, <1>3, <1>4, <1>5, <1>6 DEF FilesInv

\* An answer of another status tells neither.
LEMMA RefusalKeeps ==
  ASSUME FilesAssumption, FilesInv, NEW r, ReplyWith(r), UNCHANGED found,
         raced' \in BOOLEAN, serving # "idle",
         r = NotThere \/ r.status \notin {200, 206, 304} \/ (asked.method # "GET" /\ r.status # 304)
  PROVE  FilesInv'
<1>1. served' = r /\ asked' = asked BY DEF ReplyWith
<1>2. BodyTold' BY <1>1 DEF BodyTold, Replied
<1>3. StillGood' BY <1>1 DEF StillGood, Replied
<1> QED BY <1>2, <1>3, ReplyKeeps

LEMMA ResolveKeeps == ASSUME FilesAssumption, FilesInv, Resolve PROVE FilesInv'
<1> DEFINE segments == SafeSegments(SubSeq(asked.target, Len(Prefix) + 1, Len(asked.target)))
<1>1. /\ serving = "asked" /\ UNCHANGED <<seen, range, raced>>
      /\ \/ UNCHANGED found /\ \E r \in {NotThere, Bodiless(405), Bodiless(400), Bodiless(404)} :
                                  ReplyWith(r)
         \/ /\ Locate(segments) # NotThere /\ found' = Locate(segments) /\ serving' = "located"
            /\ UNCHANGED <<time, disk, changes, versions, asked, served, copy, fetches>>
  BY DEF Resolve
<1>2. raced' \in BOOLEAN BY <1>1 DEF FilesInv, FilesTyped
<1>3. ASSUME UNCHANGED found,
             NEW r \in {NotThere, Bodiless(405), Bodiless(400), Bodiless(404)}, ReplyWith(r)
      PROVE  FilesInv'
  <2>1. r = NotThere \/ r.status \notin {200, 206, 304} BY <1>3 DEF Bodiless
  <2> QED BY <1>1, <1>2, <1>3, <2>1, RefusalKeeps
<1>4. ASSUME Locate(segments) # NotThere, found' = Locate(segments), serving' = "located",
             UNCHANGED <<time, disk, changes, versions, asked, served, copy, fetches>>
      PROVE  FilesInv'
  <2>1. found' \in Files /\ IsPrefix(Root, found') BY <1>4, LocatesInside
  <2>2. FilesTyped' BY <1>1, <1>4 DEF FilesInv, FilesTyped, Written
  <2>3. Held' BY <1>4, <2>1 DEF Held
  <2>4. RangeFits' /\ BodyTold' /\ StillGood' BY <1>4 DEF RangeFits, BodyTold, StillGood, Replied
  <2>5. CopyFits' BY <1>4 DEF FilesInv, CopyFits, OfOneVersion, Twins
  <2>6. AskedOfCopy' BY <1>1, <1>4 DEF FilesInv, AskedOfCopy
  <2> QED BY <2>2, <2>3, <2>4, <2>5, <2>6 DEF FilesInv
<1> QED BY <1>1, <1>3, <1>4

LEMMA ReadMetadataKeeps == ASSUME FilesAssumption, FilesInv, ReadMetadata PROVE FilesInv'
<1>1. serving = "located" /\ found \in Files /\ UNCHANGED <<found, range, raced>>
  BY DEF ReadMetadata, FilesInv, Held, ServingPath
<1>2. CASE disk[found] = NotThere
  <2>1. ReplyWith(Bodiless(404)) BY <1>2 DEF ReadMetadata
  <2>2. Bodiless(404).status \notin {200, 206, 304} BY DEF Bodiless
  <2>3. raced' \in BOOLEAN BY <1>1 DEF FilesInv, FilesTyped
  <2> QED BY <1>1, <2>1, <2>2, <2>3, RefusalKeeps
<1>3. CASE disk[found] # NotThere
  <2>1. /\ seen' = disk[found] /\ serving' = "checked"
        /\ UNCHANGED <<time, disk, changes, versions, asked, served, copy, fetches>>
    BY <1>3 DEF ReadMetadata
  <2>2. Written(disk[found]) BY <1>1, <1>3 DEF FilesInv, FilesTyped
  <2>3. FilesTyped' BY <1>1, <2>1 DEF FilesInv, FilesTyped, Written
  <2>4. Held' BY <1>1, <2>1, <2>2 DEF FilesInv, Held, Written, Tag
  <2>5. RangeFits' /\ BodyTold' /\ StillGood' BY <2>1 DEF RangeFits, BodyTold, StillGood, Replied
  <2>6. CopyFits' BY <2>1 DEF FilesInv, CopyFits, OfOneVersion, Twins
  <2>7. AskedOfCopy' BY <1>1, <2>1 DEF FilesInv, AskedOfCopy
  <2> QED BY <2>3, <2>4, <2>5, <2>6, <2>7 DEF FilesInv
<1> QED BY <1>2, <1>3

LEMMA ValidateKeeps == ASSUME FilesAssumption, FilesInv, Validate PROVE FilesInv'
<1>1. /\ serving = "checked" /\ found \in Files /\ Written(seen)
      /\ UNCHANGED <<found, seen, raced>> /\ raced' \in BOOLEAN
  BY DEF Validate, FilesInv, Held, ServingPath, FilesTyped
<1>2. CASE NotModified(seen)
  <2>1. ReplyWith(Decorated(Bodiless(304))) BY <1>2 DEF Validate
  <2>2. /\ served' = Decorated(Bodiless(304)) /\ asked' = asked /\ versions' = versions
    BY <2>1 DEF ReplyWith
  <2>3. Decorated(Bodiless(304)).status = 304 BY DEF Decorated, Bodiless
  <2>4. BodyTold' BY <2>2, <2>3 DEF BodyTold, Replied
  <2>5. StillGood'
    <3>1. IF asked.ifNoneMatch # NotThere
          THEN asked.ifNoneMatch \in {<<"*">>, Tag(seen)}
          ELSE Seconds(seen.modified) <= asked.ifModifiedSince
      BY <1>2 DEF NotModified
    <3>2. Written(seen)' BY <1>1, <2>2 DEF Written, Tag
    <3> QED BY <1>1, <2>2, <3>1, <3>2 DEF StillGood, Tag, Seconds
  <2> QED BY <1>1, <2>1, <2>4, <2>5, ReplyKeeps
<1>3. CASE ~NotModified(seen) /\ RangeOf(seen).kind = "none"
  <2>1. ReplyWith(Decorated(Bodiless(416))) BY <1>3 DEF Validate
  <2>2. Decorated(Bodiless(416)).status = 416 BY DEF Decorated, Bodiless
  <2> QED BY <1>1, <2>1, <2>2, RefusalKeeps
<1>4. CASE ~NotModified(seen) /\ RangeOf(seen).kind # "none" /\ asked.method = "HEAD"
  <2> DEFINE r == [Decorated(Bodiless(200)) EXCEPT !.length = seen.length]
  <2>1. ReplyWith(r) BY <1>4 DEF Validate
  <2>2. r.status = 200 BY DEF Decorated, Bodiless
  <2>3. asked.method # "GET" BY <1>4
  <2> HIDE DEF r
  <2> QED BY <1>1, <2>1, <2>2, <2>3, RefusalKeeps
<1>5. CASE ~NotModified(seen) /\ RangeOf(seen).kind # "none" /\ asked.method # "HEAD"
  <2>1. /\ range' = RangeOf(seen) /\ serving' = "reading"
        /\ UNCHANGED <<time, disk, changes, versions, asked, served, copy, fetches>>
    BY <1>5 DEF Validate
  <2>2. FilesTyped' BY <1>1, <2>1 DEF FilesInv, FilesTyped, Written
  <2>3. Held' BY <1>1, <2>1 DEF FilesInv, Held, Written, Tag
  <2>4. RangeFits'
    <3>1. asked.range # NotThere =>
            /\ asked.range.first \in Nat \cup {NotThere}
            /\ asked.range.last \in Nat \cup {NotThere}
            /\ asked.range.first # NotThere \/ asked.range.last # NotThere
      BY <1>1 DEF FilesInv, AskedOfCopy
    <3>2. seen.length \in Nat BY <1>1 DEF Written
    <3> HIDE DEF FilesInv
    <3> QED BY <1>1, <2>1, <3>1, <3>2, RangeIsWithin DEF RangeFits
  <2>5. BodyTold' /\ StillGood' BY <2>1 DEF BodyTold, StillGood, Replied
  <2>6. CopyFits' BY <2>1 DEF FilesInv, CopyFits, OfOneVersion, Twins
  <2>7. AskedOfCopy' BY <1>1, <2>1 DEF FilesInv, AskedOfCopy
  <2> QED BY <2>2, <2>3, <2>4, <2>5, <2>6, <2>7 DEF FilesInv
<1> QED BY <1>2, <1>3, <1>4, <1>5

LEMMA TickKeeps == ASSUME FilesAssumption, FilesInv, Tick PROVE FilesInv'
<1>1. /\ time < MaxTime /\ time' = time + 1
      /\ UNCHANGED <<disk, changes, versions, asked, serving, found, seen, range, raced, served,
                     copy, fetches>>
  BY DEF Tick
<1>2. FilesTyped' BY <1>1 DEF FilesInv, FilesTyped, FilesAssumption, Written, Tag
<1>3. Held' BY <1>1 DEF FilesInv, Held, ServingPath, Written, Tag
<1>4. RangeFits' BY <1>1 DEF FilesInv, RangeFits
<1>5. BodyTold' BY <1>1 DEF FilesInv, BodyTold, Replied, Written, Tag
<1>6. StillGood' BY <1>1 DEF FilesInv, StillGood, Replied, Written, Tag, Seconds
<1>7. CopyFits' BY <1>1 DEF FilesInv, CopyFits, OfOneVersion, Twins
<1>8. AskedOfCopy' BY <1>1 DEF FilesInv, AskedOfCopy
<1> QED BY <1>2, <1>3, <1>4, <1>5, <1>6, <1>7, <1>8 DEF FilesInv

LEMMA ChangeKeeps ==
  ASSUME FilesAssumption, FilesInv, NEW p \in Files, Change(p) PROVE FilesInv'
<1>1. /\ changes < MaxChanges /\ changes' = changes + 1
      /\ UNCHANGED <<time, asked, serving, found, seen, range, raced, served, copy, fetches>>
  BY DEF Change
<1>2. changes' \in 0 .. MaxChanges /\ changes \in Nat /\ time \in Nat
  BY <1>1 DEF FilesInv, FilesTyped, FilesAssumption
<1>3. /\ versions \subseteq versions'
      /\ DOMAIN disk' = Files /\ \A q \in Files : disk'[q] = NotThere \/ Written(disk[q])'
  <2>1. CASE disk' = [disk EXCEPT ![p] = NotThere] /\ UNCHANGED versions
    BY <2>1 DEF FilesInv, FilesTyped, Written, Tag
  <2>2. ASSUME NEW length \in Lengths,
               LET file == [version |-> <<p, changes + 1>>, length |-> length,
                            modified |-> time] IN
               /\ disk' = [disk EXCEPT ![p] = file]
               /\ versions' = versions \cup {[version |-> file.version, tag |-> Tag(file)]}
        PROVE  /\ versions \subseteq versions'
               /\ DOMAIN disk' = Files
               /\ \A q \in Files : disk'[q] = NotThere \/ Written(disk[q])'
    <3> DEFINE file == [version |-> <<p, changes + 1>>, length |-> length, modified |-> time]
    <3>1. /\ disk' = [disk EXCEPT ![p] = file]
          /\ versions' = versions \cup {[version |-> file.version, tag |-> Tag(file)]}
      BY <2>2
    <3>2. versions \subseteq versions' BY <3>1
    <3>3. length \in Nat BY DEF FilesAssumption
    <3>4. disk'[p] = file /\ Written(disk[p])'
      <4>1. disk'[p] = file BY <3>1 DEF FilesInv, FilesTyped
      <4>2. [version |-> file.version, tag |-> Tag(file)] \in versions' BY <3>1
      <4> QED BY <1>2, <3>3, <4>1, <4>2 DEF Written, Tag
    <3>5. ASSUME NEW q \in Files, q # p PROVE disk'[q] = NotThere \/ Written(disk[q])'
      <4>1. disk'[q] = disk[q] BY <3>1, <3>5 DEF FilesInv, FilesTyped
      <4>2. disk[q] = NotThere \/ Written(disk[q]) BY DEF FilesInv, FilesTyped
      <4> QED BY <3>2, <4>1, <4>2 DEF Written, Tag
    <3> QED BY <3>1, <3>2, <3>4, <3>5 DEF FilesInv, FilesTyped
  <2> QED BY <2>1, <2>2 DEF Change
<1>4. FilesTyped' BY <1>1, <1>2, <1>3 DEF FilesInv, FilesTyped
<1>5. Written(seen) => Written(seen)' BY <1>1, <1>3 DEF Written, Tag
<1>6. Held' BY <1>1, <1>5 DEF FilesInv, Held, ServingPath
<1>7. RangeFits' BY <1>1 DEF FilesInv, RangeFits
<1>8. BodyTold' BY <1>1, <1>5 DEF FilesInv, BodyTold, Replied, Tag
<1>9. StillGood' BY <1>1, <1>5 DEF FilesInv, StillGood, Replied, Tag, Seconds
<1>10. CopyFits'
  <2>1. ~Twins(copy.tag)' => ~Twins(copy.tag) BY <1>1, <1>3 DEF Twins
  <2>2. OfOneVersion(copy.bytes, copy.tag) => OfOneVersion(copy.bytes, copy.tag)'
    BY <1>1, <1>3 DEF OfOneVersion
  <2> QED BY <1>1, <2>1, <2>2 DEF FilesInv, CopyFits
<1>11. AskedOfCopy' BY <1>1 DEF FilesInv, AskedOfCopy
<1> QED BY <1>4, <1>6, <1>7, <1>8, <1>9, <1>10, <1>11 DEF FilesInv

\* The part of the file that is there, or all of it, is read; a file that is gone or
\* too short gives an error.
LEMMA ReadKeeps == ASSUME FilesAssumption, FilesInv, Read PROVE FilesInv'
<1>1. /\ serving = "reading" /\ found \in Files /\ Written(seen)
      /\ UNCHANGED <<found, seen, range>>
      /\ raced' = (disk[found] # seen) /\ raced' \in BOOLEAN
  BY DEF Read, FilesInv, Held, ServingPath
<1> DEFINE file == disk[found]
<1>2. file = NotThere \/ Written(file) BY <1>1 DEF FilesInv, FilesTyped
<1>3. ASSUME ReplyWith(Bodiless(500)) PROVE FilesInv'
  <2>1. Bodiless(500).status = 500 BY DEF Bodiless
  <2> QED BY <1>1, <1>3, <2>1, RefusalKeeps
<1>4. ASSUME NEW r, ReplyWith(r), Written(file),
             r.status \in {200, 206}, r.tag = Tag(seen), r.total = seen.length,
             r.start \in Nat, r.length \in Nat,
             r.body = Bytes(file, r.start, r.start + r.length - 1),
             r.status = 200 => r.start = 0 /\ r.length = file.length,
             r.status = 206 => /\ r.length > 0 /\ r.start + r.length <= seen.length
                               /\ asked.range # NotThere
                               /\ asked.range.first # NotThere => r.start = asked.range.first
      PROVE  FilesInv'
  <2>1. file.version \in Files \X Nat BY <1>4 DEF Written
  <2> HIDE DEF file
  <2>2. /\ r.body \in Seq(AllBytes) /\ Len(r.body) = r.length
        /\ \A i \in 1 .. r.length : r.body[i] = <<file.version, r.start + i - 1>>
    <3>1. BytesFrom(Bytes(file, r.start, r.start + r.length - 1), file.version,
                    r.start, r.length)
      BY <1>4, <2>1, BytesAre, SMTT(30)
    <3>2. r.body = Bytes(file, r.start, r.start + r.length - 1) BY <1>4
    <3>3. BytesFrom(r.body, file.version, r.start, r.length) BY <3>1, <3>2
    <3> QED BY <3>3 DEF BytesFrom
  <2>3. served' = r /\ asked' = asked /\ versions' = versions BY <1>4 DEF ReplyWith
  <2>4. ~raced' => file = seen BY <1>1 DEF file
  <2>5. Written(seen)' BY <1>1, <2>3 DEF Written, Tag
  <2>6. (Tag(seen))' = Tag(seen) /\ seen' = seen BY <1>1 DEF Tag
  <2>7. BodyTold'
    <3>1. ~raced' => \A i \in 1 .. r.length : r.body[i] = <<seen.version, r.start + i - 1>>
      BY <2>2, <2>4
    <3>2. r.status = 200 => r.start = 0 /\ (raced' \/ r.length = seen.length) BY <1>4, <2>4
    <3> QED BY <1>4, <2>2, <2>3, <2>5, <2>6, <3>1, <3>2, ZenonT(40) DEF BodyTold
  <2>8. StillGood' BY <1>4, <2>3 DEF StillGood, Replied
  <2> QED BY <1>1, <1>4, <2>7, <2>8, ReplyKeeps
<1>5. CASE ReadRange
  <2>1. range.kind = "part" BY <1>5 DEF ReadRange
  <2>2. /\ range.start \in Nat /\ range.end \in Nat
        /\ range.start <= range.end /\ range.end < seen.length
        /\ asked.range # NotThere
        /\ asked.range.first # NotThere => range.start = asked.range.first
    BY <1>1, <2>1 DEF FilesInv, RangeFits
  <2>3. CASE file = NotThere \/ range.end >= file.length BY <1>3, <1>5, <2>3 DEF ReadRange
  <2>4. CASE ~(file = NotThere \/ range.end >= file.length)
    <3> DEFINE n == range.end - range.start + 1
               r == [Decorated(Bodiless(206)) EXCEPT
                       !.body = Bytes(file, range.start, range.end),
                       !.length = n, !.start = range.start]
    <3>1. ReplyWith(r) BY <1>5, <2>4 DEF ReadRange
    <3>2. seen.length \in Nat BY <1>1 DEF Written
    <3>3. /\ n \in Nat /\ n > 0 /\ range.start + n <= seen.length
          /\ range.end = range.start + n - 1
      BY <2>2, <3>2
    <3>4. Written(file) BY <1>2, <2>4
    <3>5. /\ r.status = 206 /\ r.tag = Tag(seen) /\ r.total = seen.length
          /\ r.start = range.start /\ r.length = n
          /\ r.body = Bytes(file, range.start, range.end)
      BY DEF Decorated, Bodiless
    <3> HIDE DEF n, r, file
    <3>6. r.body = Bytes(file, r.start, r.start + r.length - 1) BY <3>3, <3>5
    <3> QED BY <1>4, <2>2, <3>1, <3>3, <3>4, <3>5, <3>6
  <2> QED BY <2>3, <2>4
<1>6. CASE ReadAll
  <2>1. CASE file = NotThere BY <1>3, <1>6, <2>1 DEF ReadAll
  <2>2. CASE file # NotThere
    <3> DEFINE r == [Decorated(Bodiless(200)) EXCEPT
                       !.body = Bytes(file, 0, file.length - 1), !.length = file.length]
    <3>1. ReplyWith(r) BY <1>6, <2>2 DEF ReadAll
    <3>2. Written(file) /\ file.length \in Nat BY <1>2, <2>2 DEF Written
    <3>3. /\ r.status = 200 /\ r.tag = Tag(seen) /\ r.total = seen.length
          /\ r.start = 0 /\ r.length = file.length
          /\ r.body = Bytes(file, 0, file.length - 1)
      BY DEF Decorated, Bodiless
    <3> HIDE DEF r, file
    <3>4. r.start + r.length - 1 = file.length - 1 BY <3>2, <3>3
    <3> QED BY <1>4, <3>1, <3>2, <3>3, <3>4
  <2> QED BY <2>1, <2>2
<1> QED BY <1>5, <1>6 DEF Read

LEMMA AskKeeps == ASSUME FilesAssumption, FilesInv, Ask PROVE FilesInv'
<1>1. /\ serving = "idle" /\ serving' = "asked"
      /\ fetches < MaxFetches /\ fetches' = fetches + 1
      /\ UNCHANGED <<time, disk, changes, versions, found, seen, range, raced, served, copy>>
  BY DEF Ask
<1>2. FilesTyped' BY <1>1 DEF FilesInv, FilesTyped, FilesAssumption, Written, Tag
<1>3. Held' BY <1>1 DEF FilesInv, Held, ServingPath
<1>4. RangeFits' /\ BodyTold' /\ StillGood' BY <1>1 DEF RangeFits, BodyTold, StillGood, Replied
<1>5. CopyFits' BY <1>1 DEF FilesInv, CopyFits, OfOneVersion, Twins
<1>6. AskedOfCopy'
  <2>1. CASE copy = NotThere
    <3>1. PICK a \in Asks :
            asked' = Request(a.target, a.method, [Plain EXCEPT !.range = a.range])
      BY <2>1 DEF Ask
    <3>2. asked'.range = a.range BY <3>1 DEF Request, Plain
    <3>3. a.range # NotThere =>
            /\ a.range.first \in Nat \cup {NotThere} /\ a.range.last \in Nat \cup {NotThere}
            /\ a.range.first # NotThere \/ a.range.last # NotThere
      BY DEF FilesAssumption
    <3> QED BY <1>1, <2>1, <3>2, <3>3 DEF AskedOfCopy
  <2>2. CASE copy # NotThere /\ ~copy.whole
    <3>1. \E validator : asked' = Request(copy.target, "GET",
            [Plain EXCEPT !.range = [first |-> Len(copy.bytes), last |-> NotThere],
                          !.ifRange = validator])
      BY <2>2 DEF Ask
    <3>2. /\ asked'.range = [first |-> Len(copy.bytes), last |-> NotThere]
          /\ asked'.ifNoneMatch = NotThere
      BY <3>1 DEF Request, Plain
    <3>3. Len(copy.bytes) \in Nat /\ NotThere \notin Nat
      BY <2>2 DEF FilesInv, CopyFits, FilesAssumption
    <3> QED BY <1>1, <2>2, <3>2, <3>3 DEF AskedOfCopy
  <2>3. CASE copy # NotThere /\ copy.whole
    <3>1. \/ asked' = Request(copy.target, "GET", [Plain EXCEPT !.ifNoneMatch = copy.tag])
          \/ asked' = Request(copy.target, "GET", [Plain EXCEPT !.ifModifiedSince = copy.date])
      BY <2>3 DEF Ask
    <3>2. asked'.range = NotThere /\ asked'.ifNoneMatch \in {NotThere, copy.tag}
      BY <3>1 DEF Request, Plain
    <3> QED BY <1>1, <2>3, <3>2 DEF AskedOfCopy
  <2> QED BY <2>1, <2>2, <2>3
<1> QED BY <1>2, <1>3, <1>4, <1>5, <1>6 DEF FilesInv

\* What the client puts together is of one version, if its parts have one tag that
\* no other version has.
LEMMA JoinsOneVersion ==
  ASSUME NEW a \in Seq(AllBytes), NEW b \in Seq(AllBytes), NEW tag, NEW v,
         OfOneVersion(a, tag), ~Twins(tag), v \in versions, v.tag = tag,
         \A i \in 1 .. Len(b) : b[i] = <<v.version, Len(a) + i - 1>>
  PROVE  OfOneVersion(a \o b, tag)
<1>1. PICK w \in versions :
        w.tag = tag /\ \A i \in 1 .. Len(a) : a[i] = <<w.version, i - 1>>
  BY DEF OfOneVersion
<1>2. v = w BY <1>1 DEF Twins
<1>3. ASSUME NEW i \in 1 .. Len(a \o b) PROVE (a \o b)[i] = <<v.version, i - 1>>
  <2>1. Len(a \o b) = Len(a) + Len(b) /\ Len(a) \in Nat /\ Len(b) \in Nat BY ConcatProperties
  <2>2. CASE i <= Len(a)
    <3>1. (a \o b)[i] = a[i] BY <2>2, ConcatProperties
    <3> QED BY <1>1, <1>2, <2>1, <2>2, <3>1
  <2>3. CASE i > Len(a)
    <3>1. (a \o b)[i] = b[i - Len(a)] BY <2>3, ConcatProperties
    <3>2. i - Len(a) \in 1 .. Len(b) /\ Len(a) + (i - Len(a)) - 1 = i - 1 BY <2>1, <2>3
    <3> QED BY <3>1, <3>2
  <2> QED BY <2>1, <2>2, <2>3
<1> QED BY <1>1, <1>2, <1>3 DEF OfOneVersion

LEMMA KeepKeeps == ASSUME FilesAssumption, FilesInv, Keep PROVE FilesInv'
<1>1. /\ serving = "answered" /\ serving' = "idle" /\ served' = NotThere /\ found' = NotThere
      /\ raced' = FALSE /\ UNCHANGED <<time, disk, changes, versions, fetches>>
  BY DEF Keep
<1>2. FilesTyped' BY <1>1 DEF FilesInv, FilesTyped, Written, Tag
<1>3. Held' BY <1>1 DEF Held, ServingPath
<1>4. RangeFits' /\ BodyTold' /\ StillGood' /\ AskedOfCopy'
  BY <1>1 DEF RangeFits, BodyTold, StillGood, AskedOfCopy, Replied
<1>5. CopyFits'
  <2> DEFINE joins == served.status = 206 /\ copy # NotThere
             old == IF joins THEN copy.bytes ELSE <<>>
             bytes == old \o served.body
             next == [target |-> asked.target, tag |-> served.tag, date |-> served.date,
                      bytes |-> bytes,
                      whole |-> served.status = 200 \/ Len(bytes) = served.total,
                      mixed |-> raced \/ (joins /\ (copy.mixed \/ served.tag # copy.tag))]
  <2>1. CASE copy' = copy
    BY <1>1, <2>1 DEF FilesInv, CopyFits, OfOneVersion, Twins
  <2>2. ASSUME copy' # copy
        PROVE  /\ Replied({200, 206}) /\ asked.method = "GET"
               /\ served.status = 206 => served.start = 0 \/ joins
               /\ copy' = next
    <3> DEFINE kept == served # NotThere /\ asked.method = "GET" /\ served.status \in {200, 206}
               apart == served.status = 206 /\ served.start # 0 /\ ~joins
    <3>1. copy' = IF kept THEN IF apart THEN copy ELSE next ELSE copy BY DEF Keep
    <3> HIDE DEF next
    <3>2. kept /\ ~apart /\ copy' = next BY <2>2, <3>1
    <3> QED BY <1>1, <3>2 DEF Replied
  <2>3. ASSUME copy' # copy PROVE CopyFits'
    <3>1. /\ Written(seen) /\ served.tag = Tag(seen) /\ served.total = seen.length
          /\ served.start \in Nat
          /\ served.body \in Seq(AllBytes)
          /\ ~raced => \A i \in 1 .. Len(served.body) :
                         served.body[i] = <<seen.version, served.start + i - 1>>
          /\ served.status = 200 =>
               served.start = 0 /\ (raced \/ Len(served.body) = seen.length)
          /\ served.status = 206 =>
               /\ asked.range # NotThere
               /\ asked.range.first # NotThere => served.start = asked.range.first
          /\ served.status \in {200, 206}
      BY <2>2, <2>3 DEF FilesInv, BodyTold, Replied
    <3>2. joins => /\ copy.bytes \in Seq(AllBytes) /\ copy.mixed \in BOOLEAN
                   /\ served.start = Len(copy.bytes)
      <4> SUFFICES ASSUME joins
                   PROVE  /\ copy.bytes \in Seq(AllBytes) /\ copy.mixed \in BOOLEAN
                          /\ served.start = Len(copy.bytes)
        OBVIOUS
      <4>1. copy.bytes \in Seq(AllBytes) /\ copy.mixed \in BOOLEAN
        BY DEF FilesInv, CopyFits
      <4>2. ~copy.whole BY <1>1, <3>1 DEF FilesInv, AskedOfCopy
      <4>3. asked.range.first = Len(copy.bytes) BY <1>1, <4>2 DEF FilesInv, AskedOfCopy
      <4>4. Len(copy.bytes) \in Nat /\ NotThere \notin Nat BY <4>1 DEF FilesAssumption
      <4> QED BY <3>1, <4>1, <4>3, <4>4
    <3>3. old \in Seq(AllBytes) /\ served.start = Len(old)
      <4>1. CASE joins BY <3>2, <4>1
      <4>2. CASE ~joins
        <5>1. old = <<>> BY <4>2
        <5>2. served.start = 0 BY <2>2, <2>3, <3>1, <4>2
        <5> HIDE DEF old
        <5>3. <<>> \in Seq(AllBytes) /\ Len(<<>>) = 0 BY EmptySeq
        <5> QED BY <5>1, <5>2, <5>3
      <4> QED BY <4>1, <4>2
    <3>4. /\ bytes \in Seq(AllBytes) /\ Len(bytes) = Len(old) + Len(served.body)
      BY <3>1, <3>3, ConcatProperties
    <3>5. /\ copy'.bytes = bytes /\ copy'.tag = served.tag
          /\ copy'.whole = (served.status = 200 \/ Len(bytes) = served.total)
          /\ copy'.mixed = (raced \/ (joins /\ (copy.mixed \/ served.tag # copy.tag)))
      <4> HIDE DEF bytes, old
      <4>1. copy' = next BY <2>2, <2>3
      <4>2. next.bytes = bytes /\ next.tag = served.tag OBVIOUS
      <4>3. next.whole = (served.status = 200 \/ Len(bytes) = served.total) OBVIOUS
      <4>4. next.mixed = (raced \/ (joins /\ (copy.mixed \/ served.tag # copy.tag))) OBVIOUS
      <4> HIDE DEF next
      <4> QED BY <4>1, <4>2, <4>3, <4>4
    <3>6. served.tag \in Nat \X Nat /\ served.tag[1] = seen.length
      BY <3>1 DEF Written, Tag
    <3>7. ASSUME ~copy'.mixed, ~Twins(copy.tag)' PROVE OfOneVersion(copy.bytes, copy.tag)'
      <4> DEFINE v == [version |-> seen.version, tag |-> Tag(seen)]
      <4>1. v \in versions /\ v.tag = served.tag /\ v.version = seen.version
        BY <3>1 DEF Written
      <4>2. ~Twins(served.tag) BY <1>1, <3>5, <3>7 DEF Twins
      <4>3. ~raced BY <3>5, <3>7
      <4>4. OfOneVersion(old, served.tag)
        <5>1. CASE joins
          <6>1. served.tag = copy.tag /\ ~copy.mixed BY <3>5, <3>7, <5>1
          <6> QED BY <4>2, <5>1, <6>1 DEF FilesInv, CopyFits
        <5>2. CASE ~joins
          <6>1. old = <<>> BY <5>2
          <6> QED BY <4>1, <6>1 DEF OfOneVersion
        <5> QED BY <5>1, <5>2
      <4>5. \A i \in 1 .. Len(served.body) :
              served.body[i] = <<v.version, Len(old) + i - 1>>
        BY <3>1, <3>3, <4>1, <4>3
      <4> HIDE DEF v, old
      <4>6. OfOneVersion(old \o served.body, served.tag)
        <5>1. old \in Seq(AllBytes) /\ served.body \in Seq(AllBytes) BY <3>1, <3>3
        <5> QED BY <4>1, <4>2, <4>4, <4>5, <5>1, JoinsOneVersion, Zenon
      <4>7. versions' = versions /\ copy'.bytes = bytes /\ copy'.tag = served.tag
        BY <1>1, <3>5
      <4>8. OfOneVersion(bytes, served.tag) BY <4>6
      <4> HIDE DEF bytes
      <4> QED BY <4>7, <4>8 DEF OfOneVersion
    <3>8. ASSUME ~copy'.mixed, copy'.whole PROVE Len(copy.bytes)' = copy'.tag[1]
      <4>1. ~raced BY <3>5, <3>8
      <4>2. CASE Len(bytes) = served.total BY <3>1, <3>5, <3>6, <4>2, ZenonT(40)
      <4>3. CASE Len(bytes) # served.total
        <5>1. served.status = 200 BY <3>5, <3>8, <4>3
        <5>2. Len(old) = 0 /\ Len(served.body) = seen.length BY <3>1, <3>3, <4>1, <5>1
        <5>3. Len(served.body) \in Nat BY <3>1
        <5> HIDE DEF bytes, old
        <5> QED BY <3>1, <3>4, <4>3, <5>2, <5>3
      <4> QED BY <4>2, <4>3
    <3> QED BY <3>4, <3>5, <3>6, <3>7, <3>8 DEF CopyFits
  <2> QED BY <2>1, <2>3
<1> QED BY <1>2, <1>3, <1>4, <1>5 DEF FilesInv

LEMMA StepFiles ==
  ASSUME FilesAssumption, FilesInv, [FilesNext]_fileVars PROVE FilesInv'
<1>1. CASE UNCHANGED fileVars
  <2> USE <1>1 DEF fileVars
  <2>1. FilesTyped' BY DEF FilesInv, FilesTyped, Written, Tag
  <2>2. Held' BY DEF FilesInv, Held, ServingPath, Written, Tag
  <2>3. RangeFits' BY DEF FilesInv, RangeFits
  <2>4. BodyTold' BY DEF FilesInv, BodyTold, Replied, Written, Tag
  <2>5. StillGood' BY DEF FilesInv, StillGood, Replied, Written, Tag, Seconds
  <2>6. CopyFits' BY DEF FilesInv, CopyFits, OfOneVersion, Twins
  <2>7. AskedOfCopy' BY DEF FilesInv, AskedOfCopy
  <2> QED BY <2>1, <2>2, <2>3, <2>4, <2>5, <2>6, <2>7 DEF FilesInv
<1>2. CASE FilesNext
  BY <1>2, ResolveKeeps, ReadMetadataKeeps, ValidateKeeps, ReadKeeps, AskKeeps, KeepKeeps,
     TickKeeps, ChangeKeeps DEF FilesNext
<1> QED BY <1>1, <1>2

\* The invariant has what the property says; that the copy is current follows from
\* the one version its tag stands for.
LEMMA FilesAreSound == ASSUME FilesAssumption, FilesInv PROVE FilesAreWhole
<1>1. FilesTypeOK BY DEF FilesInv, FilesTyped, Held, FilesTypeOK
<1>2. ServedIsInside BY DEF FilesInv, Held, ServedIsInside
<1>3. AnswersAreExact
  BY DEF FilesInv, BodyTold, AnswersAreExact, Replied
<1>4. DatesDecide BY DEF FilesInv, StillGood, DatesDecide
<1>5. CopiesAreWhole
  <2> SUFFICES ASSUME copy # NotThere, ~copy.mixed, ~Twins(copy.tag)
               PROVE  /\ \A i \in 1 .. Len(copy.bytes) :
                           copy.bytes[i] = <<copy.bytes[1][1], i - 1>>
                      /\ copy.whole => Len(copy.bytes) = copy.tag[1]
                      /\ Replied({304}) /\ asked.ifNoneMatch # NotThere /\ Len(copy.bytes) > 0 =>
                           copy.bytes[1][1] = seen.version
    BY DEF CopiesAreWhole
  <2>1. /\ copy.bytes \in Seq(AllBytes) /\ copy.tag \in Nat \X Nat
        /\ copy.whole \in BOOLEAN
        /\ OfOneVersion(copy.bytes, copy.tag)
        /\ copy.whole => Len(copy.bytes) = copy.tag[1]
    BY DEF FilesInv, CopyFits
  <2>2. PICK v \in versions :
          v.tag = copy.tag /\ \A i \in 1 .. Len(copy.bytes) : copy.bytes[i] = <<v.version, i - 1>>
    BY <2>1 DEF OfOneVersion
  <2>3. Len(copy.bytes) \in Nat BY <2>1
  <2>4. Len(copy.bytes) > 0 => copy.bytes[1][1] = v.version BY <2>2, <2>3
  <2>5. ASSUME Replied({304}), asked.ifNoneMatch # NotThere PROVE seen.version = v.version
    <3>1. serving = "answered" /\ Written(seen) /\ asked.ifNoneMatch \in {<<"*">>, Tag(seen)}
      BY <2>5 DEF FilesInv, StillGood, Replied
    <3>2. asked.ifNoneMatch = copy.tag BY <2>1, <2>5, <3>1 DEF FilesInv, AskedOfCopy
    <3>3. copy.tag # <<"*">>
      <4>1. PICK a, b \in Nat : copy.tag = <<a, b>> BY <2>1
      <4>2. Len(copy.tag) = 2 /\ Len(<<"*">>) = 1 BY <4>1
      <4> QED BY <4>2
    <3>4. Tag(seen) = copy.tag BY <3>1, <3>2, <3>3
    <3>5. [version |-> seen.version, tag |-> Tag(seen)] \in versions BY <3>1 DEF Written
    <3>6. [version |-> seen.version, tag |-> Tag(seen)] = v BY <2>2, <3>4, <3>5 DEF Twins
    <3> QED BY <3>6
  <2> QED BY <2>1, <2>2, <2>3, <2>4, <2>5
<1> QED BY <1>1, <1>2, <1>3, <1>4, <1>5 DEF FilesAreWhole

\* Whatever tree is served and however its files are replaced meanwhile: no path leads
\* out of the root, an answer has the bytes it says of the version its tag is of, and
\* a client that resumes and revalidates ends with one version, the current one when
\* it is told so (StaticFiles::serve, read_range, not_modified, if_range_matches).
THEOREM FilesStayWhole == ASSUME FilesAssumption PROVE FilesSpec => []FilesAreWhole
<1>1. FilesInit => FilesInv BY InitFiles
<1>2. FilesInv /\ [FilesNext]_fileVars => FilesInv' BY StepFiles
<1>3. FilesInv => FilesAreWhole BY FilesAreSound
<1> QED BY <1>1, <1>2, <1>3, PTL DEF FilesSpec
================================================================================
