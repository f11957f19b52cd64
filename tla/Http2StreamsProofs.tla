-------------------------- MODULE Http2StreamsProofs --------------------------
(***************************************************************************)
(* The accounting of Http2Streams for every number of streams and every    *)
(* limit: no window leaks, no stream that was reset is written to, and no  *)
(* record outlives its stream.                                             *)
(***************************************************************************)
EXTENDS Http2Streams, TLAPS

\* A stream's windows, its body's counters and its channel agree.
Ledger(s) ==
  /\ windows[s].conn + Held(s) = data[s]
  /\ remote[s] = "open" /\ s \notin rejected => windows[s].stream + Held(s) = data[s]
  /\ s \in bodies => credited[s] <= received[s]
  /\ s \in bodies /\ open[s] => received[s] = credited[s] + (queue[s] + consumed[s])

\* A stream nobody has heard of has no history.
Fresh(s) ==
  /\ remote[s] = "idle" =>
       /\ data[s] = 0 /\ windows[s].conn = 0 /\ windows[s].stream = 0
       /\ received[s] = 0 /\ credited[s] = 0 /\ queue[s] = 0 /\ consumed[s] = 0
       /\ s \notin bodies
  /\ ended[s] => remote[s] \notin {"idle", "open"}

\* Which records a stream has.
Records(s) ==
  /\ s \in active <=> work[s] # "none"
  /\ s \in cancelled \cup tokens => s \in active
  /\ s \in requests \cup rejected => remote[s] = "open"
  /\ s \in requests => s \notin bodies \cup rejected
  /\ s \in bodies => s \in credit
  /\ remote[s] = "reset" /\ work[s] # "none" => s \in tokens
  /\ s \in afterReset => reply[s] = "reset" /\ remote[s] # "reset"
  /\ remote[s] = "idle" => work[s] = "none" /\ reply[s] = "none"
  /\ s \in requests => work[s] = "none"
  /\ s \in rejected => reply[s] # "reset" /\ (work[s] = "none" \/ s \in tokens)

IInv == TypeOK /\ \A s \in Streams : Ledger(s) /\ Fresh(s) /\ Records(s)

\* The step of one stream: a frame of it, its handler, its work or its credit.
StreamStep(s) ==
  \/ Heads(s) \/ Data(s) \/ Trailers(s) \/ PeerResets(s) \/ StreamCloses(s)
  \/ Reads(s) \/ LetsGo(s)
  \/ Ends(s) \/ BodyChunk(s) \/ WorkCancelled(s) \/ CreditPolled(s)

LoopStep == Shutdown \/ LoopTop \/ InputCloses

USE DEF book, body, channel, wire, loop

------------------------------------------------------------------------------
(* Type correctness *)

\* The types of the windows and of what is sent, which the helpers keep.
LEMMA HelperTypes ==
  ASSUME TypeOK, NEW s \in Streams
  PROVE  /\ \A n \in Nat : ReplenishConnection(s, n) \/ Replenish(s, n) =>
              windows' \in [Streams -> [conn : Nat, stream : Nat]]
         /\ \A what \in {"head", "whole", "reset"} : Send(s, what) =>
              /\ reply' \in [Streams -> {"none", "head", "whole", "reset"}]
              /\ afterReset' \subseteq Streams
<1>1. ASSUME NEW n \in Nat, ReplenishConnection(s, n)
      PROVE windows' \in [Streams -> [conn : Nat, stream : Nat]]
  BY <1>1 DEF ReplenishConnection, TypeOK
<1>2. ASSUME NEW n \in Nat, Replenish(s, n)
      PROVE windows' \in [Streams -> [conn : Nat, stream : Nat]]
  BY <1>2 DEF Replenish, TypeOK
<1>3. ASSUME NEW what \in {"head", "whole", "reset"}, Send(s, what)
      PROVE  /\ reply' \in [Streams -> {"none", "head", "whole", "reset"}]
             /\ afterReset' \subseteq Streams
  BY <1>3 DEF Send, TypeOK
<1> QED BY <1>1, <1>2, <1>3

\* A frame that is not about data keeps the types.
LEMMA FrameTypes ==
  ASSUME TypeOK, NEW s \in Streams,
         Heads(s) \/ Trailers(s) \/ PeerResets(s) \/ StreamCloses(s),
         s \in bodies => received[s] - credited[s] \in Nat
  PROVE  TypeOK'
<1>1. ASSUME NEW end \in BOOLEAN, RejectHead(s, end) PROVE TypeOK'
  <2>1. /\ reply' \in [Streams -> {"none", "head", "whole", "reset"}]
        /\ afterReset' \subseteq Streams
    BY <1>1, HelperTypes DEF RejectHead
  <2> QED BY ZenonT(40), <1>1, <2>1 DEF RejectHead, Opens, Frame, Activity, TypeOK
<1>2. ASSUME NEW end \in BOOLEAN, StreamingHead(s, end) PROVE TypeOK'
  <2>1. open' \in [Streams -> BOOLEAN] /\ closed' \in [Streams -> BOOLEAN]
    BY <1>2 DEF StreamingHead, OpenBody, TypeOK
  <2>2. /\ remote' \in [Streams -> {"idle", "open", "ended", "reset"}]
        /\ work' \in [Streams -> {"none", "handler", "body"}]
        /\ top' \in BOOLEAN
    BY <1>2 DEF StreamingHead, Dispatch, Opens, Frame, Activity, TypeOK
  <2>3. bodies' \subseteq Streams /\ credit' \subseteq Streams /\ active' \subseteq Streams
    BY <1>2 DEF StreamingHead, OpenBody, Dispatch, TypeOK
  <2>4. UNCHANGED <<data, requests, rejected, cancelled, tokens, windows, wire, queue,
                    consumed, received, credited, ended, shutdown, inputClosed, over>>
    BY <1>2 DEF StreamingHead, OpenBody, Dispatch, Opens, Frame, Activity
  <2> QED BY <2>1, <2>2, <2>3, <2>4 DEF TypeOK
<1>3. ASSUME NEW end \in BOOLEAN, BufferedHead(s, end) PROVE TypeOK'
  BY <1>3 DEF BufferedHead, Dispatch, Opens, Frame, Activity, TypeOK
<1>4. CASE Trailers(s)
  <2>1. ended' \in [Streams -> BOOLEAN] /\ closed' \in [Streams -> BOOLEAN]
    BY <1>4 DEF Trailers, TypeOK
  <2>2. /\ remote' \in [Streams -> {"idle", "open", "ended", "reset"}]
        /\ work' \in [Streams -> {"none", "handler", "body"}]
        /\ active' \subseteq Streams /\ requests' \subseteq Streams
        /\ rejected' \subseteq Streams /\ cancelled' = cancelled /\ tokens' = tokens
    BY <1>4 DEF Trailers, Dispatch, TypeOK
  <2>3. /\ top' \in BOOLEAN /\ UNCHANGED <<shutdown, inputClosed, over>>
        /\ UNCHANGED <<data, credit, bodies, received, credited, queue, consumed, open,
                       windows, wire>>
    BY <1>4 DEF Trailers, Frame, Activity
  <2> QED BY <2>1, <2>2, <2>3 DEF TypeOK
<1>5. CASE PeerResets(s)
  <2>1. closed' \in [Streams -> BOOLEAN]
    BY <1>5 DEF PeerResets, TypeOK
  <2>2. windows' \in [Streams -> [conn : Nat, stream : Nat]]
    BY <1>5, HelperTypes DEF PeerResets, TypeOK
  <2> QED BY <1>5, <2>1, <2>2 DEF PeerResets, Cancel, Frame, Activity, TypeOK
<1>6. CASE StreamCloses(s)
  BY <1>6 DEF StreamCloses, Frame, Activity, TypeOK
<1> QED BY <1>1, <1>2, <1>3, <1>4, <1>5, <1>6 DEF Heads

\* A DATA frame of n units moves the sums by n.
LEMMA ArrivesTypes ==
  ASSUME TypeOK, NEW s \in Streams, NEW n \in 0 .. 1, NEW end \in BOOLEAN,
         Arrives(s, n, end)
  PROVE  /\ remote' \in [Streams -> {"idle", "open", "ended", "reset"}]
         /\ data' \in [Streams -> Nat] /\ data'[s] = data[s] + n
         /\ remote'[s] = (IF end THEN "ended" ELSE "open") /\ remote[s] = "open"
         /\ top' \in BOOLEAN /\ UNCHANGED <<shutdown, inputClosed, over>>
BY DEF Arrives, Frame, Activity, TypeOK

\* Data keeps the types.
LEMMA DataTypes ==
  ASSUME TypeOK, NEW s \in Streams, NEW n \in 0 .. 1, NEW end \in BOOLEAN,
         \/ DataOfRejected(s, n, end) \/ BodyTooLong(s, n, end) \/ BodyData(s, n, end)
         \/ BufferedData(s, n, end) \/ StrayData(s, n, end),
         s \in bodies => received[s] - credited[s] \in Nat
  PROVE  TypeOK'
<1>0. /\ remote' \in [Streams -> {"idle", "open", "ended", "reset"}]
      /\ data' \in [Streams -> Nat]
      /\ top' \in BOOLEAN /\ UNCHANGED <<shutdown, inputClosed, over>>
  BY ArrivesTypes DEF DataOfRejected, BodyTooLong, BodyData, BufferedData, StrayData
<1>1. CASE DataOfRejected(s, n, end)
  <2>1. windows' \in [Streams -> [conn : Nat, stream : Nat]]
    BY <1>1, HelperTypes DEF DataOfRejected
  <2> QED BY <1>0, <1>1, <2>1 DEF DataOfRejected, TypeOK
<1>2. CASE BodyTooLong(s, n, end)
  <2>1. received[s] - credited[s] + n \in Nat
    BY <1>2 DEF BodyTooLong
  <2>2. windows' \in [Streams -> [conn : Nat, stream : Nat]]
    BY <1>2, <2>1, HelperTypes DEF BodyTooLong
  <2>3. /\ reply' \in [Streams -> {"none", "head", "whole", "reset"}]
        /\ afterReset' \subseteq Streams
    BY <1>2, HelperTypes DEF BodyTooLong
  <2>4. closed' \in [Streams -> BOOLEAN]
    BY <1>2 DEF BodyTooLong, TypeOK
  <2> QED BY <1>0, <1>2, <2>2, <2>3, <2>4 DEF BodyTooLong, Cancel, TypeOK
<1>3. CASE BodyData(s, n, end)
  <2>1. windows' \in [Streams -> [conn : Nat, stream : Nat]]
    BY <1>3, HelperTypes DEF BodyData, TypeOK
  <2>2. ended' \in [Streams -> BOOLEAN] /\ closed' \in [Streams -> BOOLEAN]
    BY <1>3 DEF BodyData, TypeOK
  <2>3. /\ received' \in [Streams -> Nat] /\ credited' \in [Streams -> Nat]
        /\ queue' \in [Streams -> Nat]
    BY <1>3 DEF BodyData, TypeOK
  <2> QED BY <1>0, <1>3, <2>1, <2>2, <2>3 DEF BodyData, TypeOK
<1>4. CASE BufferedData(s, n, end)
  <2>1. windows' \in [Streams -> [conn : Nat, stream : Nat]]
    BY <1>4, HelperTypes DEF BufferedData
  <2>2. /\ reply' \in [Streams -> {"none", "head", "whole", "reset"}]
        /\ afterReset' \subseteq Streams
    BY <1>4, HelperTypes DEF BufferedData, TypeOK
  <2>3. /\ work' \in [Streams -> {"none", "handler", "body"}]
        /\ active' \subseteq Streams /\ requests' \subseteq Streams
        /\ rejected' \subseteq Streams /\ cancelled' = cancelled /\ tokens' = tokens
    BY <1>4 DEF BufferedData, Dispatch, TypeOK
  <2> QED BY <1>0, <1>4, <2>1, <2>2, <2>3 DEF BufferedData, TypeOK
<1>5. CASE StrayData(s, n, end)
  <2>1. windows' \in [Streams -> [conn : Nat, stream : Nat]]
    BY <1>5, HelperTypes DEF StrayData
  <2>2. /\ reply' \in [Streams -> {"none", "head", "whole", "reset"}]
        /\ afterReset' \subseteq Streams
    BY <1>5, HelperTypes DEF StrayData
  <2> QED BY <1>0, <1>5, <2>1, <2>2 DEF StrayData, TypeOK
<1> QED BY <1>1, <1>2, <1>3, <1>4, <1>5

\* Handlers, their work and the credit polls keep the types.
LEMMA WorkTypes ==
  ASSUME TypeOK, NEW s \in Streams,
         \/ Reads(s) \/ LetsGo(s) \/ Ends(s) \/ BodyChunk(s) \/ WorkCancelled(s)
         \/ CreditPolled(s),
         s \in bodies => received[s] - credited[s] \in Nat
  PROVE  TypeOK'
<1>1. CASE Reads(s)
  <2>1. queue' \in [Streams -> Nat] /\ consumed' \in [Streams -> Nat]
    BY <1>1 DEF Reads, TypeOK
  <2> QED BY <1>1, <2>1 DEF Reads, TypeOK
<1>2. CASE LetsGo(s)
  <2>1. open' \in [Streams -> BOOLEAN]
    BY <1>2 DEF LetsGo, DropBody, TypeOK
  <2> QED BY <1>2, <2>1 DEF LetsGo, TypeOK
<1>3. CASE Ends(s) \/ BodyChunk(s) \/ WorkCancelled(s)
  <2>1. open' \in [Streams -> BOOLEAN]
    BY <1>3 DEF Ends, AnswersWhole, AnswersStreaming, BodyEnd, BodyError, BodyChunk,
       WorkCancelled, Leaves, DropBody, TypeOK
  <2>2. /\ work' \in [Streams -> {"none", "handler", "body"}]
        /\ active' \subseteq Streams /\ cancelled' \subseteq Streams /\ tokens' \subseteq Streams
    BY <1>3 DEF Ends, AnswersWhole, AnswersStreaming, BodyEnd, BodyError, BodyChunk,
       WorkCancelled, Leaves, Retire, TypeOK
  <2>3. /\ reply' \in [Streams -> {"none", "head", "whole", "reset"}]
        /\ afterReset' \subseteq Streams
    BY <1>3, HelperTypes DEF Ends, AnswersWhole, AnswersStreaming, BodyEnd, BodyError,
       BodyChunk, WorkCancelled, TypeOK
  <2>4. /\ top' \in BOOLEAN /\ UNCHANGED <<shutdown, inputClosed, over>>
        /\ UNCHANGED <<remote, data, requests, rejected, credit, body, queue, consumed,
                       closed, windows>>
    BY <1>3 DEF Ends, AnswersWhole, AnswersStreaming, BodyEnd, BodyError, BodyChunk,
       WorkCancelled, Completes, Activity
  <2> QED BY <2>1, <2>2, <2>3, <2>4 DEF TypeOK
<1>4. CASE CreditPolled(s)
  <2>1. windows' \in [Streams -> [conn : Nat, stream : Nat]]
    BY <1>4, HelperTypes DEF CreditPolled, TypeOK
  <2>2. credited' \in [Streams -> Nat] /\ consumed' \in [Streams -> Nat]
    BY <1>4 DEF CreditPolled, TypeOK
  <2> QED BY <1>4, <2>1, <2>2 DEF CreditPolled, Activity, TypeOK
<1> QED BY <1>1, <1>2, <1>3, <1>4

------------------------------------------------------------------------------
(* A step of one stream leaves the others alone *)

SameCounters(u) ==
  /\ remote'[u] = remote[u] /\ data'[u] = data[u] /\ windows'[u] = windows[u]
  /\ received'[u] = received[u] /\ credited'[u] = credited[u]
  /\ queue'[u] = queue[u] /\ consumed'[u] = consumed[u]

SameFlags(u) ==
  /\ open'[u] = open[u] /\ ended'[u] = ended[u]
  /\ reply'[u] = reply[u] /\ work'[u] = work[u]

SameRecords(u) ==
  /\ u \in requests' <=> u \in requests
  /\ u \in bodies' <=> u \in bodies
  /\ u \in rejected' <=> u \in rejected
  /\ u \in active' <=> u \in active
  /\ u \in cancelled' <=> u \in cancelled
  /\ u \in tokens' <=> u \in tokens
  /\ u \in credit' <=> u \in credit
  /\ u \in afterReset' <=> u \in afterReset

Same(u) == SameCounters(u) /\ SameFlags(u) /\ SameRecords(u)

\* The invariant of a stream only depends on what is its own.
LEMMA SameKeeps ==
  ASSUME NEW u \in Streams, Ledger(u), Fresh(u), Records(u), Same(u)
  PROVE  Ledger(u)' /\ Fresh(u)' /\ Records(u)'
<1>1. Ledger(u)'
  BY DEF Same, SameCounters, SameFlags, SameRecords, Ledger, Held
<1>2. Fresh(u)'
  BY DEF Same, SameCounters, SameFlags, SameRecords, Fresh
<1>3. Records(u)'
  BY SMTT(30) DEF Same, SameCounters, SameFlags, SameRecords, Records
<1> QED BY <1>1, <1>2, <1>3

\* Heads, data, trailers and resets are about their stream.
LEMMA FrameIsLocal ==
  ASSUME TypeOK, NEW s \in Streams, NEW u \in Streams, u # s,
         Heads(s) \/ Data(s) \/ Trailers(s) \/ PeerResets(s) \/ StreamCloses(s)
  PROVE  Same(u)
<1> USE DEF Heads, RejectHead, StreamingHead, BufferedHead, Opens, OpenBody, Dispatch,
        Data, DataOfRejected, BodyTooLong, BodyData, BufferedData, StrayData, Arrives,
        ReplenishConnection, Replenish, Send, Cancel, Trailers, PeerResets, StreamCloses
<1>1. CASE Heads(s)
  BY <1>1 DEF Same, SameCounters, SameFlags, SameRecords, TypeOK
<1>2. CASE Data(s)
  <2>1. SameCounters(u)
    BY SMTT(30), <1>2 DEF SameCounters, TypeOK
  <2>2. SameFlags(u)
    BY SMTT(30), <1>2 DEF SameFlags, TypeOK
  <2>3. SameRecords(u)
    BY <1>2 DEF SameRecords, TypeOK
  <2> QED BY <2>1, <2>2, <2>3 DEF Same
<1>3. CASE Trailers(s) \/ PeerResets(s) \/ StreamCloses(s)
  <2>1. SameCounters(u)
    BY <1>3 DEF SameCounters, TypeOK
  <2>2. SameFlags(u)
    BY <1>3 DEF SameFlags, TypeOK
  <2>3. SameRecords(u)
    BY <1>3 DEF SameRecords, TypeOK
  <2> QED BY <2>1, <2>2, <2>3 DEF Same
<1> QED BY <1>1, <1>2, <1>3

\* So are its handler, its work and its credit.
LEMMA WorkIsLocal ==
  ASSUME TypeOK, NEW s \in Streams, NEW u \in Streams, u # s,
         \/ Reads(s) \/ LetsGo(s) \/ Ends(s) \/ BodyChunk(s) \/ WorkCancelled(s)
         \/ CreditPolled(s)
  PROVE  Same(u)
<1> USE DEF Reads, LetsGo, DropBody, Ends, AnswersWhole, AnswersStreaming, BodyEnd, BodyError,
        BodyChunk, WorkCancelled, Completes, Leaves, Retire, Send, CreditPolled,
        ReplenishConnection, Replenish
<1>1. SameCounters(u)
  BY DEF SameCounters, TypeOK
<1>2. SameFlags(u)
  BY DEF SameFlags, TypeOK
<1>3. SameRecords(u)
  BY DEF SameRecords, TypeOK
<1> QED BY <1>1, <1>2, <1>3 DEF Same

------------------------------------------------------------------------------
(* The stream of the step *)

Kept(s) == Ledger(s)' /\ Fresh(s)' /\ Records(s)'

\* Credit goes to both windows or to the connection's only.
LEMMA ReplenishEffect ==
  ASSUME TypeOK, NEW s \in Streams, NEW n \in Nat
  PROVE  /\ Replenish(s, n) => /\ windows'[s].conn = windows[s].conn + n
                               /\ windows'[s].stream = windows[s].stream + n
         /\ ReplenishConnection(s, n) => windows'[s].conn = windows[s].conn + n
BY DEF Replenish, ReplenishConnection, TypeOK

\* What a sum of the stream is made of.
LEMMA Numbers ==
  ASSUME TypeOK, NEW s \in Streams
  PROVE  /\ data[s] \in Nat /\ received[s] \in Nat /\ credited[s] \in Nat
         /\ queue[s] \in Nat /\ consumed[s] \in Nat
         /\ windows[s].conn \in Nat /\ windows[s].stream \in Nat
BY DEF TypeOK

\* A head opens a stream with empty accounts.
LEMMA HeadKeeps ==
  ASSUME TypeOK, NEW s \in Streams, Ledger(s), Fresh(s), Records(s), Heads(s)
  PROVE  Kept(s)
<1>1. ASSUME NEW end \in BOOLEAN,
             RejectHead(s, end) \/ StreamingHead(s, end) \/ BufferedHead(s, end)
      PROVE  Kept(s)
  <2>1. /\ remote[s] = "idle" /\ remote'[s] = (IF end THEN "ended" ELSE "open")
        /\ UNCHANGED <<data, windows, received, credited, queue, consumed, ended>>
    BY <1>1 DEF RejectHead, StreamingHead, BufferedHead, OpenBody, Opens, TypeOK
  <2>2. /\ data[s] = 0 /\ windows[s].conn = 0 /\ windows[s].stream = 0
        /\ received[s] = 0 /\ credited[s] = 0 /\ queue[s] = 0 /\ consumed[s] = 0
        /\ ~ended[s] /\ s \notin bodies
    BY <2>1 DEF Fresh
  <2>3. Ledger(s)'
    BY <2>1, <2>2 DEF Ledger, Held
  <2>4. Fresh(s)'
    BY <2>1, <2>2 DEF Fresh
  <2>5. Records(s)'
    <3>1. CASE RejectHead(s, end)
      BY <2>1, <2>2, <3>1 DEF RejectHead, Send, Records, TypeOK, Reset
    <3>2. CASE StreamingHead(s, end)
      BY <2>1, <2>2, <3>2 DEF StreamingHead, OpenBody, Dispatch, Records, TypeOK
    <3>3. CASE BufferedHead(s, end)
      BY <2>1, <2>2, <3>3 DEF BufferedHead, Dispatch, Records, TypeOK
    <3> QED BY <1>1, <3>1, <3>2, <3>3
  <2> QED BY <2>3, <2>4, <2>5 DEF Kept
<1> QED BY <1>1 DEF Heads

\* Data is credited at once, or held by its body until it is read.
LEMMA DataKeeps ==
  ASSUME TypeOK, NEW s \in Streams, Ledger(s), Fresh(s), Records(s), Data(s)
  PROVE  Kept(s)
<1>0. /\ data[s] \in Nat /\ received[s] \in Nat /\ credited[s] \in Nat
      /\ queue[s] \in Nat /\ consumed[s] \in Nat
      /\ windows[s].conn \in Nat /\ windows[s].stream \in Nat
  BY Numbers
<1>1. ASSUME NEW n \in 0 .. 1, NEW end \in BOOLEAN,
             \/ DataOfRejected(s, n, end) \/ BodyTooLong(s, n, end) \/ BodyData(s, n, end)
             \/ BufferedData(s, n, end) \/ StrayData(s, n, end)
      PROVE  Kept(s)
  <2>0. /\ data'[s] = data[s] + n /\ remote[s] = "open" /\ reply[s] # "reset"
        /\ remote'[s] = (IF end THEN "ended" ELSE "open")
    BY <1>1, ArrivesTypes
    DEF DataOfRejected, BodyTooLong, BodyData, BufferedData, StrayData, Arrives
  <2>1. CASE DataOfRejected(s, n, end)
    <3>1. /\ windows'[s].conn = windows[s].conn + n
          /\ UNCHANGED <<bodies, received, credited, queue, consumed, open, ended>>
          /\ s \in rejected /\ (end \/ s \in rejected')
      BY <2>1, ReplenishEffect DEF DataOfRejected
    <3>2. Ledger(s)'
      BY <1>0, <2>0, <3>1 DEF Ledger, Held
    <3>3. Fresh(s)'
      BY <2>0, <3>1 DEF Fresh
    <3>4. Records(s)'
      BY <2>0, <2>1 DEF DataOfRejected, Records
    <3> QED BY <3>2, <3>3, <3>4 DEF Kept
  <2>2. CASE BodyTooLong(s, n, end)
    <3>0. s \in bodies /\ s \notin rejected /\ credited[s] <= received[s]
      BY <2>2 DEF BodyTooLong, Ledger
    <3>1. /\ windows'[s].conn = windows[s].conn + (received[s] - credited[s] + n)
          /\ UNCHANGED <<received, credited, queue, consumed, open, ended>>
          /\ s \notin bodies' /\ (end \/ s \in rejected')
      <4>1. received[s] - credited[s] + n \in Nat
        BY <1>0, <3>0
      <4> QED BY <2>2, <4>1, ReplenishEffect DEF BodyTooLong
    <3>2. Ledger(s)'
      BY <1>0, <2>0, <3>0, <3>1 DEF Ledger, Held
    <3>3. Fresh(s)'
      BY <2>0, <3>1 DEF Fresh
    <3>4. Records(s)'
      BY <2>0, <2>2, <3>0 DEF BodyTooLong, Cancel, Send, Reset, Records, TypeOK
    <3> QED BY <3>2, <3>3, <3>4 DEF Kept
  <2>3. CASE BodyData(s, n, end)
    <3>0. s \in bodies /\ s \notin rejected /\ credited[s] <= received[s]
      BY <2>3 DEF BodyData, Ledger
    <3>1. /\ received'[s] = received[s] + n
          /\ UNCHANGED <<bodies, rejected, consumed, open>>
          /\ ended'[s] => ended[s] \/ end
      BY <2>3 DEF BodyData, TypeOK
    <3>2. ASSUME open[s] PROVE Ledger(s)'
      <4>1. queue'[s] = queue[s] + n /\ UNCHANGED <<credited, windows>>
        BY <2>3, <3>2 DEF BodyData, TypeOK
      <4> QED BY <1>0, <2>0, <3>0, <3>1, <3>2, <4>1 DEF Ledger, Held
    <3>3. ASSUME ~open[s] PROVE Ledger(s)'
      <4>1. credited'[s] = credited[s] + n
        BY <2>3, <3>3 DEF BodyData, TypeOK
      <4>2. /\ windows'[s].conn = windows[s].conn + n
            /\ ~end => windows'[s].stream = windows[s].stream + n
        BY <2>3, <3>3, ReplenishEffect DEF BodyData
      <4> QED BY <1>0, <2>0, <3>0, <3>1, <3>3, <4>1, <4>2 DEF Ledger, Held
    <3>4. Fresh(s)'
      BY <2>0, <3>1 DEF Fresh
    <3>5. Records(s)'
      BY <2>0, <2>3, <3>0 DEF BodyData, Records
    <3> QED BY <3>2, <3>3, <3>4, <3>5 DEF Kept
  <2>4. CASE BufferedData(s, n, end) \/ StrayData(s, n, end)
    <3>1. /\ windows'[s].conn = windows[s].conn + n
          /\ windows'[s].stream = windows[s].stream + n
          /\ UNCHANGED <<bodies, received, credited, queue, consumed, open, ended>>
          /\ s \notin bodies /\ s \notin rejected
      BY <2>4, ReplenishEffect DEF BufferedData, StrayData
    <3>2. Ledger(s)'
      BY <1>0, <2>0, <3>1 DEF Ledger, Held
    <3>3. Fresh(s)'
      BY <2>0, <3>1 DEF Fresh
    <3>4. Records(s)'
      <4>1. CASE BufferedData(s, n, end)
        BY <2>0, <4>1 DEF BufferedData, Dispatch, Send, Reset, Records, TypeOK
      <4>2. CASE StrayData(s, n, end)
        BY <2>0, <4>2 DEF StrayData, Send, Reset, Records, TypeOK
      <4> QED BY <2>4, <4>1, <4>2
    <3> QED BY <3>2, <3>3, <3>4 DEF Kept
  <2> QED BY <1>1, <2>1, <2>2, <2>3, <2>4
<1> QED BY <1>1 DEF Data

\* Trailers, the peer's reset and the codec's report.
LEMMA EndingKeeps ==
  ASSUME TypeOK, NEW s \in Streams, Ledger(s), Fresh(s), Records(s),
         Trailers(s) \/ PeerResets(s) \/ StreamCloses(s)
  PROVE  Kept(s)
<1>0. /\ data[s] \in Nat /\ received[s] \in Nat /\ credited[s] \in Nat
      /\ queue[s] \in Nat /\ consumed[s] \in Nat
      /\ windows[s].conn \in Nat /\ windows[s].stream \in Nat
  BY Numbers
<1>1. CASE Trailers(s)
  <2>1. /\ remote[s] = "open" /\ remote'[s] = "ended"
        /\ UNCHANGED <<data, bodies, received, credited, queue, consumed, open, windows>>
    BY <1>1 DEF Trailers, TypeOK
  <2>2. Ledger(s)'
    BY <1>0, <2>1 DEF Ledger, Held
  <2>3. Fresh(s)'
    BY <2>1 DEF Fresh
  <2>4. Records(s)'
    BY <1>1, <2>1 DEF Trailers, Dispatch, Records, TypeOK
  <2> QED BY <2>2, <2>3, <2>4 DEF Kept
<1>2. CASE PeerResets(s)
  <2>1. /\ remote[s] \in {"open", "ended"} /\ remote'[s] = "reset" /\ s \notin bodies'
        /\ UNCHANGED <<data, received, credited, queue, consumed, open, ended>>
    BY <1>2 DEF PeerResets, Resettable, TypeOK
  <2>2. windows'[s].conn = data[s]
    <3>1. CASE s \in bodies
      <4>1. received[s] - credited[s] \in Nat
        BY <1>0, <3>1 DEF Ledger
      <4>2. windows'[s].conn = windows[s].conn + (received[s] - credited[s])
        BY <1>2, <3>1, <4>1, ReplenishEffect DEF PeerResets
      <4> QED BY <1>0, <3>1, <4>1, <4>2 DEF Ledger, Held
    <3>2. CASE s \notin bodies
      BY <1>0, <1>2, <3>2 DEF PeerResets, Ledger, Held
    <3> QED BY <3>1, <3>2
  <2>3. Ledger(s)'
    BY <1>0, <2>1, <2>2 DEF Ledger, Held
  <2>4. Fresh(s)'
    BY <2>1 DEF Fresh
  <2>5. Records(s)'
    BY <1>2, <2>1 DEF PeerResets, Resettable, Cancel, Records
  <2> QED BY <2>3, <2>4, <2>5 DEF Kept
<1>3. CASE StreamCloses(s)
  <2>1. UNCHANGED <<remote, data, body, queue, consumed, open, windows>>
    BY <1>3 DEF StreamCloses
  <2>2. s \notin rejected
    BY <1>3 DEF StreamCloses, Reset, Records
  <2>4. Fresh(s)'
    BY <2>1 DEF Fresh
  <2>5. Records(s)'
    BY <1>3, <2>1 DEF StreamCloses, Records
  <2>6. Ledger(s)'
    BY <1>0, <2>1, <2>2 DEF Ledger, Held
  <2> QED BY <2>4, <2>5, <2>6 DEF Kept
<1> QED BY <1>1, <1>2, <1>3

\* Reading moves a unit from the channel to the credit that is due.
LEMMA ReadingKeeps ==
  ASSUME TypeOK, NEW s \in Streams, Ledger(s), Fresh(s), Records(s),
         Reads(s) \/ LetsGo(s)
  PROVE  Kept(s)
<1>0. /\ received[s] \in Nat /\ credited[s] \in Nat
      /\ queue[s] \in Nat /\ consumed[s] \in Nat
  BY Numbers
<1>1. work[s] # "none" /\ remote[s] # "idle"
  BY DEF Reads, LetsGo, Polled, Records
<1>2. CASE Reads(s)
  <2>1. /\ queue'[s] = queue[s] - 1 /\ consumed'[s] = consumed[s] + 1 /\ queue[s] > 0
        /\ UNCHANGED <<remote, data, book, work, credit, body, open, windows, wire>>
    BY <1>2 DEF Reads, TypeOK
  <2>2. queue'[s] + consumed'[s] = queue[s] + consumed[s]
    BY <1>0, <2>1
  <2>3. Ledger(s)'
    BY <2>1, <2>2 DEF Ledger, Held
  <2>4. Fresh(s)'
    BY <1>1, <2>1 DEF Fresh
  <2>5. Records(s)'
    BY <2>1 DEF Records
  <2> QED BY <2>3, <2>4, <2>5 DEF Kept
<1>3. CASE LetsGo(s)
  <2>1. /\ UNCHANGED <<remote, data, book, work, credit, body, queue, consumed, windows, wire>>
        /\ ~open'[s]
    BY <1>3 DEF LetsGo, DropBody, TypeOK
  <2>2. Ledger(s)'
    BY <2>1 DEF Ledger, Held
  <2>3. Fresh(s)'
    BY <2>1 DEF Fresh
  <2>4. Records(s)'
    BY <2>1 DEF Records
  <2> QED BY <2>2, <2>3, <2>4 DEF Kept
<1> QED BY <1>2, <1>3

\* Work ends with its records, and writes to no stream that its peer reset.
LEMMA WorkKeeps ==
  ASSUME TypeOK, NEW s \in Streams, Ledger(s), Fresh(s), Records(s),
         Ends(s) \/ BodyChunk(s) \/ WorkCancelled(s)
  PROVE  Kept(s)
<1>1. /\ UNCHANGED <<remote, data, requests, rejected, credit, body, queue, consumed, windows>>
      /\ open'[s] => open[s]
      /\ work[s] # "none"
  BY DEF Ends, AnswersWhole, AnswersStreaming, BodyEnd, BodyError, BodyChunk, WorkCancelled,
     Completes, Leaves, DropBody, TypeOK
<1>2. Ledger(s)'
  BY <1>1 DEF Ledger, Held
<1>3. Fresh(s)'
  BY <1>1 DEF Fresh
<1>4. \/ UNCHANGED <<work, active, cancelled, tokens>>
      \/ /\ work'[s] = "none"
         /\ s \notin active' /\ s \notin cancelled' /\ s \notin tokens'
      \/ work'[s] = "body" /\ UNCHANGED <<active, cancelled, tokens>>
  BY DEF Ends, AnswersWhole, AnswersStreaming, BodyEnd, BodyError, BodyChunk, WorkCancelled,
     Leaves, Retire, TypeOK
<1>5. \/ UNCHANGED wire
      \/ /\ s \notin tokens
         /\ \E what \in {"head", "whole", "reset"} : Send(s, what)
  BY DEF Ends, AnswersWhole, AnswersStreaming, BodyEnd, BodyError, BodyChunk, WorkCancelled,
     Completes
<1>6. /\ s \in afterReset' => reply'[s] = "reset" /\ remote[s] # "reset"
      /\ s \in rejected => reply'[s] # "reset"
  BY <1>1, <1>5 DEF Send, Reset, Records, TypeOK
<1>7. Records(s)'
  BY <1>1, <1>4, <1>6 DEF Records
<1> QED BY <1>2, <1>3, <1>7 DEF Kept

\* A credit poll returns what was read, and at the end whatever is left.
LEMMA CreditKeeps ==
  ASSUME TypeOK, NEW s \in Streams, Ledger(s), Fresh(s), Records(s), CreditPolled(s)
  PROVE  Kept(s)
<1>0. /\ data[s] \in Nat /\ received[s] \in Nat /\ credited[s] \in Nat
      /\ queue[s] \in Nat /\ consumed[s] \in Nat
      /\ windows[s].conn \in Nat /\ windows[s].stream \in Nat
  BY Numbers
<1>1. /\ UNCHANGED <<remote, data, book, work, received, ended, queue, open, closed, wire>>
      /\ consumed'[s] = 0
      /\ s \in bodies' <=> s \in bodies /\ ~Finished(s)
  BY DEF CreditPolled, TypeOK
<1>2. Records(s)'
  BY <1>1 DEF CreditPolled, Records
<1>3. CASE s \notin bodies
  <2>1. UNCHANGED <<credited, windows>>
    BY <1>3 DEF CreditPolled
  <2>2. Ledger(s)'
    BY <1>1, <1>3, <2>1 DEF Ledger, Held
  <2>3. Fresh(s)'
    BY <1>1, <1>3, <2>1 DEF Fresh
  <2> QED BY <1>2, <2>2, <2>3 DEF Kept
<1>4. CASE s \in bodies
  <2> DEFINE n == IF Finished(s) THEN received[s] - credited[s] ELSE consumed[s]
  <2>1. credited[s] <= received[s] /\ remote[s] # "idle"
    BY <1>4 DEF Ledger, Fresh
  <2>2. n \in Nat /\ (Finished(s) => n = received[s] - credited[s])
    BY <1>0, <2>1
  <2>3. ~Finished(s) => /\ n = consumed[s] /\ open[s]
                        /\ received[s] = credited[s] + (queue[s] + consumed[s])
    BY <1>4 DEF Finished, Ledger
  <2>4. /\ credited'[s] = credited[s] + n
        /\ IF ended[s] THEN ReplenishConnection(s, n) ELSE Replenish(s, n)
    BY <1>4 DEF CreditPolled, TypeOK
  <2> HIDE DEF n
  <2>5. /\ windows'[s].conn = windows[s].conn + n
        /\ remote[s] = "open" => windows'[s].stream = windows[s].stream + n
    BY <2>2, <2>4, ReplenishEffect DEF Fresh
  <2>6. Fresh(s)'
    BY <1>1, <2>1 DEF Fresh
  <2>7. CASE Finished(s)
    <3>1. Ledger(s)'
      BY <1>0, <1>1, <1>4, <2>1, <2>2, <2>5, <2>7 DEF Ledger, Held
    <3> QED BY <1>2, <2>6, <3>1 DEF Kept
  <2>8. CASE ~Finished(s)
    <3>1. /\ received[s] - credited'[s] = received[s] - credited[s] - n
          /\ credited'[s] <= received[s]
          /\ received[s] = credited'[s] + (queue[s] + 0)
      BY <1>0, <2>1, <2>3, <2>4, <2>8
    <3>2. windows'[s].conn + Held(s)' = data[s]
      BY <1>0, <1>1, <1>4, <2>1, <2>2, <2>3, <2>4, <2>5, <2>8 DEF Ledger, Held
    <3>3. remote[s] = "open" /\ s \notin rejected => windows'[s].stream + Held(s)' = data[s]
      BY <1>0, <1>1, <1>4, <2>1, <2>2, <2>3, <2>4, <2>5, <2>8 DEF Ledger, Held
    <3>4. Ledger(s)'
      BY <1>1, <2>3, <2>8, <3>1, <3>2, <3>3 DEF Ledger
    <3> QED BY <1>2, <2>6, <3>4 DEF Kept
  <2> QED BY <2>7, <2>8
<1> QED BY <1>3, <1>4

------------------------------------------------------------------------------
(* The theorems *)

\* The inductive invariant holds before the first frame.
LEMMA InitIInv == Init => IInv
<1> SUFFICES ASSUME Init PROVE IInv
  OBVIOUS
<1>1. TypeOK
  BY DEF Init, Zero, No, TypeOK
<1>2. ASSUME NEW s \in Streams PROVE Ledger(s) /\ Fresh(s) /\ Records(s)
  BY DEF Init, Zero, No, Ledger, Held, Fresh, Records
<1> QED BY <1>1, <1>2 DEF IInv

\* The inductive invariant is inductive.
LEMMA StepIInv == IInv /\ [Next]_vars => IInv'
<1> SUFFICES ASSUME IInv, [Next]_vars PROVE IInv'
  OBVIOUS
<1>0. TypeOK /\ \A s \in Streams : Ledger(s) /\ Fresh(s) /\ Records(s)
  BY DEF IInv
<1>1. CASE LoopStep \/ UNCHANGED vars
  <2>1. UNCHANGED <<remote, data, book, work, credit, body, channel, windows, wire>>
    BY <1>1 DEF LoopStep, Shutdown, LoopTop, InputCloses, vars
  <2>2. /\ top' \in BOOLEAN /\ shutdown' \in BOOLEAN /\ inputClosed' \in BOOLEAN
        /\ over' \in BOOLEAN
    BY <1>0, <1>1 DEF LoopStep, Shutdown, LoopTop, InputCloses, vars, TypeOK
  <2>3. TypeOK'
    BY <1>0, <2>1, <2>2 DEF TypeOK
  <2>4. ASSUME NEW u \in Streams PROVE Same(u)
    BY <2>1 DEF Same, SameCounters, SameFlags, SameRecords
  <2> QED BY <1>0, <2>3, <2>4, SameKeeps DEF IInv
<1>2. ASSUME NEW s \in Streams, StreamStep(s) PROVE IInv'
  <2>1. s \in bodies => received[s] - credited[s] \in Nat
    BY <1>0, Numbers DEF Ledger
  <2>2. TypeOK'
    BY <1>0, <1>2, <2>1, FrameTypes, DataTypes, WorkTypes DEF StreamStep, Data
  <2>3. Kept(s)
    BY <1>0, <1>2, HeadKeeps, DataKeeps, EndingKeeps, ReadingKeeps, WorkKeeps, CreditKeeps
    DEF StreamStep
  <2>4. ASSUME NEW u \in Streams, u # s PROVE Same(u)
    BY <1>0, <1>2, <2>4, FrameIsLocal, WorkIsLocal DEF StreamStep
  <2>5. ASSUME NEW u \in Streams PROVE Ledger(u)' /\ Fresh(u)' /\ Records(u)'
    <3>1. CASE u = s
      BY <2>3, <3>1 DEF Kept
    <3>2. CASE u # s
      BY <1>0, <2>4, <3>2, SameKeeps
    <3> QED BY <3>1, <3>2
  <2> QED BY <2>2, <2>5 DEF IInv
<1> QED BY <1>1, <1>2 DEF Next, LoopStep, StreamStep

\* The inductive invariant holds in every behaviour.
LEMMA AlwaysIInv == Spec => []IInv
BY InitIInv, StepIInv, PTL DEF Spec

\* Every variable keeps its type: no counter goes below zero.
THEOREM TypeCorrect == Spec => []TypeOK
<1>1. IInv => TypeOK
  BY DEF IInv
<1> QED BY <1>1, AlwaysIInv, PTL

\* However a stream ends, every unit it received is held by its body or was
\* returned to the connection's window exactly once.
THEOREM NoCreditLeaks == Spec => []CreditConserved
<1>1. IInv => CreditConserved
  BY DEF IInv, Ledger, CreditConserved
<1> QED BY <1>1, AlwaysIInv, PTL

\* The credit a body holds is what its handler has not read, and what it has
\* read since IncomingBodySender::consumed was polled.
THEOREM HeldCreditIsUnread == Spec => []HeldIsUnread
<1>1. ASSUME IInv PROVE HeldIsUnread
  <2>1. SUFFICES ASSUME NEW s \in bodies, open[s]
                 PROVE  received[s] - credited[s] = queue[s] + consumed[s]
    BY DEF HeldIsUnread
  <2>2. s \in Streams /\ TypeOK /\ Ledger(s)
    BY <1>1, <2>1 DEF IInv, TypeOK
  <2>3. received[s] = credited[s] + (queue[s] + consumed[s])
    BY <2>1, <2>2 DEF Ledger
  <2> QED BY <2>2, <2>3, Numbers
<1>2. IInv => HeldIsUnread
  BY <1>1
<1> QED BY <1>2, AlwaysIInv, PTL

\* The window credit is all there, and held back only for what is not read.
THEOREM CreditStaysRight == Spec => []CreditIsRight
BY NoCreditLeaks, HeldCreditIsUnread, PTL DEF CreditIsRight

\* The token that cancel_stream fires is seen before any output of the work.
THEOREM PeerResetIsFinal == Spec => []QuietAfterPeerReset
<1>1. IInv => QuietAfterPeerReset
  BY DEF IInv, TypeOK, Records, QuietAfterPeerReset
<1> QED BY <1>1, AlwaysIInv, PTL

\* A stream that is over leaves no record in Streams.
THEOREM NoRecordOutlives == Spec => []StreamsAreForgotten
<1>1. IInv => StreamsAreForgotten
  BY DEF IInv, Records, StreamsAreForgotten
<1> QED BY <1>1, AlwaysIInv, PTL

\* A stream ends without a frame after its reset and without a record left.
THEOREM StreamsEnd == Spec => []StreamsEndQuietly
BY PeerResetIsFinal, NoRecordOutlives, PTL DEF StreamsEndQuietly
===============================================================================
