--------------------------- MODULE MultipartStream ---------------------------
(***************************************************************************)
(* The two readers of multipart/form-data: MultipartStream, which reads a  *)
(* body chunk by chunk while it arrives (crates/blazingly-core/src/lib.rs),*)
(* and parse_multipart, which has the whole body                           *)
(* (crates/blazingly-executor/src/lib.rs).                                 *)
(*                                                                         *)
(* A body is a sequence of bytes out of Byte; its boundary is <<"b">>.     *)
(* multipart_part_headers is abstracted to the blocks it accepts.  The     *)
(* window is the unconsumed part of the buffer.                            *)
(***************************************************************************)
EXTENDS Integers, Sequences, FiniteSetsExt

CONSTANTS Bodies,    \* the bodies a client may send
          MaxChunk,  \* the longest chunk of the transport
          MaxHeader, \* MAX_MULTIPART_HEADER_BYTES
          MaxParts   \* MAX_MULTIPART_PARTS

Byte == {"cr", "lf", "-", "b", "x", "h"}
CrLf == <<"cr", "lf">>
Dashes == <<"-", "-">>
Delimiter == Dashes \o <<"b">>

\* What an instance must satisfy; the module that makes it assumes so.
BodiesAssumption == \A b \in Bodies : b \in Seq(Byte)
ChunkAssumption == {MaxChunk, MaxHeader, MaxParts} \subseteq Nat \ {0}

VARIABLES body,     \* what the client sends
          pulled,   \* how much of it has been read: bytes_read
          window,   \* buffer[cursor ..]
          reading,  \* MultipartState
          stage,    \* where the call in progress is, or "idle"
          calling,  \* that call: "next" or "chunk"
          fields,   \* the parts handed out: header block, data, all data taken
          failure   \* why the reader failed, or "none"

\* An instance of Bodies: one part whose header block is as long as the limit.
LongHeaders ==
  {Delimiter \o CrLf \o [i \in 1 .. MaxHeader |-> "h"] \o CrLf \o CrLf \o <<"x">>
     \o CrLf \o Delimiter \o Dashes}

partVars == <<body, pulled, window, reading, stage, calling, fields, failure>>

TypeOK ==
  /\ body \in Bodies /\ pulled \in 0 .. Len(body) /\ Len(window) <= pulled
  /\ reading \in {"Opening", "Headers", "Part", "Done", "Failed"}
  /\ stage \in {"idle", "opening", "suffix", "headers", "part"}
  /\ calling \in {"next", "chunk"}
  /\ failure \in {"none", "malformed", "limit", "truncated", "transport"}

Init ==
  /\ body \in Bodies /\ pulled = 0 /\ window = <<>>
  /\ reading = "Opening" /\ stage = "idle" /\ calling = "next"
  /\ fields = <<>> /\ failure = "none"

------------------------------------------------------------------------------
(* What the readers look for. *)

\* s[from + 1 .. from + Len(p)] = p
MatchesAt(s, p, from) ==
  from + Len(p) <= Len(s) /\ SubSeq(s, from + 1, from + Len(p)) = p

StartsWith(s, p) == MatchesAt(s, p, 0)
From(s, n) == SubSeq(s, n + 1, Len(s))
Found(s, p, from) == {i \in from .. Len(s) : MatchesAt(s, p, i)}

\* multipart_part_headers: the blocks with a field name and no malformed line.
HeadersParse(block) ==
  (\E i \in DOMAIN block : block[i] = "h") /\ \A i \in DOMAIN block : block[i] # "x"

\* A delimiter line begins here, and its two bytes of suffix say how it ends.
IsTerminator(s, i) ==
  /\ MatchesAt(s, CrLf \o Delimiter, i)
  /\ \E end \in {CrLf, Dashes} : MatchesAt(s, end, i + 2 + Len(Delimiter))

\* What arrived agrees with the delimiter but is too short to tell.
IsUndecided(s, i) ==
  /\ i + 2 + Len(Delimiter) + 2 > Len(s)
  /\ LET seen == From(s, i + 2)
         n == Min({Len(seen), Len(Delimiter)})
     IN SubSeq(seen, 1, n) = SubSeq(Delimiter, 1, n)

\* scan_multipart_terminator.  A trailing CR, CR LF or CR LF - is withheld.
Scan(s) ==
  LET hits == {i \in Found(s, CrLf \o Dashes, 0) : IsTerminator(s, i) \/ IsUndecided(s, i)}
  IN IF hits = {} THEN [end |-> FALSE, safe |-> Max({0, Len(s) - 3})]
     ELSE [end |-> IsTerminator(s, Min(hits)), safe |-> Min(hits)]

HeaderEnds(s) == Found(s, CrLf \o CrLf, 0)

------------------------------------------------------------------------------
(* MultipartStream. *)

Fail(why) ==
  /\ reading' = "Failed" /\ stage' = "idle" /\ failure' = why
  /\ UNCHANGED <<body, pulled, window, calling, fields>>

\* next_field: skips what is left of the current part.
NextField ==
  /\ stage = "idle" /\ reading \in {"Opening", "Headers", "Part"}
  /\ calling' = "next"
  /\ stage' = CASE reading = "Opening" -> "opening"
                [] reading = "Part" -> "part"
                [] reading = "Headers" -> "headers"
  /\ UNCHANGED <<body, pulled, window, reading, fields, failure>>

\* MultipartField::next_chunk, of the part the caller holds.
NextChunk ==
  /\ stage = "idle" /\ reading = "Part"
  /\ calling' = "chunk" /\ stage' = "part"
  /\ UNCHANGED <<body, pulled, window, reading, fields, failure>>

ReadOpening ==
  /\ stage = "opening" /\ Len(window) >= Len(Delimiter)
  /\ IF StartsWith(window, Delimiter)
     THEN /\ window' = From(window, Len(Delimiter)) /\ stage' = "suffix"
          /\ UNCHANGED <<body, pulled, reading, calling, fields, failure>>
     ELSE Fail("malformed")

\* read_boundary_suffix: next_field goes on to the headers, next_chunk returns.
ReadSuffix ==
  /\ stage = "suffix" /\ Len(window) >= 2
  /\ IF StartsWith(window, CrLf) \/ StartsWith(window, Dashes)
     THEN /\ reading' = IF StartsWith(window, Dashes) THEN "Done" ELSE "Headers"
          /\ stage' = IF reading' = "Headers" /\ calling = "next" THEN "headers" ELSE "idle"
          /\ window' = From(window, 2)
          /\ UNCHANGED <<body, pulled, calling, fields, failure>>
     ELSE Fail("malformed")

\* read_headers and the rest of next_field, once the block's end is there.
ReadHeaders ==
  /\ stage = "headers" /\ HeaderEnds(window) # {}
  /\ LET end == Min(HeaderEnds(window))
         block == SubSeq(window, 1, end)
     IN IF end > MaxHeader THEN Fail("limit")
        ELSE IF ~HeadersParse(block) THEN Fail("malformed")
        ELSE IF Len(fields) >= MaxParts THEN Fail("limit")
        ELSE /\ window' = From(window, end + 4)
             /\ fields' = Append(fields, [head |-> block, data |-> <<>>, whole |-> FALSE])
             /\ reading' = "Part" /\ stage' = "idle"
             /\ UNCHANGED <<body, pulled, calling, failure>>

HeadersTooLong ==
  /\ stage = "headers" /\ HeaderEnds(window) = {} /\ Len(window) > MaxHeader
  /\ Fail("limit")

\* advance_part: the next run of data, returned to next_chunk or skipped.
TakeData ==
  /\ stage = "part" /\ Scan(window).safe > 0
  /\ window' = From(window, Scan(window).safe)
  /\ IF calling = "chunk"
     THEN /\ fields' = [fields EXCEPT
               ![Len(fields)].data = @ \o SubSeq(window, 1, Scan(window).safe)]
          /\ stage' = "idle"
     ELSE UNCHANGED <<fields, stage>>
  /\ UNCHANGED <<body, pulled, reading, calling, failure>>

EndPart ==
  /\ stage = "part" /\ Scan(window).end /\ Scan(window).safe = 0
  /\ window' = From(window, 2 + Len(Delimiter)) /\ stage' = "suffix"
  /\ fields' = [fields EXCEPT ![Len(fields)].whole = (calling = "chunk")]
  /\ UNCHANGED <<body, pulled, reading, calling, failure>>

\* The call in progress cannot go on without more of the body.
Starved ==
  \/ stage = "opening" /\ Len(window) < Len(Delimiter)
  \/ stage = "suffix" /\ Len(window) < 2
  \/ stage = "headers" /\ HeaderEnds(window) = {} /\ Len(window) <= MaxHeader
  \/ stage = "part" /\ ~Scan(window).end /\ Scan(window).safe = 0

Fill(n) ==
  /\ Starved /\ pulled + n <= Len(body)
  /\ pulled' = pulled + n
  /\ window' = window \o SubSeq(body, pulled + 1, pulled + n)
  /\ UNCHANGED <<body, reading, stage, calling, fields, failure>>

\* The body ends, perhaps before the client's document does, or it fails.
BodyEnds == Starved /\ Fail("truncated")
BodyFails == Starved /\ Fail("transport")

Next ==
  \/ NextField \/ NextChunk
  \/ ReadOpening \/ ReadSuffix \/ ReadHeaders \/ HeadersTooLong
  \/ TakeData \/ EndPart
  \/ \E n \in 1 .. MaxChunk : Fill(n)
  \/ BodyEnds \/ BodyFails

Spec == Init /\ [][Next]_partVars

------------------------------------------------------------------------------
(* parse_multipart: the parts of a whole body, or a rejection. *)

Rejected == [ok |-> FALSE, parts |-> <<>>]

Buffered(b, maxHeader) ==
  LET \* the parse after n parts, "at" the bytes that follow a delimiter
      after[n \in 0 .. MaxParts + 1] ==
        IF n = 0 THEN [at |-> Len(Delimiter), parts |-> <<>>, ok |-> StartsWith(b, Delimiter)]
        ELSE LET p == after[n - 1]
                 ends == Found(b, CrLf \o CrLf, p.at + 2)
                 end == Min(ends)
                 stops == {i \in end + 4 .. Len(b) : IsTerminator(b, i)}
                 block == SubSeq(b, p.at + 3, end)
             IN IF ~p.ok \/ MatchesAt(b, Dashes, p.at) THEN p
                ELSE IF \/ ~MatchesAt(b, CrLf, p.at) \/ ends = {}
                        \/ Len(block) > maxHeader \/ ~HeadersParse(block)
                        \/ stops = {} \/ n > MaxParts
                     THEN [p EXCEPT !.ok = FALSE]
                     ELSE [at |-> Min(stops) + 2 + Len(Delimiter), ok |-> TRUE,
                           parts |-> Append(p.parts,
                             [head |-> block, data |-> SubSeq(b, end + 5, Min(stops))])]
      last == after[MaxParts + 1]
  IN IF last.ok /\ MatchesAt(b, Dashes, last.at)
     THEN [ok |-> TRUE, parts |-> last.parts] ELSE Rejected

------------------------------------------------------------------------------
(* Properties. *)

\* However the transport cuts a body into chunks, and whatever the caller
\* skips, the stream reads what the buffered reader reads: at the end the same
\* parts with the same bytes, and it refuses only what the other refuses.  The
\* bytes of a part that was read in part are a prefix of it.  The limit of the
\* header block is the exception LimitsAreShared is about: within three bytes
\* of it the answer depends on the chunks.
ReadersAgree ==
  /\ reading = "Done" =>
       LET whole == Buffered(body, MaxHeader).parts
       IN /\ Buffered(body, MaxHeader).ok /\ Len(whole) = Len(fields)
          /\ \A i \in DOMAIN fields :
               /\ fields[i].head = whole[i].head
               /\ StartsWith(whole[i].data, fields[i].data)
               /\ fields[i].whole => fields[i].data = whole[i].data
  /\ failure = "malformed" => ~Buffered(body, MaxHeader).ok
  /\ failure = "truncated" => ~Buffered(SubSeq(body, 1, pulled), MaxHeader).ok
  /\ failure = "limit" => ~Buffered(body, MaxHeader - 3).ok

\* What the reader withholds from a part while it waits is the delimiter and
\* four bytes at most (the comment of MultipartScan at core 1365), so that a
\* long upload is never held.
LookAheadIsBounded ==
  Starved /\ stage = "part" => Len(window) <= Len(Delimiter) + 4

\* Both: the stream holds little back and gives what the buffered reader gives.
StreamIsFaithful == ReadersAgree /\ LookAheadIsBounded

\* blazingly-core/src/lib.rs:1053 says of the header limit: "The buffered and
\* the streaming readers share this bound, so a body that one accepts is not
\* rejected by the other."
LimitsAreShared == failure = "limit" => ~Buffered(body, MaxHeader).ok
==============================================================================
