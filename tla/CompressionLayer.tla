--------------------------- MODULE CompressionLayer ---------------------------
(***************************************************************************)
(* Compression (crates/blazingly-middleware/src/lib.rs): on_response       *)
(* chooses a coding and encodes a buffered body at once or wraps a         *)
(* streamed one in CompressedStream, which encodes each chunk as it is     *)
(* pulled.  A chain may hold the layer more than once.                     *)
(*                                                                         *)
(* A chunk is the sequence of its bytes, which are numbers; an encoded     *)
(* chunk is what it decodes to and how many bytes it has, and the trailer  *)
(* is what tells a decoder that the body is complete.  The encoders are    *)
(* external: how long their output is, and whether it is anything at all   *)
(* for no input, is any possible choice, and so are their failures.        *)
(***************************************************************************)
EXTENDS Naturals, Sequences, SequencesExt

CONSTANTS
  Verbs, Acceptances, Originals, \* what is requested, accepted and answered
  Chunks,      \* the bytes of each chunk
  Sources,     \* what a producer does: names of chunks, then "end" or "error"
  MaxPasses,   \* how often the layer is in the chain, at most
  MinimumSize, \* minimum_size
  Unstated     \* None

\* Acceptances: sequences of [name, quality] with qualities in tenths, or Unstated
\* without the header.  Originals: the handler's [status, compressible, encoding,
\* noTransform, etag, length, vary, stream, size], encoding Unstated or one that
\* is there already.

Codings == {"br", "gzip"}

VARIABLES
  verb, accepted,
  coded,     \* the response's status, headers and body's size
  passes,    \* the layers on_response has still to pass
  source,    \* what the producer has still to do
  wrapped,   \* the body is a CompressedStream
  encoder,   \* its encoder is there
  produced,  \* the bytes the producer has given (history)
  out,       \* what the stream has yielded
  polling,   \* the server is inside poll_next
  last,      \* what the last poll returned
  initial    \* the response and the source as the handler made them (history)

bodyVars == <<verb, accepted, coded, passes, source, wrapped, encoder, produced,
              out, polling, last, initial>>

\* What an instance must satisfy; the module that makes it assumes so.
OriginalsAssumption == \A r \in Originals :
  /\ r = [status |-> r.status, compressible |-> r.compressible, encoding |-> r.encoding,
          noTransform |-> r.noTransform, etag |-> r.etag, length |-> r.length,
          vary |-> r.vary, stream |-> r.stream, size |-> r.size]
  /\ r.status \in Nat /\ r.size \in Nat /\ r.vary \in Seq(ToSet(r.vary))
  /\ r.encoding \in Codings \cup {Unstated, "other"}
  /\ r.stream \in BOOLEAN /\ r.length \in BOOLEAN
AcceptancesAssumption == \A a \in Acceptances \ {Unstated} :
  /\ a \in Seq(ToSet(a))
  /\ \A i \in 1 .. Len(a) : a[i].quality \in Nat /\ a[i].quality # Unstated
SourcesAssumption ==
  /\ \A c \in DOMAIN Chunks : Chunks[c] \in Seq(Nat)
  /\ \A s \in Sources :
       /\ s \in Seq(ToSet(s)) /\ Len(s) > 0
       /\ s[Len(s)] \in {"end", "error"}
       /\ \A i \in 1 .. Len(s) - 1 : s[i] \in DOMAIN Chunks \ {"end", "error"}
BodiesAssumption ==
  /\ MaxPasses \in Nat /\ Unstated \notin Codings \cup {"other"}
  /\ OriginalsAssumption /\ AcceptancesAssumption /\ SourcesAssumption

CodingTypeOK ==
  /\ passes \in 0 .. MaxPasses
  /\ wrapped \in BOOLEAN /\ encoder \in BOOLEAN
  /\ coded.encoding \in Codings \cup {Unstated, "other"}
  /\ last \in {"none", "pending", "chunk", "error", "over"}

CodingInit ==
  /\ verb \in Verbs /\ accepted \in Acceptances /\ coded \in Originals
  /\ passes \in 1 .. MaxPasses
  /\ source \in Sources
  /\ wrapped = FALSE /\ encoder = FALSE
  /\ produced = <<>> /\ out = <<>> /\ last = "none"
  /\ polling = FALSE
  /\ initial = [response |-> coded, source |-> source]

------------------------------------------------------------------------------
(* preferred_encoding *)

\* The quality of the last item of a name, or Unstated.
Named(name) ==
  LET i == SelectLastInSeq(accepted, LAMBDA item : item.name = name)
  IN IF i = 0 THEN Unstated ELSE accepted[i].quality

Quality(name) ==
  IF Named(name) # Unstated THEN Named(name)
  ELSE IF Named("*") # Unstated THEN Named("*") ELSE 0

Preferred ==
  IF accepted = Unstated \/ (Quality("br") = 0 /\ Quality("gzip") = 0) THEN Unstated
  ELSE IF Quality("br") >= Quality("gzip") THEN "br" ELSE "gzip"

------------------------------------------------------------------------------
(* on_response *)

\* The guards of compress_streaming and compress_buffered.
Encodable ==
  /\ verb # "HEAD"
  /\ coded.status >= 200 /\ coded.status \notin {204, 206, 304}
  /\ coded.encoding = Unstated /\ ~coded.noTransform /\ coded.compressible
  /\ Preferred # Unstated

\* remove_header, set_header, append_vary and weaken_validator.
EncodedHeaders(size) ==
  [coded EXCEPT
    !.encoding = Preferred, !.length = FALSE,
    !.vary = IF "accept-encoding" \in ToSet(@) THEN @ ELSE Append(@, "accept-encoding"),
    !.etag = IF @ = "strong" THEN "weak" ELSE @,
    !.size = size]

\* Compression::on_response: a stream is wrapped; a buffered body of some size
\* is replaced when it gets smaller, and left when the encoder fails.
Compress ==
  /\ passes > 0 /\ passes' = passes - 1
  /\ \/ /\ coded.stream /\ Encodable
        /\ coded' = EncodedHeaders(coded.size)
        /\ wrapped' = TRUE /\ encoder' = TRUE
     \/ /\ ~coded.stream /\ Encodable /\ coded.size >= MinimumSize
        /\ \E size \in 1 .. coded.size - 1 : coded' = EncodedHeaders(size)
        /\ UNCHANGED <<wrapped, encoder>>
     \/ /\ coded.stream => ~Encodable
        /\ UNCHANGED <<coded, wrapped, encoder>>
  /\ UNCHANGED <<verb, accepted, source, produced, out, polling, last, initial>>

------------------------------------------------------------------------------
(* CompressedStream::poll_next *)

\* The server pulls the body once the layers are done; without an encoder the
\* stream is over.
PollBody ==
  /\ passes = 0 /\ wrapped /\ ~polling
  /\ IF encoder THEN polling' = TRUE /\ UNCHANGED last
     ELSE last' = "over" /\ UNCHANGED polling
  /\ UNCHANGED <<source, encoder, produced, out>>

Yield(result) == polling' = FALSE /\ last' = result

\* The producer has nothing yet.
Pending == Yield("pending") /\ UNCHANGED <<source, encoder, produced, out>>

\* Mutant: a chunk is written without being flushed, and stays in the encoder.
EncodeUnflushed(bytes) == UNCHANGED <<encoder, out, polling, last>>

\* ChunkEncoder::encode: a chunk is written and flushed, so that nothing stays in
\* the encoder; what gave no output is not yielded, and the loop pulls again.
Encode(bytes) ==
  \/ /\ bytes = <<>> /\ UNCHANGED <<encoder, out, polling, last>>
  \/ /\ out' = Append(out, [bytes |-> bytes, empty |-> FALSE, trailer |-> FALSE])
     /\ Yield("chunk")
     /\ UNCHANGED encoder
  \/ encoder' = FALSE /\ Yield("error") /\ UNCHANGED out

PullChunk ==
  /\ Head(source) \notin {"end", "error"}
  /\ source' = Tail(source) /\ produced' = produced \o Chunks[Head(source)]
  /\ Encode(Chunks[Head(source)])

\* A failure drops the encoder without its trailer.
PullError ==
  /\ Head(source) = "error"
  /\ source' = Tail(source) /\ encoder' = FALSE
  /\ Yield("error")
  /\ UNCHANGED <<produced, out>>

\* At the end ChunkEncoder::finish gives the trailer, or (gzip's) fails.
PullEnd ==
  /\ Head(source) = "end"
  /\ source' = Tail(source) /\ encoder' = FALSE
  /\ \/ /\ out' = Append(out, [bytes |-> <<>>, empty |-> FALSE, trailer |-> TRUE])
        /\ Yield("chunk")
     \/ coded.encoding = "gzip" /\ Yield("error") /\ UNCHANGED out
  /\ UNCHANGED produced

Pull == polling /\ (Pending \/ PullChunk \/ PullError \/ PullEnd)

CodingNext ==
  \/ Compress
  \/ (PollBody \/ Pull) /\ UNCHANGED <<verb, accepted, coded, passes, wrapped, initial>>

CodingSpec == CodingInit /\ [][CodingNext]_bodyVars

------------------------------------------------------------------------------
(* Properties *)

Decoded == FlattenSeq([i \in 1 .. Len(out) |-> out[i].bytes])

\* What the client can decode is what the producer gave: all of it whenever the
\* server has to wait for more, so that an event is never held back, and never
\* a byte more; the body decodes as complete only if the producer ended without
\* an error, and is then all there.  No chunk is empty, which would end a
\* chunked body, and nothing follows the trailer or an error.
BodiesDecode ==
  /\ IsPrefix(Decoded, produced)
  /\ last \in {"chunk", "pending"} /\ ~polling => Decoded = produced
  /\ \A i \in 1 .. Len(out) :
       /\ ~out[i].empty
       /\ out[i].trailer =>
            /\ i = Len(out) /\ source = <<>> /\ Decoded = produced /\ ~encoder
            /\ initial.source[Len(initial.source)] = "end"
  /\ last = "error" => ~encoder

\* A body is encoded once, however many layers there are, in a coding the client
\* accepts and does not like less than the other; the headers then describe the
\* encoded bytes, and a response whose bytes may not change keeps them.
EncodedAsTold ==
  LET encoded == coded.encoding \in Codings /\ coded.encoding # initial.response.encoding IN
  IF encoded
  THEN /\ accepted # Unstated /\ Quality(coded.encoding) > 0
       /\ \A c \in Codings : Quality(c) <= Quality(coded.encoding)
       /\ ~coded.length /\ coded.etag # "strong"
       /\ "accept-encoding" \in ToSet(coded.vary)
       /\ initial.response.encoding = Unstated /\ ~initial.response.noTransform
       /\ verb # "HEAD" /\ initial.response.status \notin {101, 204, 206, 304}
       /\ wrapped = initial.response.stream
       /\ ~initial.response.stream => coded.size < initial.response.size
  ELSE coded = initial.response /\ ~wrapped

BodiesAreFaithful == CodingTypeOK /\ BodiesDecode /\ EncodedAsTold
===============================================================================
