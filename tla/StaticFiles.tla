----------------------------- MODULE StaticFiles -----------------------------
(***************************************************************************)
(* StaticFiles (crates/blazingly-middleware/src/lib.rs): a request under   *)
(* the prefix is resolved to a file of the root directory, whose metadata  *)
(* gives the validators and the range, and then its bytes are read.  Files *)
(* are replaced, by whoever deploys, between any two of these steps.       *)
(*                                                                         *)
(* One client downloads a file, in parts if it likes: it asks with the     *)
(* validators it has and puts the answers together.  A file system tree    *)
(* is a constant; a link's target is where it finally leads.  The bytes of *)
(* a file are numbered and carry the version they are of, modification     *)
(* times are ticks of which PerSecond make a second, and a segment of a    *)
(* path is a name with what percent_decode makes of it.                    *)
(***************************************************************************)
EXTENDS Naturals, Sequences, SequencesExt

CONSTANTS
  Tree,      \* path |-> [kind |-> "file" | "dir"], [kind |-> "link", to |-> path]
  Root, Prefix, Index, SpaFallback, \* the mount; Index is NotThere without one
  PercentDecoded, \* raw segment |-> the segments it decodes to, or NotThere
  Hostile,   \* segments with a control or platform-hostile byte
  Asks,      \* what a client asks for at first: [target, method, range]
  Initial,   \* the lengths the files have at first, file |-> length
  Lengths,   \* lengths they are given later
  PerSecond,
  MaxChanges, MaxTime, MaxFetches, \* bounds
  NotThere

Files == {p \in DOMAIN Tree : Tree[p].kind = "file"}

FilesAssumption ==
  /\ Root \in DOMAIN Tree /\ Tree[Root].kind = "dir"
  /\ \A p \in DOMAIN Tree :
       Tree[p].kind = "link" =>
         Tree[p].to \in DOMAIN Tree /\ Tree[Tree[p].to].kind # "link"
  /\ Initial \subseteq [Files -> Nat] /\ Lengths \subseteq Nat
  /\ PerSecond \in Nat \ {0}
  /\ MaxChanges \in Nat /\ MaxTime \in Nat /\ MaxFetches \in Nat
  /\ NotThere \notin Nat
  /\ \A a \in Asks : a.range # NotThere =>
       /\ a.range.first \in Nat \cup {NotThere} /\ a.range.last \in Nat \cup {NotThere}
       /\ a.range.first # NotThere \/ a.range.last # NotThere

VARIABLES
  time,     \* the clock of the file system
  disk,     \* file |-> its version, length and modification time, or NotThere
  changes,  \* changes so far
  versions, \* the versions there ever were, with their tags (history)
  asked,    \* the client's request, or NotThere
  serving,  \* where the layer is with it
  found,    \* the file it resolved to
  seen,     \* the metadata it read
  range,    \* the bytes it is about to read
  raced,    \* the file changed between metadata and bytes (history)
  served,   \* the response, NotThere for a request that is passed on
  copy,     \* what the client has of a file, or NotThere
  fetches   \* requests so far

fileVars == <<time, disk, changes, versions, asked, serving, found, seen, range, raced,
              served, copy, fetches>>

\* entity_tag and Last-Modified, which has whole seconds.
Tag(metadata) == <<metadata.length, metadata.modified>>
Seconds(tick) == tick \div PerSecond

FilesTypeOK ==
  /\ time \in 0 .. MaxTime /\ changes \in 0 .. MaxChanges /\ fetches \in 0 .. MaxFetches
  /\ DOMAIN disk = Files
  /\ serving \in {"idle", "asked", "located", "checked", "reading", "answered"}
  /\ found \in Files \cup {NotThere} /\ raced \in BOOLEAN

FilesInit ==
  /\ time = 0
  /\ \E length \in Initial :
       disk = [p \in Files |-> [version |-> <<p, 0>>, length |-> length[p], modified |-> 0]]
  /\ versions = {[version |-> disk[p].version, tag |-> Tag(disk[p])] : p \in Files}
  /\ changes = 0
  /\ asked = NotThere /\ serving = "idle" /\ found = NotThere /\ seen = NotThere /\ range = NotThere
  /\ raced = FALSE /\ served = NotThere
  /\ copy = NotThere /\ fetches = 0

------------------------------------------------------------------------------
(* Paths *)

Exists(p) == p \in DOMAIN Tree /\ (Tree[p].kind = "file" => disk[p] # NotThere)

\* Every component of a path is followed; NotThere where one is missing.
Followed(p) ==
  LET Step(at, segment) ==
        IF at = NotThere THEN NotThere
        ELSE LET next == Append(at, segment) IN
             IF next \notin DOMAIN Tree THEN NotThere
             ELSE IF Tree[next].kind = "link" THEN Tree[next].to ELSE next
  IN FoldLeft(Step, <<>>, p)

\* fs::canonicalize, which fails for a path that leads nowhere.
Canonical(p) ==
  IF Followed(p) # NotThere /\ Exists(Followed(p)) THEN Followed(p) ELSE NotThere

\* resolve_file: links are followed first and must stay in the root, for the
\* index of a directory as well.
ResolveFile(candidate) ==
  LET resolved == Canonical(candidate) IN
  IF resolved = NotThere \/ ~IsPrefix(Root, resolved) THEN NotThere
  ELSE IF Tree[resolved].kind = "file" THEN resolved
  ELSE IF Index = NotThere THEN NotThere
  ELSE LET nested == Canonical(Append(resolved, Index)) IN
       IF nested \in Files /\ IsPrefix(Root, nested) THEN nested ELSE NotThere

Locate(segments) ==
  LET file == ResolveFile(Root \o segments) IN
  IF file = NotThere /\ SpaFallback /\ Index # NotThere
  THEN ResolveFile(Append(Root, Index))
  ELSE file

\* safe_segments: NotThere for a path that is refused before any access.
SafeSegments(raw) ==
  IF \E i \in 1 .. Len(raw) : PercentDecoded[raw[i]] = NotThere THEN NotThere
  ELSE LET segments == FlattenSeq([i \in 1 .. Len(raw) |-> PercentDecoded[raw[i]]]) IN
       IF ".." \in ToSet(segments) \/ ToSet(segments) \cap Hostile # {} THEN NotThere
       ELSE SelectSeq(segments, LAMBDA s : s \notin {"", "."})

------------------------------------------------------------------------------
(* Validators and ranges *)

\* not_modified, etag_matches: If-NotThere-Match decides alone when it is there.
NotModified(metadata) ==
  IF asked.ifNoneMatch # NotThere
  THEN asked.ifNoneMatch \in {<<"*">>, Tag(metadata)}
  ELSE asked.ifModifiedSince # NotThere /\ Seconds(metadata.modified) <= asked.ifModifiedSince

\* if_range_matches: a tag or a date; a weak tag never qualifies.
IfRangeMatches(metadata) ==
  \/ asked.ifRange = NotThere
  \/ asked.ifRange.tag = Tag(metadata)
  \/ asked.ifRange.date = Seconds(metadata.modified)

\* requested_range, parse_range and resolve_range: a range is [first, last] with
\* either of them NotThere, or NotThere for what is no single range of bytes; the bytes
\* from start, which counts from 0, to end, all of them or none.
RangeOf(metadata) ==
  LET total == metadata.length
      spec == asked.range
      reversed == spec # NotThere /\ spec.first # NotThere /\ spec.last # NotThere
                    /\ spec.last < spec.first
  IN IF asked.method = "HEAD" \/ spec = NotThere \/ reversed \/ ~IfRangeMatches(metadata)
     THEN [kind |-> "full"]
     ELSE IF total = 0 \/ (spec.first = NotThere /\ spec.last = 0)
             \/ (spec.first # NotThere /\ spec.first >= total)
     THEN [kind |-> "none"]
     ELSE [kind |-> "part",
           start |-> IF spec.first # NotThere THEN spec.first
                     ELSE IF spec.last > total THEN 0 ELSE total - spec.last,
           end |-> IF spec.first = NotThere \/ spec.last = NotThere \/ spec.last >= total
                   THEN total - 1 ELSE spec.last]

Bytes(file, first, last) ==
  [i \in 1 .. last - first + 1 |-> <<file.version, first + i - 1>>]

------------------------------------------------------------------------------
(* respond and serve *)

Bodiless(status) ==
  [status |-> status, tag |-> NotThere, date |-> NotThere, length |-> 0, total |-> 0,
   start |-> 0, body |-> <<>>]
Decorated(r) ==
  [r EXCEPT !.tag = Tag(seen), !.date = Seconds(seen.modified), !.total = seen.length]

ReplyWith(r) ==
  /\ served' = r /\ serving' = "answered"
  /\ UNCHANGED <<time, disk, changes, versions, asked, copy, fetches>>

\* The method and the path are checked, and the path is resolved.
Resolve ==
  /\ serving = "asked"
  /\ LET inside == IsPrefix(Prefix, asked.target)
         segments == SafeSegments(SubSeq(asked.target, Len(Prefix) + 1, Len(asked.target)))
     IN IF ~inside \/ asked.method = "OPTIONS" THEN ReplyWith(NotThere) /\ UNCHANGED found
        ELSE IF asked.method \notin {"GET", "HEAD"}
        THEN ReplyWith(Bodiless(405)) /\ UNCHANGED found
        ELSE IF segments = NotThere THEN ReplyWith(Bodiless(400)) /\ UNCHANGED found
        ELSE IF Locate(segments) = NotThere THEN ReplyWith(Bodiless(404)) /\ UNCHANGED found
        ELSE /\ found' = Locate(segments) /\ serving' = "located"
             /\ UNCHANGED <<time, disk, changes, versions, asked, served, copy, fetches>>
  /\ UNCHANGED <<seen, range, raced>>

\* fs::metadata of the resolved file, for which it may be too late.
ReadMetadata ==
  /\ serving = "located"
  /\ IF disk[found] = NotThere
     THEN ReplyWith(Bodiless(404)) /\ UNCHANGED seen
     ELSE /\ seen' = disk[found] /\ serving' = "checked"
          /\ UNCHANGED <<time, disk, changes, versions, asked, served, copy, fetches>>
  /\ UNCHANGED <<found, range, raced>>

Validate ==
  /\ serving = "checked"
  /\ LET r == RangeOf(seen) IN
     IF NotModified(seen)
     THEN ReplyWith(Decorated(Bodiless(304))) /\ UNCHANGED range
     ELSE IF r.kind = "none"
     THEN ReplyWith(Decorated(Bodiless(416))) /\ UNCHANGED range
     ELSE IF asked.method = "HEAD"
     THEN ReplyWith([Decorated(Bodiless(200)) EXCEPT !.length = seen.length]) /\ UNCHANGED range
     ELSE /\ range' = r /\ serving' = "reading"
          /\ UNCHANGED <<time, disk, changes, versions, asked, served, copy, fetches>>
  /\ UNCHANGED <<found, seen, raced>>

\* Mutant: a range is cut to the bytes that are left.
ReadRangeShort ==
  /\ range.kind = "part"
  /\ LET file == disk[found]
         end == IF range.end < file.length THEN range.end ELSE file.length - 1
     IN IF file = NotThere \/ range.start >= file.length THEN ReplyWith(Bodiless(500))
        ELSE ReplyWith([Decorated(Bodiless(206)) EXCEPT
                        !.body = Bytes(file, range.start, end),
                        !.length = range.end - range.start + 1, !.start = range.start])

\* read_range: fewer bytes than promised are an error.
ReadRange ==
  /\ range.kind = "part"
  /\ LET file == disk[found] IN
     IF file = NotThere \/ range.end >= file.length THEN ReplyWith(Bodiless(500))
     ELSE ReplyWith([Decorated(Bodiless(206)) EXCEPT
                     !.body = Bytes(file, range.start, range.end),
                     !.length = range.end - range.start + 1, !.start = range.start])

ReadAll ==
  /\ range.kind = "full"
  /\ LET file == disk[found] IN
     IF file = NotThere THEN ReplyWith(Bodiless(500))
     ELSE ReplyWith([Decorated(Bodiless(200)) EXCEPT
                     !.body = Bytes(file, 0, file.length - 1), !.length = file.length])

Read ==
  /\ serving = "reading"
  /\ ReadRange \/ ReadAll
  /\ raced' = (disk[found] # seen)
  /\ UNCHANGED <<found, seen, range>>

------------------------------------------------------------------------------
(* The client and the deployment *)

Request(target, method, over) ==
  [target |-> target, method |-> method, ifNoneMatch |-> over.ifNoneMatch,
   ifModifiedSince |-> over.ifModifiedSince, range |-> over.range, ifRange |-> over.ifRange]
Plain ==
  [ifNoneMatch |-> NotThere, ifModifiedSince |-> NotThere, range |-> NotThere,
   ifRange |-> NotThere]

\* A client asks for a target, or comes back for the rest of what it has, or to
\* learn whether it is current.
Ask ==
  /\ serving = "idle" /\ fetches < MaxFetches
  /\ \/ /\ copy = NotThere
        /\ \E a \in Asks :
             asked' = Request(a.target, a.method, [Plain EXCEPT !.range = a.range])
     \/ /\ copy # NotThere /\ ~copy.whole
        /\ \E validator \in {[tag |-> copy.tag, date |-> NotThere],
                             [tag |-> NotThere, date |-> copy.date]} :
             asked' = Request(copy.target, "GET",
               [Plain EXCEPT !.range = [first |-> Len(copy.bytes), last |-> NotThere],
                             !.ifRange = validator])
     \/ /\ copy # NotThere /\ copy.whole
        /\ \E v \in {[Plain EXCEPT !.ifNoneMatch = copy.tag],
                     [Plain EXCEPT !.ifModifiedSince = copy.date]} :
             asked' = Request(copy.target, "GET", v)
  /\ serving' = "asked" /\ fetches' = fetches + 1
  /\ UNCHANGED <<time, disk, changes, versions, found, seen, range, raced, served, copy>>

\* The client keeps what it got: a new body, the rest of one it has, or nothing.
Keep ==
  /\ serving = "answered"
  /\ serving' = "idle"
  /\ copy' =
       IF served # NotThere /\ asked.method = "GET" /\ served.status \in {200, 206}
       THEN LET joins == served.status = 206 /\ copy # NotThere
                bytes == (IF joins THEN copy.bytes ELSE <<>>) \o served.body
            IN IF served.status = 206 /\ served.start # 0 /\ ~joins THEN copy
               ELSE [target |-> asked.target, tag |-> served.tag, date |-> served.date,
                     bytes |-> bytes,
                     whole |-> served.status = 200 \/ Len(bytes) = served.total,
                     mixed |-> raced \/ (joins /\ (copy.mixed \/ served.tag # copy.tag))]
       ELSE copy
  /\ served' = NotThere /\ asked' = NotThere /\ found' = NotThere
  /\ seen' = NotThere /\ range' = NotThere
  /\ raced' = FALSE
  /\ UNCHANGED <<time, disk, changes, versions, fetches>>

\* A file is removed or written anew, now.
Change(p) ==
  /\ changes < MaxChanges
  /\ changes' = changes + 1
  /\ \/ disk' = [disk EXCEPT ![p] = NotThere] /\ UNCHANGED versions
     \/ \E length \in Lengths :
          LET file == [version |-> <<p, changes + 1>>, length |-> length, modified |-> time] IN
          /\ disk' = [disk EXCEPT ![p] = file]
          /\ versions' = versions \cup {[version |-> file.version, tag |-> Tag(file)]}
  /\ UNCHANGED <<time, asked, serving, found, seen, range, raced, served, copy, fetches>>

Tick ==
  /\ time < MaxTime
  /\ time' = time + 1
  /\ UNCHANGED <<disk, changes, versions, asked, serving, found, seen, range, raced, served,
                 copy, fetches>>

FilesNext ==
  \/ Resolve \/ ReadMetadata \/ Validate \/ Read \/ Ask \/ Keep \/ Tick
  \/ \E p \in Files : IsPrefix(Root, p) /\ Change(p)

FilesSpec == FilesInit /\ [][FilesNext]_fileVars

------------------------------------------------------------------------------
(* Properties *)

Replied(statuses) ==
  serving = "answered" /\ served # NotThere /\ served.status \in statuses

\* Two versions, of one file or of two, have the tag: they were written in one
\* tick and are as long as each other.
Twins(tag) ==
  \E v, w \in versions : v # w /\ v.tag = tag /\ w.tag = tag

\* What a path is resolved to is a file below the root, whatever links there are.
ServedIsInside == found # NotThere => found \in Files /\ IsPrefix(Root, found)

\* An answer has as many bytes as it says, those of the range it says, and they
\* are of the version its tag is of, unless that was replaced while it was being
\* read; a range lies within the file.
AnswersAreExact ==
  Replied({200, 206}) /\ asked.method = "GET" =>
    /\ Len(served.body) = served.length
    /\ served.status = 206 =>
         served.length > 0 /\ served.start + served.length <= served.total
    /\ served.status = 200 => raced \/ served.length = served.total
    /\ ~raced =>
         \A i \in 1 .. served.length :
           served.body[i] = <<seen.version, served.start + i - 1>>

\* A client that comes back for the rest of a file, or to learn whether its copy
\* is current, ends with the bytes of one version from the first on, and of the
\* current one when it is told so; unless a file was replaced while it was read,
\* the client went by a date within whose second it was, or the tag has twins.
CopiesAreWhole ==
  copy # NotThere /\ ~copy.mixed /\ ~Twins(copy.tag) =>
    /\ \A i \in 1 .. Len(copy.bytes) : copy.bytes[i] = <<copy.bytes[1][1], i - 1>>
    /\ copy.whole => Len(copy.bytes) = copy.tag[1]
    /\ Replied({304}) /\ asked.ifNoneMatch # NotThere /\ Len(copy.bytes) > 0 =>
         copy.bytes[1][1] = seen.version

\* A date decides between versions of different seconds.
DatesDecide ==
  Replied({304}) /\ asked.ifNoneMatch = NotThere =>
    Seconds(seen.modified) <= asked.ifModifiedSince

\* What a client downloads, whatever happens to the files meanwhile: files below the
\* root, answers as they say, and copies of one version.
FilesAreWhole ==
  FilesTypeOK /\ ServedIsInside /\ AnswersAreExact /\ CopiesAreWhole /\ DatesDecide
===============================================================================
