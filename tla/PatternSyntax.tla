---------------------------- MODULE PatternSyntax ----------------------------
(***************************************************************************)
(* The syntax of #[pattern("...")], checked twice.                         *)
(*                                                                         *)
(* The macro lints a pattern by one scan over its characters when the      *)
(* program is compiled; the matcher's recursive parser reads it when the   *)
(* first value is checked, and what it refuses is a violation of every     *)
(* request.  Both are translated here, over texts typed one character at a *)
(* time.  The parser keeps what its answer depends on: positions, members  *)
(* of a class and the order of their codes; the syntax tree it builds is   *)
(* what PatternMatcher starts from.                                        *)
(***************************************************************************)
EXTENDS Integers, Sequences, FiniteSets, SequencesExt

CONSTANTS
    Alphabet,       \* the characters a pattern is written with
    Starts,         \* the texts typing begins from
    Code,           \* the code point of a character
    MaxTyped,       \* characters typed after the start
    MaxChars,       \* MAX_PATTERN_CHARS
    MaxDepth,       \* MAX_PATTERN_DEPTH
    MaxMembers      \* MAX_CLASS_MEMBERS

VARIABLES
    text,           \* the pattern as written so far
    typed           \* how many characters were typed

vars == <<text, typed>>

-----------------------------------------------------------------------------
EscapedSets == {"d", "D", "w", "W", "s", "S"}
EscapedExact == {"t", "n", "r", "\\", ".", "*", "+", "?", "(", ")", "[", "]", "{", "}", "|",
                 "^", "$", "-", "/"}
IsSupportedEscape(c) == c \in EscapedSets \cup EscapedExact

Quantifiers == {"*", "+", "?"}

At(s, i) == IF i \in 1..Len(s) THEN s[i] ELSE "end"

(* The macro's scan: the state its loop carries from one character to the   *)
(* next; `refused` stands for its early returns.                           *)

LintState == [index |-> 1, inClass |-> FALSE, quantifiable |-> FALSE,
              depth |-> 0, deepest |-> 0, refused |-> FALSE]

LintStep(s, st) ==
    LET c       == s[st.index]
        next    == [st EXCEPT !.index = @ + 1]
        to(q)   == [next EXCEPT !.quantifiable = q]
        refused == [st EXCEPT !.refused = TRUE]
    IN IF c = "\\"
       THEN IF IsSupportedEscape(At(s, st.index + 1))
            THEN [st EXCEPT !.index = @ + 2, !.quantifiable = TRUE] ELSE refused
       ELSE IF st.inClass
       THEN IF c = "]" THEN [to(TRUE) EXCEPT !.inClass = FALSE] ELSE next
       ELSE CASE c = "[" -> [to(FALSE) EXCEPT !.inClass = TRUE]
              [] c = "(" ->
                   IF At(s, st.index + 1) = "?" THEN refused
                   ELSE [to(FALSE) EXCEPT !.depth = @ + 1, !.deepest = Max({@, st.depth + 1})]
              [] c = ")" -> IF st.depth = 0 THEN refused ELSE [to(TRUE) EXCEPT !.depth = @ - 1]
              [] c \in Quantifiers -> IF st.quantifiable THEN to(FALSE) ELSE refused
              [] c \in {"{", "}"} -> refused
              [] c = "^" -> IF st.index = 1 THEN to(FALSE) ELSE refused
              [] c = "$" -> IF st.index = Len(s) THEN to(FALSE) ELSE refused
              [] c = "|" -> to(FALSE)
              [] OTHER   -> to(TRUE)

RECURSIVE LintFrom(_, _)
LintFrom(s, st) ==
    IF st.refused THEN FALSE
    ELSE IF st.index > Len(s) THEN ~st.inClass /\ st.depth = 0 /\ st.deepest <= MaxDepth
    ELSE LintFrom(s, LintStep(s, st))

LintPatternSyntax(s) == s # <<>> /\ Len(s) <= MaxChars /\ LintFrom(s, LintState)

-----------------------------------------------------------------------------
(* The matcher's parser: where it stands after a construct, or its error.  *)

Done(i) == [ok |-> TRUE, position |-> i, error |-> "none"]
Failed(e) == [ok |-> FALSE, position |-> 0, error |-> e]

\* The character an escape stands for in a range; the three controls sort first.
ExactCode(c) == IF c \in {"t", "n", "r"} THEN 0 ELSE Code[c]

ParseClassMember(s, i) ==
    LET escaped == s[i] = "\\"
        e       == At(s, i + 1)
        after   == IF escaped THEN i + 2 ELSE i + 1
        start   == IF escaped THEN ExactCode(e) ELSE Code[s[i]]
        far     == At(s, after + 1)
        end     == IF far = "\\" THEN At(s, after + 2) ELSE far
    IN IF escaped /\ e = "end" THEN Failed("TrailingEscape")
       ELSE IF escaped /\ ~IsSupportedEscape(e) THEN Failed("UnsupportedEscape")
       ELSE IF escaped /\ e \in EscapedSets THEN Done(after)
       ELSE IF At(s, after) # "-" \/ far \in {"end", "]"} THEN Done(after)
       ELSE IF far = "\\" /\ end = "end" THEN Failed("TrailingEscape")
       ELSE IF far = "\\" /\ end \notin EscapedExact THEN Failed("UnsupportedRangeEnd")
       ELSE IF (IF far = "\\" THEN ExactCode(end) ELSE Code[end]) < start
       THEN Failed("ReversedRange")
       ELSE Done(IF far = "\\" THEN after + 3 ELSE after + 2)

RECURSIVE ParseMembers(_, _, _), MembersAfter(_, _, _)
ParseMembers(s, i, count) ==
    IF At(s, i) = "end" THEN Failed("UnbalancedClass")
    ELSE IF s[i] = "]" THEN IF count = 0 THEN Failed("EmptyClass") ELSE Done(i + 1)
    ELSE IF count >= MaxMembers THEN Failed("ClassTooLarge")
    ELSE MembersAfter(s, ParseClassMember(s, i), count + 1)

MembersAfter(s, member, count) ==
    IF member.ok THEN ParseMembers(s, member.position, count) ELSE member

ParseClass(s, i) == ParseMembers(s, IF At(s, i) = "^" THEN i + 1 ELSE i, 0)

\* What may follow an atom that ends where `atom` says.
ParseQuantifier(s, atom) ==
    IF ~atom.ok \/ At(s, atom.position) \notin Quantifiers THEN atom
    ELSE IF At(s, atom.position + 1) \in Quantifiers THEN Failed("DanglingQuantifier")
    ELSE Done(atom.position + 1)

RECURSIVE ParseChoice(_, _, _), ParseSequence(_, _, _), SequenceAfter(_, _, _),
          ChoiceAfter(_, _, _)

CloseGroup(s, inner) ==
    IF ~inner.ok THEN inner
    ELSE IF At(s, inner.position) = ")" THEN Done(inner.position + 1)
    ELSE Failed("UnbalancedGroup")

ParseGroup(s, i, depth) ==
    IF At(s, i) = "?" THEN Failed("UnsupportedSyntax")
    ELSE IF depth + 1 > MaxDepth THEN Failed("TooDeep")
    ELSE CloseGroup(s, ParseChoice(s, i, depth + 1))

ParseAtom(s, i, depth) ==
    LET c == s[i] IN
    CASE c = "(" -> ParseGroup(s, i + 1, depth)
      [] c = ")" -> Failed("UnbalancedGroup")
      [] c = "[" -> ParseClass(s, i + 1)
      [] c = "]" -> Failed("UnbalancedClass")
      [] c = "\\" -> IF At(s, i + 1) = "end" THEN Failed("TrailingEscape")
                     ELSE IF IsSupportedEscape(s[i + 1]) THEN Done(i + 2)
                     ELSE Failed("UnsupportedEscape")
      [] c \in Quantifiers -> Failed("DanglingQuantifier")
      [] c \in {"{", "}", "^", "$"} -> Failed("UnsupportedSyntax")
      [] OTHER -> Done(i + 1)

ParseSequence(s, i, depth) ==
    IF At(s, i) \in {"end", "|", ")"} THEN Done(i)
    ELSE SequenceAfter(s, ParseQuantifier(s, ParseAtom(s, i, depth)), depth)

SequenceAfter(s, item, depth) ==
    IF item.ok THEN ParseSequence(s, item.position, depth) ELSE item

ParseChoice(s, i, depth) ==
    ChoiceAfter(s, ParseSequence(s, i, depth), depth)

ChoiceAfter(s, branch, depth) ==
    IF branch.ok /\ At(s, branch.position) = "|"
    THEN ParseChoice(s, branch.position + 1, depth) ELSE branch

\* A final $ is an anchor unless an odd number of backslashes stands before it.
EndsWithAnchor(body) ==
    /\ body # <<>> /\ Last(body) = "$"
    /\ LET slashes == {n \in 0..Len(body) - 1 :
                         \A i \in 1..n : body[Len(body) - i] = "\\"}
       IN Max(slashes) % 2 = 0

\* What is left behind the choice is a bracket too many.
Whole(body, tree) ==
    IF tree.ok /\ tree.position # Len(body) + 1 THEN Failed("UnbalancedGroup") ELSE tree

\* The size of the compiled program is not limited here.
Compile(s) ==
    LET first == IF At(s, 1) = "^" THEN 2 ELSE 1
        tail  == SubSeq(s, first, Len(s))
        body  == IF EndsWithAnchor(tail) THEN Front(tail) ELSE tail
    IN CASE s = <<>> -> Failed("Empty")
         [] s # <<>> /\ Len(s) > MaxChars -> Failed("TooLong")
         [] OTHER -> Whole(body, ParseChoice(body, 1, 0))

-----------------------------------------------------------------------------
Init == text \in Starts /\ typed = 0

Write(c) ==
    /\ typed < MaxTyped
    /\ text' = Append(text, c)
    /\ typed' = typed + 1

Next == \E c \in Alphabet : Write(c)

Spec == Init /\ [][Next]_vars

TypeOK == text \in Seq(Alphabet) /\ typed \in 0..MaxTyped

\* A pattern the matcher can compile is never refused while the program is compiled, and
\* what the lint lets through and the matcher refuses on every request is the inside of a
\* character class: a stray bracket, no members, too many, or a range.
LintAgrees ==
    LET SameVerdict(compiled, linted) ==
          /\ compiled.ok => linted
          /\ linted /\ ~compiled.ok =>
               compiled.error \in {"UnbalancedClass", "EmptyClass", "ClassTooLarge",
                                   "ReversedRange", "UnsupportedRangeEnd"}
    IN SameVerdict(Compile(text), LintPatternSyntax(text))
=============================================================================
