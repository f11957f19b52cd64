---------------------------- MODULE PatternMatcher ----------------------------
(***************************************************************************)
(* The matcher behind #[pattern("...")]                                    *)
(* (crates/blazingly-validation/src/matcher.rs and matcher/dfa.rs).  A     *)
(* parsed pattern is compiled to a Thompson program; a set of literals or  *)
(* a deterministic byte automaton is built beside it when the pattern      *)
(* allows one, and must answer exactly as the simulation of the program.   *)
(*                                                                         *)
(* A character is the sequence of its bytes, and a character of more than  *)
(* one byte is not ASCII.  A class is the set of characters it accepts.    *)
(* Patterns are syntax trees: the parser is not modelled.  Addresses count *)
(* from 1.                                                                 *)
(***************************************************************************)
EXTENDS Integers, Sequences, SequencesExt, FiniteSets, FiniteSetsExt, Functions

CONSTANTS
  Alphabet,      \* the characters, each a sequence of bytes
  Patterns,      \* syntax trees
  Values,        \* sequences of characters
  MaxStates,     \* MAX_STATES of the automaton
  MaxLiterals,   \* MAX_LITERAL_ALTERNATIVES
  MaxGeneration  \* u64::MAX, the last epoch of the scratch buffers

\* What an instance must satisfy; the module that makes it assumes so.
PatternAssumption ==
  /\ \A c \in Alphabet : c \in Seq(Nat) /\ c # <<>>
  /\ Values \subseteq Seq(Alphabet)
  /\ MaxStates \in Nat \ {0} /\ MaxLiterals \in Nat
  /\ MaxGeneration \in Nat \ {0}

VARIABLES
  pattern, anchoredStart, anchoredEnd, \* what is compiled
  value,                               \* what is matched
  program,                             \* Program.instructions
  active,                              \* Scratch.active
  marks, generation,                   \* Scratch.marks, Scratch.generation
  repeats,                             \* since when epochs may repeat a mark
  position,                            \* characters the simulation has read
  answer                               \* what it answers, and before that "none"
                                       \* or, once it has begun, "reading"

vars == <<pattern, anchoredStart, anchoredEnd, value, program, active, marks,
          generation, repeats, position, answer>>
input == <<pattern, anchoredStart, anchoredEnd, value>>

-------------------------------------------------------------------------------
(* Program::emit *)

Consume(class) == [op |-> "consume", class |-> class]
Split(first, second) == [op |-> "split", to |-> <<first, second>>]
Jump(target) == [op |-> "jump", to |-> <<target>>]
Accept == [op |-> "accept"]

RECURSIVE Emit(_, _)

\* The leading branches of a choice are tried with a split and left with a
\* jump behind the last one.
RECURSIVE EmitChoice(_, _)
EmitChoice(code, branches) ==
  IF Len(branches) = 1 THEN Emit(code, branches[1])
  ELSE LET first == Emit(Append(code, Split(0, 0)), branches[1])
           rest  == EmitChoice(Append(first, Jump(0)), Tail(branches))
       IN  [rest EXCEPT ![Len(code) + 1] = Split(Len(code) + 2, Len(first) + 2),
                        ![Len(first) + 1] = Jump(Len(rest) + 1)]

\* The code of a node, appended to the code before it.
Emit(code, node) ==
  CASE node.op = "single" -> Append(code, Consume(node.class))
    [] node.op = "sequence" -> FoldLeft(Emit, code, node.of)
    [] node.op = "choice" -> EmitChoice(code, node.of)
    [] node.op = "optional" ->
         LET body == Emit(Append(code, Split(0, 0)), node.of)
         IN  [body EXCEPT ![Len(code) + 1] = Split(Len(code) + 2, Len(body) + 1)]
    [] node.op = "star" ->
         LET body == Append(Emit(Append(code, Split(0, 0)), node.of), Jump(Len(code) + 1))
         IN  [body EXCEPT ![Len(code) + 1] = Split(Len(code) + 2, Len(body) + 1)]
    [] node.op = "plus" ->
         LET body == Emit(code, node.of)
         IN  Append(body, Split(Len(code) + 1, Len(body) + 2))

Compiled(node) == Append(Emit(<<>>, node), Accept)

-------------------------------------------------------------------------------
(* The closure both engines share *)

\* add_thread: the state reached from the addresses of `pending`.  An address
\* already marked with this epoch is skipped.
RECURSIVE AddThread(_, _, _)
AddThread(scratch, pending, epoch) ==
  IF pending = <<>> THEN scratch
  ELSE LET index == Head(pending) IN
       IF scratch.marks[index] = epoch
       THEN AddThread(scratch, Tail(pending), epoch)
       ELSE LET seen == [scratch EXCEPT !.marks[index] = epoch]
                step == scratch.code[index]
            IN  IF step.op \in {"split", "jump"}
                THEN AddThread(seen, step.to \o Tail(pending), epoch)
                ELSE AddThread([seen EXCEPT !.set = @ \union {index}], Tail(pending), epoch)

\* The closure of some addresses under one epoch.
Closure(code, old, epoch, seeds) ==
  AddThread([code |-> code, marks |-> old, set |-> {}], SetToSeq(seeds), epoch)

\* The addresses behind the Consume instructions of a set that accept c.
Advance(code, set, c) ==
  {i + 1 : i \in {j \in set : code[j].op = "consume" /\ c \in code[j].class}}

Accepts(code, set) == \E i \in set : code[i].op = "accept"

-------------------------------------------------------------------------------
(* The literal set *)

\* The missing set: a word with a character that is in no alphabet.
NoLiterals == {<<<<>>>>}

\* literal_language: the words of a node, when they are few.
RECURSIVE LiteralLanguage(_)
LiteralLanguage(node) ==
  CASE node.op = "single" ->
         IF Cardinality(node.class) = 1 THEN {<<c>> : c \in node.class} ELSE NoLiterals
    [] node.op = "sequence" ->
         LET Join(words, n) ==
               LET tail == LiteralLanguage(n) IN
               IF \/ NoLiterals \in {words, tail}
                  \/ Cardinality(words) * Cardinality(tail) > MaxLiterals
               THEN NoLiterals
               ELSE {w \o t : w \in words, t \in tail}
         IN  FoldLeft(Join, {<<>>}, node.of)
    [] node.op = "choice" ->
         LET Add(words, n) ==
               LET more == LiteralLanguage(n) IN
               IF \/ NoLiterals \in {words, more}
                  \/ Cardinality(words) + Cardinality(more) > MaxLiterals
               THEN NoLiterals
               ELSE words \union more
         IN  FoldLeft(Add, {}, node.of)
    [] OTHER -> NoLiterals

-------------------------------------------------------------------------------
(* The automaton *)

IsAscii(c) == Len(c) = 1

\* classify refuses a program with a class that accepts more than ASCII.
AsciiOnly(code) ==
  \A i \in DOMAIN code : code[i].op = "consume" => \A c \in code[i].class : IsAscii(c)

Unmarked(code) == [i \in DOMAIN code |-> 0]

\* The state a byte leads to.  The empty set is DEAD.
Successor(code, set, byte) ==
  IF set = {} THEN {}
  ELSE Closure(code, Unmarked(code), 1,
               Advance(code, set, <<byte>>) \union (IF anchoredStart THEN {} ELSE {1})).set

Bytes == UNION {ToSet(c) : c \in Alphabet}

\* Dfa::build: all the states, found from those not yet expanded; the
\* construction gives up when there are more than MaxStates.
RECURSIVE Discover(_, _, _)
Discover(code, found, fresh) ==
  IF fresh = {} \/ Cardinality(found) > MaxStates THEN found
  ELSE LET next == {Successor(code, set, byte) : set \in fresh, byte \in Bytes}
       IN  Discover(code, found \union next, next \ found)

StartState(code) == Closure(code, Unmarked(code), 1, {1}).set

States(code) == Discover(code, {{}, StartState(code)}, {StartState(code)})

\* Dfa::matches: without the end anchor acceptance is tested before every byte.
RECURSIVE Scan(_, _, _)
Scan(code, state, bytes) ==
  CASE bytes = <<>> -> Accepts(code, state)
    [] bytes # <<>> /\ ~anchoredEnd /\ Accepts(code, state) -> TRUE
    [] OTHER ->
         LET next == Successor(code, state, Head(bytes))
         IN  next # {} /\ Scan(code, next, Tail(bytes))

-------------------------------------------------------------------------------
(* The engine compile picks *)

LiteralsApply ==
  anchoredStart /\ anchoredEnd /\ LiteralLanguage(pattern) # NoLiterals

AutomatonApplies ==
  AsciiOnly(program) /\ Cardinality(States(program)) <= MaxStates

\* Pattern::matches, for the two engines that are not the simulation.
Matches ==
  IF LiteralsApply THEN value \in LiteralLanguage(pattern)
  ELSE Scan(program, StartState(program), FlattenSeq(value))

-------------------------------------------------------------------------------
(* Compiling and simulating *)

\* The scratch buffers are those of the thread: the marks of earlier patterns
\* are still in them, at most the last epoch used; or above it, if the epochs
\* began again within an earlier value, which leaves the marks as they are.
Init ==
  /\ pattern \in Patterns /\ value \in Values
  /\ anchoredStart \in BOOLEAN /\ anchoredEnd \in BOOLEAN
  /\ program = <<>> /\ active = {} /\ position = 0 /\ answer = "none"
  /\ generation \in 0 .. MaxGeneration
  /\ repeats \in {"never", "before"}
  /\ marks \in {<<m>> : m \in IF repeats = "never" THEN 0 .. generation
                                ELSE generation + 1 .. MaxGeneration}

\* The buffers are only ever extended; one mark stands for all of them before
\* the program is known.
Compile ==
  /\ program = <<>>
  /\ program' = Compiled(pattern)
  /\ marks' = [i \in DOMAIN program' |-> marks[1]]
  /\ UNCHANGED <<input, active, generation, repeats, position, answer>>

\* Add the closure of some addresses to an empty set, under an epoch.
Enter(old, epoch, seeds) ==
  LET reached == Closure(program, old, epoch, seeds) IN
  /\ active' = reached.set /\ marks' = reached.marks /\ generation' = epoch

\* Mutant: the epoch starts again without the marks being cleared.
BeginUncleared ==
  /\ program # <<>> /\ answer = "none" /\ answer' = "reading"
  /\ Enter(marks, (generation % MaxGeneration) + 1, {1})
  /\ UNCHANGED <<input, program, repeats, position>>

\* simulate, before the first character; an epoch that cannot be raised any
\* more starts again with cleared marks.
Begin ==
  /\ program # <<>> /\ answer = "none" /\ answer' = "reading"
  /\ IF generation = MaxGeneration
     THEN Enter(Unmarked(program), 1, {1}) /\ repeats' = "never"
     ELSE Enter(marks, generation + 1, {1}) /\ UNCHANGED repeats
  /\ UNCHANGED <<input, program, position>>

\* A match that may end anywhere ends as soon as the set accepts.
Early == ~anchoredEnd /\ Accepts(program, active)

CanRead == answer = "reading" /\ position < Len(value) /\ ~Early

\* One character.  The epoch is raised without a look at it, and in a build
\* that does not check for overflow it wraps around to zero.
Read ==
  /\ CanRead
  /\ position' = position + 1
  /\ Enter(marks, (generation + 1) % (MaxGeneration + 1),
           Advance(program, active, value[position + 1])
             \union (IF anchoredStart THEN {} ELSE {1}))
  /\ repeats' = IF generation = MaxGeneration /\ repeats = "never" THEN "here" ELSE repeats
  /\ answer' = IF active' = {} /\ anchoredStart THEN "no" ELSE "reading"
  /\ UNCHANGED <<input, program>>

\* A build that checks panics instead, with the epoch as it was.
ReadPanics ==
  /\ CanRead /\ generation = MaxGeneration
  /\ answer' = "panicked"
  /\ UNCHANGED <<input, program, active, marks, generation, repeats, position>>

\* The value is at its end, or the answer is known before.
Conclude ==
  /\ answer = "reading"
  /\ position = Len(value) \/ Early
  /\ answer' = IF Accepts(program, active) THEN "yes" ELSE "no"
  /\ UNCHANGED <<input, program, active, marks, generation, repeats, position>>

Next == Compile \/ Begin \/ Read \/ ReadPanics \/ Conclude

Spec == Init /\ [][Next]_vars

-------------------------------------------------------------------------------
(* Properties *)

TypeOK ==
  /\ anchoredStart \in BOOLEAN /\ anchoredEnd \in BOOLEAN
  /\ active \subseteq DOMAIN program
  /\ generation \in 0 .. MaxGeneration /\ repeats \in {"never", "before", "here"}
  /\ position \in 0 .. Len(value)
  /\ answer \in {"none", "reading", "yes", "no", "panicked"}

\* What the syntax means: where a match of a node that begins behind the
\* first i characters of the value can end.
RECURSIVE Ends(_, _)
Ends(node, i) ==
  CASE node.op = "single" ->
         IF i < Len(value) /\ value[i + 1] \in node.class THEN {i + 1} ELSE {}
    [] node.op = "sequence" ->
         FoldLeft(LAMBDA from, n : UNION {Ends(n, j) : j \in from}, {i}, node.of)
    [] node.op = "choice" -> UNION {Ends(n, i) : n \in ToSet(node.of)}
    [] node.op = "optional" -> {i} \union Ends(node.of, i)
    [] node.op = "star" ->
         {i} \union UNION {Ends(node, j) : j \in Ends(node.of, i) \ {i}}
    [] node.op = "plus" ->
         LET once == Ends(node.of, i)
         IN  once \union UNION {Ends(node, j) : j \in once \ {i}}

Denoted ==
  \E i \in (IF anchoredStart THEN {0} ELSE 0 .. Len(value)) :
    \E j \in Ends(pattern, i) : anchoredEnd => j = Len(value)

Answered == answer \in {"yes", "no"}

\* The simulation answers what the syntax of the pattern means, whatever was
\* matched with the same buffers before.  Once an epoch has begun again within a
\* value, it may take an address for visited and lose a match; it invents none.
SimulationIsTheLanguage ==
  Answered => /\ answer = "yes" => Denoted
              /\ repeats = "never" /\ Denoted => answer = "yes"

\* "Every engine answers identically; the simulation is the definition"
\* (crates/blazingly-validation/src/matcher.rs:21).
EnginesAgree ==
  Answered /\ (LiteralsApply \/ AutomatonApplies) =>
    /\ answer = "yes" => Matches
    /\ repeats = "never" /\ Matches => answer = "yes"

\* Both: every engine that may be chosen answers what the pattern means.
MatchingIsRight == SimulationIsTheLanguage /\ EnginesAgree

===============================================================================
