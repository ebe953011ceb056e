--------------------------- MODULE CompiledLines ----------------------------
(***************************************************************************)
(* Which lines of a file a build compiles, read back from the preprocessor *)
(* (Lane.compiled_lines of src/scripts/mutate/mutate_core.py), and which   *)
(* mutants that leaves (drop_uncompiled).                                  *)
(*                                                                         *)
(* The preprocessor is external.  It prints the lines it keeps; in front   *)
(* of one that is not the next, it prints empty lines if the gap is small, *)
(* and otherwise a linemarker.  The text of a macro call that takes        *)
(* several lines is printed on the first of them.                          *)
(***************************************************************************)
EXTENDS Integers, Sequences, SequencesExt, FiniteSets

CONSTANTS K,      \* the file has K lines
          Kinds,  \* kinds of lines it may have
          Gap     \* lines that are skipped with empty lines; seven for gcc

\* "out" is a directive, or a line a directive removes; "more" goes on with the
\* macro call of the line before.
\* What the constants have to satisfy.
LinesAssumption ==
    /\ {K, Gap} \subseteq Nat \ {0}
    /\ Kinds \subseteq {"text", "out", "call", "more", "include"}

AllLines == 1..K
Header == "header"
Mutated == "target"

VARIABLES source,   \* the file: constant
          at,       \* the line the preprocessor is at; K + 1 is its end
          next,     \* the line its output is at
          stdout,   \* what it has printed: markers, and lines
          r,        \* the line of that which is read next
          current, lineno, lines,  \* compiled_lines'
          dropped   \* drop_uncompiled's answer: lines whose mutants go

vars == <<source, at, next, stdout, r, current, lineno, lines, dropped>>

Marker(line, file) == [marker |-> TRUE, line |-> line, file |-> file]
Text == [marker |-> FALSE]

Sources == {s \in [AllLines -> Kinds] :
              \A k \in AllLines : s[k] = "more" => k > 1 /\ s[k - 1] \in {"call", "more"}}

TypeOK ==
    /\ at \in 1..(K + 1) /\ next \in 1..(K + 1)
    /\ r \in 1..(Len(stdout) + 1)
    /\ current \in {"none", Header, Mutated}
    /\ lines \subseteq AllLines /\ dropped \subseteq AllLines

Init ==
    /\ source \in Sources
    /\ at = 1 /\ next = 1
    /\ stdout = <<Marker(1, Mutated)>>
    /\ r = 1 /\ current = "none" /\ lineno = 0
    /\ lines = {} /\ dropped = {}

-----------------------------------------------------------------------------
(* The preprocessor.                                                       *)

\* What goes in front of the line it is at.
Advance == IF at - next <= Gap THEN [k \in 1..(at - next) |-> Text] ELSE <<Marker(at, Mutated)>>

PrintLine ==
    /\ at <= K /\ source[at] \in {"text", "call"}
    /\ stdout' = stdout \o Advance \o <<Text>>
    /\ next' = at + 1 /\ at' = at + 1
    /\ UNCHANGED <<source, r, current, lineno, lines, dropped>>

\* A header of two lines, and back.
PrintHeader ==
    /\ at <= K /\ source[at] = "include"
    /\ stdout' = stdout \o <<Marker(1, Header), Text, Text, Marker(at + 1, Mutated)>>
    /\ next' = at + 1 /\ at' = at + 1
    /\ UNCHANGED <<source, r, current, lineno, lines, dropped>>

PassLine ==
    /\ at <= K /\ source[at] \in {"out", "more"}
    /\ at' = at + 1
    /\ UNCHANGED <<source, next, stdout, r, current, lineno, lines, dropped>>

-----------------------------------------------------------------------------
(* Reading it, once it has ended.                                          *)

Reading == at = K + 1 /\ r <= Len(stdout)

ReadMarker ==
    /\ Reading /\ stdout[r].marker
    /\ lineno' = stdout[r].line /\ current' = stdout[r].file
    /\ r' = r + 1
    /\ UNCHANGED <<source, at, next, stdout, lines, dropped>>

\* A slip: a line is counted before it is noted.
CountsFirst ==
    /\ Reading /\ ~stdout[r].marker
    /\ lines' = IF current = Mutated THEN lines \cup {lineno + 1} ELSE lines
    /\ lineno' = lineno + 1
    /\ r' = r + 1
    /\ UNCHANGED <<source, at, next, stdout, current, dropped>>

ReadText ==
    /\ Reading /\ ~stdout[r].marker
    /\ lines' = IF current = Mutated THEN lines \cup {lineno} ELSE lines
    /\ lineno' = lineno + 1
    /\ r' = r + 1
    /\ UNCHANGED <<source, at, next, stdout, current, dropped>>

Read == at = K + 1 /\ r = Len(stdout) + 1

\* No lines at all are no answer, and nothing is dropped.
Answer == dropped' = IF lines = {} THEN {} ELSE AllLines \ lines

drop_uncompiled == Read /\ Answer
                   /\ UNCHANGED <<source, at, next, stdout, r, current, lineno, lines>>

Next == PrintLine \/ PrintHeader \/ PassLine \/ ReadMarker \/ ReadText \/ drop_uncompiled
Spec == Init /\ [][Next]_vars

-----------------------------------------------------------------------------
\* A line whose text the preprocessor prints keeps its mutants, whatever is left
\* out above it and whatever is included.
PrintedAreKept == \A k \in dropped : source[k] \notin {"text", "call"}

\* The mutants of a branch that is left out go, if it is long enough for a
\* marker; then nothing else is dropped with them but other such lines.
LeftOut(k) == source[k] = "out"
Skipped(k) == source[k] \in {"out", "more"}
LongBranch(k) ==
    \E first \in 1..k : \E last \in k..(K - 1) :
        /\ last - first >= Gap
        /\ \A m \in first..last : Skipped(m)
        /\ ~Skipped(last + 1)

LongBranchesGo == Read /\ dropped # {} => \A k \in AllLines : LeftOut(k) /\ LongBranch(k) => k \in dropped

\* If nothing but a header or nothing at all is printed, no mutant is dropped.
SilenceIsNoAnswer ==
    (\A k \in AllLines : source[k] \notin {"text", "call"}) => dropped = {}

=============================================================================
