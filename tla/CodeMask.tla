------------------------------ MODULE CodeMask ------------------------------
(***************************************************************************)
(* code_mask of src/scripts/mutate/mutate_core.py: which characters of a   *)
(* C++ file are code, and not comment, literal or preprocessor directive.  *)
(* The scanner jumps from one construct to the end of it; the reference it *)
(* is compared with reads one character after another, as the language     *)
(* defines its lexical elements.                                           *)
(*                                                                         *)
(* Characters are named: "nl", "sp", "esc" (backslash), "quote", "tick".   *)
(***************************************************************************)
EXTENDS Naturals, Sequences, FiniteSetsExt, SequencesExt

CONSTANTS Alphabets,    \* sets of characters; a text uses one of them
          M,            \* bound: characters in a text
          NamesEndInR   \* a name may end in an R, as PRIuPTR does

\* What the constants have to satisfy.
MaskAssumption == M \in Nat /\ NamesEndInR \in BOOLEAN

Identifier == {"x", "R"}   \* letters
Digit == {"1"}

VARIABLES text, i, at_line_start, hidden   \* hidden: the characters blanked so far

vars == <<text, i, at_line_start, hidden>>

n == Len(text)
At(k) == IF k \in 1..n THEN text[k] ELSE "end"

\* The first position from k on with the property, or the end.
FirstIn(positions) == Min(positions \cup {n + 1})
Starts(k, word) == k + Len(word) - 1 <= n /\ SubSeq(text, k, k + Len(word) - 1) = word

TypeOK ==
    /\ text \in Seq(UNION Alphabets)
    /\ i \in 1..(n + 1)
    /\ at_line_start \in BOOLEAN
    /\ hidden \subseteq 1..n

Init ==
    /\ text \in UNION {BoundedSeq(A, M) : A \in Alphabets}
    /\ NamesEndInR \/ \A k \in 2..n : text[k] = "R" => text[k - 1] \notin Identifier
    /\ i = 1 /\ at_line_start = TRUE /\ hidden = {}

-----------------------------------------------------------------------------
(* The scanner: one turn of its loop.                                      *)

\* Characters i..j-1 are not code, and the scan goes on at j.
BlankTo(j) == hidden' = hidden \cup {k \in 1..n : i <= k /\ k < j}
              /\ i' = (IF j > n THEN n + 1 ELSE j)

Space ==
    /\ At(i) = "sp"
    /\ i' = i + 1
    /\ UNCHANGED <<text, at_line_start, hidden>>

NewLine ==
    /\ At(i) = "nl"
    /\ at_line_start' = TRUE /\ i' = i + 1
    /\ UNCHANGED <<text, hidden>>

\* The whole logical line of a directive, continuations included.
Directive ==
    /\ at_line_start /\ At(i) = "#"
    /\ BlankTo(FirstIn({k \in i..n : text[k] = "nl" /\ At(k - 1) # "esc"}))
    /\ UNCHANGED <<text, at_line_start>>

LineComment ==
    /\ At(i) = "/" /\ At(i + 1) = "/"
    /\ BlankTo(FirstIn({k \in i..n : text[k] = "nl"}))

\* A slip: the star that opens a comment may close it.
BlockFromStar ==
    /\ At(i) = "/" /\ At(i + 1) = "*"
    /\ BlankTo(FirstIn({k \in (i + 1)..n : Starts(k, <<"*", "/">>)}) + 2)

BlockComment ==
    /\ At(i) = "/" /\ At(i + 1) = "*"
    /\ BlankTo(FirstIn({k \in (i + 2)..n : Starts(k, <<"*", "/">>)}) + 2)

\* R"([^(]*)\( matches at i: there is a parenthesis, wherever.
IsRaw == At(i) = "R" /\ At(i + 1) = "quote" /\ \E k \in (i + 2)..n : text[k] = "("

RawString ==
    /\ IsRaw
    /\ LET open == FirstIn({k \in (i + 2)..n : text[k] = "("})
           close == <<")">> \o SubSeq(text, i + 2, open - 1) \o <<"quote">>
       IN  BlankTo(FirstIn({k \in (open + 1)..n : Starts(k, close)}) + Len(close))

\* Where a literal that was opened before k ends: behind its quote, or at the
\* end of the line, or of the text.
LiteralEnd(quote) ==
    LET end[k \in 1..(n + 2)] ==
          CASE k > n -> n + 1
            [] At(k) = "esc" -> end[k + 2]
            [] At(k) = quote -> k + 1
            [] At(k) = "nl" -> k
            [] OTHER -> end[k + 1]
    IN  end

Literal ==
    /\ At(i) \in {"quote", "tick"}
    /\ BlankTo(LiteralEnd(At(i))[i + 1])

Other ==
    /\ At(i) \notin {"quote", "tick"}
    /\ ~(At(i) = "/" /\ At(i + 1) \in {"/", "*"})
    /\ ~IsRaw
    /\ i' = i + 1
    /\ UNCHANGED hidden

\* Anything but white space and directives ends the start of the line.
InLine ==
    /\ At(i) \notin {"sp", "nl", "end"}
    /\ ~(at_line_start /\ At(i) = "#")
    /\ at_line_start' = FALSE
    /\ LineComment \/ BlockComment \/ RawString \/ Literal \/ Other
    /\ UNCHANGED text

Turn == i <= n /\ (Space \/ NewLine \/ Directive \/ InLine)
Ended == i > n

Next == Turn \/ (Ended /\ UNCHANGED vars)
Spec == Init /\ [][Next]_vars /\ WF_vars(Turn)

-----------------------------------------------------------------------------
(* The reference.                                                          *)

\* Where the lexer is behind a character: the construct it is in, where that
\* began, whether the next character is escaped, and what is not code so far.
Fresh == [in |-> "code", from |-> 0, escaped |-> FALSE, not |-> {}]

Enter(q, construct, k) == [q EXCEPT !.in = construct, !.from = k, !.not = @ \cup {k}]
Within(q, k) == [q EXCEPT !.not = @ \cup {k}]
Leave(q, k) == [q EXCEPT !.in = "code", !.escaped = FALSE, !.not = @ \cup {k}]
Code(q) == [q EXCEPT !.in = "code", !.escaped = FALSE]

\* Only white space before k on its line.  (A comment there would do as well;
\* no alphabet has both.)
FirstOnLine(k) == \A m \in 1..(k - 1) : text[m] = "sp" \/ \E e \in m..(k - 1) : text[e] = "nl"

\* A raw string starts at k: the R is not the end of a name.
OpensRaw(k) ==
    /\ At(k) = "R" /\ At(k + 1) = "quote" /\ At(k - 1) \notin Identifier \cup Digit
    /\ \E open \in (k + 2)..n : text[open] = "("

ClosesRaw(from, k) ==
    LET open == Min({m \in (from + 2)..n : text[m] = "("})
        close == <<")">> \o SubSeq(text, from + 2, open - 1) \o <<"quote">>
        first == k - Len(close) + 1
    IN  first > open /\ SubSeq(text, first, k) = close

Separates(k) == At(k - 1) \in Digit /\ At(k + 1) \in Digit \cup Identifier
Spliced(k) == At(k - 1) = "esc"

Reads(q, k) ==
    LET c == text[k] IN
    CASE q.in = "code" ->
           CASE c = "/" /\ At(k + 1) = "/" -> Enter(q, "line", k)
             [] c = "/" /\ At(k + 1) = "*" -> Enter(q, "block", k)
             [] c = "quote" \/ (c = "tick" /\ ~Separates(k)) -> Enter(q, c, k)
             [] OpensRaw(k) -> Enter(q, "raw", k)
             [] c = "#" /\ FirstOnLine(k) -> Enter(q, "directive", k)
             [] OTHER -> q
      [] q.in \in {"line", "directive"} -> IF c = "nl" /\ ~Spliced(k) THEN Code(q) ELSE Within(q, k)
      [] q.in = "block" -> IF c = "/" /\ At(k - 1) = "*" /\ k > q.from + 2 THEN Leave(q, k) ELSE Within(q, k)
      [] q.in = "raw" -> IF ClosesRaw(q.from, k) THEN Leave(q, k) ELSE Within(q, k)
      [] OTHER ->
           CASE q.escaped -> [Within(q, k) EXCEPT !.escaped = FALSE]
             [] c = "esc" -> [Within(q, k) EXCEPT !.escaped = TRUE]
             [] c = "nl" -> Code(q)
             [] c = q.in -> Leave(q, k)
             [] OTHER -> Within(q, k)

NotCode == FoldLeft(Reads, Fresh, [k \in 1..n |-> k]).not

-----------------------------------------------------------------------------
\* "True for every byte that is real code.  False inside comments, string/char/
\* raw-string literals and preprocessor directives" (mutate_core.py:1283).
MaskIsCode == Ended => hidden = NotCode

=============================================================================
