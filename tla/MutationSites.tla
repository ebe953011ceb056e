--------------------------- MODULE MutationSites ----------------------------
(***************************************************************************)
(* mutation_sites of src/scripts/mutate/mutate_core.py: the single-token   *)
(* changes worth trying.  The scanner knows no C++ tokens; it knows where  *)
(* names and numbers match, and tables in which the first spelling that    *)
(* matches wins.  The reference splits the same text into tokens by the    *)
(* rule of the language, the longest one that fits, and changes those.     *)
(*                                                                         *)
(* Characters stand for themselves; "~" is one that code_mask has blanked, *)
(* "true" a letter that spells that word.                                  *)
(***************************************************************************)
EXTENDS Integers, Sequences, FiniteSetsExt, SequencesExt

CONSTANTS Alphabets,   \* sets of characters; a text uses one of them
          M,           \* bound: characters in a text
          Exponents    \* a number may have a signed exponent

\* What the constants have to satisfy.
SitesAssumption == M \in Nat /\ Exponents \in BOOLEAN

Digit == {"0", "1"}
Letter == {"x", "u", "e", "true"}

VARIABLES src, operator, i, sites

vars == <<src, operator, i, sites>>

n == Len(src)
At(k) == IF k \in 1..n THEN src[k] ELSE "end"
Word(k) == At(k) \in Letter \cup Digit
StartsWith(k, op) == k + Len(op) - 1 <= n /\ SubSeq(src, k, k + Len(op) - 1) = op
FirstIn(positions) == Min(positions \cup {n + 1})

-----------------------------------------------------------------------------
(* The tables: a spelling, and what to put in its place.                   *)

OPERATOR_MUTATIONS == <<
    <<<<"<", "<", "=">>, {}>>, <<<<">", ">", "=">>, {}>>, <<<<"<", "<">>, {}>>, <<<<">", ">">>, {}>>,
    <<<<"-", ">">>, {}>>, <<<<":", ":">>, {}>>,
    <<<<"<", "=">>, {<<"<">>, <<">", "=">>, <<"=", "=">>}>>,
    <<<<">", "=">>, {<<">">>, <<"<", "=">>, <<"=", "=">>}>>,
    <<<<"=", "=">>, {<<"!", "=">>}>>, <<<<"!", "=">>, {<<"=", "=">>}>>,
    <<<<"&", "&">>, {<<"|", "|">>}>>, <<<<"|", "|">>, {<<"&", "&">>}>>,
    <<<<"+", "+">>, {<<"-", "-">>}>>, <<<<"-", "-">>, {<<"+", "+">>}>>,
    <<<<"+", "=">>, {<<"-", "=">>}>>, <<<<"-", "=">>, {<<"+", "=">>}>>,
    <<<<"*", "=">>, {<<"/", "=">>}>>, <<<<"/", "=">>, {<<"*", "=">>}>>,
    <<<<"<">>, {<<"<", "=">>, <<">">>}>>, <<<<">">>, {<<">", "=">>, <<"<">>}>>,
    <<<<"+">>, {<<"-">>}>>, <<<<"-">>, {<<"+">>}>>, <<<<"*">>, {<<"/">>}>>, <<<<"/">>, {<<"*">>}>>>>

\* A slip: nothing consumes the `||` around a `|`.
WithoutConsumer == <<
    <<<<"|", "=">>, {<<"&", "=">>, <<"^", "=">>}>>, <<<<"^", "=">>, {<<"&", "=">>, <<"|", "=">>}>>,
    <<<<"^">>, {<<"&">>, <<"|">>}>>, <<<<"|">>, {<<"&">>, <<"^">>}>>>>

BITWISE_MUTATIONS == <<
    <<<<"|", "|">>, {}>>, <<<<"|", "=">>, {<<"&", "=">>, <<"^", "=">>}>>,
    <<<<"^", "=">>, {<<"&", "=">>, <<"|", "=">>}>>,
    <<<<"^">>, {<<"&">>, <<"|">>}>>, <<<<"|">>, {<<"&">>, <<"^">>}>>>>

NEGATION_MUTATIONS == << <<<<"!", "=">>, {}>>, <<<<"!">>, {<<>>}>> >>

\* bitwise_sites and negation_sites take their own table, and no words and numbers.
Table == CASE operator = "tokens" -> OPERATOR_MUTATIONS
           [] operator = "bitwise" -> BITWISE_MUTATIONS
           [] operator = "negation" -> NEGATION_MUTATIONS
words_and_numbers == operator = "tokens"

-----------------------------------------------------------------------------
TypeOK ==
    /\ src \in Seq(UNION Alphabets)
    /\ operator \in {"tokens", "bitwise", "negation"}
    /\ i \in 1..(n + 1)
    /\ \A s \in sites : DOMAIN s = {"offset", "original", "replacement"} /\ s.offset \in 1..n

\* Where the exponents are left out an e stands only where its sign cannot be
\* taken for one; "==" is not run together with what comes before it.
Proper ==
    /\ Exponents \/ \A k \in 1..n : src[k] = "e" => At(k + 1) \notin {"+", "-"}
    /\ \A k \in 1..n : StartsWith(k, <<"=", "=">>) => At(k - 1) \in {" ", "x", "true", "end"}

Init ==
    /\ src \in UNION {BoundedSeq(A, M) : A \in Alphabets}
    /\ operator \in {"tokens", "bitwise", "negation"}
    /\ Proper
    /\ i = 1 /\ sites = {}

Adds(from, to, replacements) ==
    sites' = sites \cup {[offset |-> from, original |-> SubSeq(src, from, to - 1), replacement |-> r]
                         : r \in replacements}

\* The default value of a template parameter: after an `=` that is not the tail
\* of another operator, before a `>`.
is_template_default(from, to) ==
    LET before == {k \in 1..(from - 1) : src[k] # " "}
        at == IF before = {} THEN 0 ELSE Max(before)
        after == FirstIn({k \in to..n : src[k] # " "})
    IN  /\ At(at) = "="
        /\ At(at - 1) \notin {"=", "!", "<", ">", "+", "-", "*", "/", "&", "|", "^"}
        /\ At(after) = ">"

\* A bare angle bracket compares when there is a space on both sides.
is_comparison(k, op) == op \in {<<"<">>, <<">">>} => At(k - 1) = " " /\ At(k + 1) = " "

Masked ==
    /\ At(i) = "~"
    /\ i' = i + 1 /\ UNCHANGED sites

\* A name runs to its end; only true and false are changed.
NameAt(k) == At(k) \in Letter
Name ==
    /\ words_and_numbers /\ NameAt(i)
    /\ LET end == FirstIn({k \in i..n : ~Word(k)})
       IN  /\ Adds(i, end, IF SubSeq(src, i, end - 1) = <<"true">> /\ ~is_template_default(i, end)
                           THEN {<<"false">>} ELSE {})
           /\ i' = end

\* \b(\d+)([uUlL]*)\b matches at k, up to here.
SuffixAt(k) == FirstIn({m \in k..n : At(m) \notin Digit})
NumberEnd(k) == FirstIn({m \in SuffixAt(k)..n : At(m) # "u"})
IsNumber(k) == At(k) \in Digit /\ ~Word(k - 1) /\ ~Word(NumberEnd(k))

Value(digits) == FoldLeft(LAMBDA a, d : 10 * a + (IF d = "1" THEN 1 ELSE 0), 0, digits)

\* One more and one less, which nothing negative is.
Beside(value) == {<<value + 1>>} \cup IF value > 0 THEN {<<value - 1>>} ELSE {}

\* The parts of a float are left alone.
Number ==
    /\ words_and_numbers /\ ~NameAt(i) /\ IsNumber(i)
    /\ Adds(i, NumberEnd(i), IF At(i - 1) # "." /\ At(NumberEnd(i)) # "."
                             THEN Beside(Value(SubSeq(src, i, SuffixAt(i) - 1))) ELSE {})
    /\ i' = NumberEnd(i)

\* The first entry of the table that matches, or one character further.
Operator ==
    /\ At(i) # "~"
    /\ words_and_numbers => ~NameAt(i) /\ ~IsNumber(i)
    /\ LET fits == {t \in DOMAIN Table : StartsWith(i, Table[t][1])}
           op == Table[Min(fits)]
       IN  IF fits = {} THEN i' = i + 1 /\ UNCHANGED sites
           ELSE /\ Adds(i, i + Len(op[1]), IF is_comparison(i, op[1]) THEN op[2] ELSE {})
                /\ i' = i + Len(op[1])

Turn == i <= n /\ (Masked \/ Name \/ Number \/ Operator) /\ UNCHANGED <<src, operator>>
Ended == i > n

Next == Turn \/ (Ended /\ UNCHANGED vars)
Spec == Init /\ [][Next]_vars

-----------------------------------------------------------------------------
(* The reference: C++ tokens.                                              *)

Spellings ==
    LET one == {<<c>> : c \in {"<", ">", "=", "!", "&", "|", "+", "-", "*", "/", "^", ":", "."}}
        assign == {Append(op, "=") : op \in one \ {<<":">>, <<".">>}}
        double == {op \o op : op \in one \ {<<"=">>, <<"!">>, <<"*">>, <<"/">>, <<"^">>, <<".">>}}
    IN  one \cup assign \cup double \cup {Append(op, "=") : op \in {<<"<", "<">>, <<">", ">">>}}
            \cup {<<"-", ">">>, <<"-", ">", "*">>, <<"<", "=", ">">>}

\* A number of the preprocessor, which takes letters, dots and signed exponents.
NumberTo[k \in 1..(n + 1)] ==
    CASE Word(k) \/ At(k) = "." -> NumberTo[k + 1]
      [] At(k) \in {"+", "-"} /\ At(k - 1) = "e" -> NumberTo[k + 1]
      [] OTHER -> k

TokenEnd(k) ==
    CASE At(k) \in Letter -> FirstIn({m \in k..n : ~Word(m)})
      [] At(k) \in Digit \/ (At(k) = "." /\ At(k + 1) \in Digit) -> NumberTo[k]
      [] At(k) \in {" ", "~"} -> k + 1
      [] OTHER -> k + Max({Len(op) : op \in {op \in Spellings : StartsWith(k, op)}})

\* Where the tokens from k on begin.
Begins[k \in 1..(n + 1)] == IF k > n THEN {} ELSE {k} \cup Begins[TokenEnd(k)]

\* What is tried in place of a token.
Instead(token) ==
    LET Of(op) == CASE op = <<"<", "=">> -> {<<"<">>, <<">", "=">>, <<"=", "=">>}
                    [] op = <<">", "=">> -> {<<">">>, <<"<", "=">>, <<"=", "=">>}
                    [] op = <<"=", "=">> -> {<<"!", "=">>} [] op = <<"!", "=">> -> {<<"=", "=">>}
                    [] op = <<"&", "&">> -> {<<"|", "|">>} [] op = <<"|", "|">> -> {<<"&", "&">>}
                    [] op = <<"+", "+">> -> {<<"-", "-">>} [] op = <<"-", "-">> -> {<<"+", "+">>}
                    [] op = <<"+", "=">> -> {<<"-", "=">>} [] op = <<"-", "=">> -> {<<"+", "=">>}
                    [] op = <<"*", "=">> -> {<<"/", "=">>} [] op = <<"/", "=">> -> {<<"*", "=">>}
                    [] op = <<"<">> -> {<<"<", "=">>, <<">">>} [] op = <<">">> -> {<<">", "=">>, <<"<">>}
                    [] op = <<"+">> -> {<<"-">>} [] op = <<"-">> -> {<<"+">>}
                    [] op = <<"*">> -> {<<"/">>} [] op = <<"/">> -> {<<"*">>}
                    [] OTHER -> {}
        Bits(op) == CASE op = <<"|">> -> {<<"&">>, <<"^">>} [] op = <<"^">> -> {<<"&">>, <<"|">>}
                      [] op = <<"|", "=">> -> {<<"&", "=">>, <<"^", "=">>}
                      [] op = <<"^", "=">> -> {<<"&", "=">>, <<"|", "=">>}
                      [] OTHER -> {}
    IN  CASE operator = "tokens" -> Of(token)
          [] operator = "bitwise" -> Bits(token)
          [] operator = "negation" -> IF token = <<"!">> THEN {<<>>} ELSE {}

Whole(k) == SubSeq(src, k, TokenEnd(k) - 1)
Previous(k) == LET before == {b \in Begins[1] : b < k /\ src[b] # " "} IN IF before = {} THEN <<>> ELSE Whole(Max(before))
Following(k) == At(FirstIn({b \in Begins[1] : b > k /\ src[b] # " "}))

Wanted(k) ==
    LET token == Whole(k)
        digits == SelectSeq(token, LAMBDA c : c # "u")
    IN  CASE words_and_numbers /\ token = <<"true">> ->
               IF Previous(k) = <<"=">> /\ Following(k) = ">" THEN {} ELSE {<<"false">>}
          [] words_and_numbers /\ src[k] \in Digit ->
               IF ToSet(digits) \subseteq Digit /\ \E d \in 0..Len(digits) : SubSeq(token, 1, d) = digits
               THEN {<<v>> : v \in {Value(digits) - 1, Value(digits) + 1} \cap Nat} ELSE {}
          [] token \in {<<"<">>, <<">">>} ->
               IF At(k - 1) = " " /\ At(k + 1) = " " THEN Instead(token) ELSE {}
          [] OTHER -> Instead(token)

\* The changes tried are those of whole tokens of the language, and of every one
\* of them: no longer operator, name or number is picked apart.  ("`<=` is never
\* split into `<`", mutate_core.py:1373; "integer literal, not part of an
\* identifier or a float/exponent", line 1444.)
SitesAreTokens ==
    Ended => sites = UNION {{[offset |-> k, original |-> Whole(k), replacement |-> r] : r \in Wanted(k)}
                            : k \in Begins[1]}
=============================================================================
