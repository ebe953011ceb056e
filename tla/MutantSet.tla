----------------------------- MODULE MutantSet ------------------------------
(***************************************************************************)
(* Which mutants a run is about: collect_mutants of                        *)
(* src/scripts/mutate/mutate_core.py, with the parsing of --lines and      *)
(* --operators, the line filter from git, the deletions and the sample     *)
(* that --limit draws.                                                     *)
(*                                                                         *)
(* A line of the file is one of a few shapes, and a site is a place on a   *)
(* line and what is done there.  What git says of a line is whether the    *)
(* merge base, and whether the tip of the other branch, already has it.    *)
(***************************************************************************)
EXTENDS Integers, Sequences, FiniteSets, SequencesExt

CONSTANTS K,             \* the file has K lines
          Shapes,        \* shapes lines may have
          LineArgs,      \* what may be said with --lines: sequences of parts
          OperatorArgs,  \* what may be said with --operators: sets of names
          Limits         \* what may be said with --limit; 0 is not given

\* What the constants have to satisfy.
SetAssumption ==
    /\ K \in Nat \ {0}
    /\ Shapes \subseteq {"comment", "plain", "branch", "brace", "opens", "ends", "call", "closes"}
    /\ Limits \subseteq Nat

AllOperators == {"tokens", "bitwise", "negation", "deletions"}
AllLines == 1..K
Absent == <<>>               \* a flag that is not given; splitting one gives a part

VARIABLES given,    \* the file, the repository and the command line: constant
          phase,    \* how far collect_mutants is
          lines,    \* what --lines was parsed to
          named,    \* the named bugs
          sweep,    \* the mutants of the sweep
          mutants   \* what it returned

vars == <<given, phase, lines, named, sweep, mutants>>

-----------------------------------------------------------------------------
(* The file.  A statement that takes two lines is an "opens" line, as in    *)
(* "x = a +", and an "ends" line, or a "call" line, as in "f(a +", and a    *)
(* "closes" line.                                                          *)

Files == {f \in [AllLines -> Shapes] :
            /\ f[1] \notin {"ends", "closes"} /\ f[K] \notin {"opens", "call"}
            /\ \A k \in 2..K : /\ f[k] = "ends" <=> f[k - 1] = "opens"
                               /\ f[k] = "closes" <=> f[k - 1] = "call"}

Site(line, column, operator) == [line |-> line, column |-> column, operator |-> operator]
Bug == Site(0, 1, "bug")     \* a named bug, which is a text and has no line
Before(a, b) == a.line < b.line \/ (a.line = b.line /\ a.column < b.column)

\* mutation_sites, bitwise_sites and negation_sites: what they find on a line.
TokenSites(k) == IF given.file[k] \in {"plain", "opens", "ends", "call"}
                 THEN {Site(k, 3, "tokens")} ELSE {}
BitwiseSites(k) == IF given.file[k] \in {"branch", "ends"} THEN {Site(k, 5, "bitwise")} ELSE {}
NegationSites(k) == IF given.file[k] = "branch" THEN {Site(k, 4, "negation")} ELSE {}

\* deletion_sites: a line that ends in a semicolon, starts no scope and has as
\* many brackets open as closed, from its first character on.
EndsInSemicolon(k) == given.file[k] \in {"plain", "brace", "ends", "closes"}
Balanced(k) == given.file[k] \notin {"brace", "branch", "call", "closes"}
NotAStatement(k) == given.file[k] = "brace"

DeletionSites(k) == IF EndsInSemicolon(k) /\ Balanced(k) /\ ~NotAStatement(k)
                    THEN {Site(k, 1, "deletions")} ELSE {}

SitesOf(operator, k) ==
    CASE operator = "tokens" -> TokenSites(k)
      [] operator = "bitwise" -> BitwiseSites(k)
      [] operator = "negation" -> NegationSites(k)
      [] operator = "deletions" -> DeletionSites(k)

-----------------------------------------------------------------------------
(* The command line.                                                       *)

\* A part of --lines is a pair of line numbers, <<>> for nothing between two
\* commas, or <<0>> for anything else.
Parts(text) == {part \in ToSet(text) : Len(part) = 2}

BadLines(text) == \E part \in ToSet(text) : Len(part) = 1 \/ (Len(part) = 2 /\ part[2] < part[1])

parse_lines(text) == UNION {part[1]..part[2] : part \in Parts(text)}

BadOperators(names) == names = {} \/ ~(names \subseteq AllOperators)

\* What git says of a line: in the merge base, and in the tip of the ref.
Histories == [AllLines -> [base : BOOLEAN, tip : BOOLEAN]]

\* With --merge-base, or without it when git does not know the flag.
changed_lines ==
    IF given.oldGit THEN {k \in AllLines : ~given.history[k].tip}
    ELSE {k \in AllLines : ~given.history[k].base}

-----------------------------------------------------------------------------
TypeOK ==
    /\ phase \in {"arguments", "named", "sweep", "limit", "done", "refused"}
    /\ lines \subseteq Nat
    /\ named \in {<<>>, <<Bug>>}
    /\ sweep \in Seq([line : AllLines, column : 1..5, operator : AllOperators])
    /\ mutants \in Seq([line : 0..K, column : 1..5, operator : AllOperators \cup {"bug"}])

\* Bug files hold any number of blocks; with --replace there is one at least,
\* and --reverse makes one.
Init ==
    /\ given \in [file : Files, history : Histories, oldGit : BOOLEAN,
                  modes : SUBSET {"bugs", "replace", "reverse"}, blocks : 0..1,
                  diff : BOOLEAN, lines : LineArgs, operators : OperatorArgs, limit : Limits]
    /\ given.blocks = 0 => given.modes \subseteq {"bugs"}
    /\ given.modes = {} => given.blocks = 0
    /\ "reverse" \in given.modes => given.blocks = 1
    /\ ~given.diff => /\ ~given.oldGit
                      /\ \A k \in AllLines : given.history[k] = [base |-> TRUE, tip |-> TRUE]
    /\ phase = "arguments" /\ lines = {}
    /\ named = <<>> /\ sweep = <<>> /\ mutants = <<>>

\* argparse, and the first check of main: the three ways to name a bug exclude
\* each other.
Arguments ==
    /\ phase = "arguments"
    /\ IF \/ BadOperators(given.operators)
          \/ BadLines(given.lines)
          \/ Cardinality(given.modes) > 1
       THEN phase' = "refused" /\ UNCHANGED lines
       ELSE /\ lines' = parse_lines(given.lines)
            /\ phase' = "named"
    /\ UNCHANGED <<given, named, sweep, mutants>>

\* bug_mutants or reverse_commit_mutant, which may refuse what it is given.
Named ==
    /\ phase = "named"
    /\ \/ named' = SubSeq(<<Bug>>, 1, given.blocks) /\ phase' = "sweep"
       \/ given.blocks > 0 /\ phase' = "refused" /\ UNCHANGED named
    /\ UNCHANGED <<given, lines, sweep, mutants>>

\* A sweep is asked for, or nothing is: no lines are as false as no flag.
Wanted == given.diff \/ lines # {} \/ named = <<>>

\* The sites of the operators asked for, on the lines asked for, by offset.
Sweep(filter) ==
    SortSeq(SetToSeq(UNION {SitesOf(o, k) : o \in given.operators, k \in filter \cap AllLines}), Before)

\* A slip: no changed lines is taken for no filter.
FilterOrAll ==
    IF given.diff /\ changed_lines # {} THEN changed_lines
    ELSE IF lines # {} THEN lines
    ELSE AllLines

line_filter ==
    IF given.diff THEN changed_lines
    ELSE IF lines # {} THEN lines
    ELSE AllLines

\* With --diff and no changed line nothing is swept.
CollectSweep ==
    /\ phase = "sweep"
    /\ sweep' = IF Wanted THEN Sweep(line_filter) ELSE <<>>
    /\ phase' = "limit"
    /\ UNCHANGED <<given, lines, named, mutants>>

\* What the sample may be: as many as the limit allows, sorted again.
Sample(s) == {SortSeq(SetToSeq(T), Before) : T \in {U \in SUBSET ToSet(s) : Cardinality(U) = given.limit}}

Limit ==
    /\ phase = "limit"
    /\ IF given.limit # 0 /\ Len(sweep) > given.limit THEN sweep' \in Sample(sweep)
       ELSE UNCHANGED sweep
    /\ mutants' = named \o sweep'
    /\ phase' = "done"
    /\ UNCHANGED <<given, lines, named>>

Over == phase \in {"done", "refused"}

Next == Arguments \/ Named \/ CollectSweep \/ Limit \/ (Over /\ UNCHANGED vars)
Spec == Init /\ [][Next]_vars

-----------------------------------------------------------------------------
\* Where the sweep's mutants start in the list.
Swept == SubSeq(mutants, Len(named) + 1, Len(mutants))
SweptLines == {m.line : m \in ToSet(Swept)}

\* The list is the named bugs in their order, and behind them the sweep in the
\* order of the file, no site twice, also when it is a sample.  (collect_mutants:
\* "Every mutant this invocation asks for, named bugs first.")
NamedThenInFileOrder ==
    phase = "done" =>
        /\ SubSeq(mutants, 1, given.blocks) = SubSeq(<<Bug>>, 1, given.blocks)
        /\ \A i, j \in DOMAIN Swept : i < j => Swept[i] # Swept[j] /\ ~Before(Swept[j], Swept[i])

\* What a sweep by --lines leaves out it was not asked for: "a run that sweeps
\* less than it was asked to reports a clean result for lines nobody looked at"
\* (mutate_core.py:1650).
SweepsAllItWasAsked ==
    phase = "done" /\ given.lines # Absent /\ ~given.diff /\ given.limit = 0 =>
        \A part \in Parts(given.lines) :
            /\ part[1] <= part[2]
            /\ \A k \in (part[1]..part[2]) \cap AllLines, o \in given.operators :
                 SitesOf(o, k) \subseteq ToSet(Swept)

\* With --diff no line is swept that the merge base already has, so a diff that
\* touches nothing sweeps nothing; an old git may only see more.
DiffSweepsOnlyChanges ==
    phase = "done" /\ given.diff /\ ~given.oldGit =>
        \A k \in SweptLines : ~given.history[k].base

=============================================================================
