------------------------------ MODULE BugFile -------------------------------
(***************************************************************************)
(* Bugs to reintroduce, from the file that names them to the mutated       *)
(* source: parse_bug_file and bug_mutants of                               *)
(* src/scripts/mutate/mutate_core.py.                                      *)
(*                                                                         *)
(* A file is written for a list of bugs, perhaps with a typo, and read     *)
(* again line by line.  A line is what the reader makes of it: blank, a    *)
(* comment with its name, a fence, or the text "a", "b".                   *)
(***************************************************************************)
EXTENDS Naturals, Sequences, SequencesExt, FiniteSets

CONSTANTS Names, Bodies, Texts,  \* names, bodies (lines) and source texts
          B                      \* bound: bugs in a file

\* What the constants have to satisfy.
BugAssumption == B \in Nat /\ Bodies \subseteq Seq({"a", "b", "blank", "<<<", "===", ">>>"})

Bugs == [name : Names, old : Bodies, new : Bodies, additive : BOOLEAN]

VARIABLES meant,     \* the bugs the file was written for
          original,  \* the source they are for
          intact,    \* it was written without a typo
          file,      \* the lines that are left to read
          bugs, name, state, old, new, additive,   \* parse_bug_file's
          raised,    \* it has raised a RuntimeError
          applied,   \* bug_mutants has returned
          mutants    \* what it made of them

vars == <<meant, original, intact, file, bugs, name, state, old, new, additive, raised, applied, mutants>>

Untitled == "none"
Comment(title) == <<"#", title>>

-----------------------------------------------------------------------------
(* Writing a file: a heading, a name, more comment, and a block each.      *)

Header == <<Comment("about this file"), <<"blank">>>>
Lines(body) == [k \in DOMAIN body |-> <<body[k]>>]

Written(bug, explained) ==
    <<Comment(bug.name)>> \o (IF explained THEN <<Comment("why it matters")>> ELSE <<>>)
    \o <<<<IF bug.additive THEN "<<< additive" ELSE "<<<">>>>
    \o Lines(bug.old) \o <<<<"===">>>> \o Lines(bug.new) \o <<<<">>>">>>>

FileOf(list, explained) == Header \o FlattenSeq([k \in DOMAIN list |-> Written(list[k], explained)])

\* A fence that ends a body cannot be in it.
Writable(bug) == "===" \notin ToSet(bug.old) /\ ">>>" \notin ToSet(bug.new)

\* Typos: a flag no one knows on the first fence, text after the last block, the
\* last fence lost.
Opens(line) == line[1] \in {"<<<", "<<< additive"}
Typos(lines) ==
    LET first == SelectInSeq(lines, Opens)
    IN  {[lines EXCEPT ![first] = <<"<<< other">>], Append(lines, <<"a">>), Front(lines)}

TypeOK ==
    /\ meant \in Seq(Bugs) /\ original \in Texts /\ intact \in BOOLEAN
    /\ state \in {"none", "old", "new"} /\ {additive, raised, applied} \subseteq BOOLEAN
    /\ \A k \in DOMAIN bugs : DOMAIN bugs[k] = {"name", "old", "new", "additive"}

Init ==
    /\ meant \in UNION {[1..k -> {bug \in Bugs : Writable(bug)}] : k \in 0..B}
    /\ original \in Texts
    /\ \E explained \in BOOLEAN :
          \/ intact = TRUE /\ file = FileOf(meant, explained)
          \/ intact = FALSE /\ meant # <<>> /\ file \in Typos(FileOf(meant, explained))
    /\ bugs = <<>> /\ name = Untitled /\ state = "none"
    /\ old = <<>> /\ new = <<>> /\ additive = FALSE /\ raised = FALSE
    /\ applied = FALSE /\ mutants = <<>>

-----------------------------------------------------------------------------
(* Reading it.                                                             *)

Line == Head(file)
Kind == Line[1]
Reading == file # <<>> /\ ~raised
Next1 == file' = Tail(file)

\* Outside a block: a blank line ends a run of comments, the first of a run is
\* the name.
Between ==
    /\ Reading /\ state = "none" /\ Kind \in {"blank", "#"}
    /\ name' = CASE Kind = "blank" -> Untitled
                 [] name = Untitled -> Line[2]
                 [] OTHER -> name
    /\ Next1 /\ UNCHANGED <<meant, original, intact, bugs, state, old, new, additive, raised, applied, mutants>>

Open ==
    /\ Reading /\ state = "none" /\ Kind \in {"<<<", "<<< additive"}
    /\ state' = "old" /\ old' = <<>> /\ new' = <<>>
    /\ additive' = (Kind = "<<< additive")
    /\ Next1 /\ UNCHANGED <<meant, original, intact, bugs, name, raised, applied, mutants>>

\* What raises: a flag that is not known, a line that is neither a comment nor a
\* fence, a block the file ends in.
Raise ==
    /\ ~raised
    /\ \/ Reading /\ state = "none" /\ Kind \notin {"blank", "#", "<<<", "<<< additive"}
       \/ file = <<>> /\ state # "none"
    /\ raised' = TRUE
    /\ UNCHANGED <<meant, original, intact, file, bugs, name, state, old, new, additive, applied, mutants>>

Middle ==
    /\ Reading /\ state = "old" /\ Kind = "==="
    /\ state' = "new"
    /\ Next1 /\ UNCHANGED <<meant, original, intact, bugs, name, old, new, additive, raised, applied, mutants>>

\* A slip: the name is left for the next block.
CloseKeepsName ==
    /\ Reading /\ state = "new" /\ Kind = ">>>"
    /\ bugs' = Append(bugs, [name |-> name, old |-> old, new |-> new, additive |-> additive])
    /\ state' = "none" /\ additive' = FALSE
    /\ Next1 /\ UNCHANGED <<meant, original, intact, name, old, new, raised, applied, mutants>>

Close ==
    /\ Reading /\ state = "new" /\ Kind = ">>>"
    /\ bugs' = Append(bugs, [name |-> name, old |-> old, new |-> new, additive |-> additive])
    /\ name' = Untitled /\ state' = "none" /\ additive' = FALSE
    /\ Next1 /\ UNCHANGED <<meant, original, intact, old, new, raised, applied, mutants>>

\* Every other line of a block is a line of its body.
Body ==
    /\ Reading
    /\ \/ state = "old" /\ Kind # "===" /\ old' = Append(old, Kind) /\ UNCHANGED new
       \/ state = "new" /\ Kind # ">>>" /\ new' = Append(new, Kind) /\ UNCHANGED old
    /\ Next1 /\ UNCHANGED <<meant, original, intact, bugs, name, state, additive, raised, applied, mutants>>

-----------------------------------------------------------------------------
(* Applying them.                                                          *)

Here(part, whole, k) == SubSeq(whole, k, k + Len(part) - 1) = part
Places(part, whole) == {k \in 1..(Len(whole) - Len(part) + 1) : Here(part, whole, k)}

\* str.count: from the left, and on behind each match.
Count(part, whole) ==
    LET from[k \in 1..(Len(whole) + Len(part) + 1)] ==
          CASE k \notin 1..(Len(whole) - Len(part) + 1) -> 0
            [] k \in Places(part, whole) -> 1 + from[k + (IF part = <<>> THEN 1 ELSE Len(part))]
            [] OTHER -> from[k + 1]
    IN  from[1]

\* What is not refused.
Applies(bug) == Count(bug.old, original) = 1 /\ bug.old # bug.new
                /\ (Places(bug.old, bug.new) = {} \/ bug.additive)

\* The substitution, of the leftmost match.
Replaced(bug) ==
    LET at == CHOOSE k \in Places(bug.old, original) : \A m \in Places(bug.old, original) : k <= m
    IN  SubSeq(original, 1, at - 1) \o bug.new
        \o SubSeq(original, at + Len(bug.old), Len(original))

\* One bug that does not apply refuses them all.
bug_mutants ==
    /\ file = <<>> /\ ~raised /\ state = "none" /\ ~applied
    /\ IF \A k \in DOMAIN bugs : Applies(bugs[k])
       THEN /\ mutants' = [k \in DOMAIN bugs |-> Replaced(bugs[k])]
            /\ applied' = TRUE /\ UNCHANGED raised
       ELSE raised' = TRUE /\ UNCHANGED <<applied, mutants>>
    /\ UNCHANGED <<meant, original, intact, file, bugs, name, state, old, new, additive>>

Over == raised \/ applied

Next == Between \/ Open \/ Raise \/ Middle \/ Close \/ Body \/ bug_mutants \/ (Over /\ UNCHANGED vars)
Spec == Init /\ [][Next]_vars

-----------------------------------------------------------------------------
\* What is read is what was written, name, bodies and flag of each bug, also
\* where a body holds lines that look like the other fences.  (parse_bug_file.)
ReadsBack == intact /\ file = <<>> => bugs = meant

\* A file with a typo makes no mutants: it is refused as a whole, and never read
\* as if it meant something else.  (parse_bug_file's errors: "An unknown flag is
\* an error rather than a shrug".)
TyposAreRefused == applied => intact

\* No mutant is the source itself, and none of a block without the flag still
\* has in its new text what it was to replace.  (bug_mutants.)
MutantsDiffer ==
    applied =>
        \A k \in DOMAIN bugs : /\ mutants[k] # original
                               /\ ~bugs[k].additive => Places(bugs[k].old, bugs[k].new) = {}
=============================================================================
