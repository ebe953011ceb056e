----------------------------- MODULE PreFilter ------------------------------
(***************************************************************************)
(* The -fsyntax-only check that rejects a mutant before it is built, from  *)
(* the build's own commands to the command that is run:                    *)
(* compile_commands_from_make and Lane._syntax_command of                  *)
(* src/scripts/mutate/mutate_core.py.                                      *)
(*                                                                         *)
(* A command is a sequence of words, and a word is what the code tells     *)
(* apart: a compiler, a wrapper, an argument of some kind, a file.         *)
(***************************************************************************)
EXTENDS Naturals, Sequences, SequencesExt, FiniteSets

CONSTANTS Commands,     \* what the build runs, in the words below
          Directories,  \* where: the build directory or another
          E             \* bound: commands of the build

\* What the constants have to satisfy.
PreFilterAssumption == E \in Nat

COMPILERS == {"cc"}
WRAPPERS == {"ccache", "sccache"}
OUTPUT_ARGS == {"-o", "-MF"}
LINK_ONLY == {"-lm"}
Flags == {"-D1", "-D2"}
Files == {"w", "x", "./x", "y"}  \* the file asked for; another, in two spellings; a third
Words == COMPILERS \cup WRAPPERS \cup OUTPUT_ARGS \cup LINK_ONLY \cup Flags \cup Files
         \cup {"-c", "-MD", "obj", "echo", "-fsyntax-only"}

Wanted == "w"

VARIABLES build,     \* the build's commands, and who runs them: constant
          phase,     \* what the lane is doing
          output,    \* what make has printed and is still to be read
          entries,   \* the compilation database
          entry,     \* the entry taken from it
          borrowed,  \* it is another file's
          swapped,   \* the other file's name was found in it
          i, out,    \* the scan of its words, and what it kept
          syntax_cmd \* the command, or <<>> for no pre-filter

vars == <<build, phase, output, entries, entry, borrowed, swapped, i, out, syntax_cmd>>

\* A command as the build system has it: a place, the words, the file it is for.
Build == [directory : Directories, command : Commands]
Resolved(file) == IF file = "./x" THEN "x" ELSE file
Entry(directory, file, command) == [directory |-> directory, file |-> file, command |-> command]

TypeOK ==
    /\ phase \in {"make", "find", "scan", "done"}
    /\ entries \in Seq([directory : Directories, file : Files, command : Seq(Words)])
    /\ {borrowed, swapped} \subseteq BOOLEAN
    /\ phase = "scan" => i \in 1..(Len(entry.command) + 1)
    /\ out \in Seq(Words) /\ syntax_cmd \in Seq(Words)

\* A generator writes the database itself, the file it is for in its own
\* spelling; make prints its commands.
SourceIn(command) == SelectInSeq(command, LAMBDA word : word \in Files)

Init ==
    /\ \E maker \in {"generator", "make"}, n \in 0..E : \E list \in [1..n -> Build] :
          /\ build = [maker |-> maker, list |-> list]
          /\ IF maker = "make"
             THEN phase = "make" /\ output = list /\ entries = <<>>
             ELSE /\ \A k \in 1..n : SourceIn(list[k].command) # 0
                  /\ phase = "find" /\ output = <<>>
                  /\ \E file \in [1..n -> {"w", "x", "y"}] :
                       /\ \A k \in 1..n : file[k] = Resolved(list[k].command[SourceIn(list[k].command)])
                       /\ entries = [k \in 1..n |-> Entry(list[k].directory, file[k], list[k].command)]
    /\ entry = <<>> /\ borrowed = FALSE /\ swapped = FALSE
    /\ i = 1 /\ out = <<>> /\ syntax_cmd = <<>>

-----------------------------------------------------------------------------
(* compile_commands_from_make.                                             *)

looks_like_compiler(word) == word \in COMPILERS

\* The words from the compiler on, if only wrappers are in front of it.
compile_argv(argv) ==
    LET at == SelectInSeq(argv, LAMBDA word : word \notin WRAPPERS)
    IN  IF at # 0 /\ looks_like_compiler(argv[at]) THEN SubSeq(argv, at, Len(argv)) ELSE <<>>

\* Places of output arguments and of the words behind them.
OutputPlaces(argv) == {k \in DOMAIN argv : argv[k] \in OUTPUT_ARGS \/ (k > 1 /\ argv[k - 1] \in OUTPUT_ARGS)}

Kept(argv) ==
    LET kept == SelectSeq([k \in DOMAIN argv |-> k], LAMBDA k : k \notin OutputPlaces(argv))
    IN  [k \in DOMAIN kept |-> argv[kept[k]]]

Sources(kept) == SelectSeq(kept, LAMBDA word : word \in Files)

\* An entry for each file of the line that has none yet.
AddLine(list, directory, argv) ==
    FoldLeft(LAMBDA made, file : IF \E e \in ToSet(made) : Resolved(e.file) = Resolved(file) THEN made
                                 ELSE Append(made, Entry(directory, file, Kept(argv))),
             list, Sources(Kept(argv)))

ReadLine ==
    /\ phase = "make" /\ output # <<>>
    /\ output' = Tail(output)
    /\ LET argv == compile_argv(Head(output).command)
       IN  entries' = IF argv = <<>> THEN entries ELSE AddLine(entries, "build", argv)
    /\ UNCHANGED <<build, phase, entry, borrowed, swapped, i, out, syntax_cmd>>

AllRead ==
    /\ phase = "make" /\ output = <<>>
    /\ phase' = "find"
    /\ UNCHANGED <<build, output, entries, entry, borrowed, swapped, i, out, syntax_cmd>>

-----------------------------------------------------------------------------
(* Lane._syntax_command.                                                   *)

Own == SelectInSeq(entries, LAMBDA e : Resolved(e.file) = Wanted)
Neighbour == SelectInSeq(entries, LAMBDA e : e.directory = "build")

\* The entry of the file, or else one of the same directory, or else none.
Find ==
    /\ phase = "find"
    /\ borrowed' = (Own = 0)
    /\ IF Own = 0 /\ Neighbour = 0 THEN phase' = "done" /\ UNCHANGED entry
       ELSE phase' = "scan" /\ entry' = entries[IF Own = 0 THEN Neighbour ELSE Own]
    /\ UNCHANGED <<build, output, entries, swapped, i, out, syntax_cmd>>

More == phase = "scan" /\ i <= Len(entry.command)
Arg == entry.command[i]

SkipOutput ==
    /\ More /\ Arg \in OUTPUT_ARGS
    /\ i' = i + 2 /\ UNCHANGED <<build, phase, output, entries, entry, borrowed, swapped, out, syntax_cmd>>

SkipLinkOnly ==
    /\ More /\ Arg \in LINK_ONLY
    /\ i' = i + 1 /\ UNCHANGED <<build, phase, output, entries, entry, borrowed, swapped, out, syntax_cmd>>

SkipAction ==
    /\ More /\ Arg \in {"-c", "-MD"}
    /\ i' = i + 1 /\ UNCHANGED <<build, phase, output, entries, entry, borrowed, swapped, out, syntax_cmd>>

\* Another file's name is exchanged for the one asked for.
Keep ==
    /\ More /\ Arg \notin OUTPUT_ARGS \cup LINK_ONLY \cup {"-c", "-MD"}
    /\ LET swap == borrowed /\ Arg = entry.file
       IN  /\ out' = Append(out, IF swap THEN Wanted ELSE Arg)
           /\ swapped' = (swapped \/ swap)
    /\ i' = i + 1
    /\ UNCHANGED <<build, phase, output, entries, entry, borrowed, syntax_cmd>>

Unwrapped == IF out # <<>> /\ out[1] = "ccache" THEN Tail(out) ELSE out

\* A slip: the check of another file than the one asked for.
FinishAnyhow ==
    /\ phase = "scan" /\ i > Len(entry.command)
    /\ syntax_cmd' = InsertAt(Unwrapped, 2, "-fsyntax-only")
    /\ phase' = "done"
    /\ UNCHANGED <<build, output, entries, entry, borrowed, swapped, i, out>>

Finish ==
    /\ phase = "scan" /\ i > Len(entry.command)
    /\ syntax_cmd' = IF borrowed /\ ~swapped THEN <<>> ELSE InsertAt(Unwrapped, 2, "-fsyntax-only")
    /\ phase' = "done"
    /\ UNCHANGED <<build, output, entries, entry, borrowed, swapped, i, out>>

Next == ReadLine \/ AllRead \/ Find \/ SkipOutput \/ SkipLinkOnly \/ SkipAction \/ Keep \/ Finish
        \/ (phase = "done" /\ UNCHANGED vars)

Spec == Init /\ [][Next]_vars

-----------------------------------------------------------------------------
\* The check is of the file asked for, also where its flags are another's:
\* never one "that always says yes" (mutate_core.py:1886).
ChecksTheFile == syntax_cmd # <<>> => \E word \in ToSet(syntax_cmd) : Resolved(word) = Wanted

\* The check writes nothing the build reads, and gives a compiler that does not
\* link nothing to link: no output argument, nor what it named, no library.
\* (OUTPUT_ARGS, LINK_ONLY.)
LeavesTheBuildAlone ==
    ToSet(syntax_cmd) \cap (OUTPUT_ARGS \cup LINK_ONLY \cup {"-c", "-MD", "obj"}) = {}

\* The flags are those of one command of the build, all of them in their order:
\* "the flags that matter here are the ones the real build uses"
\* (mutate_core.py:1824).
FlagsOf(command) == SelectSeq(command, LAMBDA word : word \in Flags)
KeepsTheFlags ==
    syntax_cmd # <<>> => \E k \in DOMAIN build.list : FlagsOf(syntax_cmd) = FlagsOf(build.list[k].command)

=============================================================================
