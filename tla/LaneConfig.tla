----------------------------- MODULE LaneConfig -----------------------------
(***************************************************************************)
(* What a lane is built and run with, and what the run says of it: the     *)
(* backends' arguments, the lane's environment and the fingerprint of      *)
(* src/scripts/mutate/mutate_core.py, over several runs that may keep      *)
(* their lanes.                                                            *)
(*                                                                         *)
(* The build systems are external.  meson and cmake remember in the build  *)
(* directory what they were configured with: an option named again is set  *)
(* again, one that is not named stays, and so does the compiler.  Of two   *)
(* values on one command line the last one holds.  make remembers nothing. *)
(***************************************************************************)
EXTENDS Naturals, Sequences, SequencesExt, FiniteSets

CONSTANTS Backends,     \* which of meson, cmake, make
          PassThrough,  \* what may be passed with --meson-arg and its like
          Exported,     \* what the caller may have exported
          Reuses,       \* may --reuse be given
          Runs          \* bound: runs

\* What the constants have to satisfy.
ConfigAssumption ==
    /\ Backends \subseteq {"meson", "cmake", "make"}
    /\ Exported \subseteq {"CXX", "UBSAN_OPTIONS"}
    /\ Reuses \subseteq BOOLEAN
    /\ Runs \in Nat \ {0}

Set(option, value) == [option |-> option, value |-> value]

VARIABLES backend, unity, suppressions,   \* the project: constant
          request,          \* this run's command line and environment
          runs,             \* runs begun
          phase,            \* how far this one is
          printed,          \* its fingerprint
          lane,             \* the lane's build directory
          env               \* the lane's environment

vars == <<backend, unity, suppressions, request, runs, phase, printed, lane, env>>

Options == {"buildtype", "debug", "unity", "sanitizer"}
Values == {"debug", "release", "true", "false", "on", "off", "none", "address"}
Requests == [pass : PassThrough, exported : SUBSET Exported, reuse : Reuses]

\* What a build directory has before anything is said.
Default == [buildtype |-> "debug", debug |-> "true", unity |-> "off", sanitizer |-> "none"]

Absent == [there |-> FALSE, options |-> Default, compiler |-> "c++"]

TypeOK ==
    /\ request \in Requests /\ runs \in 0..Runs
    /\ phase \in {"over", "begun", "said", "placed", "configured"}
    /\ printed.sanitizer \in Values \cup {"unknown"} /\ printed.compiler \in {"c++", "clang", "gcc"}
    /\ lane.there \in BOOLEAN /\ lane.compiler \in {"c++", "clang", "gcc"}
    /\ lane.options \in [Options -> Values]
    /\ env \in SUBSET {"halt_on_error", "suppressions"}

Init ==
    /\ backend \in Backends
    /\ suppressions \in BOOLEAN
    /\ unity \in (IF backend = "meson" THEN BOOLEAN ELSE {FALSE})
    /\ request \in Requests
    /\ runs = 0 /\ phase = "over"
    /\ printed = [sanitizer |-> "unknown", compiler |-> "c++"]
    /\ lane = Absent /\ env = {}

-----------------------------------------------------------------------------
(* The backends.                                                           *)

\* What --meson-arg and its like set; make's variables are no options.
Passed == SelectSeq(request.pass, LAMBDA s : s.option \in Options)
Names(option) == \E s \in ToSet(Passed) : s.option = option

\* MesonBackend.setup_args: what is always said, what is said unless the caller
\* says otherwise, and then what the caller says.
MesonArgs ==
    <<Set("buildtype", "debug")>>
    \o (IF Names("debug") THEN <<>> ELSE <<Set("debug", "false")>>)
    \o (IF unity /\ ~Names("unity") THEN <<Set("unity", "on")>> ELSE <<>>)
    \o Passed

\* A slip: the defaults come last.
CallerFirst ==
    CASE backend = "meson" -> Passed \o <<Set("buildtype", "debug"), Set("debug", "false")>>
      [] backend = "cmake" -> <<Set("buildtype", "debug")>> \o Passed
      [] OTHER -> <<>>

setup_args ==
    CASE backend = "meson" -> MesonArgs
      [] backend = "cmake" -> <<Set("buildtype", "debug")>> \o Passed
      [] OTHER -> <<>>

Applied(options, args) == FoldLeft(LAMBDA made, s : [made EXCEPT ![s.option] = s.value], options, args)

\* Backend.sanitizer: meson's option has one spelling, the others' is not known.
sanitizer ==
    IF backend # "meson" THEN "unknown"
    ELSE LET at == SelectInSeq(setup_args, LAMBDA s : s.option = "sanitizer")
         IN  IF at = 0 THEN "none" ELSE setup_args[at].value

Environment == IF "CXX" \in request.exported THEN "clang" ELSE "c++"

\* The last value of a variable on make's command line.
LastOf(names, otherwise) ==
    LET at == SelectLastInSeq(request.pass, LAMBDA s : s.option \in names)
    IN  IF at = 0 THEN otherwise ELSE request.pass[at].value

\* Backend.compiler, of a C++ project: make looks for any of its variables.
compiler == IF backend = "make" THEN LastOf({"CC", "CXX"}, Environment) ELSE Environment

-----------------------------------------------------------------------------
(* A run.                                                                  *)

Begin ==
    /\ phase = "over" /\ runs < Runs
    /\ request' \in {q \in Requests : backend = "make" \/ \A s \in ToSet(q.pass) : s.option \in Options}
    /\ runs' = runs + 1 /\ phase' = "begun"
    /\ UNCHANGED <<backend, unity, suppressions, printed, lane, env>>

fingerprint ==
    /\ phase = "begun"
    /\ printed' = [sanitizer |-> sanitizer, compiler |-> compiler]
    /\ phase' = "said"
    /\ UNCHANGED <<backend, unity, suppressions, request, runs, lane, env>>

\* lanes_for clears a workdir it is given, unless the lanes are to be reused.
lanes_for ==
    /\ phase = "said"
    /\ lane' = IF request.reuse THEN lane ELSE Absent
    /\ phase' = "placed"
    /\ UNCHANGED <<backend, unity, suppressions, request, runs, printed, env>>

\* Lane.__init__: what the caller has exported stays.
UbsanOptions ==
    IF "UBSAN_OPTIONS" \in request.exported THEN {}
    ELSE {"halt_on_error"} \cup (IF suppressions THEN {"suppressions"} ELSE {})

\* Lane.setup: a directory that is there is synced and configured again, in
\* place; one that is not is made and configured with the compiler of the
\* environment.  It may fail.
Configure ==
    /\ phase = "placed"
    /\ env' = UbsanOptions
    /\ lane' = IF backend = "make" THEN [Absent EXCEPT !.there = TRUE]
               ELSE [there |-> TRUE,
                     options |-> Applied(lane.options, setup_args),
                     compiler |-> IF lane.there THEN lane.compiler ELSE Environment]
    /\ phase' = "configured"
    /\ UNCHANGED <<backend, unity, suppressions, request, runs, printed>>

\* What the lane's next build is made with: make's variables are on its line.
Compiler == IF backend = "make" THEN LastOf({"CXX"}, Environment) ELSE lane.compiler

\* The run ends, or is refused or stopped before it ends.
End ==
    /\ phase # "over"
    /\ lane' = IF request.reuse THEN lane ELSE Absent
    /\ phase' = "over"
    /\ UNCHANGED <<backend, unity, suppressions, request, runs, printed, env>>

\* The tool is killed, and cleans up nothing.
Killed ==
    /\ phase # "over"
    /\ phase' = "over"
    /\ UNCHANGED <<backend, unity, suppressions, request, runs, printed, lane, env>>

Next == Begin \/ fingerprint \/ lanes_for \/ Configure \/ End \/ Killed
        \/ (phase = "over" /\ runs = Runs /\ UNCHANGED vars)
Spec == Init /\ [][Next]_vars

-----------------------------------------------------------------------------
Scoring == phase = "configured"

\* What a run asks for with an option is what its lanes are built with, and
\* without one the debug information is off and units are merged where the
\* project allows it, whatever earlier runs left in the lane.
BuiltAsAsked ==
    Scoring /\ backend = "meson" =>
        /\ \A option \in Options : Names(option) =>
              lane.options[option] = Last(SelectSeq(Passed, LAMBDA s : s.option = option)).value
        /\ ~Names("debug") => lane.options.debug = "false"
        /\ unity /\ ~Names("unity") => lane.options.unity = "on"

\* Without --reuse the fingerprint says what the lanes are built with.
FreshLaneIsAsPrinted ==
    Scoring /\ ~request.reuse /\ backend # "make" =>
        /\ printed.compiler = Compiler
        /\ printed.sanitizer \in {"unknown", lane.options.sanitizer}

\* A UBSan report ends the tests, unless the caller has said otherwise.
HaltsUnlessTold == Scoring => "halt_on_error" \in env \/ "UBSAN_OPTIONS" \in request.exported

=============================================================================
