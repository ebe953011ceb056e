------------------------------ MODULE MCLanes -------------------------------
(***************************************************************************)
(* A lane of the mutation tool for TLC.  Its files and objects are of      *)
(* LaneReuse; what it is configured with, how a mutant is checked, which   *)
(* lines are compiled, what its tests say and the memory the lanes share   *)
(* are specifications of their own.  They share no state, and each         *)
(* behaviour is of one of them.                                            *)
(***************************************************************************)
EXTENDS LaneReuse, Sequences

Set(option, value) == [option |-> option, value |-> value]
MCPassThrough ==
    {<<>>, <<Set("debug", "true")>>, <<Set("unity", "off")>>, <<Set("sanitizer", "address")>>,
     <<Set("buildtype", "release"), Set("unity", "off")>>,
     <<Set("CXX", "clang")>>, <<Set("CXX", "clang"), Set("CC", "gcc")>>}

Fronts == {<<"cc">>, <<"ccache", "cc">>, <<"echo", "cc">>}
Inputs == {<<"w">>, <<"x">>, <<"./x">>, <<"x", "w">>}
MCCommands ==
    UNION {{front \o file \o <<"-lm", flag, "-o", "obj">>, front \o <<flag, "-c">> \o file \o <<"-MD", "-MF", "obj">>} :
              front \in Fronts, file \in Inputs, flag \in {"-D1", "-D2"}}

CONSTANT Unsaid

\* The units that include the target are in a directory of their own.
MCDir == [f \in Files |-> IF f \in Including THEN "apart" ELSE "src"]

Mach(c, t, s) == [cores |-> c, total |-> t, scopes |-> s]
MCMachines == {Mach(c, t, s) : c \in {1, 2, 4}, t \in {0, 20, 80}, s \in BOOLEAN}
MCRequests ==
    {[lanes |-> 3, jobs |-> j, limit |-> m, filter |-> f] :
        j \in {Unsaid, 3}, m \in {Unsaid, 0, 1, 2, 3, 12}, f \in BOOLEAN}
MCRooms == {[kept |-> k, free |-> f] : k \in {0, 2}, f \in {2, 4}}

VARIABLE part   \* which of them a behaviour is of: constant

VARIABLES config_backend, config_unity, config_suppressions, config_request,
          config_runs, config_phase, config_printed, config_lane, config_env
VARIABLES filter_build, filter_phase, filter_output, filter_entries, filter_entry,
          filter_borrowed, filter_swapped, filter_i, filter_out, filter_syntax_cmd
VARIABLES lines_source, lines_at, lines_next, lines_stdout, lines_r, lines_current,
          lines_lineno, lines_lines, lines_dropped
VARIABLES suite_runner, suite_fate, suite_filtered, suite_k, suite_stdout,
          suite_stderr, suite_status, suite_r, suite_current, suite_failing,
          suite_answer
VARIABLES budget_machine, budget_request, budget_wanted, budget_room, budget_phase,
          budget_lanes, budget_jobs, budget_limit, budget_note, budget_child,
          budget_killed

Config == INSTANCE LaneConfig WITH
          Backends <- {"meson", "cmake", "make"},
          PassThrough <- MCPassThrough, Exported <- {"CXX", "UBSAN_OPTIONS"},
          Reuses <- BOOLEAN, Runs <- 2, backend <- config_backend,
          unity <- config_unity, suppressions <- config_suppressions,
          request <- config_request, runs <- config_runs, phase <- config_phase,
          printed <- config_printed, lane <- config_lane, env <- config_env
config_vars ==
    <<config_backend, config_unity, config_suppressions, config_request,
      config_runs, config_phase, config_printed, config_lane, config_env>>

Filter == INSTANCE PreFilter WITH
          Commands <- MCCommands,
          Directories <- {"build", "sub"}, E <- 2, build <- filter_build,
          phase <- filter_phase, output <- filter_output, entries <- filter_entries,
          entry <- filter_entry, borrowed <- filter_borrowed,
          swapped <- filter_swapped, i <- filter_i, out <- filter_out,
          syntax_cmd <- filter_syntax_cmd
filter_vars ==
    <<filter_build, filter_phase, filter_output, filter_entries,
      filter_entry, filter_borrowed, filter_swapped, filter_i, filter_out,
      filter_syntax_cmd>>

Lines == INSTANCE CompiledLines WITH
          K <- 6,
          Kinds <- {"text", "out", "call", "more", "include"}, Gap <- 1,
          source <- lines_source, at <- lines_at, next <- lines_next,
          stdout <- lines_stdout, r <- lines_r, current <- lines_current,
          lineno <- lines_lineno, lines <- lines_lines, dropped <- lines_dropped
lines_vars ==
    <<lines_source, lines_at, lines_next, lines_stdout, lines_r,
      lines_current, lines_lineno, lines_lines, lines_dropped>>

Suite == INSTANCE SuiteOutput WITH
          C <- 4,
          Fates <- {"quiet", "talks", "shouts", "fails", "dies", "sanitized"},
          runner <- suite_runner, fate <- suite_fate, filtered <- suite_filtered,
          k <- suite_k, stdout <- suite_stdout, stderr <- suite_stderr,
          status <- suite_status, r <- suite_r, current <- suite_current,
          failing <- suite_failing, answer <- suite_answer
suite_vars ==
    <<suite_runner, suite_fate, suite_filtered, suite_k, suite_stdout,
      suite_stderr, suite_status, suite_r, suite_current, suite_failing, suite_answer>>

Budget == INSTANCE MemoryBudget WITH
          Machines <- MCMachines,
          Requests <- MCRequests, Unsaid <- Unsaid, Wanted <- {1, 3}, Rooms <- MCRooms,
          LaneBytes <- 2, SuiteTakes <- 2, UnitTakes <- 3, Runaway <- 200, machine <- budget_machine,
          request <- budget_request, wanted <- budget_wanted, room <- budget_room,
          phase <- budget_phase, lanes <- budget_lanes, jobs <- budget_jobs,
          limit <- budget_limit, note <- budget_note, child <- budget_child,
          killed <- budget_killed
budget_vars ==
    <<budget_machine, budget_request, budget_wanted, budget_room,
      budget_phase, budget_lanes, budget_jobs, budget_limit, budget_note, budget_child,
      budget_killed>>

ASSUME Config!ConfigAssumption
ASSUME Filter!PreFilterAssumption
ASSUME Lines!LinesAssumption
ASSUME Suite!SuiteAssumption
ASSUME Budget!BudgetAssumption

\* The variables of the other parts.
config_off ==
    /\ config_backend = "off" /\ config_unity = "off" /\ config_suppressions = "off"
    /\ config_request = "off" /\ config_runs = "off" /\ config_phase = "off"
    /\ config_printed = "off" /\ config_lane = "off" /\ config_env = "off"
filter_off ==
    /\ filter_build = "off" /\ filter_phase = "off" /\ filter_output = "off"
    /\ filter_entries = "off" /\ filter_entry = "off" /\ filter_borrowed = "off"
    /\ filter_swapped = "off" /\ filter_i = "off" /\ filter_out = "off"
    /\ filter_syntax_cmd = "off"
lines_off ==
    /\ lines_source = "off" /\ lines_at = "off" /\ lines_next = "off"
    /\ lines_stdout = "off" /\ lines_r = "off" /\ lines_current = "off"
    /\ lines_lineno = "off" /\ lines_lines = "off" /\ lines_dropped = "off"
suite_off ==
    /\ suite_runner = "off" /\ suite_fate = "off" /\ suite_filtered = "off"
    /\ suite_k = "off" /\ suite_stdout = "off" /\ suite_stderr = "off"
    /\ suite_status = "off" /\ suite_r = "off" /\ suite_current = "off"
    /\ suite_failing = "off" /\ suite_answer = "off"
budget_off ==
    /\ budget_machine = "off" /\ budget_request = "off" /\ budget_wanted = "off"
    /\ budget_room = "off" /\ budget_phase = "off" /\ budget_lanes = "off"
    /\ budget_jobs = "off" /\ budget_limit = "off" /\ budget_note = "off"
    /\ budget_child = "off" /\ budget_killed = "off"
own_off == Init /\ repo = [f \in Files |-> CHOOSE t \in Texts : TRUE]

MCInit ==
    \/ /\ part = "lane" /\ Init
       /\ config_off /\ filter_off /\ lines_off /\ suite_off /\ budget_off
    \/ /\ part = "config" /\ Config!Init
       /\ filter_off /\ lines_off /\ suite_off /\ budget_off /\ own_off
    \/ /\ part = "filter" /\ Filter!Init
       /\ config_off /\ lines_off /\ suite_off /\ budget_off /\ own_off
    \/ /\ part = "lines" /\ Lines!Init
       /\ config_off /\ filter_off /\ suite_off /\ budget_off /\ own_off
    \/ /\ part = "suite" /\ Suite!Init
       /\ config_off /\ filter_off /\ lines_off /\ budget_off /\ own_off
    \/ /\ part = "budget" /\ Budget!Init
       /\ config_off /\ filter_off /\ lines_off /\ suite_off /\ own_off

MCNext ==
    /\ UNCHANGED part
    /\ \/ /\ part = "lane" /\ Next
          /\ UNCHANGED <<config_vars, filter_vars, lines_vars, suite_vars, budget_vars>>
       \/ /\ part = "config" /\ Config!Next
          /\ UNCHANGED <<filter_vars, lines_vars, suite_vars, budget_vars, vars>>
       \/ /\ part = "filter" /\ Filter!Next
          /\ UNCHANGED <<config_vars, lines_vars, suite_vars, budget_vars, vars>>
       \/ /\ part = "lines" /\ Lines!Next
          /\ UNCHANGED <<config_vars, filter_vars, suite_vars, budget_vars, vars>>
       \/ /\ part = "suite" /\ Suite!Next
          /\ UNCHANGED <<config_vars, filter_vars, lines_vars, budget_vars, vars>>
       \/ /\ part = "budget" /\ Budget!Next
          /\ UNCHANGED <<config_vars, filter_vars, lines_vars, suite_vars, vars>>

MCvars == <<part, vars, config_vars, filter_vars, lines_vars, suite_vars, budget_vars>>
MCSpec == MCInit /\ [][MCNext]_MCvars

\* A lane is built with what was asked for, a new one is what the fingerprint
\* says, and a UBSan report ends its tests unless the caller has said otherwise,
\* whatever earlier runs have left behind.  (setup_args, fingerprint, Lane.)
LanesAreAsAsked ==
    part = "config" => Config!TypeOK /\ Config!BuiltAsAsked /\ Config!FreshLaneIsAsPrinted
                                     /\ Config!HaltsUnlessTold

\* The syntax check is of the file asked for, with all flags of one command of
\* the build, and writes nothing.  (syntax_command.)
FilterChecksTheFile ==
    part = "filter" => Filter!TypeOK /\ Filter!ChecksTheFile /\ Filter!KeepsTheFlags
                                     /\ Filter!LeavesTheBuildAlone

\* Mutants on lines that are compiled stay, those of a long branch that is not
\* go, and no answer is no reason to drop any.  (compiled_lines, drop_uncompiled.)
CompiledLinesStay ==
    part = "lines" => Lines!TypeOK /\ Lines!PrintedAreKept /\ Lines!LongBranchesGo
                                   /\ Lines!SilenceIsNoAnswer

\* No case that fails or dies leaves an answer that says "survived", each that
\* failed is named, and a green run ran something.  (parse_output, count_cases.)
KillsAreSeen ==
    part = "suite" => Suite!TypeOK /\ Suite!EveryKillIsSeen /\ Suite!FailedAreNamed
                                   /\ Suite!GreenRanSomething

\* Children that need no more than is honest are not stopped at a cap, but for a
\* syntax check under a --memory-limit it does not fit in; and with the defaults
\* runaway mutants of all lanes do not take the machine with them.
\* (plan, default_memory_limit, build_memory_limit, Lane._run.)
LanesKeepToTheirShare ==
    part = "budget" => Budget!TypeOK /\ Budget!HonestChildrenFit /\ Budget!MachineHolds
=============================================================================
