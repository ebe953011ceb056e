------------------------------ MODULE MCFuzz --------------------------------
(***************************************************************************)
(* src/scripts/fuzz_afl.py for TLC: the watcher of a sweep is FuzzWatch; the *)
(* processes of a run or a sweep, the staging of a corpus and its minimizing *)
(* are specifications of their own.  They share no state, and each         *)
(* behaviour is of one of them.                                            *)
(***************************************************************************)
EXTENDS FuzzWatch

\* Machines: siblings next to each other, siblings half a machine apart, no
\* hyperthreading, one CPU that cannot be read, and none that can.
Machine(first, second, third, fourth) ==
    [c \in 0..3 |-> <<first, second, third, fourth>>[c + 1]]
MCTopologies ==
    {Machine("0-1", "0-1", "2-3", "2-3"), Machine("0,2", "1,3", "0,2", "1,3"),
     Machine("0", "1", "2", "3"), Machine("0", "unreadable", "2", "3"),
     [c \in 0..1 |-> "unreadable"]}
\* A sweep has all cores for each target: two of them, or one.
FewCores == {m \in MCTopologies : m \notin {Machine("0", "1", "2", "3")}}

VARIABLE part   \* which of them a behaviour is of: constant

VARIABLES fleet_topology, fleet_pc, fleet_round, fleet_next, fleet_fleet, fleet_proc,
          fleet_stats, fleet_gaveUp, fleet_stopped, fleet_interrupted, fleet_exit,
          fleet_cutShort, fleet_spent
VARIABLES stage_holds, stage_far, stage_data, stage_dest, stage_pc, stage_at,
          stage_name, stage_failures
VARIABLES corpus_corpus, corpus_there, corpus_queue, corpus_all, corpus_cmin,
          corpus_min, corpus_tree, corpus_handed, corpus_pc, corpus_goal, corpus_best,
          corpus_stops

Together == INSTANCE FuzzCampaign WITH
          Command <- "run", T <- 2,
          Topologies <- MCTopologies, Unreadable <- "unreadable", Resumed <- FALSE,
          StartFailures <- 1, Interrupts <- 2, topology <- fleet_topology,
          pc <- fleet_pc, round <- fleet_round, next <- fleet_next,
          fleet <- fleet_fleet, proc <- fleet_proc, stats <- fleet_stats,
          gaveUp <- fleet_gaveUp, stopped <- fleet_stopped,
          interrupted <- fleet_interrupted, exit <- fleet_exit,
          cutShort <- fleet_cutShort, spent <- fleet_spent
InTurn == INSTANCE FuzzCampaign WITH
          Command <- "sweep", T <- 2,
          Topologies <- FewCores, Unreadable <- "unreadable", Resumed <- FALSE,
          StartFailures <- 0, Interrupts <- 1, topology <- fleet_topology,
          pc <- fleet_pc, round <- fleet_round, next <- fleet_next,
          fleet <- fleet_fleet, proc <- fleet_proc, stats <- fleet_stats,
          gaveUp <- fleet_gaveUp, stopped <- fleet_stopped,
          interrupted <- fleet_interrupted, exit <- fleet_exit,
          cutShort <- fleet_cutShort, spent <- fleet_spent
fleet_vars ==
    <<fleet_topology, fleet_pc, fleet_round, fleet_next, fleet_fleet,
      fleet_proc, fleet_stats, fleet_gaveUp, fleet_stopped, fleet_interrupted,
      fleet_exit, fleet_cutShort, fleet_spent>>

Across == INSTANCE StageByContent WITH
          S <- 5, K <- 2, Workers <- 2,
          Mixed <- TRUE, Failures <- 0, holds <- stage_holds, far <- stage_far,
          data <- stage_data, dest <- stage_dest, pc <- stage_pc, at <- stage_at,
          name <- stage_name, failures <- stage_failures
Within == INSTANCE StageByContent WITH
          S <- 5, K <- 2, Workers <- 2,
          Mixed <- FALSE, Failures <- 1, holds <- stage_holds, far <- stage_far,
          data <- stage_data, dest <- stage_dest, pc <- stage_pc, at <- stage_at,
          name <- stage_name, failures <- stage_failures
stage_vars ==
    <<stage_holds, stage_far, stage_data, stage_dest, stage_pc, stage_at,
      stage_name, stage_failures>>

Minimize == INSTANCE CorpusMinimize WITH
          Edges <- {"e"}, Finer <- {"f"},
          Stops <- 2, StopsReplacing <- FALSE, corpus <- corpus_corpus,
          there <- corpus_there, queue <- corpus_queue, all <- corpus_all,
          cmin <- corpus_cmin, min <- corpus_min, tree <- corpus_tree,
          handed <- corpus_handed, pc <- corpus_pc, goal <- corpus_goal,
          best <- corpus_best, stops <- corpus_stops
corpus_vars ==
    <<corpus_corpus, corpus_there, corpus_queue, corpus_all,
      corpus_cmin, corpus_min, corpus_tree, corpus_handed, corpus_pc, corpus_goal,
      corpus_best, corpus_stops>>

ASSUME Together!CampaignAssumption
ASSUME InTurn!CampaignAssumption
ASSUME Across!StageAssumption
ASSUME Within!StageAssumption
ASSUME Minimize!MinimizeAssumption

\* The variables of the other parts.
fleet_off ==
    /\ fleet_topology = "off" /\ fleet_pc = "off" /\ fleet_round = "off"
    /\ fleet_next = "off" /\ fleet_fleet = "off" /\ fleet_proc = "off"
    /\ fleet_stats = "off" /\ fleet_gaveUp = "off" /\ fleet_stopped = "off"
    /\ fleet_interrupted = "off" /\ fleet_exit = "off" /\ fleet_cutShort = "off"
    /\ fleet_spent = "off"
stage_off ==
    /\ stage_holds = "off" /\ stage_far = "off" /\ stage_data = "off"
    /\ stage_dest = "off" /\ stage_pc = "off" /\ stage_at = "off"
    /\ stage_name = "off" /\ stage_failures = "off"
corpus_off ==
    /\ corpus_corpus = "off" /\ corpus_there = "off" /\ corpus_queue = "off"
    /\ corpus_all = "off" /\ corpus_cmin = "off" /\ corpus_min = "off"
    /\ corpus_tree = "off" /\ corpus_handed = "off" /\ corpus_pc = "off"
    /\ corpus_goal = "off" /\ corpus_best = "off" /\ corpus_stops = "off"
own_off == Init

MCInit ==
    \/ part = "watch" /\ Init /\ fleet_off /\ stage_off /\ corpus_off
    \/ part = "run" /\ Together!Init /\ stage_off /\ corpus_off /\ own_off
    \/ part = "sweep" /\ InTurn!Init /\ stage_off /\ corpus_off /\ own_off
    \/ part = "across" /\ Across!Init /\ fleet_off /\ corpus_off /\ own_off
    \/ part = "within" /\ Within!Init /\ fleet_off /\ corpus_off /\ own_off
    \/ part = "minimize" /\ Minimize!Init /\ fleet_off /\ stage_off /\ own_off

MCNext ==
    /\ UNCHANGED part
    /\ \/ part = "watch" /\ Next /\ UNCHANGED <<fleet_vars, stage_vars, corpus_vars>>
       \/ part = "run" /\ Together!Next /\ UNCHANGED <<stage_vars, corpus_vars, vars>>
       \/ part = "sweep" /\ InTurn!Next /\ UNCHANGED <<stage_vars, corpus_vars, vars>>
       \/ part = "across" /\ Across!Next /\ UNCHANGED <<fleet_vars, corpus_vars, vars>>
       \/ part = "within" /\ Within!Next /\ UNCHANGED <<fleet_vars, corpus_vars, vars>>
       \/ part = "minimize" /\ Minimize!Next /\ UNCHANGED <<fleet_vars, stage_vars, vars>>

MCvars == <<part, vars, fleet_vars, stage_vars, corpus_vars>>

\* The fairness of FuzzWatch's and FuzzCampaign's specifications.
MCSpec ==
    /\ MCInit /\ [][MCNext]_MCvars
    /\ WF_vars(part = "watch" /\ Tick) /\ WF_vars(part = "watch" /\ Done)
    /\ WF_vars(part = "watch" /\ (First \/ Look \/ Judge))
    /\ WF_fleet_vars(part = "run" /\ Together!Script)
    /\ WF_fleet_vars(part = "sweep" /\ InTurn!Script)
    /\ WF_fleet_vars(part = "sweep" /\ InTurn!Decide)
    /\ \A t \in 1..2 : /\ WF_fleet_vars(part = "run" /\ Together!End(<<t, 0>>))
                       /\ WF_fleet_vars(part = "sweep" /\ InTurn!End(<<t, 0>>))

\* No process outlives the script, cores are shared only where there are too
\* few, each target is fuzzed, with sanitizers too, by a fleet that came up, and
\* who stops it is not told that it failed.  (cmd_run, cmd_sweep.)
FleetIsRun ==
    /\ part = "run" =>
          /\ Together!TypeOK /\ Together!NothingLeftRunning /\ Together!OneInstancePerCore
          /\ Together!EveryTargetIsFuzzed /\ Together!FleetCameUp /\ Together!StopIsNoFailure
    /\ part = "sweep" =>
          /\ InTurn!TypeOK /\ InTurn!NothingLeftRunning /\ InTurn!OneInstancePerCore
          /\ InTurn!EveryTargetIsFuzzed /\ InTurn!FleetCameUp /\ InTurn!StopIsNoFailure

\* A Ctrl-C ends a run; a sweep comes to its end, at every target if nothing
\* failed; and its watcher moves on, also when it raises.  (cmd_run, cmd_sweep,
\* sweep_one.)
ScriptEnds ==
    /\ (part = "watch") ~> Over
    /\ (part = "run" /\ fleet_spent.interrupts > 0) ~> (fleet_pc = "exited")
    /\ (part = "sweep") ~> (fleet_pc = "exited" /\ (fleet_exit = "0" => fleet_round = 2))

\* A staged directory has each content once, and no source is damaged; a run of
\* minimize that is stopped loses no feature unless it was replacing the corpus,
\* and one that ends has traded nothing.  (stage_by_content, cmd_minimize.)
CorporaAreKept ==
    /\ part = "across" => Across!TypeOK /\ Across!EachContentOnce
    /\ part = "within" => Within!TypeOK /\ Within!EachContentOnce /\ Within!SourcesIntact
    /\ part = "minimize" => Minimize!TypeOK /\ Minimize!StoppingLosesNothing
                            /\ Minimize!NothingTraded /\ Minimize!NinjaGetsItsFile
=============================================================================
