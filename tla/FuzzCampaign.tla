---------------------------- MODULE FuzzCampaign ----------------------------
(***************************************************************************)
(* The fleet of afl-fuzz processes that src/scripts/fuzz_afl.py starts:    *)
(* `run` spreads all targets over the cores at once, `sweep` gives every   *)
(* target all the cores in turn.  Both start the instances without a       *)
(* screen, wait for them to calibrate, start the one with the screen, wait *)
(* for it, and stop the fleet on the way out.  Against them work aborts at *)
(* startup, processes that cannot be started, instances that end by        *)
(* themselves, and Ctrl-C, which every process of the group receives.      *)
(*                                                                         *)
(* afl-fuzz itself is external: it calibrates or aborts, fuzzes, and saves *)
(* its queue when it is told to stop.                                      *)
(***************************************************************************)
EXTENDS Naturals, Sequences, FiniteSets, FiniteSetsExt, SequencesExt

CONSTANTS Command,        \* "run" or "sweep"
          T,              \* targets are 1..T, in the order they were named
          Topologies,     \* machines: what thread_siblings_list says of each CPU
          Unreadable,     \* that file cannot be read
          Resumed,        \* the output directories are those of an earlier session
          StartFailures,  \* bound: processes that cannot be started
          Interrupts      \* bound: Ctrl-C

\* What the constants have to satisfy.
CampaignAssumption ==
    /\ Command \in {"run", "sweep"}
    /\ {T, StartFailures, Interrupts} \subseteq Nat /\ T > 0
    /\ \A machine \in Topologies : DOMAIN machine # {} /\ IsFiniteSet(DOMAIN machine)
    /\ Resumed \in BOOLEAN

VARIABLES topology,     \* this machine: constant
          pc,           \* where the script is
          round,        \* the target a sweep is at
          next,         \* how many background instances of it have been started
          fleet,        \* the list `instances`
          proc,         \* every afl-fuzz process
          stats,        \* instances with a fuzzer_stats file
          gaveUp,       \* wait_until_started ran into STARTUP_TIMEOUT
          stopped,      \* how many of the fleet are stopped
          interrupted,  \* run's flag of that name
          exit,         \* the exit status, once it is settled
          cutShort,     \* a Ctrl-C left the stopping to the processes themselves
          spent         \* how much of each bound is used up

env == <<topology, proc, stats>>
vars == <<topology, pc, round, next, fleet, proc, stats, gaveUp, stopped, interrupted, exit,
          cutShort, spent>>

-----------------------------------------------------------------------------
(* Who runs where.                                                         *)

Sibling == {topology[c] : c \in DOMAIN topology} \ {Unreadable}

\* The lowest CPU of every group of siblings.
fuzzing_cpus ==
    SetToSortSeq({Min({c \in DOMAIN topology : topology[c] = s}) : s \in Sibling}, LAMBDA a, b : a < b)

core_count == IF fuzzing_cpus # <<>> THEN Len(fuzzing_cpus) ELSE Cardinality(DOMAIN topology)

\* How many instances a target gets.
Count == IF Command = "run" THEN Max({1, core_count \div T}) ELSE core_count

sanitized_index == IF Count > 1 THEN 1 ELSE 0

\* An instance is its target and its index; 0 is the main one.
Instances == (1..T) \X (0..(Max({Cardinality(DOMAIN m) : m \in Topologies}) - 1))

\* The CPU it is bound to, on a machine whose topology can be read.
Pin(i) ==
    LET slot == IF Command = "run" THEN (i[1] - 1) * Count + i[2] ELSE i[2]
    IN  fuzzing_cpus[(slot % Len(fuzzing_cpus)) + 1]

\* The instance that keeps the terminal.
Screen == IF Command = "run" THEN <<1, 0>> ELSE <<round, 0>>

\* The others, in the order they are started.
Background ==
    SelectSeq(SetToSortSeq((IF Command = "run" THEN 1..T ELSE {round}) \X (0..(Count - 1)),
                           LAMBDA a, b : a[1] < b[1] \/ (a[1] = b[1] /\ a[2] < b[2])),
              LAMBDA i : i # Screen)

Up == {"starting", "fuzzing"}
Live(i) == proc[i] \in Up \cup {"saving"}

TypeOK ==
    /\ topology \in Topologies
    /\ pc \in {"start", "waiting", "screen", "watching", "reaping", "stopping", "exited"}
    /\ round \in 1..T
    /\ next \in 0..Cardinality(Instances)
    /\ fleet \in Seq(Instances)
    /\ proc \in [Instances -> Up \cup {"none", "saving", "aborted", "gone"}]
    /\ stats \subseteq Instances
    /\ stopped \in 0..Len(fleet)
    /\ {gaveUp, interrupted, cutShort} \subseteq BOOLEAN
    /\ exit \in {"none", "0", "1", "130"}
    /\ spent \in [failures : 0..StartFailures, interrupts : 0..Interrupts]

Init ==
    /\ topology \in Topologies
    /\ pc = "start" /\ round = 1 /\ next = 0 /\ fleet = <<>>
    /\ proc = [i \in Instances |-> "none"]
    /\ stats = IF Resumed THEN Instances ELSE {}
    /\ stopped = 0
    /\ gaveUp = FALSE /\ interrupted = FALSE /\ cutShort = FALSE
    /\ exit = "none"
    /\ spent = [failures |-> 0, interrupts |-> 0]

-----------------------------------------------------------------------------
(* afl-fuzz.                                                               *)

Becomes(i, state) == proc' = [proc EXCEPT ![i] = state]

\* It has run the corpus once, says so in fuzzer_stats, and fuzzes.
Calibrate(i) ==
    /\ proc[i] = "starting"
    /\ Becomes(i, "fuzzing")
    /\ stats' = stats \cup {i}
    /\ UNCHANGED <<topology, pc, round, next, fleet, gaveUp, stopped, interrupted, exit, cutShort, spent>>

\* It refuses to start, or ends later on, unasked.
GiveOut(i) ==
    /\ proc[i] \in Up
    /\ Becomes(i, IF proc[i] = "starting" THEN "aborted" ELSE "gone")
    /\ UNCHANGED <<topology, pc, round, next, fleet, stats, gaveUp, stopped, interrupted, exit,
                   cutShort, spent>>

\* The queue is saved.
End(i) ==
    /\ proc[i] = "saving"
    /\ Becomes(i, "gone")
    /\ UNCHANGED <<topology, pc, round, next, fleet, stats, gaveUp, stopped, interrupted, exit,
                   cutShort, spent>>

-----------------------------------------------------------------------------
(* The script.                                                             *)

\* Popen, or opening the log, raises an OSError.
StartFails ==
    /\ spent.failures < StartFailures
    /\ spent' = [spent EXCEPT !.failures = @ + 1]
    /\ exit' = "1"

\* The next instance without a screen.  In a sweep they are built up in a
\* list of which nothing is left when one of them cannot be started.
StartNext ==
    /\ pc = "start"
    /\ next < Len(Background)
    /\ \/ /\ Becomes(Background[next + 1], "starting")
          /\ next' = next + 1
          /\ fleet' = Append(fleet, Background[next + 1])
          /\ UNCHANGED <<pc, exit, spent>>
       \/ /\ StartFails
          /\ pc' = IF Command = "run" THEN "stopping" ELSE "exited"
          /\ UNCHANGED <<proc, next, fleet>>
    /\ UNCHANGED <<topology, round, stats, gaveUp, stopped, interrupted, cutShort>>

AllStarted ==
    /\ pc = "start"
    /\ next = Len(Background)
    /\ pc' = "waiting"
    /\ UNCHANGED <<env, round, next, fleet, gaveUp, stopped, interrupted, exit, cutShort, spent>>

Started(i) == i \in stats \/ ~Live(i)

\* Every instance has started or ended, or the time is up.  With a corpse
\* among them the fleet is stopped and the script dies.
wait_until_started ==
    /\ pc = "waiting"
    /\ gaveUp' = \E i \in ToSet(fleet) : ~Started(i)
    /\ IF \E i \in ToSet(fleet) : ~Live(i)
       THEN pc' = "stopping" /\ exit' = "1"
       ELSE pc' = "screen" /\ UNCHANGED exit
    /\ UNCHANGED <<env, round, next, fleet, stopped, interrupted, cutShort, spent>>

StartScreen ==
    /\ pc = "screen"
    /\ \/ /\ Becomes(Screen, "starting")
          /\ fleet' = Append(fleet, Screen)
          /\ pc' = "watching"
          /\ UNCHANGED <<exit, spent>>
       \/ /\ StartFails
          /\ pc' = "stopping"
          /\ UNCHANGED <<proc, fleet>>
    /\ UNCHANGED <<topology, round, next, stats, gaveUp, stopped, interrupted, cutShort>>

\* A slip: what the watcher raises ends it, and nothing else.
WatcherDies ==
    /\ pc = "watching" /\ Command = "sweep"
    /\ proc[Screen] \in Up
    /\ UNCHANGED vars

\* The sweep's watcher finds the target quiet, or fails, and ends the wait.
Decide ==
    /\ pc = "watching" /\ Command = "sweep"
    /\ proc[Screen] \in Up
    /\ Becomes(Screen, "saving")
    /\ UNCHANGED <<topology, pc, round, next, fleet, stats, gaveUp, stopped, interrupted, exit,
                   cutShort, spent>>

\* The instance with the screen has ended: foreground.process.wait() returns.
\* Only run looks at its status.
ScreenEnds ==
    /\ pc \in {"watching", "reaping"}
    /\ ~Live(Screen)
    /\ pc' = "stopping"
    /\ \E status \in IF proc[Screen] = "aborted" THEN {"bad"} ELSE {"ok", "bad"} :
         exit' = IF Command = "run" /\ ~interrupted /\ status = "bad" THEN "1" ELSE exit
    /\ UNCHANGED <<env, round, next, fleet, gaveUp, stopped, interrupted, cutShort, spent>>

\* A slip: an instance that does not end within ten seconds is
\* left to itself.
StopAsked ==
    /\ pc = "stopping" /\ stopped < Len(fleet)
    /\ LET i == fleet[stopped + 1]
       IN  IF proc[i] \in Up THEN Becomes(i, "saving") /\ UNCHANGED stopped
           ELSE stopped' = stopped + 1 /\ UNCHANGED proc
    /\ UNCHANGED <<topology, pc, round, next, fleet, stats, gaveUp, interrupted, exit, cutShort, spent>>

\* Instance.stop for the next of the fleet: it is asked to end, and has ended,
\* by itself or killed after ten seconds, before the one after it is asked.
Stop ==
    /\ pc = "stopping" /\ stopped < Len(fleet)
    /\ LET i == fleet[stopped + 1]
       IN  IF proc[i] \in Up THEN Becomes(i, "saving") /\ UNCHANGED stopped
           ELSE /\ stopped' = stopped + 1
                /\ proc' = [proc EXCEPT ![i] = IF @ = "saving" THEN "gone" ELSE @]
    /\ UNCHANGED <<topology, pc, round, next, fleet, stats, gaveUp, interrupted, exit, cutShort, spent>>

\* The finally clause is through: the script leaves, or the sweep goes on.
Stopped ==
    /\ pc = "stopping" /\ stopped = Len(fleet)
    /\ IF exit = "none" /\ Command = "sweep" /\ round < T
       THEN /\ pc' = "start" /\ round' = round + 1 /\ next' = 0 /\ fleet' = <<>>
            /\ stopped' = 0 /\ gaveUp' = FALSE
            /\ UNCHANGED exit
       ELSE /\ pc' = "exited"
            /\ exit' = IF exit = "none" THEN "0" ELSE exit
            /\ UNCHANGED <<round, next, fleet, stopped, gaveUp>>
    /\ UNCHANGED <<env, interrupted, cutShort, spent>>

\* Ctrl-C.  run goes on waiting for the screen the first time; the clause that
\* stops the fleet is left where it is struck, as is a sweep's list.
Interrupt ==
    /\ pc # "exited"
    /\ spent.interrupts < Interrupts
    /\ spent' = [spent EXCEPT !.interrupts = @ + 1]
    /\ proc' = [i \in Instances |-> IF proc[i] \in Up THEN "saving" ELSE proc[i]]
    /\ CASE pc = "watching" /\ Command = "run" -> pc' = "reaping" /\ UNCHANGED <<exit, cutShort>>
         [] pc = "stopping" \/ (pc = "start" /\ Command = "sweep") ->
              pc' = "exited" /\ exit' = "130" /\ cutShort' = TRUE
         [] OTHER -> pc' = "stopping" /\ exit' = "130" /\ UNCHANGED cutShort
    /\ interrupted' = (interrupted \/ (pc = "watching" /\ Command = "run"))
    /\ UNCHANGED <<topology, round, next, fleet, stats, gaveUp, stopped>>

-----------------------------------------------------------------------------
Script == StartNext \/ AllStarted \/ wait_until_started \/ StartScreen \/ ScreenEnds \/ Stop \/ Stopped

Next ==
    \/ Script \/ Decide \/ Interrupt
    \/ \E i \in Instances : Calibrate(i) \/ GiveOut(i) \/ End(i)
    \/ pc = "exited" /\ UNCHANGED vars

\* The script runs on; the instance with the screen saves its queue in the end
\* when it is told to stop, and each target goes quiet in the end (FuzzWatch
\* shows what the watcher makes of that).  Nothing is owed by the others.
Spec == Init /\ [][Next]_vars
        /\ WF_vars(Script) /\ WF_vars(Decide) /\ \A t \in 1..T : WF_vars(End(<<t, 0>>))

-----------------------------------------------------------------------------
(* What the two commands promise.                                          *)

\* When the script has left, every process it started has ended, whichever
\* step failed; only a Ctrl-C in the cleanup itself leaves that to processes
\* which have been told to stop.  (cmd_run, sweep_one, wait_until_started.)
NothingLeftRunning ==
    pc = "exited" => \A i \in Instances : ~Live(i) \/ (cutShort /\ proc[i] = "saving")

\* Two instances share a core only when there are more targets than cores, and
\* that holds from one target of a sweep to the next.  (fuzzing_cpus.)
OneInstancePerCore ==
    fuzzing_cpus # <<>> /\ (Command = "sweep" \/ T <= core_count) =>
        \A i, j \in Instances :
            i # j /\ Live(i) /\ Live(j) => topology[Pin(i)] # topology[Pin(j)]

\* Once there is something to watch every target has had its main instance
\* started, and one instance with the sanitizers.  (afl_argv, cmd_run.)
EveryTargetIsFuzzed ==
    pc = "watching" =>
        \A t \in IF Command = "run" THEN 1..T ELSE {round} :
            \A index \in {0, sanitized_index} :
                Cardinality({k \in DOMAIN fleet : fleet[k] = <<t, index>>}) = 1

\* No one watches a fleet part of which never came up, unless it took longer
\* than STARTUP_TIMEOUT to fail: in output directories that are new.
\* (wait_until_started.)
FleetCameUp ==
    pc \in {"screen", "watching"} /\ ~gaveUp /\ ~Resumed =>
        \A k \in 1..next : proc[fleet[k]] # "aborted"

\* A user who stops the fuzzing is never told that it failed (the comment at
\* fuzz_afl.py:274).
StopIsNoFailure == pc = "exited" /\ spent.interrupts > 0 => exit # "1"

=============================================================================
