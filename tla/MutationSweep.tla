--------------------------- MODULE MutationSweep ---------------------------
(***************************************************************************)
(* One run of the mutation tool, src/scripts/mutate/mutate_core.py.        *)
(*                                                                         *)
(* The main thread copies the tree into lanes, asks whether the file to be *)
(* mutated reaches the test binary at all (the #error probe), insists on a *)
(* green suite, drops the mutants the preprocessor removes, and then waits *)
(* for one worker thread per lane.  The workers share a queue: each takes  *)
(* a mutant, writes it over the target in its lane, checks its syntax,     *)
(* builds, runs the tests, and records one verdict.  After the join the    *)
(* lanes are deleted and the results are reported in the mutants' order.   *)
(*                                                                         *)
(* What compilers and tests do is nondeterminism settled at the start: a   *)
(* mutant has a fate, and a verdict is right when it is the fate's.  The   *)
(* faults are builds that time out, compilers that outlive the ninja they  *)
(* were started by, Ctrl-C at any moment, and exceptions of the tool.      *)
(***************************************************************************)
EXTENDS Naturals, Sequences, FiniteSets, SequencesExt

CONSTANTS N,                 \* mutants are 1..N, in the order they were collected
          L,                 \* lanes are 0..L-1; the baseline runs in lane 0
          BaselineRuns,      \* --baseline-runs
          Timeouts,          \* bound: builds that run into --build-timeout
          Interrupts,        \* bound: Ctrl-C
          Failures           \* bound: exceptions the tool itself raises

ASSUME SweepAssumption ==
    /\ N \in Nat \ {0}
    /\ L \in 1..N            \* plan() starts no more lanes than mutants
    /\ {BaselineRuns, Timeouts, Interrupts, Failures} \subseteq Nat

Mutants == 1..N
Lanes == 0..(L - 1)
Tree == 0                    \* the text of the working tree
Probe == N + 1               \* that text with an #error appended
Nothing == N + 2             \* no object, no binary, no compiler
Texts == {Tree, Probe} \cup Mutants

\* What building and testing a text comes to.  "glutton" needs more memory
\* than the cap while it compiles, "eats" while it is tested.
Fates == {"refused", "glutton", "breaks", "hangs", "eats", "passes"}
Suites == {"green", "flaky", "red", "empty", "unbuildable"}
Verdicts == {"caught", "compiler", "hang", "oom", "survived", "error"}

\* How a child process ended: exit 0, another exit status, stopped at the
\* memory cap, or not at all before its timeout.
Outcomes == {"ok", "bad", "killed", "none"}

VARIABLES given,       \* what the run finds and was asked: constant
          phase,       \* where the main thread is
          pc,          \* where each lane's thread is
          job,         \* the mutant each worker has in hand
          verdict,     \* what it has concluded, before it is recorded
          text,        \* the target file of each lane
          object,      \* the text each lane's object was compiled from
          binary,      \* the text each lane's test binary was linked from
          orphan,      \* a compiler left behind by a killed build
          dir,         \* each lane's directory
          greens,      \* green baseline runs so far
          probed,      \* the probe came to an answer
          pending,     \* the queue
          results,     \* what workers appended, in that order
          reported,    \* what main printed
          exit,        \* the exit status, once it is settled
          clearing,    \* lanes clear_lanes still has to delete, and passes left
          spent,       \* how much of each bound is used up
          cutShort     \* a Ctrl-C stopped the deletion itself

mainVars == <<phase, greens, probed, exit, reported, clearing, cutShort>>
laneVars == <<text, object, binary, orphan, dir>>
workVars == <<pc, job, verdict>>
vars == <<given, mainVars, laneVars, workVars, pending, results, spent>>

NoVerdict == "undecided"
Result == [mutant : Mutants, verdict : Verdicts, timedOut : BOOLEAN]
Phases == {"lanes", "probe", "probeBuild", "baselineBuild", "baseline", "drop",
           "sweep", "join", "clear", "clearing", "report", "exited"}
Steps == {"setup", "ready", "refused", "crashed", "idle", "write", "check",
          "compile", "link", "test", "record", "left"}

\* outlives: a compiler goes on when the ninja that started it is killed.
Givens == [fate : [Mutants -> Fates], unseen : SUBSET Mutants, suite : Suites,
           reaches : BOOLEAN, quick : BOOLEAN, outlives : BOOLEAN,
           mode : {"ours", "named", "reuse"}]

TypeOK ==
    /\ given \in Givens
    /\ phase \in Phases
    /\ pc \in [Lanes -> Steps]
    /\ job \in [Lanes -> {Tree} \cup Mutants]
    /\ verdict \in [Lanes -> Verdicts \cup {NoVerdict, "timeout"}]
    /\ text \in [Lanes -> Texts]
    /\ {object, binary, orphan} \subseteq [Lanes -> Texts \cup {Nothing}]
    /\ dir \in [Lanes -> {"absent", "present", "emptying", "refilled"}]
    /\ greens \in 0..BaselineRuns
    /\ probed \in BOOLEAN
    /\ pending \in Seq(Mutants) /\ results \in Seq(Result) /\ reported \in Seq(Result)
    /\ exit \in {"none", "0", "1", "2", "130"}
    /\ clearing \in [lanes : SUBSET Lanes, passes : 0..2]
    /\ spent \in [timeouts : 0..Timeouts, interrupts : 0..Interrupts, failures : 0..Failures]
    /\ cutShort \in BOOLEAN

\* A mutant the preprocessor removes is compiled into nothing, so it can do
\* nothing; a tree whose suite is green is one that builds.
Init ==
    /\ given \in Givens
    /\ \A m \in given.unseen : given.fate[m] = "passes"
    /\ phase = "lanes"
    /\ pc = [l \in Lanes |-> "setup"]
    /\ job = [l \in Lanes |-> Tree]
    /\ verdict = [l \in Lanes |-> NoVerdict]
    /\ text = [l \in Lanes |-> Tree]
    /\ object = [l \in Lanes |-> Nothing]
    /\ binary = [l \in Lanes |-> Nothing]
    /\ orphan = [l \in Lanes |-> Nothing]
    /\ dir = [l \in Lanes |-> "absent"]
    /\ greens = 0
    /\ probed = FALSE
    /\ pending = <<>> /\ results = <<>> /\ reported = <<>>
    /\ exit = "none"
    /\ clearing = [lanes |-> {}, passes |-> 0]
    /\ spent = [timeouts |-> 0, interrupts |-> 0, failures |-> 0]
    /\ cutShort = FALSE

-----------------------------------------------------------------------------
(* Children: what a compiler and the tests do to a text.                   *)

Fate(t) == IF t \in Mutants THEN given.fate[t]
           ELSE IF t = Probe \/ given.suite = "unbuildable" THEN "refused"
           ELSE "passes"

\* A file the binary is not made of compiles to the same thing whatever it says.
Seen(t) == IF given.reaches THEN t ELSE Tree

Compiling(t) ==
    CASE Fate(Seen(t)) = "refused" -> "bad"
      [] Fate(Seen(t)) = "glutton" -> "killed"
      [] OTHER -> "ok"

Testing(t) ==
    CASE Fate(Seen(t)) = "breaks" -> {"bad"}
      [] Fate(Seen(t)) = "hangs" -> {"none"}
      [] Fate(Seen(t)) = "eats" -> {"killed"}
      [] OTHER -> {"ok"} \cup IF given.suite = "flaky" THEN {"bad"} ELSE {}

-----------------------------------------------------------------------------
(* Reading a child's end as a verdict.                                     *)

killed_for_memory(outcome) == outcome = "killed"

\* A slip: the exit status is read before the memory cap is
\* asked about, so a stopped build looks like one that failed.
StatusFirst(outcome) ==
    CASE outcome \in {"none", "bad", "killed"} -> "compiler"
      [] OTHER -> NoVerdict

\* The verdict a compile ends in, if it ends the evaluation.
CompileVerdict(outcome) ==
    CASE killed_for_memory(outcome) -> "oom"
      [] outcome \in {"none", "bad"} -> "compiler"
      [] OTHER -> NoVerdict

TestVerdict(outcome) ==
    CASE outcome = "none" -> "hang"
      [] killed_for_memory(outcome) -> "oom"
      [] outcome = "bad" -> "caught"
      [] outcome = "ok" -> "survived"

-----------------------------------------------------------------------------
(* The main thread.                                                        *)

\* An exception on its way out of the `with`, or its end: the finally clause
\* deletes the lanes unless they are kept for the next run.
LeaveLanes(status) ==
    /\ phase' = IF given.mode # "reuse" THEN "clear"
                ELSE IF status = "none" THEN "report" ELSE "exited"
    /\ exit' = status

\* Lane.setup of one lane, in the thread pool: the tree is copied (or synced)
\* and configured.  A configure step that fails is a RuntimeError, a copy that
\* fails is an OSError.
Setup(l) ==
    /\ phase \in {"lanes", "join", "clear", "clearing", "exited"}
    /\ pc[l] = "setup"
    /\ dir' = [dir EXCEPT ![l] = "present"]
    /\ \/ pc' = [pc EXCEPT ![l] = "ready"] /\ UNCHANGED spent
       \/ /\ spent.failures < Failures
          /\ spent' = [spent EXCEPT !.failures = @ + 1]
          /\ \E end \in {"refused", "crashed"} : pc' = [pc EXCEPT ![l] = end]
    /\ UNCHANGED <<given, mainVars, text, object, binary, orphan, job, verdict, pending, results>>

\* All lanes are set up, or one raised; pool.map hands out the first lane's
\* exception.  Only a RuntimeError is turned into exit status 2.
LanesUp ==
    /\ phase = "lanes"
    /\ \A l \in Lanes : pc[l] # "setup"
    /\ LET broken == {l \in Lanes : pc[l] # "ready"}
           first == CHOOSE l \in broken : \A k \in broken : l <= k
       IN  IF broken = {} THEN phase' = "probe" /\ UNCHANGED exit
           ELSE LeaveLanes(IF pc[first] = "refused" THEN "2" ELSE "1")
    /\ UNCHANGED <<given, greens, probed, reported, clearing, cutShort, laneVars, workVars,
                   pending, results, spent>>

\* check_target_is_built: the file is written with an #error appended, ...
WriteProbe ==
    /\ phase = "probe"
    /\ phase' = "probeBuild"
    /\ text' = [text EXCEPT ![0] = Probe]
    /\ UNCHANGED <<given, greens, probed, exit, reported, clearing, cutShort, object, binary,
                   orphan, dir, workVars, pending, results, spent>>

\* What the finally clause of the probe puts back.
Restored == [text EXCEPT ![0] = Tree]

\* ... built, and put back whatever the build said.  A build that succeeds
\* means the binary is not made of this file; a timeout says nothing.
BuildProbe ==
    /\ phase = "probeBuild"
    /\ text' = Restored
    /\ \/ /\ Compiling(Probe) = "bad" /\ probed' = TRUE
          /\ phase' = "baselineBuild"
          /\ UNCHANGED <<exit, object, binary, spent>>
       \/ /\ Compiling(Probe) = "ok" /\ probed' = TRUE
          /\ object' = [object EXCEPT ![0] = Probe]
          /\ binary' = [binary EXCEPT ![0] = Probe]
          /\ LeaveLanes("2") /\ UNCHANGED spent
       \/ /\ spent.timeouts < Timeouts
          /\ spent' = [spent EXCEPT !.timeouts = @ + 1]
          /\ phase' = "baselineBuild"
          /\ UNCHANGED <<probed, exit, object, binary>>
    /\ UNCHANGED <<given, greens, reported, clearing, cutShort, orphan, dir, workVars, pending,
                   results>>

\* baseline: build what is in lane 0, or refuse to go on.
BuildBaseline ==
    /\ phase = "baselineBuild"
    /\ \/ /\ Compiling(text[0]) = "ok"
          /\ object' = [object EXCEPT ![0] = text[0]]
          /\ binary' = [binary EXCEPT ![0] = text[0]]
          /\ phase' = "baseline"
          /\ UNCHANGED <<exit, spent>>
       \/ /\ Compiling(text[0]) # "ok"
          /\ LeaveLanes("2")
          /\ UNCHANGED <<object, binary, spent>>
       \/ /\ spent.timeouts < Timeouts
          /\ spent' = [spent EXCEPT !.timeouts = @ + 1]
          /\ LeaveLanes("2")
          /\ UNCHANGED <<object, binary>>
    /\ UNCHANGED <<given, greens, probed, reported, clearing, cutShort, text, orphan, dir, workVars,
                   pending, results>>

\* A slip: the count of cases is not asked for, so a suite that
\* runs none is green.
EmptyPasses == CASE given.suite \in {"green", "empty"} -> {"ok"}
                 [] given.suite = "flaky" -> {"ok", "bad"}
                 [] OTHER -> {"bad"}

\* How a run of the unmutated suite ends.
SuiteRun == CASE given.suite = "green" -> {"ok"}
              [] given.suite = "flaky" -> {"ok", "bad"}
              [] given.suite = "empty" -> {"empty"}
              [] OTHER -> {"bad"}

\* One of the baseline's runs; a failure, or a run of no test case, refuses.
RunBaseline ==
    /\ phase = "baseline"
    /\ IF greens = BaselineRuns THEN phase' = "drop" /\ UNCHANGED <<greens, exit>>
       ELSE \E end \in SuiteRun :
              IF end = "ok" THEN greens' = greens + 1 /\ UNCHANGED <<phase, exit>>
              ELSE LeaveLanes("2") /\ UNCHANGED greens
    /\ UNCHANGED <<given, probed, reported, clearing, cutShort, laneVars, workVars, pending, results,
                   spent>>

\* The mutants on lines this build compiles.
Compiled ==
    LET kept == Mutants \ given.unseen
    IN  CHOOSE s \in [1..Cardinality(kept) -> kept] :
          \A i, j \in DOMAIN s : i < j => s[i] < s[j]

\* drop_uncompiled, which asks the compiler only when there is a pre-filter to
\* take the command from and it answers; then the workers start.
Drop ==
    /\ phase = "drop"
    /\ \E kept \in {[i \in Mutants |-> i]} \cup IF given.quick THEN {Compiled} ELSE {} :
         IF kept = <<>> THEN LeaveLanes("0") /\ UNCHANGED <<pending, pc>>
         ELSE /\ phase' = "sweep"
              /\ pending' = kept
              /\ pc' = [l \in Lanes |-> "idle"]
              /\ UNCHANGED exit
    /\ UNCHANGED <<given, greens, probed, reported, clearing, cutShort, laneVars, job, verdict,
                   results, spent>>

\* The pool's threads have all come back: main leaves the sweep.
SweepOver ==
    /\ phase = "sweep"
    /\ \A l \in Lanes : pc[l] = "left"
    /\ LeaveLanes("none")
    /\ UNCHANGED <<given, greens, probed, reported, clearing, cutShort, laneVars, workVars, pending,
                   results, spent>>

\* After a Ctrl-C the executor still waits for its threads.
Joined ==
    /\ phase = "join"
    /\ \A l \in Lanes : pc[l] \in {"left", "ready", "refused", "crashed"}
    /\ LeaveLanes("130")
    /\ UNCHANGED <<given, greens, probed, reported, clearing, cutShort, laneVars, workVars, pending,
                   results, spent>>

\* A slip: the lanes are those that are done being set up.
ListReadyLanes ==
    /\ phase = "clear"
    /\ phase' = "clearing"
    /\ clearing' = [lanes |-> {l \in Lanes : pc[l] \notin {"refused", "crashed"}}, passes |-> 1]
    /\ UNCHANGED <<given, greens, probed, exit, reported, cutShort, laneVars, workVars, pending,
                   results, spent>>

\* clear_lanes lists the workdir and removes each lane it saw; a workdir of
\* the run's own is removed once more, whole.
ListLanes ==
    /\ phase = "clear"
    /\ phase' = "clearing"
    /\ clearing' = [lanes |-> {l \in Lanes : dir[l] # "absent"},
                    passes |-> IF given.mode = "ours" THEN 2 ELSE 1]
    /\ UNCHANGED <<given, greens, probed, exit, reported, cutShort, laneVars, workVars, pending,
                   results, spent>>

\* rmtree empties a lane ...
EmptyLane(l) ==
    /\ phase = "clearing"
    /\ l \in clearing.lanes
    /\ dir[l] = "present"
    /\ dir' = [dir EXCEPT ![l] = "emptying"]
    /\ UNCHANGED <<given, mainVars, text, object, binary, orphan, workVars, pending, results, spent>>

\* ... and removes it, unless something was written there in between: then
\* the error is ignored and the lane stays.
RemoveLane(l) ==
    /\ phase = "clearing"
    /\ l \in clearing.lanes
    /\ dir[l] # "present"
    /\ dir' = [dir EXCEPT ![l] = IF @ = "refilled" THEN "present" ELSE "absent"]
    /\ clearing' = [clearing EXCEPT !.lanes = @ \ {l}]
    /\ UNCHANGED <<given, phase, greens, probed, exit, reported, cutShort, text, object, binary,
                   orphan, workVars, pending, results, spent>>

Cleared ==
    /\ phase = "clearing"
    /\ clearing.lanes = {}
    /\ IF clearing.passes = 2
       THEN /\ clearing' = [lanes |-> {l \in Lanes : dir[l] # "absent"}, passes |-> 1]
            /\ UNCHANGED phase
       ELSE /\ clearing' = [clearing EXCEPT !.passes = 0]
            /\ phase' = IF exit = "none" THEN "report" ELSE "exited"
    /\ UNCHANGED <<given, greens, probed, exit, reported, cutShort, laneVars, workVars, pending,
                   results, spent>>

\* A slip: the results are printed as they came in.
AsTheyCame == results

\* run_mutants sorts by index before the report.
InOrder ==
    LET places == DOMAIN results
        order  == CHOOSE p \in Bijection(places, places) :
                    \A i, j \in places :
                      i < j => results[p[i]].mutant <= results[p[j]].mutant
    IN  [i \in places |-> results[order[i]]]

\* report and the exit status; writing --json may raise after it.
Report ==
    /\ phase = "report"
    /\ phase' = "exited"
    /\ reported' = InOrder
    /\ \/ /\ exit' = IF \E r \in ToSet(results) : r.verdict = "survived" THEN "1" ELSE "0"
          /\ UNCHANGED spent
       \/ /\ spent.failures < Failures
          /\ spent' = [spent EXCEPT !.failures = @ + 1]
          /\ exit' = "1"
    /\ UNCHANGED <<given, greens, probed, clearing, cutShort, laneVars, workVars, pending, results>>

-----------------------------------------------------------------------------
(* A worker thread, one per lane.                                          *)

Busy == {"write", "check", "compile", "link", "test"}

Take(l) ==
    /\ pc[l] = "idle"
    /\ IF pending = <<>> THEN pc' = [pc EXCEPT ![l] = "left"] /\ UNCHANGED <<job, pending>>
       ELSE /\ pc' = [pc EXCEPT ![l] = "write"]
            /\ job' = [job EXCEPT ![l] = Head(pending)]
            /\ pending' = Tail(pending)
    /\ UNCHANGED <<given, mainVars, laneVars, verdict, results, spent>>

\* The mutant's text is made from the tree's, not from what is in the lane.
Write(l) ==
    /\ pc[l] = "write" /\ dir[l] = "present"
    /\ text' = [text EXCEPT ![l] = job[l]]
    /\ pc' = [pc EXCEPT ![l] = IF given.quick THEN "check" ELSE "compile"]
    /\ UNCHANGED <<given, mainVars, object, binary, orphan, dir, job, verdict, pending, results,
                   spent>>

\* The step ends: with a verdict, or with the next step.
Concludes(l, v, next) ==
    /\ verdict' = [verdict EXCEPT ![l] = v]
    /\ pc' = [pc EXCEPT ![l] = IF v = NoVerdict THEN next ELSE "record"]

\* The -fsyntax-only check, of one translation unit: it may miss what the
\* build will refuse.
Check(l) ==
    /\ pc[l] = "check" /\ dir[l] = "present"
    /\ \/ /\ \E outcome \in {Compiling(text[l]), "ok"} : Concludes(l, CompileVerdict(outcome), "compile")
          /\ UNCHANGED spent
       \/ /\ spent.timeouts < Timeouts
          /\ spent' = [spent EXCEPT !.timeouts = @ + 1]
          /\ Concludes(l, "timeout", "compile")
    /\ UNCHANGED <<given, mainVars, laneVars, job, pending, results>>

\* run_build, up to the object.  A timeout kills the process that was started
\* and no other.
Compile(l) ==
    /\ pc[l] = "compile" /\ dir[l] = "present"
    /\ \/ /\ Concludes(l, CompileVerdict(Compiling(text[l])), "link")
          /\ object' = [object EXCEPT ![l] = IF Compiling(text[l]) = "ok" THEN text[l] ELSE @]
          /\ UNCHANGED <<orphan, spent>>
       \/ /\ spent.timeouts < Timeouts
          /\ spent' = [spent EXCEPT !.timeouts = @ + 1]
          /\ Concludes(l, "timeout", "link")
          /\ orphan' = [orphan EXCEPT ![l] = IF given.outlives /\ Compiling(text[l]) = "ok"
                                             THEN text[l] ELSE @]
          /\ UNCHANGED object
    /\ UNCHANGED <<given, mainVars, text, binary, dir, job, pending, results>>

\* run_build, the rest: the binary is linked from the object that is there.
Link(l) ==
    /\ pc[l] = "link" /\ dir[l] = "present"
    /\ binary' = [binary EXCEPT ![l] = object[l]]
    /\ pc' = [pc EXCEPT ![l] = "test"]
    /\ UNCHANGED <<given, mainVars, text, object, orphan, dir, job, verdict, pending, results, spent>>

\* A compiler that outlived its build comes to its end, if need be in a lane
\* that is being deleted.
WriteLate(l) ==
    /\ orphan[l] # Nothing /\ dir[l] # "absent"
    /\ object' = [object EXCEPT ![l] = orphan[l]]
    /\ orphan' = [orphan EXCEPT ![l] = Nothing]
    /\ dir' = [dir EXCEPT ![l] = IF @ = "emptying" THEN "refilled" ELSE @]
    /\ UNCHANGED <<given, mainVars, text, binary, workVars, pending, results, spent>>

Test(l) ==
    /\ pc[l] = "test" /\ dir[l] = "present"
    /\ \E outcome \in Testing(binary[l]) : Concludes(l, TestVerdict(outcome), "record")
    /\ UNCHANGED <<given, mainVars, laneVars, job, pending, results, spent>>

\* The tool raises while it evaluates a mutant.
Raise(l) ==
    /\ pc[l] \in Busy
    /\ spent.failures < Failures
    /\ spent' = [spent EXCEPT !.failures = @ + 1]
    /\ Concludes(l, "error", "record")
    /\ UNCHANGED <<given, mainVars, laneVars, job, pending, results>>

\* The lane is being deleted under the worker: it raises, and may have left a
\* file behind.
Founder(l) ==
    /\ pc[l] \in Busy /\ dir[l] # "present"
    /\ Concludes(l, "error", "record")
    /\ dir' \in {dir, [dir EXCEPT ![l] = IF @ = "emptying" THEN "refilled" ELSE @]}
    /\ UNCHANGED <<given, mainVars, text, object, binary, orphan, job, pending, results, spent>>

Recorded(l) == [mutant |-> job[l],
                verdict |-> IF verdict[l] = "timeout" THEN "compiler" ELSE verdict[l],
                timedOut |-> verdict[l] = "timeout"]

\* A slip: a mutant whose tests hang is given another try.
TriesAgain(l) ==
    /\ pc[l] = "record"
    /\ IF verdict[l] = "hang"
       THEN pending' = Append(pending, job[l]) /\ UNCHANGED results
       ELSE results' = Append(results, Recorded(l)) /\ UNCHANGED pending
    /\ pc' = [pc EXCEPT ![l] = "idle"]
    /\ verdict' = [verdict EXCEPT ![l] = NoVerdict]
    /\ UNCHANGED <<given, mainVars, laneVars, job, spent>>

Record(l) ==
    /\ pc[l] = "record"
    /\ results' = Append(results, Recorded(l))
    /\ pc' = [pc EXCEPT ![l] = "idle"]
    /\ verdict' = [verdict EXCEPT ![l] = NoVerdict]
    /\ UNCHANGED <<given, mainVars, laneVars, job, pending, spent>>

-----------------------------------------------------------------------------
(* Ctrl-C goes to the main thread and to every child of the terminal's     *)
(* process group; the worker threads do not see it.                        *)

Struck == [l \in Lanes |-> CASE pc[l] \in {"check", "compile", "link"} -> "compiler"
                             [] pc[l] = "test" -> "caught"
                             [] OTHER -> verdict[l]]

InterruptAlone ==
    /\ phase \in {"probe", "probeBuild", "baselineBuild", "baseline", "drop"}
    /\ text' = Restored
    /\ LeaveLanes("130")
    /\ UNCHANGED <<cutShort, pc, verdict>>

InterruptPool ==
    /\ phase \in {"lanes", "sweep", "join"}
    /\ IF phase # "join" THEN phase' = "join" /\ UNCHANGED exit ELSE LeaveLanes("130")
    /\ verdict' = Struck
    /\ pc' = [l \in Lanes |-> IF Struck[l] # verdict[l] THEN "record" ELSE pc[l]]
    /\ UNCHANGED <<cutShort, text>>

InterruptLate ==
    /\ phase \in {"clear", "clearing", "report"}
    /\ phase' = "exited" /\ exit' = "130"
    /\ cutShort' = (cutShort \/ phase # "report")
    /\ UNCHANGED <<text, pc, verdict>>

Interrupt ==
    /\ spent.interrupts < Interrupts
    /\ spent' = [spent EXCEPT !.interrupts = @ + 1]
    /\ InterruptAlone \/ InterruptPool \/ InterruptLate
    /\ UNCHANGED <<given, greens, probed, reported, clearing, object, binary, orphan, dir, job,
                   pending, results>>

-----------------------------------------------------------------------------
Main == LanesUp \/ WriteProbe \/ BuildProbe \/ BuildBaseline \/ RunBaseline \/ Drop
        \/ SweepOver \/ Joined \/ ListLanes \/ Cleared \/ Report
        \/ \E l \in Lanes : EmptyLane(l) \/ RemoveLane(l)

Worker(l) == Setup(l) \/ Take(l) \/ Write(l) \/ Check(l) \/ Compile(l) \/ Link(l) \/ Test(l)
             \/ Founder(l) \/ Record(l)

\* The interpreter leaves when the main thread is done and the pool's threads
\* are, too.
Done == phase = "exited" /\ \A l \in Lanes : pc[l] \in {"ready", "refused", "crashed", "left"}

Next == Main \/ Interrupt \/ (\E l \in Lanes : Worker(l) \/ Raise(l) \/ WriteLate(l))
        \/ (Done /\ UNCHANGED vars)

\* Main and every worker are threads the interpreter runs; children end, by
\* themselves or at their timeout.  Faults and late compilers owe nothing.
Spec == Init /\ [][Next]_vars /\ WF_vars(Main) /\ \A l \in Lanes : WF_vars(Worker(l))

-----------------------------------------------------------------------------
(* What the run promises.                                                  *)

\* The verdict the fate of a mutant deserves.
Deserved(m) ==
    CASE Fate(Seen(m)) = "refused" -> "compiler"
      [] Fate(Seen(m)) \in {"glutton", "eats"} -> "oom"
      [] Fate(Seen(m)) = "breaks" -> "caught"
      [] Fate(Seen(m)) = "hangs" -> "hang"
      [] OTHER -> "survived"

\* A verdict that is printed is the one its own mutant deserves, whatever was
\* built in that lane before and however the lanes' steps mix: "error" is the
\* tool's own, and only a build that ran out of time is called `compiler`
\* without having been refused.  (evaluate, run_mutants.)
VerdictsAreEarned ==
    given.suite # "flaky" =>
        \A r \in ToSet(reported) :
            r.verdict \in {"error", IF r.timedOut THEN "compiler" ELSE Deserved(r.mutant)}

\* Exit status 0 means no hole was found: a mutant nothing notices is one the
\* build does not compile, or one the report names as not scored.  (main.)
ZeroMeansNoHole ==
    phase = "exited" /\ exit = "0" /\ given.suite # "flaky" =>
        \A m \in Mutants : Deserved(m) = "survived" =>
            \/ m \in given.unseen
            \/ \E r \in ToSet(reported) : r.mutant = m /\ (r.verdict = "error" \/ r.timedOut)

\* A printed verdict is the one its own mutant deserves, and exit status 0 means
\* no hole was found, unless a compiler of the mutant before may still be writing
\* into the lane.  (evaluate, run_mutants, main.)
VerdictsStand == ~given.outlives => VerdictsAreEarned /\ ZeroMeansNoHole

\* Nothing is scored against a suite that is red or runs no case, nor in a file
\* the binary is not built from, unless the probe had no answer.  (baseline,
\* check_target_is_built.)  --baseline-runs 0 asks for no proof, and gets none.
NothingScoredUnproven ==
    results # <<>> => /\ BaselineRuns > 0 => given.suite \in {"green", "flaky"}
                      /\ given.reaches \/ ~probed

\* A green tree whose file reaches the binary is scored: the probe leaves
\* nothing behind that the baseline would trip over.
GoodTreeIsScored ==
    phase = "exited" /\ given.suite = "green" /\ given.reaches
        /\ spent = [timeouts |-> 0, interrupts |-> 0, failures |-> 0]
    => exit \in {"0", "1"}

\* What is scored was proven to be seen by a green suite, in the first place,
\* and a good tree is scored.  (baseline, check_target_is_built.)
ScoredIsProven == NothingScoredUnproven /\ GoodTreeIsScored

\* What is printed is every mutant once, in the order they were collected, or
\* every one of them this build compiles.  (run_mutants, drop_uncompiled.)
PrintedInOrder ==
    reported # <<>> =>
        /\ \A i, j \in DOMAIN reported : i < j => reported[i].mutant < reported[j].mutant
        /\ {r.mutant : r \in ToSet(reported)}
             \in {DOMAIN given.fate, DOMAIN given.fate \ given.unseen}

\* Lanes are cleaned up whatever happens (lanes_for, line 2414), unless they
\* are to be kept, the cleaning itself is interrupted, a second Ctrl-C ends the
\* wait for the workers, or something else still writes there.
LanesGo ==
    ~given.outlives /\ Done /\ given.mode # "reuse" /\ ~cutShort /\ spent.interrupts <= 1
        => \A l \in Lanes : dir[l] = "absent"

=============================================================================
