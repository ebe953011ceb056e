---------------------------- MODULE SuiteOutput -----------------------------
(***************************************************************************)
(* What one run of the test suite says, and how the mutation tool reads    *)
(* it: Harness, DoctestHarness and MinunitHarness of                       *)
(* src/scripts/mutate/mutate_core.py, as evaluate and baseline use them.   *)
(*                                                                         *)
(* The runner is external.  It runs its cases one by one; each prints what *)
(* its fate and the runner's habits make it print, and the first that dies *)
(* ends the run.                                                           *)
(***************************************************************************)
EXTENDS Integers, Sequences, SequencesExt, FiniteSets

CONSTANTS C,      \* the suite has C cases
          Fates   \* what may become of one

\* A case says nothing, prints a message while it passes, prints one that holds
\* the word ERROR, fails, dies by itself or is stopped by a sanitizer.
\* What the constants have to satisfy.
SuiteAssumption ==
    /\ C \in Nat
    /\ Fates \subseteq {"quiet", "talks", "shouts", "fails", "dies", "sanitized"}

Cases == 1..C

VARIABLES runner, fate, filtered,  \* the suite: constant
          k,          \* the case that runs; C + 1 is the end
          stdout, stderr, status,  \* what the process leaves
          r,          \* the line of stdout that is read next
          current, failing,        \* failing_cases' and parse_output's
          answer      \* parse_output's answer

suite == <<runner, fate, filtered>>
process == <<k, stdout, stderr, status>>
vars == <<suite, process, r, current, failing, answer>>

NoCase == 0
Running == -1
Unread == <<NoCase>>
Line(kind, case) == [kind |-> kind, case |-> case]

TypeOK ==
    /\ k \in 1..(C + 2) /\ status \in {Running, 0, 1}
    /\ r \in 1..(Len(stdout) + 1)
    /\ stderr \in Seq({"sanitizer"})
    /\ current \in Cases \cup {NoCase}
    /\ failing \in Seq(Cases) /\ IsInjective(failing)

\* A case the filter leaves out does not run.
Init ==
    /\ runner \in {"doctest", "minunit"}
    /\ fate \in [Cases -> Fates]
    /\ filtered \in SUBSET Cases
    /\ runner = "minunit" => filtered = {}
    /\ k = 1 /\ stdout = <<>> /\ stderr = <<>> /\ status = Running
    /\ r = 1 /\ current = NoCase /\ failing = <<>> /\ answer = Unread

Ran == Cases \ filtered

-----------------------------------------------------------------------------
(* The runner.                                                             *)

\* doctest prints a banner in front of anything a case prints; minunit names a
\* case that fails, and nothing else.
Prints(c) ==
    IF runner = "minunit" THEN IF fate[c] = "fails" THEN <<Line("failed", c)>> ELSE <<>>
    ELSE CASE fate[c] = "talks" -> <<Line("banner", c), Line("text", c)>>
           [] fate[c] = "shouts" -> <<Line("banner", c), Line("error", c)>>
           [] fate[c] = "fails" -> <<Line("banner", c), Line("error", c), Line("error", c)>>
           [] OTHER -> <<>>

Dies(c) == fate[c] \in {"dies", "sanitized"}

RunCase ==
    /\ status = Running /\ k <= C
    /\ stdout' = IF k \in filtered THEN stdout ELSE stdout \o Prints(k)
    /\ k' = k + 1
    /\ IF k \in Ran /\ Dies(k)
       THEN /\ status' = 1
            /\ stderr' = IF fate[k] = "sanitized" THEN <<"sanitizer">> ELSE <<>>
       ELSE UNCHANGED <<status, stderr>>
    /\ UNCHANGED <<suite, r, current, failing, answer>>

\* The tally is the last line of a run that gets there.
EndRun ==
    /\ status = Running /\ k = C + 1
    /\ stdout' = Append(stdout, [kind |-> "tally", case |-> NoCase, ran |-> Cardinality(Ran)])
    /\ status' = IF \E c \in Ran : fate[c] = "fails" THEN 1 ELSE 0
    /\ UNCHANGED <<suite, k, stderr, r, current, failing, answer>>

-----------------------------------------------------------------------------
(* The reader.                                                             *)

Reading == status = 1 /\ answer = Unread /\ r <= Len(stdout)

Add(c) == IF c \in ToSet(failing) THEN failing ELSE Append(failing, c)

\* failing_cases: a banner is remembered, an error under one is a failure of it.
ReadBanner ==
    /\ Reading /\ stdout[r].kind = "banner"
    /\ current' = stdout[r].case /\ r' = r + 1
    /\ UNCHANGED <<suite, process, failing, answer>>

ReadError ==
    /\ Reading /\ stdout[r].kind = "error"
    /\ failing' = IF current = NoCase THEN failing ELSE Add(current)
    /\ r' = r + 1
    /\ UNCHANGED <<suite, process, current, answer>>

ReadFailed ==
    /\ Reading /\ stdout[r].kind = "failed"
    /\ failing' = Add(stdout[r].case)
    /\ r' = r + 1
    /\ UNCHANGED <<suite, process, current, answer>>

PassLine ==
    /\ Reading /\ stdout[r].kind \in {"text", "tally"}
    /\ r' = r + 1
    /\ UNCHANGED <<suite, process, current, failing, answer>>

\* What is said instead of a case.
Sanitizer == -1
Exit == -2
crash_summary == IF stderr # <<>> THEN <<Sanitizer>> ELSE <<Exit>>

\* A slip: only what a case said is an answer.
NoSummary == IF status = 0 THEN <<>> ELSE failing

\* A run that ends well names nothing; one that does not names something.
Failures == IF status = 0 THEN <<>> ELSE IF failing # <<>> THEN failing ELSE crash_summary

parse_output ==
    /\ status # Running /\ answer = Unread
    /\ status = 1 => r = Len(stdout) + 1
    /\ answer' = Failures
    /\ UNCHANGED <<suite, process, r, current, failing>>

\* The tally's number, or C + 1 for no answer.
count_cases ==
    IF \E l \in DOMAIN stdout : stdout[l].kind = "tally" THEN Last(stdout).ran ELSE C + 1

\* baseline takes the run for green.
Green == answer = <<>> /\ count_cases # 0

Next == RunCase \/ EndRun \/ ReadBanner \/ ReadError \/ ReadFailed \/ PassLine \/ parse_output
        \/ (answer # Unread /\ UNCHANGED vars)

Spec == Init /\ [][Next]_vars

-----------------------------------------------------------------------------
\* "a nonzero exit that names no failed assertion is still a kill"
\* (mutate_core.py:636): no case that fails or dies leaves an empty answer, with
\* which a mutant would be scored survived.
EveryKillIsSeen ==
    answer = <<>> => \A c \in Ran : fate[c] \notin {"fails", "dies", "sanitized"}

\* Every case that failed before the run ended is named, unless nothing but the
\* crash is.
FailedAreNamed ==
    answer # Unread /\ status = 1 =>
        \A c \in Ran : c < k /\ fate[c] = "fails" => c \in ToSet(failing)

\* A green baseline ran something, all of which passed.
GreenRanSomething == Green => \E c \in Ran : fate[c] \in {"quiet", "talks", "shouts"}

=============================================================================
