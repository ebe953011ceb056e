----------------------------- MODULE FuzzWatch ------------------------------
(***************************************************************************)
(* The watcher thread of a sweep, src/scripts/fuzz_afl.py: every `poll`    *)
(* seconds it counts the inputs the instances have kept, and when that has *)
(* not increased for --idle seconds it ends the instance with the screen,  *)
(* on which the main thread waits.  Counting walks directories that the    *)
(* instances write into, so it may come out short.                         *)
(***************************************************************************)
EXTENDS Integers

CONSTANTS Idle,         \* --idle, in seconds
          Late,         \* bound: how many seconds late a look may come
          MaxFinds,     \* bound: inputs found in this sweep
          ShortCounts,  \* walking the directories may miss entries
          Raises        \* the watcher may raise

ASSUME WatchAssumption ==
    /\ {Idle, Late, MaxFinds} \subseteq Nat /\ Idle > 0    \* duration() refuses zero
    /\ {ShortCounts, Raises} \subseteq BOOLEAN

\* What an earlier session may have left in the queues.
Earlier == 1

\* The clock starts so that an input of the earlier session is long stale.
Began == 2 * Idle

VARIABLES now,        \* the time
          kept,       \* inputs on the disk
          lastKept,   \* when the last of them was written
          screen,     \* the instance with the screen runs
          pc,         \* where the watcher is
          due,        \* when done.wait() returns next
          found,      \* its highest count
          last_find,  \* when it saw that
          counted,    \* when it counted last
          outcome     \* outcome_text

vars == <<now, kept, lastKept, screen, pc, due, found, last_find, counted, outcome>>

Outcomes == {"none", "quiet", "raised"}

TypeOK ==
    /\ {now, kept, lastKept, due, found, last_find, counted} \subseteq Nat
    /\ screen \in BOOLEAN
    /\ pc \in {"first", "wait", "judge", "left"}
    /\ outcome \in Outcomes

Init ==
    /\ now = Began /\ kept \in 0..Earlier /\ lastKept = 0
    /\ screen = TRUE /\ pc = "first" /\ due = Began
    /\ found = 0 /\ last_find = 0 /\ counted = 0
    /\ outcome = "none"

\* Five seconds between looks, fewer for an --idle below fifty.
poll == IF Idle >= 50 THEN 5 ELSE IF Idle >= 10 THEN Idle \div 10 ELSE 1

-----------------------------------------------------------------------------
(* Around the watcher.                                                     *)

Tick ==
    /\ pc # "left" /\ now < due + Late
    /\ now' = now + 1
    /\ UNCHANGED <<kept, lastKept, screen, pc, due, found, last_find, counted, outcome>>

Find ==
    /\ screen /\ kept < Earlier + MaxFinds
    /\ kept' = kept + 1 /\ lastKept' = now
    /\ UNCHANGED <<now, screen, pc, due, found, last_find, counted, outcome>>

\* The main thread has been through foreground.process.wait() and sets done.
Done ==
    /\ pc = "wait" /\ ~screen
    /\ pc' = "left"
    /\ UNCHANGED <<now, kept, lastKept, screen, due, found, last_find, counted, outcome>>

\* The instance ends by itself.
ScreenGone ==
    /\ screen
    /\ screen' = FALSE
    /\ UNCHANGED <<now, kept, lastKept, pc, due, found, last_find, counted, outcome>>

-----------------------------------------------------------------------------
(* The watcher.                                                            *)

\* queue_size: the entries of every queue that could be walked.
queue_size == IF ShortCounts THEN 0..kept ELSE {kept}

\* A slip: the clock starts at the newest input on the disk.
FirstFromDisk ==
    /\ pc = "first"
    /\ found' \in queue_size
    /\ last_find' = lastKept /\ counted' = now
    /\ due' = now + poll
    /\ pc' = "wait"
    /\ UNCHANGED <<now, kept, lastKept, screen, outcome>>

\* The clock starts now, whatever is on the disk.
First ==
    /\ pc = "first"
    /\ found' \in queue_size
    /\ last_find' = now /\ counted' = now
    /\ due' = now + poll
    /\ pc' = "wait"
    /\ UNCHANGED <<now, kept, lastKept, screen, outcome>>

\* A slip: any change of the count is a find.
CountsChanges ==
    /\ pc = "wait" /\ now >= due
    /\ \E n \in queue_size : found' = n /\ last_find' = IF n >= found THEN now ELSE last_find
    /\ counted' = now
    /\ pc' = "judge"
    /\ UNCHANGED <<now, kept, lastKept, screen, due, outcome>>

\* A look: only an increase counts as a find.
Look ==
    /\ pc = "wait" /\ now >= due
    /\ \E n \in queue_size :
         /\ found' = IF n > found THEN n ELSE found
         /\ last_find' = IF n > found THEN now ELSE last_find
    /\ counted' = now
    /\ pc' = "judge"
    /\ UNCHANGED <<now, kept, lastKept, screen, due, outcome>>

\* What the count comes to: quiet for long enough, or look again.
Judge ==
    /\ pc = "judge"
    /\ IF now - last_find >= Idle
       THEN outcome' = "quiet" /\ screen' = FALSE /\ pc' = "left" /\ UNCHANGED due
       ELSE due' = now + poll /\ pc' = "wait" /\ UNCHANGED <<outcome, screen>>
    /\ UNCHANGED <<now, kept, lastKept, found, last_find, counted>>

\* Whatever it raises, do not fuzz forever.
Raise ==
    /\ Raises /\ pc # "left"
    /\ outcome' = "raised" /\ screen' = FALSE /\ pc' = "left"
    /\ UNCHANGED <<now, kept, lastKept, due, found, last_find, counted>>

-----------------------------------------------------------------------------
Over == pc = "left" /\ ~screen

Next == Tick \/ Find \/ Done \/ ScreenGone \/ First \/ Look \/ Judge \/ Raise
        \/ (Over /\ UNCHANGED vars)

\* Time passes, and the two threads run on.
Spec == Init /\ [][Next]_vars /\ WF_vars(Tick) /\ WF_vars(First \/ Look \/ Judge) /\ WF_vars(Done)

-----------------------------------------------------------------------------
\* A target is called quiet only when nothing was kept for --idle seconds up
\* to the last count, in this sweep: inputs of an earlier one cannot make it
\* look stale.  (sweep_one, watch.)
QuietIsQuiet ==
    outcome = "quiet" => /\ now - Began >= Idle
                         /\ lastKept >= counted \/ now - lastKept >= Idle

\* The newest input of this sweep, or its beginning.
Newest == IF lastKept > Began THEN lastKept ELSE Began

\* Being quiet is never seen later than two looks after the --idle seconds are
\* over, each of them late and judged late.
QuietIsSeen == screen /\ pc # "left" => now - Newest <= Idle + 2 * (poll + 2 * Late)

=============================================================================
