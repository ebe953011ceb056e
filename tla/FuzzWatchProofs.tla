-------------------------- MODULE FuzzWatchProofs --------------------------
(***************************************************************************)
(* The watcher of a sweep, for every --idle, every lateness of its looks   *)
(* and every number of finds: as long as counting misses nothing it calls  *)
(* a target quiet only when it was, and it does not put that off.          *)
(*                                                                         *)
(* What makes that inductive is what the watcher's own variables say about *)
(* the disk: an input it has not counted is no older than its last count,  *)
(* one it has counted is no newer than last_find.                          *)
(***************************************************************************)
EXTENDS FuzzWatch, TLAPS

Running == pc \in {"wait", "judge"}

\* No input is from the future, and a note of why the sweep stopped is the
\* last thing the watcher leaves.
NotesMatch ==
    /\ Began <= now /\ lastKept <= now
    /\ outcome # "none" => pc = "left" /\ ~screen

\* The count of the last look is the disk's, but for what came after it.
CountIsRecent ==
    Running => /\ found <= kept
               /\ kept = found => lastKept <= last_find
               /\ kept > found => lastKept >= counted
               /\ Began <= last_find /\ last_find <= counted /\ counted <= now

\* How far the clock can be past the next look, that past the last one, and
\* that past the newest input.
LooksInTime ==
    /\ pc # "left" => now <= due + Late
    /\ pc = "first" => due = Began
    /\ pc = "wait" => due <= counted + poll + Late /\ counted < last_find + Idle
    /\ pc = "judge" => due <= counted
    /\ Running => /\ due < last_find + Idle + poll + Late
                  /\ last_find <= Newest + poll + 2 * Late

IInv == TypeOK /\ NotesMatch /\ CountIsRecent /\ LooksInTime

LEMMA PollType == poll \in Nat
  BY WatchAssumption, SMT DEF poll

LEMMA ConstantTypes == Idle \in Nat /\ Late \in Nat /\ Idle > 0 /\ Began \in Nat
  BY WatchAssumption, SMT DEF Began

-----------------------------------------------------------------------------
(* One lemma per conjunct; the counts are right where it says so.          *)

LEMMA InitHolds == Init => IInv /\ QuietIsQuiet
  BY ConstantTypes, PollType, SMT
     DEF Init, IInv, TypeOK, Outcomes, NotesMatch, CountIsRecent, LooksInTime, Running, Earlier,
         QuietIsQuiet, Newest

LEMMA TypeStep == TypeOK /\ [Next]_vars => TypeOK'
<1> SUFFICES ASSUME TypeOK, [Next]_vars PROVE TypeOK'
  OBVIOUS
<1> USE ConstantTypes, PollType DEF TypeOK, Outcomes
<1>1. CASE Tick
  BY <1>1, SMT DEF Tick
<1>2. CASE Find
  BY <1>2, SMT DEF Find
<1>3. CASE Done
  BY <1>3, SMT DEF Done
<1>4. CASE ScreenGone
  BY <1>4, Zenon DEF ScreenGone
<1>5. CASE First
  BY <1>5, SMT DEF First, queue_size
<1>6. CASE Look
  BY <1>6, SMT DEF Look, queue_size
<1>7. CASE Judge
  <2>1. screen' \in BOOLEAN
    BY <1>7, Zenon DEF Judge
  <2>2. outcome' \in Outcomes
    BY <1>7, Zenon DEF Judge
  <2>3. {now, kept, lastKept, due, found, last_find, counted}' \subseteq Nat
    BY <1>7, SMT DEF Judge
  <2>4. pc' \in {"first", "wait", "judge", "left"}
    BY <1>7, SMT DEF Judge
  <2> QED
    BY <2>1, <2>2, <2>3, <2>4
<1>8. CASE Raise
  BY <1>8, Zenon DEF Raise
<1>9. CASE UNCHANGED vars
  BY <1>9, SMT DEF vars
<1> QED
  BY <1>1, <1>2, <1>3, <1>4, <1>5, <1>6, <1>7, <1>8, <1>9 DEF Next

LEMMA NotesStep == TypeOK /\ NotesMatch /\ [Next]_vars => NotesMatch'
<1> SUFFICES ASSUME TypeOK, NotesMatch, [Next]_vars PROVE NotesMatch'
  OBVIOUS
<1> USE ConstantTypes DEF TypeOK, NotesMatch
<1>1. CASE Tick
  BY <1>1, SMT DEF Tick
<1>2. CASE Find
  BY <1>2, SMT DEF Find
<1>3. CASE Done
  BY <1>3, SMT DEF Done
<1>4. CASE ScreenGone
  BY <1>4, SMT DEF ScreenGone
<1>5. CASE First
  BY <1>5, SMT DEF First
<1>6. CASE Look
  BY <1>6, SMT DEF Look
<1>7. CASE Judge
  BY <1>7, SMT DEF Judge
<1>8. CASE Raise
  BY <1>8, SMT DEF Raise
<1>9. CASE UNCHANGED vars
  BY <1>9, SMT DEF vars
<1> QED
  BY <1>1, <1>2, <1>3, <1>4, <1>5, <1>6, <1>7, <1>8, <1>9 DEF Next

LEMMA CountStep == ~ShortCounts /\ IInv /\ [Next]_vars => CountIsRecent'
<1> SUFFICES ASSUME ~ShortCounts, IInv, [Next]_vars PROVE CountIsRecent'
  OBVIOUS
<1> USE ConstantTypes, PollType DEF IInv, TypeOK, NotesMatch, CountIsRecent, Running
<1>1. CASE Tick
  BY <1>1, SMT DEF Tick
<1>2. CASE Find
  BY <1>2, SMT DEF Find
<1>3. CASE Done
  BY <1>3, SMT DEF Done
<1>4. CASE ScreenGone
  BY <1>4, SMT DEF ScreenGone
<1>5. CASE First
  BY <1>5, SMT DEF First, queue_size, LooksInTime
<1>6. CASE Look
  BY <1>6, SMT DEF Look, queue_size
<1>7. CASE Judge
  BY <1>7, SMT DEF Judge
<1>8. CASE Raise
  BY <1>8, SMT DEF Raise
<1>9. CASE UNCHANGED vars
  BY <1>9, SMT DEF vars
<1> QED
  BY <1>1, <1>2, <1>3, <1>4, <1>5, <1>6, <1>7, <1>8, <1>9 DEF Next

LEMMA LooksStep == ~ShortCounts /\ IInv /\ [Next]_vars => LooksInTime'
<1> SUFFICES ASSUME ~ShortCounts, IInv, [Next]_vars PROVE LooksInTime'
  OBVIOUS
<1> USE ConstantTypes, PollType
    DEF IInv, TypeOK, NotesMatch, CountIsRecent, LooksInTime, Running, Newest
<1>1. CASE Tick
  BY <1>1, SMT DEF Tick
<1>2. CASE Find
  BY <1>2, SMT DEF Find
<1>3. CASE Done
  BY <1>3, SMT DEF Done
<1>4. CASE ScreenGone
  BY <1>4, SMT DEF ScreenGone
<1>5. CASE First
  BY <1>5, SMT DEF First, queue_size
<1>6. CASE Look
  BY <1>6, SMT DEF Look, queue_size
<1>7. CASE Judge
  BY <1>7, SMT DEF Judge
<1>8. CASE Raise
  BY <1>8, SMT DEF Raise
<1>9. CASE UNCHANGED vars
  BY <1>9, SMT DEF vars
<1> QED
  BY <1>1, <1>2, <1>3, <1>4, <1>5, <1>6, <1>7, <1>8, <1>9 DEF Next

LEMMA QuietStep == ~ShortCounts /\ IInv /\ QuietIsQuiet /\ [Next]_vars => QuietIsQuiet'
<1> SUFFICES ASSUME ~ShortCounts, IInv, QuietIsQuiet, [Next]_vars PROVE QuietIsQuiet'
  OBVIOUS
<1> USE ConstantTypes DEF IInv, TypeOK, NotesMatch, CountIsRecent, Running, QuietIsQuiet
<1>1. CASE Judge
  BY <1>1, SMT DEF Judge
<1>2. CASE Raise
  BY <1>2, SMT DEF Raise
<1>3. CASE Tick \/ Find \/ Done \/ ScreenGone \/ First \/ Look
  BY <1>3, SMT DEF Tick, Find, Done, ScreenGone, First, Look
<1>4. CASE UNCHANGED vars
  BY <1>4, SMT DEF vars
<1> QED
  BY <1>1, <1>2, <1>3, <1>4 DEF Next

-----------------------------------------------------------------------------
\* Whatever the counts are, the watcher's variables keep their types.
THEOREM TypeCorrect == Spec => []TypeOK
<1>1. Init => TypeOK
  BY InitHolds DEF IInv
<1> QED
  BY <1>1, TypeStep, PTL DEF Spec

\* The inductive invariant, where counting misses nothing.
LEMMA Invariant == ASSUME ~ShortCounts PROVE Spec => [](IInv /\ QuietIsQuiet)
<1>1. IInv /\ QuietIsQuiet /\ [Next]_vars => IInv' /\ QuietIsQuiet'
  BY TypeStep, NotesStep, CountStep, LooksStep, QuietStep DEF IInv
<1> QED
  BY <1>1, InitHolds, PTL DEF Spec

\* A target that is called quiet has kept no input for --idle seconds up to the
\* watcher's last count, and what an earlier sweep left is no part of that.
THEOREM QuietMeansQuiet == ASSUME ~ShortCounts PROVE Spec => []QuietIsQuiet
  BY Invariant, PTL

\* Nor does a sweep go on past a quiet target for longer than two late looks.
THEOREM QuietGetsSeen == ASSUME ~ShortCounts PROVE Spec => []QuietIsSeen
<1>1. IInv => QuietIsSeen
  BY ConstantTypes, PollType, SMT
     DEF IInv, TypeOK, NotesMatch, CountIsRecent, LooksInTime, Running, Newest, QuietIsSeen
<1> QED
  BY <1>1, Invariant, PTL
=============================================================================
