----------------------------- MODULE LaneReuse -----------------------------
(***************************************************************************)
(* One lane of the mutation tool kept over several runs (--reuse):         *)
(* sync_tree, Lane.setup, and the incremental build behind them            *)
(* (src/scripts/mutate/mutate_core.py).                                    *)
(*                                                                         *)
(* A lane is a copy of the tree and a build directory.  ninja decides by   *)
(* modification times what to compile again, so what the lane's files say  *)
(* and when they were written are two things the setup must get right: a   *)
(* run may end, or be killed, with a mutant in the lane, with half a build *)
(* of it, or with half the files copied, and the tree may be edited before *)
(* the next.                                                               *)
(***************************************************************************)
EXTENDS Naturals, FiniteSets

CONSTANTS Target,        \* the file that is mutated
          Units,         \* the translation units
          Including,     \* those that include the target
          Dir,           \* the directory of each file
          Texts,         \* what a file may hold
          Runs,          \* bound: runs of the tool
          Edits,         \* bound: edits of the tree, made between runs
          Mutants        \* bound: mutants of one run

ASSUME ReuseAssumption ==
    /\ Target \notin Units /\ Including \subseteq Units
    /\ {Runs, Edits, Mutants} \subseteq Nat

Files == {Target} \cup Units
Gone == "gone"

ASSUME DirAssumption == DOMAIN Dir = Files

VARIABLES repo,       \* the working tree: a text or Gone, ...
          edited,     \* ... and when each file was last written
          there,      \* the lane's directory exists
          lane,       \* the lane's copies: [text, time]
          listed,     \* the units the configured build knows; empty before
          object,     \* per unit: what it was compiled from, and when
          binary,     \* the objects the test binary was linked from, and when
          clock,
          phase, stage,
          todo,       \* files setup has still to visit
          spent

tree == <<repo, edited>>
build == <<object, binary>>
vars == <<tree, there, lane, listed, build, clock, phase, stage, todo, spent>>

Missing == [text |-> Gone, time |-> 0]
Nothing == [f \in {} |-> Gone]
Uncompiled == [of |-> Nothing, time |-> 0]
Unlinked == [of |-> Nothing, time |-> 0]

\* The files a unit is compiled from, and what they say in the lane.
Reads(u) == {u} \cup IF u \in Including THEN {Target} ELSE {}
Source(u) == [f \in Reads(u) |-> lane[f].text]

TypeOK ==
    /\ repo \in [Files -> Texts \cup {Gone}] /\ edited \in [Files -> 0..clock]
    /\ there \in BOOLEAN
    /\ lane \in [Files -> [text : Texts \cup {Gone}, time : 0..clock]]
    /\ listed \subseteq Units
    /\ \A u \in Units : object[u].time \in 0..clock
    /\ binary.time \in 0..clock /\ DOMAIN binary.of \subseteq Units
    /\ clock \in Nat
    /\ phase \in {"idle", "copy", "sync", "stamp", "configure", "build", "test", "next"}
    /\ stage \in {"baseline", "mutant"}
    /\ todo \subseteq Files
    /\ spent \in [runs : 0..Runs, edits : 0..Edits, mutants : 0..Mutants]

Init ==
    /\ repo \in [Files -> Texts] /\ edited = [f \in Files |-> 1]
    /\ there = FALSE
    /\ lane = [f \in Files |-> Missing]
    /\ listed = {}
    /\ object = [u \in Units |-> Uncompiled]
    /\ binary = Unlinked
    /\ clock = 1
    /\ phase = "idle" /\ stage = "baseline" /\ todo = {}
    /\ spent = [runs |-> 0, edits |-> 0, mutants |-> 0]

\* The units of the tree, and the directories os.walk comes through: one whose
\* files are all deleted is not in the tree any more, as with a git checkout.
InTree == {u \in Units : repo[u] # Gone}
InLane == {u \in Units : lane[u].text # Gone}
Walked == {Dir[f] : f \in {g \in Files : repo[g] # Gone}}

\* A deleted file that the setup of a kept lane never comes to.
LeftBehind(f) == Dir[f] \notin Walked

-----------------------------------------------------------------------------
(* Between runs: the tree is edited; a unit may be added or deleted.  A    *)
(* file that is replaced may come with an older time.                      *)

Edit(f, t) ==
    /\ phase = "idle"
    /\ spent.edits < Edits
    /\ t # repo[f] /\ (f = Target => t # Gone)
    /\ spent' = [spent EXCEPT !.edits = @ + 1]
    /\ repo' = [repo EXCEPT ![f] = t]
    /\ \E time \in {clock + 1, edited[f]} : edited' = [edited EXCEPT ![f] = time]
    /\ clock' = clock + 1
    /\ UNCHANGED <<there, lane, listed, build, phase, stage, todo>>

\* Somebody puts the target of a kept lane back as it is in the tree, with the
\* time it has there (the case Lane.setup speaks of).
Restore ==
    /\ phase = "idle" /\ there
    /\ spent.edits < Edits
    /\ spent' = [spent EXCEPT !.edits = @ + 1]
    /\ lane' = [lane EXCEPT ![Target] = [text |-> repo[Target], time |-> edited[Target]]]
    /\ UNCHANGED <<tree, there, listed, build, clock, phase, stage, todo>>

-----------------------------------------------------------------------------
(* Lane.setup.                                                             *)

Start ==
    /\ phase = "idle"
    /\ spent.runs < Runs
    /\ spent' = [spent EXCEPT !.runs = @ + 1, !.mutants = 0]
    /\ phase' = IF there THEN "sync" ELSE "copy"
    /\ there' = TRUE
    /\ stage' = "baseline"
    /\ todo' = Files
    /\ UNCHANGED <<tree, lane, listed, build, clock>>

\* copytree keeps the time of what it copies.
Copy(f) ==
    /\ phase = "copy" /\ f \in todo
    /\ lane' = [lane EXCEPT ![f] = IF repo[f] = Gone THEN Missing
                                   ELSE [text |-> repo[f], time |-> edited[f]]]
    /\ todo' = todo \ {f}
    /\ UNCHANGED <<tree, there, listed, build, clock, phase, stage, spent>>

Copied ==
    /\ phase = "copy" /\ todo = {}
    /\ phase' = "configure"
    /\ UNCHANGED <<tree, there, lane, listed, build, clock, stage, todo, spent>>

\* What sync_tree makes of a file that differs: the copy is stamped with now.
Fresh(f) == [text |-> repo[f], time |-> clock + 1]

\* A slip: times decide whether a file has changed.
NotOlder(f) == lane[f].time >= edited[f]

\* Sameness is decided by content.
Same(f) == lane[f].text = repo[f]

\* A file that is not in the tree any more is removed, provided its directory is.
Removed(f) == IF LeftBehind(f) THEN lane[f] ELSE Missing

\* sync_tree, one file: left alone, copied or removed, or not come to.
Sync(f) ==
    /\ phase = "sync" /\ f \in todo
    /\ lane' = [lane EXCEPT ![f] = IF repo[f] = Gone THEN Removed(f)
                                   ELSE IF Same(f) THEN @ ELSE Fresh(f)]
    /\ clock' = clock + 1
    /\ todo' = todo \ {f}
    /\ UNCHANGED <<tree, there, listed, build, phase, stage, spent>>

Synced ==
    /\ phase = "sync" /\ todo = {}
    /\ phase' = "stamp"
    /\ UNCHANGED <<tree, there, lane, listed, build, clock, stage, todo, spent>>

\* A slip: only a target that differed is stamped.
LeftAlone == lane

\* The target is stamped whatever the comparison said.
Stamped == [lane EXCEPT ![Target].time = clock + 1]

Stamp ==
    /\ phase = "stamp"
    /\ lane' = Stamped
    /\ clock' = clock + 1
    /\ phase' = "configure"
    /\ UNCHANGED <<tree, there, listed, build, stage, todo, spent>>

\* Configuring lists the units anew, on every run: those that the tree's build
\* definition names, or all the build definition finds in the lane.
Configured == {InTree, InLane}

Configure ==
    /\ phase = "configure"
    /\ listed' \in Configured
    /\ phase' = "build"
    /\ UNCHANGED <<tree, there, lane, build, clock, stage, todo, spent>>

-----------------------------------------------------------------------------
(* The build, as ninja runs it: a unit is compiled when a file it reads is *)
(* newer than its object, the binary linked when an object is newer or the *)
(* list has changed.                                                       *)

Dirty(u) == \/ object[u] = Uncompiled
            \/ \E f \in Reads(u) : lane[f].time > object[u].time

LinkDirty == \/ DOMAIN binary.of # listed
             \/ \E u \in listed : object[u].time > binary.time

Compile(u) ==
    /\ phase = "build" /\ u \in listed /\ Dirty(u)
    /\ lane[u].text # Gone
    /\ object' = [object EXCEPT ![u] = [of |-> Source(u), time |-> clock + 1]]
    /\ clock' = clock + 1
    /\ UNCHANGED <<tree, there, lane, listed, binary, phase, stage, todo, spent>>

\* A unit is refused: its object and the binary stay as they are.  A baseline
\* that does not build ends the run.
Refuse ==
    /\ phase = "build"
    /\ \E u \in listed : Dirty(u)
    /\ phase' = IF stage = "baseline" THEN "idle" ELSE "next"
    /\ UNCHANGED <<tree, there, lane, listed, build, clock, stage, todo, spent>>

Link ==
    /\ phase = "build" /\ \A u \in listed : ~Dirty(u)
    /\ binary' = IF LinkDirty THEN [of |-> [u \in listed |-> object[u].of], time |-> clock + 1]
                 ELSE binary
    /\ clock' = clock + 1
    /\ phase' = "test"
    /\ UNCHANGED <<tree, there, lane, listed, object, stage, todo, spent>>

Test ==
    /\ phase = "test"
    /\ phase' = "next"
    /\ UNCHANGED <<tree, there, lane, listed, build, clock, stage, todo, spent>>

-----------------------------------------------------------------------------
(* The sweep of one lane, and the end of the run: the last mutant stays.   *)

WriteTarget(t) ==
    /\ phase = "next" /\ spent.mutants < Mutants
    /\ t # repo[Target]
    /\ spent' = [spent EXCEPT !.mutants = @ + 1]
    /\ lane' = [lane EXCEPT ![Target] = [text |-> t, time |-> clock + 1]]
    /\ clock' = clock + 1
    /\ phase' = "build" /\ stage' = "mutant"
    /\ UNCHANGED <<tree, there, listed, build, todo>>

\* The run is over, or killed, anywhere.
End ==
    /\ phase # "idle"
    /\ phase' = "idle"
    /\ todo' = {}
    /\ UNCHANGED <<tree, there, lane, listed, build, clock, stage, spent>>

Over == phase = "idle" /\ spent.runs = Runs

Next == \/ \E f \in Files, t \in Texts \cup {Gone} : Edit(f, t)
        \/ Restore \/ Start \/ Copied \/ Synced \/ Stamp \/ Configure \/ Refuse \/ Link \/ Test \/ End
        \/ \E f \in Files : Copy(f) \/ Sync(f)
        \/ \E u \in Units : Compile(u)
        \/ \E t \in Texts : WriteTarget(t)
        \/ (Over /\ UNCHANGED vars)

Spec == Init /\ [][Next]_vars

-----------------------------------------------------------------------------
\* What the tests are run on was built from what is in the lane, every unit of
\* the tree and no other but one that was left behind: nothing of an earlier
\* mutant, an earlier text or a killed build is in the binary.  (Lane.setup,
\* sync_tree.)
TestsRunTheLane ==
    phase = "test" =>
        /\ binary.of = [u \in listed |-> Source(u)]
        /\ InTree \subseteq listed /\ listed \subseteq InLane
        /\ \A u \in listed \ InTree : LeftBehind(u)

\* The baseline is green for the tree as it is now, and a mutant is the only
\* difference from it, in every directory that the tree has.  (sync_tree.)
LaneIsTheTree ==
    phase \in {"build", "test", "next"} =>
        \A f \in Files : \/ lane[f].text = repo[f]
                         \/ f = Target /\ stage = "mutant"
                         \/ LeftBehind(f)
=============================================================================
