--------------------------- MODULE CorpusMinimize ---------------------------
(***************************************************************************)
(* minimize, of src/scripts/fuzz_afl.py, run again and again on one        *)
(* target: builds it, stages the committed corpus and what fuzzing found,  *)
(* shrinks that in two passes, and replaces the corpus.  A run may be      *)
(* stopped between any two steps, and any of the programs it calls may     *)
(* fail; what is on the disk stays.                                        *)
(*                                                                         *)
(* An input is the set of features it reaches.  afl-cmin and libFuzzer are *)
(* external: afl-cmin sees only edges.  Staging is StageByContent's.       *)
(***************************************************************************)
EXTENDS Naturals, FiniteSets

CONSTANTS Edges,           \* what afl-cmin and libFuzzer both see
          Finer,           \* features only libFuzzer sees
          Stops,           \* bound: runs stopped by Ctrl-C
          StopsReplacing   \* also while the corpus is being replaced

\* What the constants have to satisfy.
MinimizeAssumption == Stops \in Nat /\ StopsReplacing \in BOOLEAN

Features == Edges \cup Finer
Inputs == SUBSET Features \ {{}}
Reached(inputs) == UNION inputs

Builds == {"afl", "fuzz"}
Trees == {"absent", "partial", "ready"}

VARIABLES corpus,   \* data/fuzz/<target>
          there,    \* that directory exists
          queue,    \* the instances' queues under FINDINGS
          all,      \* work/all, work/cmin and work/min
          cmin,
          min,
          tree,     \* each build directory
          handed,   \* build directories ninja was called in: what state they were in
          pc,       \* where the run is
          goal,     \* features of what this run collected
          best,     \* features that the corpus and the queues have ever had
          stops     \* runs stopped so far

work == <<all, cmin, min>>
disk == <<corpus, there>>
vars == <<disk, queue, work, tree, handed, pc, goal, best, stops>>

TypeOK ==
    /\ {corpus, queue, all, cmin, min} \subseteq SUBSET Inputs
    /\ there \in BOOLEAN
    /\ tree \in [Builds -> Trees] /\ handed \subseteq Trees
    /\ pc \in {"idle", "afl", "fuzz", "clear", "collect", "cmin", "copy", "merge", "remove", "restage", "done"}
    /\ {goal, best} \subseteq SUBSET Features
    /\ stops \in 0..Stops

Init ==
    /\ corpus \in SUBSET Inputs /\ queue \in SUBSET Inputs
    /\ there = TRUE /\ all = {} /\ cmin = {} /\ min = {}
    /\ tree \in [Builds -> Trees] /\ handed = {}
    /\ pc = "idle" /\ goal = {} /\ best = Reached(corpus \cup queue) /\ stops = 0

-----------------------------------------------------------------------------
Begin ==
    /\ pc \in {"idle", "done"}
    /\ pc' = "afl"
    /\ UNCHANGED <<disk, queue, work, tree, handed, goal, best, stops>>

\* build.ninja is what meson writes last.
Usable(b) == tree[b] = "ready"

\* ensure_built: a directory that is not usable is removed and set up anew,
\* which may fail or be interrupted; then ninja builds the target in it.
ensure_built(b, next) ==
    /\ pc = b
    /\ \/ /\ ~Usable(b)
          /\ tree' = [tree EXCEPT ![b] = "partial"]
          /\ pc' = "idle" /\ UNCHANGED handed
       \/ /\ tree' = IF Usable(b) THEN tree ELSE [tree EXCEPT ![b] = "ready"]
          /\ handed' = handed \cup {tree'[b]}
          /\ pc' \in {next, "idle"}
    /\ UNCHANGED <<disk, queue, work, goal, best, stops>>

\* The working directory is made anew, ...
Clear ==
    /\ pc = "clear"
    /\ all' = {} /\ cmin' = {} /\ min' = {}
    /\ pc' = "collect"
    /\ UNCHANGED <<disk, queue, tree, handed, goal, best, stops>>

\* A slip: the committed files are moved.
CollectMoves ==
    /\ pc = "collect"
    /\ IF there THEN /\ all' = corpus \cup queue /\ corpus' = {}
                     /\ goal' = Reached(all') /\ pc' = "cmin"
       ELSE pc' = "idle" /\ UNCHANGED <<all, corpus, goal>>
    /\ UNCHANGED <<there, queue, cmin, min, tree, handed, best, stops>>

\* ... and everything staged in it; scandir raises without a corpus.
Collect ==
    /\ pc = "collect"
    /\ IF there THEN all' = corpus \cup queue /\ goal' = Reached(all') /\ pc' = "cmin"
       ELSE pc' = "idle" /\ UNCHANGED <<all, goal>>
    /\ UNCHANGED <<disk, queue, cmin, min, tree, handed, best, stops>>

\* afl-cmin keeps the edges, and exits with an error or not.
Cmin ==
    /\ pc = "cmin"
    /\ \/ /\ \E kept \in SUBSET all : /\ Reached(kept) \cap Edges = Reached(all) \cap Edges
                                      /\ cmin' = kept
          /\ pc' = "copy"
       \/ pc' = "idle" /\ UNCHANGED cmin
    /\ UNCHANGED <<disk, queue, all, min, tree, handed, goal, best, stops>>

CopyTree ==
    /\ pc = "copy"
    /\ min' = cmin
    /\ pc' = "merge"
    /\ UNCHANGED <<disk, queue, all, cmin, tree, handed, goal, best, stops>>

\* -merge=1 adds inputs until every feature is there that is in all.
Merge ==
    /\ pc = "merge"
    /\ \/ /\ \E added \in SUBSET all : /\ Reached(min \cup added) = Reached(all)
                                       /\ min' = min \cup added
          /\ pc' = "remove"
       \/ pc' = "idle" /\ UNCHANGED min
    /\ UNCHANGED <<disk, queue, all, cmin, tree, handed, goal, best, stops>>

\* rmtree of the corpus, file by file, ...
Remove ==
    /\ pc = "remove"
    /\ IF corpus = {} THEN there' = FALSE /\ pc' = "restage" /\ UNCHANGED corpus
       ELSE /\ \E input \in corpus : corpus' = corpus \ {input}
            /\ UNCHANGED <<there, pc>>
    /\ UNCHANGED <<queue, work, tree, handed, goal, best, stops>>

\* ... and the minimal set staged in its place.  The threads that stage finish
\* their batches also when the main thread is interrupted.
Restage ==
    /\ pc = "restage"
    /\ corpus' = min /\ there' = TRUE
    /\ pc' = "done"
    /\ UNCHANGED <<queue, work, tree, handed, goal, best, stops>>

\* Ctrl-C: exit 130, and everything stays where it is.  Interrupted in meson
\* setup, the directory has no build.ninja yet.
Stop ==
    /\ stops < Stops /\ pc \notin {"idle", "done"}
    /\ pc \in {"remove", "restage"} => StopsReplacing
    /\ stops' = stops + 1
    /\ pc' = "idle"
    /\ tree' = IF pc \in Builds /\ ~Usable(pc) THEN [tree EXCEPT ![pc] = "partial"] ELSE tree
    /\ UNCHANGED <<disk, queue, work, handed, goal, best>>

\* Fuzzing goes on between the runs, or during them.
Find ==
    /\ \E input \in Inputs \ queue : queue' = queue \cup {input}
    /\ best' = best \cup Reached(queue')
    /\ UNCHANGED <<disk, work, tree, handed, pc, goal, stops>>

Next ==
    \/ Begin \/ ensure_built("afl", "fuzz") \/ ensure_built("fuzz", "clear")
    \/ Clear \/ Collect \/ Cmin \/ CopyTree \/ Merge \/ Remove \/ Restage \/ Stop \/ Find

Spec == Init /\ [][Next]_vars

-----------------------------------------------------------------------------
\* ninja is called only in directories that meson has set up to the end,
\* whatever an earlier run left behind.  (ensure_built.)
NinjaGetsItsFile == handed \subseteq {"ready"}

\* What a run ends with reaches all that what it collected did, and is no more
\* than that.  (cmd_minimize: the two passes.)
NothingTraded == pc = "done" => Reached(corpus) = goal /\ corpus \subseteq all

\* "Ctrl-C loses nothing" (fuzz_afl.py:10): each feature there has ever been is
\* still reached by a file in the corpus, the queues or the working directory.
StoppingLosesNothing ==
    pc = "idle" => best \subseteq Reached(corpus \cup queue \cup all \cup min)
=============================================================================
