------------------------------ MODULE CoreSync ------------------------------
(***************************************************************************)
(* src/scripts/mutate/sync-core.py: the shared core of the mutation tool   *)
(* is vendored in sibling repositories, and this script branches, copies,  *)
(* commits, pushes and opens a pull request in each that has an older one. *)
(*                                                                         *)
(* A sibling is a checkout and its origin.  The script looks at the        *)
(* checkout to decide, then fetches, and works on top of origin's default  *)
(* branch.  It can stop anywhere: git fails, the user interrupts, the      *)
(* push is refused.  Around it the canonical core is edited, pull requests *)
(* are merged, other clones push, and checkouts are pulled or edited.      *)
(***************************************************************************)
EXTENDS Naturals, Sequences, FiniteSets

CONSTANTS S,           \* siblings are 1..S, in the order of SIBLINGS
          Versions,    \* values of CORE_VERSION
          Texts,       \* what else a core can say
          Changes,     \* bound: changes made by people
          Runs         \* bound: runs of the script

\* What the constants have to satisfy.
SyncAssumption == S \in Nat /\ Versions \subseteq Nat /\ {Changes, Runs} \subseteq Nat

Siblings == 1..S
Cores == [version : Versions, text : Texts]
\* A copy and the hash recorded beside it, as the core it is the hash of.
Copies == [core : Cores, recorded : Cores]
Clean(c) == [core |-> c, recorded |-> c]
None == [core |-> 0]

VARIABLES canon,      \* mutate_core.py here
          local,      \* each checkout's working tree
          head,       \* ... and what is committed in it
          known,      \* ... and origin's default branch as last fetched
          origin,     \* origin's default branch
          pushed,     \* origin's branch of the script
          pr,         \* a pull request for that branch is open
          ask,        \* "check", or whether gh is there to open one: "gh", "push"
          states,     \* what the script found, sibling by sibling
          todo,       \* the siblings it has still to visit
          step,       \* where it is with the first of them
          said,       \* how the last finished run ended
          spent

world == <<canon, origin, local, head, known, pushed, pr>>
run == <<ask, states, todo, step>>
vars == <<world, run, said, spent>>

Status == {"missing", "in sync", "REFUSED", "stale"}

TypeOK ==
    /\ canon \in Cores
    /\ \A f \in {local, head, known, origin} : f \in [Siblings -> Copies]
    /\ pushed \in [Siblings -> Copies \cup {None}]
    /\ pr \in [Siblings -> BOOLEAN]
    /\ ask \in {"check", "gh", "push"}
    /\ states \in [Siblings -> Status]
    /\ todo \in Seq(Siblings)
    /\ step \in {"idle", "dirty", "checkout", "copy", "record", "commit", "push", "pr"}
    /\ said \in {"nothing", "refused", "all match", "out of sync", "done"}
    /\ spent \in [changes : 0..Changes, runs : 0..Runs]
    /\ step = "idle" <=> todo = <<>>

Init ==
    /\ canon \in Cores
    /\ origin \in [Siblings -> {Clean(c) : c \in Cores}]
    /\ known = origin /\ head = origin /\ local = origin
    /\ pushed = [s \in Siblings |-> None]
    /\ pr = [s \in Siblings |-> FALSE]
    /\ ask = "check"
    /\ states = [s \in Siblings |-> "missing"]
    /\ todo = <<>> /\ step = "idle" /\ said = "nothing"
    /\ spent = [changes |-> 0, runs |-> 0]

-----------------------------------------------------------------------------
(* What people do between runs.                                            *)

Change(act) == /\ step = "idle"
               /\ spent.changes < Changes
               /\ spent' = [spent EXCEPT !.changes = @ + 1]
               /\ act
               /\ said' = "nothing"
               /\ UNCHANGED run

EditCanon(c) == Change(canon' = c /\ c # canon /\ UNCHANGED <<origin, local, head, known, pushed, pr>>)

\* Somebody else vendors a core there, or the pull request is merged.
Vendor(s, c) == Change(/\ c # origin[s].core
                       /\ origin' = [origin EXCEPT ![s] = Clean(c)]
                       /\ UNCHANGED <<canon, local, head, known, pushed, pr>>)
Merge(s) == Change(/\ pr[s]
                   /\ origin' = [origin EXCEPT ![s] = pushed[s]]
                   /\ pr' = [pr EXCEPT ![s] = FALSE]
                   /\ UNCHANGED <<canon, local, head, known, pushed>>)

\* The checkout goes back to the default branch and is pulled.
Pull(s) == Change(/\ local[s] # origin[s]
                  /\ known' = [known EXCEPT ![s] = origin[s]]
                  /\ head' = [head EXCEPT ![s] = origin[s]]
                  /\ local' = [local EXCEPT ![s] = origin[s]]
                  /\ UNCHANGED <<canon, origin, pushed, pr>>)

\* A copy is edited in place; the recorded hash is not.
EditCopy(s, c) == Change(/\ c # local[s].core
                         /\ local' = [local EXCEPT ![s].core = c]
                         /\ UNCHANGED <<canon, origin, head, known, pushed, pr>>)

-----------------------------------------------------------------------------
(* The script.                                                             *)

\* Sibling.state, from the working tree.
State(s) ==
    CASE local[s].core = canon -> "in sync"
      [] local[s].core # canon /\ local[s].core.version >= canon.version -> "REFUSED"
      [] OTHER -> "stale"

\* The siblings to visit.
Stale(found) == SelectSeq([s \in Siblings |-> s], LAMBDA s : found[s] = "stale")

\* main, up to the loop: look at every sibling; refuse if one is refused;
\* report if asked to check; otherwise go through the stale ones, provided the
\* core's own suite passes here.
Start ==
    /\ step = "idle" /\ spent.runs < Runs
    /\ spent' = [spent EXCEPT !.runs = @ + 1]
    /\ ask' \in {"check", "gh", "push"}
    /\ \E here \in SUBSET Siblings :          \* those that are checked out
         states' = [s \in Siblings |-> IF s \in here THEN State(s) ELSE "missing"]
    /\ IF "REFUSED" \in {states'[s] : s \in Siblings}
       THEN said' = "refused" /\ UNCHANGED <<todo, step>>
       ELSE IF ask' = "check"
       THEN /\ said' = IF {states'[s] : s \in Siblings} \subseteq {"in sync"}
                       THEN "all match" ELSE "out of sync"
            /\ UNCHANGED <<todo, step>>
       ELSE \/ Stale(states') = <<>> /\ said' = "done" /\ UNCHANGED <<todo, step>>
            \/ /\ Stale(states') # <<>> /\ said' = "nothing"
               /\ todo' = Stale(states') /\ step' = "dirty"
            \/ Stale(states') # <<>> /\ said' = "nothing" /\ UNCHANGED <<todo, step>>
    /\ UNCHANGED world

It == Head(todo)

\* On to the next sibling, or the end.
NextSibling == /\ todo' = Tail(todo)
               /\ step' = IF Tail(todo) = <<>> THEN "idle" ELSE "dirty"
               /\ said' = IF Tail(todo) = <<>> THEN "done" ELSE said

Dirty(s) == local[s] # head[s]

\* Uncommitted changes: skipped.  Otherwise fetch; a default branch that cannot
\* be told is skipped as well.
Fetch ==
    /\ step = "dirty"
    /\ IF Dirty(It) THEN NextSibling /\ UNCHANGED known
       ELSE /\ known' = [known EXCEPT ![It] = origin[It]]
            /\ \/ step' = "checkout" /\ UNCHANGED <<todo, said>>
               \/ NextSibling
    /\ UNCHANGED <<canon, origin, local, head, pushed, pr, ask, states, spent>>

\* checkout -B branch origin/default
Checkout ==
    /\ step = "checkout"
    /\ head' = [head EXCEPT ![It] = known[It]]
    /\ local' = [local EXCEPT ![It] = known[It]]
    /\ step' = "copy"
    /\ UNCHANGED <<canon, origin, known, pushed, pr, ask, states, todo, said, spent>>

CopyCore ==
    /\ step = "copy"
    /\ local' = [local EXCEPT ![It].core = canon]
    /\ step' = "record"
    /\ UNCHANGED <<canon, origin, head, known, pushed, pr, ask, states, todo, said, spent>>

RecordHash ==
    /\ step = "record"
    /\ local' = [local EXCEPT ![It].recorded = local[It].core]
    /\ step' = "commit"
    /\ UNCHANGED <<canon, origin, head, known, pushed, pr, ask, states, todo, said, spent>>

\* A slip: the hash file is not added to the commit.
CoreOnly == [core |-> local[It].core, recorded |-> head[It].recorded]

\* Both files are added.
Added == local[It]

\* git commit fails, and with it the script, when there is nothing to commit.
Commit ==
    /\ step = "commit"
    /\ local[It] # head[It]
    /\ head' = [head EXCEPT ![It] = Added]
    /\ step' = "push"
    /\ UNCHANGED <<canon, origin, local, known, pushed, pr, ask, states, todo, said, spent>>

Push ==
    /\ step = "push"
    /\ pushed' = [pushed EXCEPT ![It] = head[It]]
    /\ step' = "pr"
    /\ UNCHANGED <<canon, origin, local, head, known, pr, ask, states, todo, said, spent>>

\* Without gh the pull request is left to the user; gh's failure is printed.
OpenPR ==
    /\ step = "pr"
    /\ \/ ask = "gh" /\ pr' = [pr EXCEPT ![It] = TRUE]
       \/ UNCHANGED pr
    /\ NextSibling
    /\ UNCHANGED <<canon, origin, local, head, known, pushed, ask, states, spent>>

\* A command fails, or the script is stopped, at any step.
Die ==
    /\ step # "idle"
    /\ step' = "idle" /\ todo' = <<>> /\ said' = "nothing"
    /\ UNCHANGED <<world, ask, states, spent>>

Over == step = "idle" /\ spent.runs = Runs

Next == \/ Start \/ Fetch \/ Checkout \/ CopyCore \/ RecordHash \/ Commit \/ Push \/ OpenPR \/ Die
        \/ \E c \in Cores : EditCanon(c)
        \/ \E s \in Siblings : Merge(s) \/ Pull(s)
        \/ \E s \in Siblings, c \in Cores : Vendor(s, c) \/ EditCopy(s, c)
        \/ (Over /\ UNCHANGED vars)

Spec == Init /\ [][Next]_vars

-----------------------------------------------------------------------------
(* The first of what lint-mutate-core.py looks at in a repository: the hash *)
(* that is recorded is that of the core.  Whether the sibling's adapter    *)
(* fits that core, which the lint looks at next, no step here knows of.    *)
HashIsOfCore(copy) == copy.core = copy.recorded

\* What is pushed carries the hash of its own core, wherever an earlier run
\* stopped: copying, recording and committing are three steps.
PushedCarriesItsHash == \A s \in Siblings : pushed[s] # None => HashIsOfCore(pushed[s])

\* When the script is about to put a branch in place of what a checkout holds,
\* everything there is committed: a user's edit is skipped, and so is what a
\* run that died half way has left.
NothingUncommittedIsReplaced == step = "checkout" => local[It] = head[It]

=============================================================================
