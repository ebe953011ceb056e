--------------------------- MODULE StageByContent ---------------------------
(***************************************************************************)
(* stage_by_content of src/scripts/fuzz_afl.py: worker threads put files   *)
(* into one directory under the hash of their contents, by hard link, or   *)
(* by copy where the source is on another filesystem.  A link shares the   *)
(* source's inode, so to write to the name is to write to the source.      *)
(***************************************************************************)
EXTENDS Naturals, FiniteSets

CONSTANTS S,         \* sources are 1..S, in the order they were collected
          K,         \* what files hold is one of 1..K; its hash names it
          Workers,   \* threads: core_count()
          Mixed,     \* some sources may be on another filesystem than others
          Failures   \* bound: copies that fail, as on a full disk

\* What the constants have to satisfy.
StageAssumption ==
    /\ {S, K, Workers, Failures} \subseteq Nat /\ Workers > 0
    /\ Mixed \in BOOLEAN

Sources == 1..S
Contents == 1..K
Torn == 0                    \* what a file holds between open() and write()
Absent == 0                  \* no inode
Copy(c) == S + c             \* the inode of a copy; a source's is its number
Inodes == Sources \cup {Copy(c) : c \in Contents}

VARIABLES holds,    \* what each source was collected with: constant
          far,      \* the sources that cannot be linked: constant
          data,     \* what every inode holds
          dest,     \* the inode behind each name in the directory
          pc,       \* where each worker is
          at,       \* the source it is at
          name,     \* and its hash
          failures

vars == <<holds, far, data, dest, pc, at, name, failures>>

-----------------------------------------------------------------------------
(* Batches.                                                                *)

\* One batch per worker, the last one shorter: -(-len // workers), at least 1.
size == IF S = 0 THEN 1 ELSE (S + Workers - 1) \div Workers

FirstOf(w) == (w - 1) * size + 1
Batch(w) == {s \in Sources : FirstOf(w) <= s /\ s < FirstOf(w) + size}

TypeOK ==
    /\ holds \in [Sources -> Contents] /\ far \subseteq Sources
    /\ data \in [Inodes -> Contents \cup {Torn}]
    /\ dest \in [Contents -> Inodes \cup {Absent}]
    /\ pc \in [1..Workers -> {"read", "link", "open", "write", "done", "raised"}]
    /\ at \in [1..Workers -> Nat]
    /\ name \in [1..Workers -> Contents \cup {Torn}]
    /\ failures \in 0..Failures

Init ==
    /\ holds \in [Sources -> Contents]
    /\ far \in IF Mixed THEN SUBSET Sources ELSE {{}, Sources}
    /\ data = [i \in Inodes |-> IF i \in Sources THEN holds[i] ELSE Torn]
    /\ dest = [c \in Contents |-> Absent]
    /\ pc = [w \in 1..Workers |-> "read"]
    /\ at = [w \in 1..Workers |-> FirstOf(w)]
    /\ name = [w \in 1..Workers |-> Torn]
    /\ failures = 0

-----------------------------------------------------------------------------
Goes(w, where) == pc' = [pc EXCEPT ![w] = where]
Staged(w) == Goes(w, "read") /\ at' = [at EXCEPT ![w] = @ + 1]

\* Its batch is done, or the next source is read and hashed.
Read(w) ==
    /\ pc[w] = "read"
    /\ IF at[w] \in Batch(w) THEN name' = [name EXCEPT ![w] = data[at[w]]] /\ Goes(w, "link")
       ELSE Goes(w, "done") /\ UNCHANGED name
    /\ UNCHANGED <<holds, far, data, dest, at, failures>>

\* os.link: the name may be taken, or out of reach.
Link(w) ==
    /\ pc[w] = "link"
    /\ IF dest[name[w]] # Absent THEN Staged(w) /\ UNCHANGED dest
       ELSE IF at[w] \in far THEN Goes(w, "open") /\ UNCHANGED <<dest, at>>
       ELSE dest' = [dest EXCEPT ![name[w]] = at[w]] /\ Staged(w)
    /\ UNCHANGED <<holds, far, data, name, failures>>

\* copyfile opens the name for writing: it is made, or what is there is emptied.
Open(w) ==
    /\ pc[w] = "open"
    /\ LET inode == IF dest[name[w]] = Absent THEN Copy(name[w]) ELSE dest[name[w]]
       IN  /\ dest' = [dest EXCEPT ![name[w]] = inode]
           /\ data' = [data EXCEPT ![inode] = Torn]
    /\ Goes(w, "write")
    /\ UNCHANGED <<holds, far, at, name, failures>>

Write(w) ==
    /\ pc[w] = "write"
    /\ \/ /\ data' = [data EXCEPT ![dest[name[w]]] = data[at[w]]]
          /\ Staged(w) /\ UNCHANGED failures
       \/ /\ failures < Failures /\ failures' = failures + 1
          /\ Goes(w, "raised") /\ UNCHANGED <<data, at>>
    /\ UNCHANGED <<holds, far, dest, name>>

Over == \A w \in 1..Workers : pc[w] \in {"done", "raised"}

Next == (\E w \in 1..Workers : Read(w) \/ Link(w) \/ Open(w) \/ Write(w)) \/ (Over /\ UNCHANGED vars)

Spec == Init /\ [][Next]_vars

-----------------------------------------------------------------------------
\* When every worker is through, the directory has each of the contents once,
\* whole and under its own name, however many files had them, whichever way
\* they got there and in whatever order the workers moved.
EachContentOnce ==
    (\A w \in 1..Workers : pc[w] = "done") =>
        \A c \in Contents :
            IF \E s \in Sources : holds[s] = c THEN dest[c] # Absent /\ data[dest[c]] = c
            ELSE dest[c] = Absent

\* A worker that fails has not damaged what was to be staged, as long as all
\* sources are on one filesystem.
SourcesIntact == Over => \A s \in Sources : data[s] = holds[s]

=============================================================================
