------------------------ MODULE MutationSweepProofs ------------------------
(***************************************************************************)
(* A run of the mutation tool, for any number of mutants, lanes, timeouts, *)
(* Ctrl-Cs and exceptions, in any order of the threads' steps: what is     *)
(* printed is what each mutant deserves, each one once and in order, only  *)
(* after the suite was seen to be green; and the lanes go with the run.    *)
(*                                                                         *)
(* A mutant is in one place at a time, the queue, a worker's hands or the  *)
(* results, and a worker that has it in hand has nothing else in its lane. *)
(***************************************************************************)
EXTENDS MutationSweep, FiniteSetTheorems, WellFoundedInduction, TLAPS

InHand  == Busy \cup {"record"}
Settled == {"ready", "refused", "crashed", "left"}
Alone   == {"probe", "probeBuild", "baselineBuild", "baseline", "drop"}

\* The sweep is going on, or is over and no Ctrl-C or exception has ended it.
Scoring == \/ phase = "sweep"
           \/ exit = "none" /\ phase \in {"clear", "clearing", "report"}

\* What a worker's step says of the mutant it has and of its verdict.
WorkOK ==
    \A l \in Lanes : /\ pc[l] \in InHand => job[l] \in Mutants
                     /\ pc[l] = "record" <=> verdict[l] # NoVerdict
                     /\ pc[l] = "left" => pending = <<>>

\* Where the workers are in each phase of the main thread.  A second Ctrl-C lets
\* it go on without them.
StagesOK ==
    /\ phase = "lanes" => \A l \in Lanes : pc[l] \in {"setup", "ready", "refused", "crashed"}
    /\ phase \in Alone => \A l \in Lanes : pc[l] = "ready"
    /\ phase \in Alone \cup {"lanes"} => pending = <<>> /\ results = <<>>
    /\ phase = "join" => spent.interrupts >= 1
    /\ phase \in Alone \cup {"lanes", "sweep", "join", "report"} => exit = "none"
    /\ phase = "exited" => exit # "none"
    /\ phase # "exited" => reported = <<>>
    /\ phase # "sweep" /\ Scoring => \A l \in Lanes : pc[l] = "left"
    /\ phase \in {"clear", "clearing", "report", "exited"} /\ spent.interrupts <= 1
         => \A l \in Lanes : pc[l] \in Settled

\* What the main thread has found out before a mutant is taken.
SeenGreen == BaselineRuns > 0 => given.suite \in {"green", "flaky"}

ProvenOK ==
    /\ phase \in {"lanes", "probe", "probeBuild"} => ~probed
    /\ phase \in {"lanes", "probe", "probeBuild", "baselineBuild"} => greens = 0
    /\ phase = "baselineBuild" =>
         text[0] = Tree /\ (probed => given.reaches \/ given.suite = "unbuildable")
    /\ phase \in {"baseline", "drop"} => given.reaches \/ ~probed
    /\ phase = "baseline" /\ greens > 0 => given.suite \in {"green", "flaky"}
    /\ phase = "drop" => SeenGreen
    /\ (\E l \in Lanes : pc[l] \in InHand) \/ pending # <<>> \/ results # <<>>
         => SeenGreen /\ (given.reaches \/ ~probed)

\* On a good tree with no fault nothing goes wrong on the way.
GoodOK ==
    given.suite = "green" /\ given.reaches
        /\ spent = [timeouts |-> 0, interrupts |-> 0, failures |-> 0]
    => exit \in {"none", "0", "1"} /\ \A l \in Lanes : pc[l] \notin {"refused", "crashed"}

\* A verdict a worker may come to.
MayConclude(m) == {"error", "timeout", Deserved(m)}

\* What a worker has in its lane, from the text to the binary, is the mutant it
\* has in hand.
InLane(l) ==
    /\ orphan[l] = Nothing
    /\ phase = "sweep" =>
         /\ pc[l] \in {"check", "compile"} => text[l] = job[l]
         /\ pc[l] = "link" => object[l] = job[l] /\ Compiling(job[l]) = "ok"
         /\ pc[l] = "test" => binary[l] = job[l] /\ Compiling(job[l]) = "ok"
         /\ pc[l] = "record" /\ given.suite # "flaky" => verdict[l] \in MayConclude(job[l])

LaneOK == ~given.outlives => \A l \in Lanes : InLane(l)

\* A result as it should be.
Earned(r) == r.verdict \in {"error", IF r.timedOut THEN "compiler" ELSE Deserved(r.mutant)}

ResultsOK ==
    ~given.outlives /\ given.suite # "flaky" /\ Scoring =>
      \A i \in DOMAIN results : Earned(results[i])

\* The mutants that were not dropped: in the queue, in hand or done.
Waiting == {pending[i] : i \in DOMAIN pending}
Held    == {job[l] : l \in {k \in Lanes : pc[k] \in InHand}}
Scored  == {results[i].mutant : i \in DOMAIN results}

CoverOK == Scoring => Waiting \cup Held \cup Scored \in {Mutants, Mutants \ given.unseen}

\* A mutant is in one place at a time.
OnceOK ==
    /\ \A i, j \in DOMAIN pending : pending[i] = pending[j] => i = j
    /\ \A l, k \in Lanes : pc[l] \in InHand /\ pc[k] \in InHand /\ job[l] = job[k] => l = k
    /\ \A i, j \in DOMAIN results : results[i].mutant = results[j].mutant => i = j
    /\ Waiting \cap Held = {} /\ Waiting \cap Scored = {} /\ Held \cap Scored = {}

\* A mutant that would go unnoticed, and that the report does not own up to.
NoHole ==
    \A m \in Mutants : Deserved(m) = "survived" =>
        \/ m \in given.unseen
        \/ \E r \in ToSet(reported) : r.mutant = m /\ (r.verdict = "error" \/ r.timedOut)

HolesOK == exit = "0" /\ given.suite # "flaky" /\ ~given.outlives => NoHole

\* A lane that is not on the list of those to be deleted is gone.
Watched == ~given.outlives /\ spent.interrupts <= 1

DirsOK ==
    /\ phase \in {"clear", "clearing"} => given.mode # "reuse"
    /\ Watched =>
         /\ \A l \in Lanes : dir[l] # "refilled"
         /\ phase \notin {"clearing", "exited"} => \A l \in Lanes : dir[l] # "emptying"
         /\ phase = "clearing" => \A l \in Lanes \ clearing.lanes : dir[l] = "absent"
         /\ given.mode # "reuse" /\ ~cutShort /\ phase \in {"report", "exited"}
              => \A l \in Lanes : dir[l] = "absent"

IInv == /\ TypeOK /\ WorkOK /\ StagesOK /\ ProvenOK /\ GoodOK /\ LaneOK /\ ResultsOK
        /\ CoverOK /\ OnceOK /\ DirsOK /\ HolesOK
        /\ PrintedInOrder /\ (~given.outlives => VerdictsAreEarned)

---------------------------------------------------------------------------
(* Order *)

\* A finite set of numbers can be listed from the least to the greatest.
LEMMA Listed ==
  ASSUME NEW T \in SUBSET Nat, IsFiniteSet(T)
  PROVE  \E e \in Bijection(1 .. Cardinality(T), T) :
           \A i, j \in 1 .. Cardinality(T) : i < j => e[i] < e[j]
<1> DEFINE c == Cardinality(T)
           UpTo(x) == {y \in T : y <= x}
           rank == [x \in T |-> Cardinality(UpTo(x))]
<1>1. c \in Nat
  BY FS_CardinalityType
<1>2. \A x \in T : IsFiniteSet(UpTo(x)) /\ Cardinality(UpTo(x)) \in 1 .. c
  <2> SUFFICES ASSUME NEW x \in T
               PROVE  IsFiniteSet(UpTo(x)) /\ Cardinality(UpTo(x)) \in 1 .. c
    OBVIOUS
  <2>1. UpTo(x) \subseteq T /\ x \in UpTo(x)
    OBVIOUS
  <2> HIDE DEF UpTo
  <2>2. IsFiniteSet(UpTo(x)) /\ Cardinality(UpTo(x)) <= c
    BY <2>1, FS_Subset
  <2>3. Cardinality(UpTo(x)) \in Nat /\ Cardinality(UpTo(x)) # 0
    BY <2>1, <2>2, FS_CardinalityType, FS_EmptySet
  <2> QED
    BY <1>1, <2>2, <2>3
<1>3. ASSUME NEW x \in T, NEW y \in T, x < y
      PROVE  rank[x] < rank[y]
  <2>1. UpTo(x) \subseteq UpTo(y) /\ y \in UpTo(y) /\ y \notin UpTo(x)
    <3>1. x \in Nat /\ y \in Nat /\ T \subseteq Nat
      OBVIOUS
    <3>2. \A k \in Nat : k <= x => k <= y
      BY <1>3, <3>1
    <3>3. y <= y /\ ~(y <= x)
      BY <1>3, <3>1
    <3> QED
      BY <3>1, <3>2, <3>3
  <2> HIDE DEF UpTo
  <2>2. Cardinality(UpTo(x)) <= Cardinality(UpTo(y)) /\ Cardinality(UpTo(x)) # Cardinality(UpTo(y))
    BY <1>2, <2>1, FS_Subset
  <2> QED
    BY <1>2, <2>2
<1> HIDE DEF UpTo
<1>4. rank \in [T -> 1 .. c] /\ \A x, y \in T : rank[x] = rank[y] => x = y
  <2>1. \A x \in T : rank[x] \in 1 .. c
    BY <1>2
  <2>2. rank \in [T -> 1 .. c]
    BY <2>1
  <2>3. ASSUME NEW x \in T, NEW y \in T, rank[x] = rank[y], x # y
        PROVE  FALSE
    <3>1. x < y \/ y < x
      BY <2>3
    <3>2. rank[x] \in Nat /\ rank[y] \in Nat
      BY <1>1, <2>1
    <3> HIDE DEF rank
    <3> QED
      BY <1>3, <2>3, <3>1, <3>2
  <2> QED
    BY <2>2, <2>3
<1> HIDE DEF rank
<1>5. rank \in Bijection(T, 1 .. c)
  <2>1. rank \in Injection(T, 1 .. c)
    BY <1>4 DEF Injection, IsInjective
  <2>2. IsFiniteSet(1 .. c) /\ Cardinality(1 .. c) = c
    BY <1>1, FS_Interval
  <2>3. rank \in Surjection(T, 1 .. c)
    BY <2>1, <2>2, FS_Injection
  <2> QED
    BY <2>1, <2>3 DEF Bijection
<1> DEFINE e == [k \in 1 .. c |-> CHOOSE x \in T : rank[x] = k]
<1>6. \A k \in 1 .. c : e[k] \in T /\ rank[e[k]] = k
  BY <1>5 DEF Bijection, Surjection
<1>7. \A x \in T : rank[x] \in 1 .. c /\ e[rank[x]] = x
  BY <1>4, <1>6
<1>8. e \in [1 .. c -> T]
  BY <1>6
<1> HIDE DEF e
<1>9. e \in Bijection(1 .. c, T)
  BY <1>6, <1>7, <1>8 DEF Bijection, Injection, Surjection, IsInjective
<1>10. \A i, j \in 1 .. c : i < j => e[i] < e[j]
  <2> SUFFICES ASSUME NEW i \in 1 .. c, NEW j \in 1 .. c, i < j, ~(e[i] < e[j])
               PROVE  FALSE
    OBVIOUS
  <2>1. e[i] \in T /\ e[j] \in T /\ e[i] \in Nat /\ e[j] \in Nat
    BY <1>6
  <2>2. e[j] < e[i] \/ e[j] = e[i]
    BY <2>1
  <2>3. rank[e[j]] < rank[e[i]] \/ e[j] = e[i]
    BY <1>3, <2>1, <2>2
  <2> QED
    BY <1>6, <2>3
<1> QED
  BY <1>9, <1>10

\* The mutants that are compiled, from the first to the last.
LEMMA CompiledIs ==
  ASSUME NEW kept, kept = Mutants \ given.unseen
  PROVE  /\ Compiled \in Seq(Mutants)
         /\ \A i, j \in DOMAIN Compiled : Compiled[i] = Compiled[j] => i = j
         /\ {Compiled[i] : i \in DOMAIN Compiled} = kept
<1> DEFINE c == Cardinality(kept)
<1>1. kept \in SUBSET Nat /\ IsFiniteSet(kept) /\ kept \subseteq Mutants
  <2>1. IsFiniteSet(Mutants)
    BY SweepAssumption, FS_Interval DEF Mutants
  <2>2. kept \subseteq Mutants
    OBVIOUS
  <2> QED
    BY <2>1, <2>2, FS_Subset, SweepAssumption DEF Mutants
<1>2. c \in Nat
  BY <1>1, FS_CardinalityType
<1>3. PICK e \in Bijection(1 .. c, kept) : \A i, j \in 1 .. c : i < j => e[i] < e[j]
  BY <1>1, Listed
<1>4. e \in [1 .. c -> kept]
  BY DEF Bijection, Injection
<1> DEFINE Rises(s) == \A i, j \in DOMAIN s : i < j => s[i] < s[j]
<1>5. Compiled = CHOOSE s \in [1 .. c -> kept] : Rises(s)
  BY DEF Compiled
<1>6. Rises(e)
  BY <1>3, <1>4
<1> HIDE DEF c, Rises
<1>7. Compiled \in [1 .. c -> kept] /\ Rises(Compiled)
  BY <1>4, <1>5, <1>6
<1>8. \A i, j \in 1 .. c : i < j => Compiled[i] < Compiled[j]
  BY <1>7 DEF Rises
<1>9. \A i, j \in 1 .. c : Compiled[i] = Compiled[j] => i = j
  <2> SUFFICES ASSUME NEW i \in 1 .. c, NEW j \in 1 .. c, Compiled[i] = Compiled[j], i # j
               PROVE  FALSE
    OBVIOUS
  <2>1. i < j \/ j < i
    BY <1>2
  <2>2. Compiled[i] \in Nat
    BY <1>1, <1>7
  <2> QED
    BY <1>8, <2>1, <2>2
<1>10. Compiled \in Surjection(1 .. c, kept)
  <2>1. Compiled \in Injection(1 .. c, kept)
    BY <1>7, <1>9 DEF Injection, IsInjective
  <2>2. Cardinality(1 .. c) = c
    BY <1>2, FS_Interval
  <2> QED
    BY <1>1, <2>1, <2>2, FS_Injection DEF c
<1>11. {Compiled[i] : i \in 1 .. c} = kept
  BY <1>7, <1>10 DEF Surjection
<1> QED
  BY <1>1, <1>2, <1>7, <1>9, <1>11

\* No mutant is there twice, so sorting by mutant puts each in one place.
LEMMA InOrderIs ==
  ASSUME results \in Seq(Result),
         \A i, j \in DOMAIN results : results[i].mutant = results[j].mutant => i = j
  PROVE  /\ InOrder \in Seq(Result)
         /\ ToSet(InOrder) = ToSet(results)
         /\ \A i, j \in DOMAIN InOrder : i < j => InOrder[i].mutant < InOrder[j].mutant
<1> DEFINE n == Len(results)
           D == 1 .. n
           T == {results[i].mutant : i \in D}
           Rises(p) == \A i, j \in D : i < j => results[p[i]].mutant <= results[p[j]].mutant
<1>1. n \in Nat /\ DOMAIN results = D /\ \A i \in D : results[i] \in Result
  OBVIOUS
<1>2. \A i \in D : results[i].mutant \in Nat
  BY <1>1, SweepAssumption DEF Result, Mutants
<1>3. IsFiniteSet(T) /\ Cardinality(T) = n /\ T \in SUBSET Nat
  <2> DEFINE m == [i \in D |-> results[i].mutant]
  <2>1. m \in Bijection(D, T)
    BY <1>1 DEF Bijection, Injection, Surjection, IsInjective
  <2>2. IsFiniteSet(D) /\ Cardinality(D) = n
    BY <1>1, FS_Interval
  <2> HIDE DEF m, D
  <2>3. IsFiniteSet(T) /\ Cardinality(T) = n
    BY <2>1, <2>2, FS_Bijection DEF ExistsBijection
  <2> QED
    BY <1>2, <2>3
<1>4. PICK e \in Bijection(D, T) : \A i, j \in D : i < j => e[i] < e[j]
  <2> HIDE DEF T
  <2> QED
    BY <1>3, Listed
<1>5. /\ e \in [D -> T] /\ \A i, j \in D : e[i] = e[j] => i = j
      /\ \A x \in T : \E i \in D : e[i] = x
  BY DEF Bijection, Injection, Surjection, IsInjective
<1> DEFINE q == [i \in D |-> CHOOSE j \in D : results[j].mutant = e[i]]
<1>6. \A i \in D : q[i] \in D /\ results[q[i]].mutant = e[i]
  BY <1>5
<1>7. q \in [D -> D]
  BY <1>6
<1> HIDE DEF q, D
<1>8. \A i, j \in D : q[i] = q[j] => i = j
  BY <1>5, <1>6
<1>9. \A j \in D : \E i \in D : q[i] = j
  <2> SUFFICES ASSUME NEW j \in D
               PROVE  \E i \in D : q[i] = j
    OBVIOUS
  <2>1. PICK i \in D : e[i] = results[j].mutant
    BY <1>5
  <2> QED
    BY <1>1, <1>6, <2>1
<1>10. q \in Bijection(D, D)
  BY <1>7, <1>8, <1>9 DEF Bijection, Injection, Surjection, IsInjective
<1>11. Rises(q)
  <2> SUFFICES ASSUME NEW i \in D, NEW j \in D, i < j
               PROVE  results[q[i]].mutant <= results[q[j]].mutant
    OBVIOUS
  <2>1. e[i] < e[j] /\ e[i] \in Nat /\ e[j] \in Nat
    BY <1>2, <1>4, <1>6
  <2> QED
    BY <1>6, <2>1
<1> DEFINE order == CHOOSE p \in Bijection(D, D) : Rises(p)
<1>12. InOrder = [i \in D |-> results[order[i]]]
  BY <1>1 DEF InOrder
<1> HIDE DEF Rises
<1>13. order \in Bijection(D, D) /\ Rises(order)
  BY <1>10, <1>11
<1> HIDE DEF order
<1>14. /\ order \in [D -> D] /\ \A i, j \in D : order[i] = order[j] => i = j
       /\ \A x \in D : \E i \in D : order[i] = x
  BY <1>13 DEF Bijection, Injection, Surjection, IsInjective
<1>15. InOrder \in Seq(Result)
  BY <1>1, <1>12, <1>14 DEF D
<1>16. DOMAIN InOrder = D /\ \A i \in D : InOrder[i] = results[order[i]]
  BY <1>12
<1>17. ToSet(InOrder) = ToSet(results)
  BY <1>1, <1>14, <1>16 DEF ToSet
<1>18. ASSUME NEW i \in D, NEW j \in D, i < j
       PROVE  InOrder[i].mutant < InOrder[j].mutant
  <2>1. order[i] \in D /\ order[j] \in D
    BY <1>14
  <2>2. order[i] # order[j]
    <3>1. i # j
      BY <1>1, <1>18 DEF D
    <3> QED
      BY <1>14, <3>1
  <2>3. results[order[i]].mutant <= results[order[j]].mutant
    BY <1>13, <1>18 DEF Rises
  <2>4. results[order[i]].mutant # results[order[j]].mutant
    BY <1>1, <2>1, <2>2
  <2> QED
    BY <1>2, <1>16, <2>1, <2>3, <2>4
<1> QED
  BY <1>15, <1>16, <1>17, <1>18

---------------------------------------------------------------------------
(* Types *)

LEMMA Constants ==
  /\ N \in Nat \ {0} /\ L \in 1 .. N /\ Mutants = 1 .. N /\ Lanes = 0 .. (L - 1) /\ 0 \in Lanes
  /\ Tree \in Texts /\ Probe \in Texts /\ Mutants \subseteq Texts
  /\ Tree \notin Mutants /\ Probe \notin Mutants /\ Tree # Probe
  /\ Nothing \notin Texts
  /\ {BaselineRuns, Timeouts, Interrupts, Failures} \subseteq Nat
BY SweepAssumption DEF Mutants, Lanes, Texts, Tree, Probe, Nothing

\* What a child's end is read as.
LEMMA Readings ==
  ASSUME NEW t
  PROVE  /\ Compiling(t) \in {"ok", "bad", "killed"}
         /\ \A o \in {"ok", "bad", "killed"} : CompileVerdict(o) \in Verdicts \cup {NoVerdict}
         /\ \A o \in Testing(t) : TestVerdict(o) \in Verdicts
<1>1. Testing(t) \subseteq {"ok", "bad", "killed", "none"}
  BY DEF Testing
<1>2. \A o \in {"ok", "bad", "killed", "none"} : TestVerdict(o) \in Verdicts
  BY DEF TestVerdict, Verdicts, killed_for_memory
<1> QED
  BY <1>1, <1>2 DEF Compiling, CompileVerdict, Verdicts, NoVerdict, killed_for_memory

Spents == [timeouts : 0..Timeouts, interrupts : 0..Interrupts, failures : 0..Failures]

LEMMA Spend ==
  ASSUME spent \in Spents
  PROVE  /\ spent.timeouts < Timeouts => [spent EXCEPT !.timeouts = @ + 1] \in Spents
         /\ spent.interrupts < Interrupts => [spent EXCEPT !.interrupts = @ + 1] \in Spents
         /\ spent.failures < Failures => [spent EXCEPT !.failures = @ + 1] \in Spents
BY SweepAssumption DEF Spents

LEMMA TypeStep ==
  ASSUME TypeOK, WorkOK, OnceOK, [Next]_vars
  PROVE  TypeOK'
<1> USE Constants DEF mainVars, laneVars, workVars, TypeOK
<1>1. CASE LanesUp
  BY <1>1 DEF LanesUp, LeaveLanes, Phases
<1>2. CASE WriteProbe
  BY <1>2 DEF WriteProbe, Phases
<1>3. CASE BuildProbe
  <2>1. spent' \in Spents
    BY <1>3, Spend DEF BuildProbe, Spents
  <2>2. text' \in [Lanes -> Texts]
    BY <1>3 DEF BuildProbe, Restored
  <2>3. phase' \in Phases /\ probed' \in BOOLEAN /\ exit' \in {"none", "0", "1", "2", "130"}
    BY <1>3 DEF BuildProbe, LeaveLanes, Phases
  <2>4. object' \in [Lanes -> Texts \cup {Nothing}] /\ binary' \in [Lanes -> Texts \cup {Nothing}]
    <3>1. \/ object' = object /\ binary' = binary
          \/ object' = [object EXCEPT ![0] = Probe] /\ binary' = [binary EXCEPT ![0] = Probe]
      BY <1>3 DEF BuildProbe
    <3>2. /\ Probe \in Texts \cup {Nothing}
          /\ object \in [Lanes -> Texts \cup {Nothing}] /\ binary \in [Lanes -> Texts \cup {Nothing}]
      BY Constants
    <3> QED
      BY ONLY <3>1, <3>2
  <2> QED
    BY <1>3, <2>1, <2>2, <2>3, <2>4 DEF BuildProbe, Spents
<1>4. CASE BuildBaseline
  <2>1. spent' \in Spents
    BY <1>4, Spend DEF BuildBaseline, Spents
  <2>2. phase' \in Phases /\ exit' \in {"none", "0", "1", "2", "130"}
    BY <1>4 DEF BuildBaseline, LeaveLanes, Phases
  <2>3. object' \in [Lanes -> Texts \cup {Nothing}] /\ binary' \in [Lanes -> Texts \cup {Nothing}]
    <3>1. \/ object' = object /\ binary' = binary
          \/ object' = [object EXCEPT ![0] = text[0]] /\ binary' = [binary EXCEPT ![0] = text[0]]
      BY <1>4 DEF BuildBaseline
    <3>2. /\ text[0] \in Texts \cup {Nothing}
          /\ object \in [Lanes -> Texts \cup {Nothing}] /\ binary \in [Lanes -> Texts \cup {Nothing}]
      BY Constants
    <3> QED
      BY ONLY <3>1, <3>2
  <2> QED
    BY <1>4, <2>1, <2>2, <2>3 DEF BuildBaseline, Spents
<1>5. CASE RunBaseline
  <2>1. greens' \in 0..BaselineRuns
    <3>1. CASE greens = BaselineRuns
      BY <1>5, <3>1 DEF RunBaseline
    <3>2. CASE greens # BaselineRuns
      <4>1. greens' = greens \/ greens' = greens + 1
        BY <1>5, <3>2 DEF RunBaseline
      <4> QED
        BY <3>2, <4>1
    <3> QED
      BY <3>1, <3>2
  <2>2. phase' \in Phases /\ exit' \in {"none", "0", "1", "2", "130"}
    BY <1>5 DEF RunBaseline, LeaveLanes, Phases
  <2> QED
    BY <1>5, <2>1, <2>2 DEF RunBaseline
<1>6. CASE SweepOver
  BY <1>6 DEF SweepOver, LeaveLanes, Phases
<1>7. CASE Joined
  BY <1>7 DEF Joined, LeaveLanes, Phases
<1>8. CASE ListLanes
  <2>1. clearing' \in [lanes : SUBSET Lanes, passes : 0..2]
    <3>1. \E n \in {1, 2} : clearing' = [lanes |-> {l \in Lanes : dir[l] # "absent"}, passes |-> n]
      BY <1>8 DEF ListLanes
    <3> QED
      BY ONLY <3>1
  <2>2. phase' \in Phases
    BY <1>8 DEF ListLanes, Phases
  <2> QED
    BY <1>8, <2>1, <2>2 DEF ListLanes
<1>9. CASE Cleared
  <2>1. clearing' \in [lanes : SUBSET Lanes, passes : 0..2]
    <3>1. \/ clearing' = [lanes |-> {l \in Lanes : dir[l] # "absent"}, passes |-> 1]
          \/ clearing' = [clearing EXCEPT !.passes = 0]
      BY <1>9 DEF Cleared
    <3>2. [clearing EXCEPT !.passes = 0] \in [lanes : SUBSET Lanes, passes : 0..2]
      <4>1. clearing \in [lanes : SUBSET Lanes, passes : 0..2] /\ 0 \in 0..2
        OBVIOUS
      <4> QED
        BY ONLY <4>1
    <3>3. [lanes |-> {l \in Lanes : dir[l] # "absent"}, passes |-> 1]
            \in [lanes : SUBSET Lanes, passes : 0..2]
      OBVIOUS
    <3> QED
      BY <3>1, <3>2, <3>3
  <2> QED
    BY <1>9, <2>1 DEF Cleared, Phases
<1>10. ASSUME NEW l \in Lanes, EmptyLane(l)
      PROVE  TypeOK'
  BY <1>10 DEF EmptyLane
<1>11. ASSUME NEW l \in Lanes, RemoveLane(l)
      PROVE  TypeOK'
  BY <1>11 DEF RemoveLane
<1>12. ASSUME NEW l \in Lanes, Setup(l)
      PROVE  TypeOK'
  <2>1. spent' \in Spents
    BY <1>12, Spend DEF Setup, Spents
  <2>2. pc' \in [Lanes -> Steps]
    <3>1. \E end \in Steps : pc' = [pc EXCEPT ![l] = end]
      BY <1>12 DEF Setup, Steps
    <3>2. pc \in [Lanes -> Steps]
      OBVIOUS
    <3> QED
      BY ONLY <3>1, <3>2
  <2>3. dir' \in [Lanes -> {"absent", "present", "emptying", "refilled"}]
    BY <1>12 DEF Setup
  <2> QED
    BY <1>12, <2>1, <2>2, <2>3 DEF Setup, Spents
<1>13. ASSUME NEW l \in Lanes, Take(l)
      PROVE  TypeOK'
  <2>1. CASE pending = <<>>
    BY <1>13, <2>1 DEF Take, Steps
  <2>2. CASE pending # <<>>
    <3>1. Head(pending) \in Mutants /\ Tail(pending) \in Seq(Mutants)
      <4>1. pending \in Seq(Mutants)
        OBVIOUS
      <4> QED
        BY ONLY <2>2, <4>1
    <3>2. /\ job' = [job EXCEPT ![l] = Head(pending)] /\ pending' = Tail(pending)
          /\ pc' = [pc EXCEPT ![l] = "write"]
      BY <1>13, <2>2 DEF Take
    <3>3. job' \in [Lanes -> {Tree} \cup Mutants] /\ pc' \in [Lanes -> Steps]
      BY <3>1, <3>2 DEF Steps
    <3> QED
      BY <1>13, <3>1, <3>2, <3>3 DEF Take
  <2> QED
    BY <2>1, <2>2
<1>14. ASSUME NEW l \in Lanes, Write(l)
      PROVE  TypeOK'
  BY <1>14 DEF Write, Steps
<1>15. ASSUME NEW l \in Lanes, Check(l)
      PROVE  TypeOK'
  <2>1. spent' \in Spents
    BY <1>15, Spend DEF Check, Spents
  <2>2. PICK v \in Verdicts \cup {NoVerdict, "timeout"} : Concludes(l, v, "compile")
    <3>1. CompileVerdict(Compiling(text[l])) \in Verdicts \cup {NoVerdict}
      BY Readings
    <3>2. CompileVerdict("ok") \in Verdicts \cup {NoVerdict}
      BY Readings
    <3> QED
      BY <1>15, <3>1, <3>2 DEF Check
  <2> QED
    BY <1>15, <2>1, <2>2 DEF Check, Steps, Concludes, Spents
<1>16. ASSUME NEW l \in Lanes, Compile(l)
      PROVE  TypeOK'
  <2>1. spent' \in Spents
    BY <1>16, Spend DEF Compile, Spents
  <2>2. PICK v \in Verdicts \cup {NoVerdict, "timeout"} : Concludes(l, v, "link")
    <3>1. CompileVerdict(Compiling(text[l])) \in Verdicts \cup {NoVerdict}
      BY Readings
    <3> QED
      BY <1>16, <3>1 DEF Compile
  <2>3. object' \in [Lanes -> Texts \cup {Nothing}] /\ orphan' \in [Lanes -> Texts \cup {Nothing}]
    <3>1. \E o \in {text[l], object[l]} : object' = [object EXCEPT ![l] = o] \/ object' = object
      BY <1>16 DEF Compile
    <3>2. \E o \in {text[l], orphan[l]} : orphan' = [orphan EXCEPT ![l] = o] \/ orphan' = orphan
      BY <1>16 DEF Compile
    <3>3. /\ text \in [Lanes -> Texts]
          /\ object \in [Lanes -> Texts \cup {Nothing}] /\ orphan \in [Lanes -> Texts \cup {Nothing}]
      OBVIOUS
    <3>4. text[l] \in Texts /\ {object[l], orphan[l]} \subseteq Texts \cup {Nothing}
      BY ONLY <3>3
    <3> QED
      BY ONLY <3>1, <3>2, <3>3, <3>4
  <2>4. /\ pc' \in [Lanes -> Steps]
        /\ verdict' \in [Lanes -> Verdicts \cup {NoVerdict, "timeout"}]
    BY <2>2 DEF Steps, Concludes
  <2>5. UNCHANGED <<given, mainVars, text, binary, dir, job, pending, results>>
    BY <1>16 DEF Compile
  <2> QED
    BY <2>1, <2>3, <2>4, <2>5 DEF Spents
<1>17. ASSUME NEW l \in Lanes, Link(l)
      PROVE  TypeOK'
  <2>1. binary' \in [Lanes -> Texts \cup {Nothing}]
    <3>1. binary' = [binary EXCEPT ![l] = object[l]]
      BY <1>17 DEF Link
    <3>2. object \in [Lanes -> Texts \cup {Nothing}] /\ binary \in [Lanes -> Texts \cup {Nothing}]
      OBVIOUS
    <3> QED
      BY ONLY <3>1, <3>2
  <2>2. pc' \in [Lanes -> Steps]
    BY <1>17 DEF Link, Steps
  <2>3. /\ UNCHANGED <<given, mainVars, text, object, orphan, dir, job, verdict>>
        /\ UNCHANGED <<pending, results, spent>>
    BY <1>17 DEF Link
  <2> QED
    BY <2>1, <2>2, <2>3
<1>18. ASSUME NEW l \in Lanes, Test(l)
      PROVE  TypeOK'
  <2>1. PICK v \in Verdicts : Concludes(l, v, "record")
    BY <1>18, Readings DEF Test
  <2> QED
    BY <1>18, <2>1 DEF Test, Steps, Concludes
<1>19. ASSUME NEW l \in Lanes, Founder(l)
      PROVE  TypeOK'
  BY <1>19 DEF Founder, Steps, Concludes, Verdicts
<1>20. ASSUME NEW l \in Lanes, Raise(l)
      PROVE  TypeOK'
  <2>1. spent' \in Spents
    BY <1>20, Spend DEF Raise, Spents
  <2> QED
    BY <1>20, <2>1 DEF Raise, Steps, Concludes, Verdicts, Spents
<1>21. ASSUME NEW l \in Lanes, WriteLate(l)
      PROVE  TypeOK'
  BY <1>21 DEF WriteLate
<1>22. CASE Drop
  <2>1. [i \in Mutants |-> i] \in Seq(Mutants)
    OBVIOUS
  <2>2. PICK kept : kept = Mutants \ given.unseen
    OBVIOUS
  <2>3. Compiled \in Seq(Mutants)
    BY <2>2, CompiledIs
  <2>4. pending' \in Seq(Mutants)
    BY <1>22, <2>1, <2>3 DEF Drop
  <2> QED
    BY <1>22, <2>4 DEF Drop, LeaveLanes, Phases, Steps
<1>23. CASE Report
  <2>1. reported' \in Seq(Result)
    BY <1>23, InOrderIs DEF Report, OnceOK
  <2>2. spent' \in Spents
    BY <1>23, Spend DEF Report, Spents
  <2> QED
    BY <1>23, <2>1, <2>2 DEF Report, Phases, Spents
<1>24. ASSUME NEW l \in Lanes, Record(l)
      PROVE  TypeOK'
  <2>1. Recorded(l) \in Result
    BY <1>24 DEF Record, WorkOK, InHand, Recorded, Result, Verdicts, NoVerdict
  <2>2. results' \in Seq(Result)
    BY <1>24, <2>1 DEF Record
  <2> QED
    BY <1>24, <2>2 DEF Record, Steps
<1>25. CASE Interrupt
  <2>1. spent' \in Spents
    BY <1>25, Spend DEF Interrupt, Spents
  <2>2. Struck \in [Lanes -> Verdicts \cup {NoVerdict, "timeout"}]
    BY DEF Struck, Verdicts
  <2>3. CASE InterruptAlone
    BY <1>25, <2>1, <2>3 DEF Spents, Interrupt, InterruptAlone, Restored, LeaveLanes, Phases
  <2>4. CASE InterruptPool
    BY <1>25, <2>1, <2>2, <2>4 DEF Spents, Interrupt, InterruptPool, LeaveLanes, Phases, Steps
  <2>5. CASE InterruptLate
    BY <1>25, <2>1, <2>5 DEF Spents, Interrupt, InterruptLate, Phases
  <2> QED
    BY <1>25, <2>3, <2>4, <2>5 DEF Interrupt
<1>26. CASE UNCHANGED vars
  BY <1>26 DEF vars
<1> QED
  BY <1>1, <1>2, <1>3, <1>4, <1>5, <1>6, <1>7, <1>8, <1>9, <1>10, <1>11, <1>12, <1>13,
     <1>14, <1>15, <1>16, <1>17, <1>18, <1>19, <1>20, <1>21, <1>22, <1>23, <1>24,
     <1>25, <1>26
  DEF Next, Main, Worker

---------------------------------------------------------------------------
(* Whose step it is *)

\* The main thread goes on; it touches no worker, but in Drop.
Directs == LanesUp \/ WriteProbe \/ BuildProbe \/ BuildBaseline \/ RunBaseline
           \/ SweepOver \/ Joined \/ ListLanes \/ Cleared \/ Report

Deletes(l) == EmptyLane(l) \/ RemoveLane(l)
Acts(l)    == Worker(l) \/ Raise(l)

LEMMA Whose ==
  ASSUME [Next]_vars
  PROVE  \/ Directs \/ Drop \/ Interrupt \/ UNCHANGED vars
         \/ \E l \in Lanes : Deletes(l) \/ WriteLate(l) \/ Acts(l)
BY DEF Next, Main, Directs, Deletes, Acts

\* What the step of any thread but a worker's leaves alone.
LEMMA Directing ==
  ASSUME Directs
  PROVE  UNCHANGED <<given, cutShort, pc, job, verdict, orphan, dir, pending, results>>
BY DEF Directs, LanesUp, WriteProbe, BuildProbe, BuildBaseline, RunBaseline, SweepOver, Joined,
       ListLanes, Cleared, Report, mainVars, laneVars, workVars

LEMMA Deleting ==
  ASSUME NEW l \in Lanes, Deletes(l) \/ WriteLate(l) \/ UNCHANGED vars
  PROVE  /\ UNCHANGED <<given, phase, greens, probed, exit, reported, cutShort, pc, job, verdict>>
         /\ UNCHANGED <<text, binary, pending, results, spent>>
BY DEF Deletes, EmptyLane, RemoveLane, WriteLate, vars, mainVars, laneVars, workVars

LEMMA Interrupting ==
  ASSUME Interrupt
  PROVE  /\ UNCHANGED <<given, greens, probed, reported, clearing, object, binary, orphan, dir, job>>
         /\ UNCHANGED <<pending, results>>
BY DEF Interrupt

\* No step changes what the run was asked, so no mutant's fate.
LEMMA Unchanging ==
  ASSUME [Next]_vars
  PROVE  /\ given' = given /\ SeenGreen' = SeenGreen
         /\ \A m : Deserved(m)' = Deserved(m) /\ Compiling(m)' = Compiling(m)
         /\ \A m : MayConclude(m)' = MayConclude(m)
<1>1. given' = given
  <2>1. ASSUME NEW l \in Lanes, Acts(l)
        PROVE  given' = given
    BY <2>1 DEF Acts, Worker, Setup, Take, Write, Check, Compile, Link, Test, Founder, Record, Raise
  <2>2. Drop => given' = given
    BY DEF Drop
  <2> QED
    BY <2>1, <2>2, Whose, Directing, Deleting, Interrupting DEF vars
<1> QED
  BY <1>1 DEF SeenGreen, MayConclude, Deserved, Compiling, Fate, Seen

\* A worker is being set up, or has a mutant in hand or wants one; it leaves the
\* main thread and the other lanes alone.
LEMMA Acting ==
  ASSUME TypeOK, WorkOK, NEW l \in Lanes, Acts(l)
  PROVE  /\ UNCHANGED <<given, phase, greens, probed, exit, reported, clearing, cutShort>>
         /\ spent'.interrupts = spent.interrupts
         /\ \A k \in Lanes \ {l} :
              /\ pc'[k] = pc[k] /\ job'[k] = job[k] /\ verdict'[k] = verdict[k]
              /\ text'[k] = text[k] /\ object'[k] = object[k] /\ binary'[k] = binary[k]
              /\ orphan'[k] = orphan[k] /\ dir'[k] = dir[k]
         /\ \/ /\ pc[l] = "setup" /\ pc'[l] \in {"ready", "refused", "crashed"}
               /\ phase \in {"lanes", "join", "clear", "clearing", "exited"}
            \/ pc[l] \in InHand \cup {"idle"} /\ pc'[l] \in InHand \cup {"idle", "left"}
<1> USE DEF TypeOK, mainVars, laneVars, workVars, InHand, Busy
<1>1. CASE Setup(l)
  BY <1>1 DEF Setup
<1>2. CASE Take(l)
  BY <1>2 DEF Take
<1>3. CASE Write(l)
  BY <1>3 DEF Write
<1>4. CASE Check(l)
  BY <1>4 DEF Check, Concludes
<1>5. CASE Compile(l)
  BY <1>5 DEF Compile, Concludes
<1>6. CASE Link(l)
  BY <1>6 DEF Link
<1>7. CASE Test(l)
  BY <1>7 DEF Test, Concludes
<1>8. CASE Founder(l)
  BY <1>8 DEF Founder, Concludes, NoVerdict
<1>9. CASE Record(l)
  BY <1>9 DEF Record
<1>10. CASE Raise(l)
  BY <1>10 DEF Raise, Concludes, NoVerdict
<1> QED
  BY <1>1, <1>2, <1>3, <1>4, <1>5, <1>6, <1>7, <1>8, <1>9, <1>10 DEF Acts, Worker

---------------------------------------------------------------------------
(* Where a mutant is *)

\* Nothing is taken, recorded or put into the queue.
Rests == /\ pending' = pending /\ results' = results /\ job' = job
         /\ \A l \in Lanes : pc'[l] \in InHand <=> pc[l] \in InHand

TakesFirst(l) ==
    /\ pc[l] \notin InHand /\ pc' = [pc EXCEPT ![l] = "write"]
    /\ pending # <<>> /\ pending' = Tail(pending) /\ results' = results
    /\ job' = [job EXCEPT ![l] = Head(pending)]

Records(l) ==
    /\ pc[l] = "record" /\ pc' = [pc EXCEPT ![l] = "idle"] /\ job' = job
    /\ pending' = pending /\ results' = Append(results, Recorded(l))

Queues ==
    /\ phase = "drop" /\ phase' = "sweep"
    /\ pending' = [i \in Mutants |-> i] \/ pending' = Compiled
    /\ pc' = [l \in Lanes |-> "idle"] /\ results' = results

LEMMA StruckAre ==
  ASSUME TypeOK, WorkOK, InterruptPool
  PROVE  \A l \in Lanes :
           /\ \/ pc'[l] = pc[l] /\ verdict'[l] = verdict[l]
              \/ pc[l] \in InHand /\ pc'[l] = "record" /\ verdict'[l] \in Verdicts
           /\ pc[l] \in {"check", "compile", "link", "test"} => pc'[l] = "record"
<1> SUFFICES ASSUME NEW l \in Lanes
             PROVE  /\ \/ pc'[l] = pc[l] /\ verdict'[l] = verdict[l]
                       \/ pc[l] \in InHand /\ pc'[l] = "record" /\ verdict'[l] \in Verdicts
                    /\ pc[l] \in {"check", "compile", "link", "test"} => pc'[l] = "record"
  OBVIOUS
<1>1. verdict'[l] = Struck[l] /\ pc'[l] = IF Struck[l] # verdict[l] THEN "record" ELSE pc[l]
  BY DEF InterruptPool
<1>2. CASE pc[l] \in {"check", "compile", "link", "test"}
  <2>1. Struck[l] \in {"compiler", "caught"} /\ verdict[l] = NoVerdict
    BY <1>2 DEF Struck, WorkOK
  <2> QED
    BY <1>1, <1>2, <2>1 DEF NoVerdict, Verdicts, InHand, Busy
<1>3. CASE pc[l] \notin {"check", "compile", "link", "test"}
  <2>1. Struck[l] = verdict[l]
    BY <1>3 DEF Struck
  <2> QED
    BY <1>1, <1>3, <2>1
<1> QED
  BY <1>2, <1>3

LEMMA Moves ==
  ASSUME TypeOK, WorkOK, StagesOK, [Next]_vars
  PROVE  Rests \/ Queues \/ \E l \in Lanes : TakesFirst(l) \/ Records(l)
<1>1. CASE Directs
  BY <1>1, Directing DEF Rests
<1>2. CASE UNCHANGED vars
  BY <1>2 DEF vars, workVars, Rests
<1>3. ASSUME NEW l \in Lanes, Deletes(l) \/ WriteLate(l)
      PROVE  Rests
  BY <1>3, Deleting DEF Rests
<1>4. CASE Drop
  <2>1. CASE UNCHANGED <<pending, pc>>
    BY <1>4, <2>1 DEF Drop, Rests
  <2>2. CASE ~UNCHANGED <<pending, pc>>
    BY <1>4, <2>2 DEF Drop, Queues
  <2> QED
    BY <2>1, <2>2
<1>5. CASE Interrupt
  <2>1. CASE InterruptPool
    BY <1>5, <2>1, StruckAre DEF Interrupt, Rests, InHand
  <2>2. CASE InterruptAlone \/ InterruptLate
    BY <1>5, <2>2 DEF Interrupt, InterruptAlone, InterruptLate, Rests
  <2> QED
    BY <1>5, <2>1, <2>2 DEF Interrupt
<1>6. ASSUME NEW l \in Lanes, Acts(l)
      PROVE  Rests \/ TakesFirst(l) \/ Records(l)
  <2> USE DEF TypeOK, laneVars, InHand, Busy, Rests
  <2>1. CASE Setup(l)
    BY <2>1 DEF Setup
  <2>2. CASE Take(l)
    BY <2>2 DEF Take, TakesFirst
  <2>3. CASE Write(l)
    BY <2>3 DEF Write
  <2>4. CASE Check(l)
    BY <2>4 DEF Check, Concludes
  <2>5. CASE Compile(l)
    BY <2>5 DEF Compile, Concludes
  <2>6. CASE Link(l)
    BY <2>6 DEF Link
  <2>7. CASE Test(l)
    BY <2>7 DEF Test, Concludes
  <2>8. CASE Founder(l)
    BY <2>8 DEF Founder, Concludes
  <2>9. CASE Record(l)
    BY <2>9 DEF Record, Records
  <2>10. CASE Raise(l)
    BY <2>10 DEF Raise, Concludes
  <2> QED
    BY <1>6, <2>1, <2>2, <2>3, <2>4, <2>5, <2>6, <2>7, <2>8, <2>9, <2>10 DEF Acts, Worker
<1> QED
  BY <1>1, <1>2, <1>3, <1>4, <1>5, <1>6, Whose

\* What the invariant says of workers' steps is kept.
LEMMA WorkStep ==
  ASSUME TypeOK, WorkOK, StagesOK, [Next]_vars
  PROVE  WorkOK'
<1>1. CASE Directs
  BY <1>1, Directing DEF WorkOK
<1>2. CASE UNCHANGED vars
  BY <1>2 DEF vars, workVars, WorkOK
<1>3. ASSUME NEW l \in Lanes, Deletes(l) \/ WriteLate(l)
      PROVE  WorkOK'
  BY <1>3, Deleting DEF WorkOK
<1>4. CASE Drop
  BY <1>4 DEF Drop, WorkOK, StagesOK, Alone, InHand, Busy
<1>5. CASE Interrupt
  <2>1. CASE InterruptPool
    BY <1>5, <2>1, StruckAre DEF Interrupt, WorkOK, InHand, Busy, Verdicts, NoVerdict
  <2>2. CASE InterruptAlone \/ InterruptLate
    BY <1>5, <2>2 DEF Interrupt, InterruptAlone, InterruptLate, WorkOK
  <2> QED
    BY <1>5, <2>1, <2>2 DEF Interrupt
<1>6. ASSUME NEW l \in Lanes, Acts(l)
      PROVE  WorkOK'
  <2> USE DEF TypeOK, laneVars, InHand, Busy, WorkOK, NoVerdict
  <2>1. CASE Setup(l)
    BY <2>1 DEF Setup
  <2>2. CASE Take(l)
    <3>1. pending # <<>> => Head(pending) \in Mutants
      OBVIOUS
    <3> QED
      BY <2>2, <3>1 DEF Take
  <2>3. CASE Write(l)
    BY <2>3 DEF Write
  <2>4. CASE Check(l)
    BY <2>4 DEF Check, Concludes
  <2>5. CASE Compile(l)
    BY <2>5 DEF Compile, Concludes
  <2>6. CASE Link(l)
    BY <2>6 DEF Link
  <2>7. CASE Test(l)
    <3>1. PICK v \in Verdicts : Concludes(l, v, "record")
      BY <2>7, Readings DEF Test
    <3> QED
      BY <2>7, <3>1 DEF Test, Concludes, Verdicts
  <2>8. CASE Founder(l)
    BY <2>8 DEF Founder, Concludes
  <2>9. CASE Record(l)
    BY <2>9 DEF Record
  <2>10. CASE Raise(l)
    BY <2>10 DEF Raise, Concludes
  <2> QED
    BY <1>6, <2>1, <2>2, <2>3, <2>4, <2>5, <2>6, <2>7, <2>8, <2>9, <2>10 DEF Acts, Worker
<1> QED
  BY <1>1, <1>2, <1>3, <1>4, <1>5, <1>6, Whose

LEMMA Resting ==
  ASSUME TypeOK, Rests
  PROVE  Waiting' = Waiting /\ Held' = Held /\ Scored' = Scored
BY DEF Rests, Waiting, Held, Scored

LEMMA Taking ==
  ASSUME TypeOK, OnceOK, NEW l \in Lanes, TakesFirst(l)
  PROVE  /\ Head(pending) \in Waiting /\ Waiting' = Waiting \ {Head(pending)}
         /\ Held' = Held \cup {Head(pending)} /\ Scored' = Scored
<1> DEFINE n == Len(pending)
<1>1. /\ n \in Nat \ {0} /\ DOMAIN pending = 1 .. n /\ Head(pending) = pending[1]
      /\ DOMAIN pending' = 1 .. n - 1 /\ \A i \in 1 .. n - 1 : pending'[i] = pending[i + 1]
  <2>1. pending \in Seq(Mutants) /\ pending # <<>> /\ pending' = Tail(pending)
    BY DEF TypeOK, TakesFirst
  <2> QED
    BY ONLY <2>1
<1>2. \A i, j \in 1 .. n : pending[i] = pending[j] => i = j
  BY <1>1 DEF OnceOK
<1>3. Waiting = {pending[i] : i \in 1 .. n} /\ Waiting' = {pending'[i] : i \in 1 .. n - 1}
  BY <1>1 DEF Waiting
<1> HIDE DEF n
<1>4. \A i \in 2 .. n : i - 1 \in 1 .. n - 1 /\ pending'[i - 1] = pending[i] /\ i # 1
  <2> SUFFICES ASSUME NEW i \in 2 .. n
               PROVE  i - 1 \in 1 .. n - 1 /\ pending'[i - 1] = pending[i] /\ i # 1
    OBVIOUS
  <2>1. i - 1 \in 1 .. n - 1 /\ (i - 1) + 1 = i
    BY <1>1
  <2> QED
    BY <1>1, <2>1
<1>5. Waiting \ {pending[1]} = {pending[i] : i \in 2 .. n}
  <2>1. \A i \in 1 .. n : i = 1 \/ i \in 2 .. n
    BY <1>1
  <2>2. 1 \in 1 .. n /\ \A i \in 2 .. n : i \in 1 .. n /\ i # 1
    BY <1>1
  <2> QED
    BY <1>2, <1>3, <2>1, <2>2
<1>6. Waiting' = {pending[i] : i \in 2 .. n}
  <2>1. \A i \in 1 .. n - 1 : i + 1 \in 2 .. n /\ pending'[i] = pending[i + 1]
    BY <1>1
  <2> QED
    BY <1>3, <1>4, <2>1
<1>7. Head(pending) \in Waiting
  <2>1. 1 \in 1 .. n
    BY <1>1
  <2> QED
    BY <1>1, <1>3, <2>1
<1>8. Held' = Held \cup {Head(pending)}
  BY DEF TypeOK, TakesFirst, Held, InHand, Busy
<1>9. Scored' = Scored
  BY DEF TakesFirst, Scored
<1> QED
  BY <1>1, <1>5, <1>6, <1>7, <1>8, <1>9

LEMMA Recording ==
  ASSUME TypeOK, OnceOK, NEW l \in Lanes, Records(l)
  PROVE  /\ job[l] \in Held /\ Waiting' = Waiting
         /\ Held' = Held \ {job[l]} /\ Scored' = Scored \cup {job[l]}
         /\ \A i, j \in DOMAIN results' :
              results'[i].mutant = results'[j].mutant /\ job[l] \notin Scored => i = j
<1> DEFINE n == Len(results)
<1>1. /\ n \in Nat /\ DOMAIN results = 1 .. n /\ DOMAIN results' = 1 .. n + 1
      /\ \A i \in 1 .. n : results'[i] = results[i]
      /\ results'[n + 1].mutant = job[l]
  <2>1. results \in Seq(Result) /\ results' = Append(results, Recorded(l))
    BY DEF TypeOK, Records
  <2>2. Recorded(l).mutant = job[l]
    BY DEF Recorded
  <2>3. /\ n \in Nat /\ DOMAIN results = 1 .. n /\ DOMAIN results' = 1 .. n + 1
        /\ \A i \in 1 .. n : results'[i] = results[i]
        /\ results'[n + 1] = Recorded(l)
    BY ONLY <2>1
  <2> QED
    BY <2>2, <2>3
<1> HIDE DEF n
<1>2. \A i \in 1 .. n + 1 : i \in 1 .. n \/ i = n + 1
  BY <1>1
<1>3. \A i \in 1 .. n : i \in 1 .. n + 1
  BY <1>1
<1>4. n + 1 \in 1 .. n + 1
  BY <1>1
<1>5. Scored' = Scored \cup {job[l]}
  BY <1>1, <1>2, <1>3, <1>4 DEF Scored
<1>6. Waiting' = Waiting
  BY DEF Records, Waiting
<1>7. job[l] \in Held /\ Held' = Held \ {job[l]}
  <2>1. /\ \A k \in Lanes : pc'[k] \in InHand <=> pc[k] \in InHand /\ k # l
        /\ pc[l] \in InHand /\ job' = job
    BY DEF TypeOK, Records, InHand, Busy
  <2> QED
    BY <2>1 DEF Held, OnceOK
<1>8. \A i, j \in 1 .. n + 1 :
        results'[i].mutant = results'[j].mutant /\ job[l] \notin Scored => i = j
  <2>1. \A i, j \in 1 .. n : results'[i].mutant = results'[j].mutant => i = j
    BY <1>1 DEF OnceOK
  <2>2. \A i \in 1 .. n : results'[i].mutant \in Scored
    BY <1>1 DEF Scored
  <2> QED
    BY <1>1, <1>2, <2>1, <2>2
<1> QED
  BY <1>1, <1>5, <1>6, <1>7, <1>8

LEMMA Queueing ==
  ASSUME TypeOK, StagesOK, Queues
  PROVE  /\ Held' = {} /\ Scored' = {} /\ results' = <<>>
         /\ Waiting' \in {Mutants, Mutants \ given.unseen}
         /\ \A i, j \in DOMAIN pending' : pending'[i] = pending'[j] => i = j
<1>1. results' = <<>> /\ \A l \in Lanes : pc'[l] \notin InHand
  BY DEF Queues, StagesOK, Alone, InHand, Busy
<1>2. Held' = {} /\ Scored' = {}
  BY <1>1 DEF Held, Scored
<1>3. CASE pending' = [i \in Mutants |-> i]
  BY <1>1, <1>2, <1>3 DEF Waiting
<1>4. CASE pending' = Compiled
  <2>1. PICK kept : kept = Mutants \ given.unseen
    OBVIOUS
  <2> QED
    BY <1>1, <1>2, <1>4, <2>1, CompiledIs DEF Waiting
<1> QED
  BY <1>3, <1>4 DEF Queues

\* A mutant is never in two places.
LEMMA OnceStep ==
  ASSUME TypeOK, WorkOK, StagesOK, OnceOK, [Next]_vars
  PROVE  OnceOK'
<1>1. CASE Rests
  BY <1>1, Resting DEF Rests, OnceOK
<1>2. CASE Queues
  <2>1. \A l \in Lanes : pc'[l] \notin InHand
    BY <1>2 DEF Queues, InHand, Busy
  <2> QED
    BY <1>2, <2>1, Queueing DEF OnceOK
<1>3. ASSUME NEW l \in Lanes, TakesFirst(l)
      PROVE  OnceOK'
  <2>1. \A i, j \in DOMAIN pending' : pending'[i] = pending'[j] => i = j
    <3>1. /\ pending \in Seq(Mutants) /\ pending # <<>> /\ pending' = Tail(pending)
          /\ \A i, j \in DOMAIN pending : pending[i] = pending[j] => i = j
      BY <1>3 DEF TypeOK, OnceOK, TakesFirst
    <3>2. \A i \in DOMAIN pending' : i + 1 \in DOMAIN pending /\ pending'[i] = pending[i + 1] /\ i \in Nat
      BY ONLY <3>1
    <3> QED
      BY <3>1, <3>2
  <2>2. \A k \in Lanes : pc'[k] \in InHand =>
          \/ k = l /\ job'[k] = Head(pending)
          \/ k # l /\ pc[k] \in InHand /\ job'[k] = job[k] /\ job[k] \in Held
    <3>1. job'[l] = Head(pending) /\ \A k \in Lanes \ {l} : pc'[k] = pc[k] /\ job'[k] = job[k]
      BY <1>3 DEF TypeOK, TakesFirst
    <3>2. \A k \in Lanes : pc[k] \in InHand => job[k] \in Held
      BY DEF Held
    <3> QED
      BY <3>1, <3>2
  <2>3. Head(pending) \notin Held
    BY <1>3, Taking DEF OnceOK
  <2>4. \A j, k \in Lanes : pc'[j] \in InHand /\ pc'[k] \in InHand /\ job'[j] = job'[k] => j = k
    BY <2>2, <2>3 DEF OnceOK
  <2>5. results' = results
    BY <1>3 DEF TakesFirst
  <2> QED
    BY <1>3, <2>1, <2>4, <2>5, Taking DEF OnceOK
<1>4. ASSUME NEW l \in Lanes, Records(l)
      PROVE  OnceOK'
  <2>1. job[l] \notin Scored /\ job[l] \notin Waiting
    BY <1>4, Recording DEF OnceOK
  <2>2. \A k \in Lanes : pc'[k] \in InHand => pc[k] \in InHand /\ job'[k] = job[k]
    BY <1>4 DEF TypeOK, Records, InHand, Busy
  <2>3. pending' = pending
    BY <1>4 DEF Records
  <2> QED
    BY <1>4, <2>1, <2>2, <2>3, Recording DEF OnceOK
<1> QED
  BY <1>1, <1>2, <1>3, <1>4, Moves

\* While the sweep goes on, each mutant that was not dropped is somewhere.
LEMMA CoverStep ==
  ASSUME TypeOK, WorkOK, StagesOK, OnceOK, CoverOK, [Next]_vars, Scoring' => Scoring \/ Queues
  PROVE  CoverOK'
<1>1. given' = given
  BY Unchanging
<1>2. CASE Queues
  BY <1>1, <1>2, Queueing DEF CoverOK
<1>3. CASE ~Queues
  <2>1. Scoring' => Scoring
    BY <1>3
  <2>2. Waiting' \cup Held' \cup Scored' = Waiting \cup Held \cup Scored
    BY <1>3, Moves, Resting, Taking, Recording
  <2> QED
    BY <1>1, <2>1, <2>2 DEF CoverOK
<1> QED
  BY <1>2, <1>3

---------------------------------------------------------------------------
(* The main thread and its workers *)

\* One fault at a time is paid for.
Pays == \/ spent' = spent
        \/ spent' = [spent EXCEPT !.timeouts = @ + 1]
        \/ spent' = [spent EXCEPT !.failures = @ + 1]
        \/ Interrupt /\ spent' = [spent EXCEPT !.interrupts = @ + 1]

LEMMA Counted ==
  ASSUME TypeOK, [Next]_vars
  PROVE  /\ Pays /\ spent.interrupts \in Nat
         /\ \/ spent'.interrupts = spent.interrupts
            \/ Interrupt /\ spent'.interrupts = spent.interrupts + 1
<1> USE Constants DEF TypeOK
<1>1. spent.interrupts \in Nat
  OBVIOUS
<1>2. Pays
  <2>1. Directs => Pays
    BY DEF Pays, Directs, LanesUp, WriteProbe, BuildProbe, BuildBaseline, RunBaseline, SweepOver,
           Joined, ListLanes, Cleared, Report
  <2>2. Drop => spent' = spent
    BY DEF Drop
  <2>3. UNCHANGED vars => spent' = spent
    BY DEF vars
  <2>4. ASSUME NEW l \in Lanes, Deletes(l) \/ WriteLate(l)
        PROVE  spent' = spent
    BY <2>4, Deleting
  <2>5. ASSUME NEW l \in Lanes, Acts(l)
        PROVE  Pays
    BY <2>5 DEF Pays, Acts, Worker, Setup, Take, Write, Check, Compile, Link, Test, Founder, Record, Raise
  <2>6. Interrupt => spent' = [spent EXCEPT !.interrupts = @ + 1]
    BY DEF Interrupt
  <2> QED
    BY <2>1, <2>2, <2>3, <2>4, <2>5, <2>6, Whose DEF Pays
<1>3. /\ [spent EXCEPT !.timeouts = @ + 1].interrupts = spent.interrupts
      /\ [spent EXCEPT !.failures = @ + 1].interrupts = spent.interrupts
      /\ [spent EXCEPT !.interrupts = @ + 1].interrupts = spent.interrupts + 1
  OBVIOUS
<1> QED
  BY <1>1, <1>2, <1>3 DEF Pays

\* Where each step leaves the main thread, and the workers with it.
LEMMA StagesStep ==
  ASSUME TypeOK, WorkOK, StagesOK, [Next]_vars
  PROVE  StagesOK' /\ (Scoring' => Scoring \/ Queues)
<1> USE DEF StagesOK, Scoring, Alone, Settled
<1>1. CASE LanesUp
  BY <1>1 DEF LanesUp, LeaveLanes, workVars, TypeOK
<1>2. CASE WriteProbe
  BY <1>2 DEF WriteProbe, workVars
<1>3. CASE BuildProbe
  BY <1>3 DEF BuildProbe, LeaveLanes, workVars
<1>4. CASE BuildBaseline
  BY <1>4 DEF BuildBaseline, LeaveLanes, workVars
<1>5. CASE RunBaseline
  BY <1>5 DEF RunBaseline, LeaveLanes, workVars
<1>6. CASE SweepOver
  BY <1>6 DEF SweepOver, LeaveLanes, workVars
<1>7. CASE Joined
  BY <1>7 DEF Joined, LeaveLanes, workVars
<1>8. CASE ListLanes
  BY <1>8 DEF ListLanes, workVars
<1>9. CASE Cleared
  BY <1>9 DEF Cleared, workVars
<1>10. CASE Report
  BY <1>10 DEF Report, workVars
<1>11. CASE Drop
  BY <1>11 DEF Drop, LeaveLanes, Queues
<1>12. ASSUME NEW l \in Lanes, Deletes(l) \/ WriteLate(l)
       PROVE  StagesOK' /\ (Scoring' => Scoring)
  BY <1>12, Deleting
<1>15. CASE UNCHANGED vars
  BY <1>15 DEF vars, mainVars, workVars
<1>13. CASE Interrupt
  <2>1. spent'.interrupts = spent.interrupts + 1 /\ spent.interrupts \in Nat
    BY <1>13 DEF Interrupt, TypeOK
  <2>2. CASE InterruptAlone
    BY <1>13, <2>1, <2>2 DEF Interrupt, InterruptAlone, LeaveLanes
  <2>3. CASE InterruptPool
    BY <1>13, <2>1, <2>3 DEF Interrupt, InterruptPool, LeaveLanes
  <2>4. CASE InterruptLate
    BY <1>13, <2>1, <2>4 DEF Interrupt, InterruptLate
  <2> QED
    BY <1>13, <2>2, <2>3, <2>4 DEF Interrupt
<1>14. ASSUME NEW l \in Lanes, Acts(l)
       PROVE  StagesOK' /\ (Scoring' => Scoring)
  <2>1. /\ UNCHANGED <<phase, exit, reported>> /\ spent'.interrupts = spent.interrupts
        /\ \A k \in Lanes \ {l} : pc'[k] = pc[k]
    BY <1>14, Acting
  <2>2. CASE pc[l] = "setup" /\ pc'[l] \in {"ready", "refused", "crashed"}
    <3>1. phase \in {"lanes", "join", "clear", "clearing", "exited"}
      BY <1>14, <2>2, Acting DEF InHand, Busy
    <3>2. pending' = pending /\ results' = results
      BY <1>14, <2>2 DEF Acts, Worker, Setup, Take, Write, Check, Compile, Link, Test, Founder, Record, Raise, Busy
    <3> QED
      BY <2>1, <2>2, <3>1, <3>2
  <2>3. CASE pc[l] \in InHand \cup {"idle"}
    <3>1. phase \notin Alone \cup {"lanes"} /\ ~(phase # "sweep" /\ Scoring)
          /\ ~(phase \in {"clear", "clearing", "report", "exited"} /\ spent.interrupts <= 1)
      BY <2>3 DEF InHand, Busy
    <3> QED
      BY <2>1, <3>1
  <2> QED
    BY <1>14, <2>2, <2>3, Acting
<1> QED
  BY <1>1, <1>2, <1>3, <1>4, <1>5, <1>6, <1>7, <1>8, <1>9, <1>10, <1>11, <1>12, <1>13, <1>14, <1>15, Whose DEF Directs

\* What building the tree, or the probe, says of the run.
LEMMA Building ==
  /\ Compiling(Probe) # "killed"
  /\ given.reaches => Compiling(Probe) = "bad"
  /\ ~given.reaches /\ Compiling(Probe) = "bad" => given.suite = "unbuildable"
  /\ Compiling(Tree) = "ok" <=> given.suite # "unbuildable"
<1>1. Probe \notin Mutants /\ Tree \notin Mutants /\ Tree # Probe
  BY Constants
<1> QED
  BY <1>1 DEF Compiling, Seen, Fate

\* Nothing is taken before the suite was seen to be green.
LEMMA ProvenStep ==
  ASSUME TypeOK, WorkOK, StagesOK, ProvenOK, [Next]_vars
  PROVE  ProvenOK'
<1> DEFINE Begun  == (\E l \in Lanes : pc[l] \in InHand) \/ pending # <<>> \/ results # <<>>
           Before == /\ phase \in {"lanes", "probe", "probeBuild"} => ~probed
                     /\ phase \in {"lanes", "probe", "probeBuild", "baselineBuild"} => greens = 0
                     /\ phase = "baselineBuild" =>
                          text[0] = Tree /\ (probed => given.reaches \/ given.suite = "unbuildable")
                     /\ phase \in {"baseline", "drop"} => given.reaches \/ ~probed
                     /\ phase = "baseline" /\ greens > 0 => given.suite \in {"green", "flaky"}
                     /\ phase = "drop" => SeenGreen
<1>1. given' = given /\ SeenGreen' = SeenGreen
  BY Unchanging
<1>2. Before /\ (Begun => SeenGreen /\ (given.reaches \/ ~probed))
  BY DEF ProvenOK
<1>3. Begun => phase \notin Alone \cup {"lanes"}
  BY DEF StagesOK, Alone, InHand, Busy
<1>4. phase \notin Alone \cup {"lanes"} => probed' = probed /\ phase' \notin Alone \cup {"lanes"}
  <2>1. ASSUME NEW l \in Lanes, Deletes(l) \/ WriteLate(l) \/ Acts(l)
        PROVE  probed' = probed /\ phase' = phase
    BY <2>1, Deleting, Acting
  <2>2. Interrupt => phase' \in {"join", "clear", "exited", "report"} /\ probed' = probed
    BY DEF Interrupt, InterruptAlone, InterruptPool, InterruptLate, LeaveLanes
  <2>3. CASE Directs \/ Drop \/ UNCHANGED vars
    BY <2>3 DEF Alone, Directs, LanesUp, WriteProbe, BuildProbe, BuildBaseline, RunBaseline,
       SweepOver, Joined, ListLanes, Cleared, Report, Drop, LeaveLanes, vars, mainVars
  <2> QED
    BY <2>1, <2>2, <2>3, Whose DEF Alone
<1>5. Begun' => Begun \/ Queues
  BY Moves DEF Rests, TakesFirst, Records, InHand, Busy
<1>6. Queues => probed' = probed
  <2>1. ASSUME NEW l \in Lanes, Deletes(l) \/ WriteLate(l) \/ Acts(l)
        PROVE  probed' = probed
    BY <2>1, Deleting, Acting
  <2>2. Interrupt => probed' = probed
    BY DEF Interrupt
  <2>3. CASE Directs \/ Drop \/ UNCHANGED vars
    BY <2>3 DEF Queues, Directs, LanesUp, WriteProbe, BuildProbe, BuildBaseline, RunBaseline,
       SweepOver, Joined, ListLanes, Cleared, Report, Drop, vars, mainVars
  <2> QED
    BY <2>1, <2>2, <2>3, Whose
<1>7. Begun' => SeenGreen /\ (given.reaches \/ ~probed')
  <2>1. CASE Begun
    BY <1>2, <1>3, <1>4, <2>1
  <2>2. CASE Queues
    BY <1>2, <1>6, <2>2 DEF Queues
  <2> QED
    BY <1>5, <2>1, <2>2
<1>8. Before'
  <2> USE <1>1, <1>2 DEF Alone
  <2>1. CASE phase \notin Alone \cup {"lanes"}
    BY <1>4, <2>1
  <2>2. ASSUME NEW l \in Lanes, Deletes(l) \/ WriteLate(l) \/ Acts(l), phase \in Alone \cup {"lanes"}
        PROVE  Before'
    <3>1. UNCHANGED <<phase, probed, greens>>
      BY <2>2, Deleting, Acting
    <3>2. phase = "baselineBuild" => text' = text
      <4>1. Acts(l) => phase # "baselineBuild"
        BY <2>2, Acting DEF StagesOK, InHand, Busy
      <4> QED
        BY <2>2, <4>1, Deleting
    <3> QED
      BY <3>1, <3>2
  <2>3. CASE Interrupt
    <3>1. phase' \in {"join", "clear", "exited", "report"}
      BY <2>3 DEF Interrupt, InterruptAlone, InterruptPool, InterruptLate, LeaveLanes
    <3> QED
      BY <3>1
  <2>4. CASE UNCHANGED vars
    BY <2>4 DEF vars, mainVars, laneVars
  <2>5. CASE LanesUp
    BY <2>5 DEF LanesUp, LeaveLanes
  <2>6. CASE WriteProbe
    BY <2>6 DEF WriteProbe
  <2>7. CASE BuildProbe
    <3>1. greens = 0 /\ ~probed /\ greens' = greens
      BY <2>7 DEF BuildProbe
    <3>2. text'[0] = Tree
      BY <2>7, Constants DEF BuildProbe, Restored, TypeOK
    <3>3. \/ phase' = "baselineBuild" /\ (probed' => Compiling(Probe) = "bad" \/ probed)
          \/ phase' \in {"clear", "exited", "report"}
      BY <2>7 DEF BuildProbe, LeaveLanes
    <3> QED
      BY <3>1, <3>2, <3>3, Building
  <2>8. CASE BuildBaseline
    <3>1. greens = 0 /\ greens' = greens /\ probed' = probed /\ text[0] = Tree
          /\ (probed => given.reaches \/ given.suite = "unbuildable")
      BY <2>8 DEF BuildBaseline
    <3>2. \/ phase' = "baseline" /\ Compiling(Tree) = "ok"
          \/ phase' \in {"clear", "exited", "report"}
      BY <2>8, <3>1 DEF BuildBaseline, LeaveLanes
    <3> QED
      BY <3>1, <3>2, Building
  <2>9. CASE RunBaseline
    <3>1. phase = "baseline" /\ probed' = probed
      BY <2>9 DEF RunBaseline
    <3>2. \/ greens = BaselineRuns /\ phase' = "drop" /\ greens' = greens
          \/ phase' = "baseline" /\ "ok" \in SuiteRun
          \/ phase' \in {"clear", "exited", "report"}
      BY <2>9 DEF RunBaseline, LeaveLanes
    <3>3. "ok" \in SuiteRun => given.suite \in {"green", "flaky"}
      BY DEF SuiteRun
    <3> QED
      BY <3>1, <3>2, <3>3 DEF SeenGreen
  <2>10. CASE Drop
    BY <2>10 DEF Drop, LeaveLanes
  <2>11. CASE SweepOver \/ Joined \/ ListLanes \/ Cleared \/ Report
    BY <2>11, <2>1 DEF SweepOver, Joined, ListLanes, Cleared, Report
  <2> QED
    BY <2>1, <2>2, <2>3, <2>4, <2>5, <2>6, <2>7, <2>8, <2>9, <2>10, <2>11, Whose DEF Directs
<1> QED
  BY <1>1, <1>7, <1>8 DEF ProvenOK

\* A good tree with no fault is not turned away.
LEMMA GoodStep ==
  ASSUME TypeOK, WorkOK, StagesOK, ProvenOK, GoodOK, [Next]_vars
  PROVE  GoodOK'
<1> DEFINE zero == [timeouts |-> 0, interrupts |-> 0, failures |-> 0]
<1> SUFFICES ASSUME given.suite = "green", given.reaches, spent' = zero
             PROVE  exit' \in {"none", "0", "1"} /\ \A l \in Lanes : pc'[l] \notin {"refused", "crashed"}
  BY Unchanging DEF GoodOK
<1>1. /\ [spent EXCEPT !.timeouts = @ + 1] # zero /\ [spent EXCEPT !.failures = @ + 1] # zero
      /\ [spent EXCEPT !.interrupts = @ + 1] # zero
  <2>1. spent \in [timeouts : Nat, interrupts : Nat, failures : Nat]
    BY Constants DEF TypeOK
  <2>2. /\ [spent EXCEPT !.timeouts = @ + 1].timeouts = spent.timeouts + 1
        /\ [spent EXCEPT !.failures = @ + 1].failures = spent.failures + 1
        /\ [spent EXCEPT !.interrupts = @ + 1].interrupts = spent.interrupts + 1
    BY <2>1
  <2>3. spent.timeouts + 1 # 0 /\ spent.failures + 1 # 0 /\ spent.interrupts + 1 # 0
    BY <2>1
  <2> QED
    BY <2>2, <2>3
<1>2. spent = zero /\ ~Interrupt
  BY <1>1, Counted DEF Pays, Interrupt
<1> HIDE DEF zero
<1>3. exit \in {"none", "0", "1"} /\ \A l \in Lanes : pc[l] \notin {"refused", "crashed"}
  BY <1>2 DEF GoodOK, zero
<1>4. spent.interrupts = 0
  BY <1>2 DEF zero
<1>5. ASSUME NEW l \in Lanes, Deletes(l) \/ WriteLate(l)
      PROVE  UNCHANGED <<exit, pc>>
  BY <1>5, Deleting
<1>6. ASSUME NEW l \in Lanes, Acts(l)
      PROVE  exit' = exit /\ \A k \in Lanes : pc'[k] \notin {"refused", "crashed"}
  <2>1. exit' = exit /\ \A k \in Lanes \ {l} : pc'[k] = pc[k]
    BY <1>6, Acting
  <2>2. pc'[l] \notin {"refused", "crashed"}
    <3>1. CASE Setup(l)
      BY <1>1, <1>2, <3>1 DEF Setup, TypeOK
    <3>2. CASE ~Setup(l)
      <4>1. pc[l] # "setup"
        BY <1>6, <3>2 DEF Acts, Worker, Take, Write, Check, Compile, Link, Test, Founder, Record, Raise, Busy
      <4> QED
        BY <1>6, <4>1, Acting DEF InHand, Busy
    <3> QED
      BY <3>1, <3>2
  <2> QED
    BY <1>3, <2>1, <2>2
<1>7. CASE LanesUp
  <2>1. \A l \in Lanes : pc[l] = "ready"
    BY <1>3, <1>7 DEF LanesUp, StagesOK
  <2> QED
    BY <1>3, <1>7, <2>1 DEF LanesUp, workVars
<1>8. CASE BuildProbe
  <2>1. exit' = exit /\ pc' = pc
    BY <1>1, <1>2, <1>8, Building DEF BuildProbe, workVars
  <2> QED
    BY <1>3, <2>1
<1>9. CASE BuildBaseline
  <2>1. text[0] = Tree
    BY <1>9 DEF BuildBaseline, ProvenOK
  <2>2. exit' = exit /\ pc' = pc
    BY <1>1, <1>2, <1>9, <2>1, Building DEF BuildBaseline, workVars
  <2> QED
    BY <1>3, <2>2
<1>10. CASE RunBaseline
  BY <1>3, <1>10 DEF RunBaseline, SuiteRun, laneVars, workVars
<1>11. CASE SweepOver \/ Drop
  BY <1>3, <1>11 DEF SweepOver, Drop, LeaveLanes, workVars
<1>12. CASE Joined
  BY <1>4, <1>12 DEF Joined, StagesOK
<1>13. CASE WriteProbe \/ ListLanes \/ Cleared \/ Report
  BY <1>3, <1>13 DEF WriteProbe, ListLanes, Cleared, Report, workVars
<1>14. CASE UNCHANGED vars
  BY <1>3, <1>14 DEF vars, mainVars, workVars
<1> QED
  BY <1>2, <1>3, <1>5, <1>6, <1>7, <1>8, <1>9, <1>10, <1>11, <1>12, <1>13, <1>14, Whose DEF Directs

---------------------------------------------------------------------------
(* Verdicts *)

\* What a worker reads off its own mutant's build and tests is what it deserves.
LEMMA Reading ==
  ASSUME NEW m
  PROVE  /\ CompileVerdict("ok") = NoVerdict
         /\ CompileVerdict(Compiling(m)) \in {NoVerdict, Deserved(m)}
         /\ CompileVerdict(Compiling(m)) = NoVerdict => Compiling(m) = "ok"
         /\ Compiling(m) = "ok" /\ given.suite # "flaky" =>
              \A o \in Testing(m) : TestVerdict(o) = Deserved(m)
<1>1. CompileVerdict("ok") = NoVerdict /\ CompileVerdict("bad") = "compiler"
      /\ CompileVerdict("killed") = "oom"
  BY DEF CompileVerdict, killed_for_memory
<1>2. /\ TestVerdict("ok") = "survived" /\ TestVerdict("bad") = "caught"
      /\ TestVerdict("killed") = "oom" /\ TestVerdict("none") = "hang"
  BY DEF TestVerdict, killed_for_memory
<1>3. \/ Fate(Seen(m)) = "refused" /\ Compiling(m) = "bad" /\ Deserved(m) = "compiler"
      \/ Fate(Seen(m)) = "glutton" /\ Compiling(m) = "killed" /\ Deserved(m) = "oom"
      \/ Fate(Seen(m)) \notin {"refused", "glutton"} /\ Compiling(m) = "ok"
  BY DEF Compiling, Deserved
<1>4. ASSUME Compiling(m) = "ok", given.suite # "flaky"
      PROVE  \A o \in Testing(m) : TestVerdict(o) = Deserved(m)
  <2> DEFINE f == Fate(Seen(m))
  <2>1. f \notin {"refused", "glutton"}
    BY <1>3, <1>4
  <2>2. Testing(m) = CASE f = "breaks" -> {"bad"}
                       [] f = "hangs" -> {"none"}
                       [] f = "eats" -> {"killed"}
                       [] OTHER -> {"ok"} \cup IF given.suite = "flaky" THEN {"bad"} ELSE {}
    BY DEF Testing
  <2>3. Deserved(m) = CASE f = "refused" -> "compiler"
                        [] f \in {"glutton", "eats"} -> "oom"
                        [] f = "breaks" -> "caught"
                        [] f = "hangs" -> "hang"
                        [] OTHER -> "survived"
    BY DEF Deserved
  <2> HIDE DEF f
  <2> QED
    BY <1>2, <1>4, <2>1, <2>2, <2>3
<1> QED
  BY <1>1, <1>3, <1>4 DEF NoVerdict

LEMMA LaneStep ==
  ASSUME TypeOK, WorkOK, LaneOK, [Next]_vars
  PROVE  LaneOK'
<1> SUFFICES ASSUME ~given.outlives
             PROVE  \A l \in Lanes : InLane(l)'
  BY Unchanging DEF LaneOK
<1>1. \A l \in Lanes : InLane(l)
  BY DEF LaneOK
<1> DEFINE Then(l) ==
             /\ orphan'[l] = Nothing
             /\ phase' = "sweep" =>
                  /\ pc'[l] \in {"check", "compile"} => text'[l] = job'[l]
                  /\ pc'[l] = "link" => object'[l] = job'[l] /\ Compiling(job'[l]) = "ok"
                  /\ pc'[l] = "test" => binary'[l] = job'[l] /\ Compiling(job'[l]) = "ok"
                  /\ pc'[l] = "record" /\ given.suite # "flaky" => verdict'[l] \in MayConclude(job'[l])
<1>2. given' = given /\ \A l : Then(l) <=> InLane(l)'
  <2>1. given' = given
    BY Unchanging
  <2> QED
    BY <2>1 DEF InLane, Compiling, MayConclude, Deserved, Fate, Seen
<1>3. CASE Directs
  <2>1. phase' # "sweep"
    BY <1>3 DEF Directs, LanesUp, WriteProbe, BuildProbe, BuildBaseline, RunBaseline, SweepOver,
         Joined, ListLanes, Cleared, Report, LeaveLanes
  <2> QED
    BY <1>1, <1>3, <2>1, Directing DEF InLane
<1>4. CASE Drop
  <2>1. UNCHANGED orphan /\ (phase' = "sweep" => \A l \in Lanes : pc'[l] = "idle")
    BY <1>4 DEF Drop, LeaveLanes, laneVars
  <2> QED
    BY <1>1, <2>1 DEF InLane
<1>5. CASE Interrupt
  <2>1. phase' # "sweep"
    BY <1>5 DEF Interrupt, InterruptAlone, InterruptPool, InterruptLate, LeaveLanes
  <2> QED
    BY <1>1, <1>5, <2>1, Interrupting DEF InLane
<1>6. CASE UNCHANGED vars
  <2>1. UNCHANGED <<orphan, phase, pc, text, job, object, binary, verdict>>
    BY <1>6 DEF vars, mainVars, laneVars, workVars
  <2> QED
    BY <1>1, <1>2, <2>1 DEF InLane
<1>7. ASSUME NEW k \in Lanes, Deletes(k) \/ WriteLate(k)
      PROVE  \A l \in Lanes : InLane(l)'
  <2>1. ~WriteLate(k)
    BY <1>1 DEF WriteLate, InLane
  <2>2. UNCHANGED <<orphan, object>>
    BY <1>7, <2>1 DEF Deletes, EmptyLane, RemoveLane
  <2>3. UNCHANGED <<phase, pc, text, job, binary, verdict>>
    BY <1>7, Deleting
  <2> QED
    BY <1>1, <1>2, <2>2, <2>3 DEF InLane
<1>8. ASSUME NEW k \in Lanes, Acts(k)
      PROVE  \A l \in Lanes : Then(l)
  <2>1. ASSUME NEW l \in Lanes \ {k}
        PROVE  Then(l)
    <3>1. /\ pc'[l] = pc[l] /\ job'[l] = job[l] /\ verdict'[l] = verdict[l] /\ text'[l] = text[l]
          /\ object'[l] = object[l] /\ binary'[l] = binary[l] /\ orphan'[l] = orphan[l]
          /\ phase' = phase
      BY <1>8, <2>1, Acting
    <3> QED
      BY <1>1, <3>1 DEF InLane
  <2>2. phase' = phase /\ orphan[k] = Nothing
    BY <1>1, <1>8, Acting DEF InLane
  <2>3. phase = "sweep" =>
          /\ pc[k] \in {"check", "compile"} => text[k] = job[k]
          /\ pc[k] = "link" => object[k] = job[k] /\ Compiling(job[k]) = "ok"
          /\ pc[k] = "test" => binary[k] = job[k] /\ Compiling(job[k]) = "ok"
    BY <1>1 DEF InLane
  <2> USE DEF TypeOK
  <2>4. ASSUME Setup(k) PROVE Then(k)
    BY <2>2, <2>4 DEF Setup
  <2>5. ASSUME Take(k) PROVE Then(k)
    BY <2>2, <2>5 DEF Take, laneVars
  <2>6. ASSUME Write(k) PROVE Then(k)
    BY <2>2, <2>6 DEF Write
  <2>7. ASSUME Check(k) PROVE Then(k)
    <3>1. PICK v \in {NoVerdict, "timeout", CompileVerdict(Compiling(text[k]))} :
             Concludes(k, v, "compile")
      BY <2>7, Reading DEF Check
    <3>2. pc[k] = "check" /\ UNCHANGED <<text, object, binary, orphan, job>>
      BY <2>7 DEF Check, laneVars
    <3>3. phase = "sweep" /\ v # NoVerdict => v \in MayConclude(job[k])
      BY <2>3, <3>1, <3>2, Reading DEF MayConclude
    <3>4. verdict'[k] = v /\ pc'[k] = IF v = NoVerdict THEN "compile" ELSE "record"
      BY <3>1 DEF Concludes
    <3> QED
      BY <2>2, <2>3, <3>2, <3>3, <3>4
  <2>8. ASSUME Compile(k) PROVE Then(k)
    <3>1. pc[k] = "compile" /\ UNCHANGED <<text, job>>
      BY <2>8 DEF Compile
    <3>2. orphan'[k] = Nothing
      BY <2>2, <2>8 DEF Compile
    <3>3. \/ /\ Concludes(k, CompileVerdict(Compiling(text[k])), "link")
             /\ Compiling(text[k]) = "ok" => object'[k] = text[k]
          \/ Concludes(k, "timeout", "link")
      BY <2>8 DEF Compile
    <3>4. \/ /\ verdict'[k] = CompileVerdict(Compiling(text[k]))
             /\ pc'[k] = IF CompileVerdict(Compiling(text[k])) = NoVerdict THEN "link" ELSE "record"
             /\ Compiling(text[k]) = "ok" => object'[k] = text[k]
          \/ verdict'[k] = "timeout" /\ pc'[k] = "record"
      BY <3>3 DEF Concludes, NoVerdict
    <3> QED
      BY <2>2, <2>3, <3>1, <3>2, <3>4, Reading DEF MayConclude
  <2>9. ASSUME Link(k) PROVE Then(k)
    BY <2>2, <2>3, <2>9 DEF Link
  <2>10. ASSUME Test(k) PROVE Then(k)
    <3>1. PICK o \in Testing(binary[k]) : Concludes(k, TestVerdict(o), "record")
      BY <2>10 DEF Test
    <3>2. pc[k] = "test" /\ UNCHANGED <<orphan, job>>
      BY <2>10 DEF Test, laneVars
    <3>3. verdict'[k] = TestVerdict(o) /\ pc'[k] = "record"
      BY <3>1 DEF Concludes
    <3>4. phase = "sweep" /\ given.suite # "flaky" => TestVerdict(o) \in MayConclude(job[k])
      BY <2>3, <3>1, <3>2, Reading DEF MayConclude
    <3> QED
      BY <2>2, <3>2, <3>3, <3>4
  <2>11. ASSUME Founder(k) PROVE Then(k)
    BY <2>2, <2>11 DEF Founder, Concludes, MayConclude, NoVerdict
  <2>12. ASSUME Record(k) PROVE Then(k)
    BY <2>2, <2>12 DEF Record, laneVars
  <2>13. ASSUME Raise(k) PROVE Then(k)
    BY <2>2, <2>13 DEF Raise, Concludes, MayConclude, NoVerdict, laneVars
  <2>14. Then(k)
    BY <1>8, <2>4, <2>5, <2>6, <2>7, <2>8, <2>9, <2>10, <2>11, <2>12, <2>13 DEF Acts, Worker
  <2> QED
    BY <2>1, <2>14
<1> QED
  BY <1>2, <1>3, <1>4, <1>5, <1>6, <1>7, <1>8, Whose

\* A worker's verdict, as it is recorded, is its mutant's.
LEMMA ResultsStep ==
  ASSUME TypeOK, WorkOK, StagesOK, LaneOK, ResultsOK, [Next]_vars
  PROVE  ResultsOK'
<1>1. given' = given /\ \A r : Earned(r)' = Earned(r)
  BY Unchanging DEF Earned
<1> SUFFICES ASSUME ~given.outlives, given.suite # "flaky", Scoring'
             PROVE  \A i \in DOMAIN results' : Earned(results'[i])
  BY <1>1 DEF ResultsOK
<1>2. Scoring \/ Queues
  BY StagesStep
<1>3. CASE Queues
  BY <1>3, Queueing
<1>4. CASE Scoring /\ results' = results
  BY <1>4 DEF ResultsOK
<1>5. ASSUME Scoring, NEW l \in Lanes, Records(l)
      PROVE  \A i \in DOMAIN results' : Earned(results'[i])
  <2>1. phase = "sweep"
    BY <1>5 DEF Records, StagesOK
  <2>2. verdict[l] \in MayConclude(job[l])
    BY <1>5, <2>1 DEF Records, LaneOK, InLane
  <2>3. Earned(Recorded(l))
    BY <2>2 DEF Earned, Recorded, MayConclude
  <2>4. \A i \in DOMAIN results : Earned(results[i])
    BY <1>5 DEF ResultsOK
  <2>5. results \in Seq(Result) /\ results' = Append(results, Recorded(l))
    BY <1>5 DEF TypeOK, Records
  <2>6. \A i \in DOMAIN results' : \/ i \in DOMAIN results /\ results'[i] = results[i]
                                  \/ results'[i] = Recorded(l)
    BY ONLY <2>5
  <2> QED
    BY <2>3, <2>4, <2>6
<1> QED
  BY <1>2, <1>3, <1>4, <1>5, Moves DEF Rests, TakesFirst

---------------------------------------------------------------------------
(* Lanes *)

\* The main thread clears the lanes, unless they are to be kept.
LEMMA Leaving ==
  ASSUME Directs \/ Drop \/ Interrupt, phase \notin {"clear", "clearing", "report", "exited"}
  PROVE  /\ dir' = dir
         /\ \/ phase' = "clear" /\ given.mode # "reuse"
            \/ phase' \in {"report", "exited"} /\ given.mode = "reuse"
            \/ phase' \notin {"clear", "clearing", "report", "exited"}
<1>1. CASE Directs
  BY <1>1 DEF Directs, LanesUp, WriteProbe, BuildProbe, BuildBaseline, RunBaseline, SweepOver, Joined,
     ListLanes, Cleared, Report, LeaveLanes, laneVars
<1>2. CASE Drop
  BY <1>2 DEF Drop, LeaveLanes, laneVars
<1>3. CASE Interrupt
  BY <1>3 DEF Interrupt, InterruptAlone, InterruptPool, InterruptLate, LeaveLanes
<1> QED
  BY <1>1, <1>2, <1>3

\* A lane that is not going to be deleted has been.
LEMMA DirsStep ==
  ASSUME TypeOK, WorkOK, StagesOK, LaneOK, DirsOK, [Next]_vars
  PROVE  DirsOK'
<1> DEFINE Ended == {"clear", "clearing", "report", "exited"}
<1>1. given' = given /\ (Watched' => Watched)
  BY Unchanging, Counted DEF Watched
<1>2. CASE phase \notin Ended /\ (Directs \/ Drop \/ Interrupt)
  BY <1>1, <1>2, Leaving DEF DirsOK
<1>3. CASE ListLanes
  BY <1>1, <1>3 DEF ListLanes, DirsOK, laneVars
<1>4. CASE Cleared
  <2>1. clearing.lanes = {} /\ dir' = dir /\ cutShort' = cutShort /\ phase = "clearing"
    BY <1>4 DEF Cleared, laneVars
  <2>2. \/ phase' = "clearing" /\ clearing'.lanes = {l \in Lanes : dir[l] # "absent"}
        \/ phase' \in {"report", "exited"}
    BY <1>4 DEF Cleared
  <2>3. Watched => \A l \in Lanes : dir[l] = "absent"
    BY <2>1 DEF DirsOK
  <2>4. given.mode # "reuse"
    BY <2>1 DEF DirsOK
  <2> QED
    BY <1>1, <2>1, <2>2, <2>3, <2>4 DEF DirsOK
<1>5. CASE Report
  BY <1>1, <1>5 DEF Report, DirsOK, laneVars
<1>6. CASE InterruptLate /\ Interrupt
  BY <1>1, <1>6 DEF Interrupt, InterruptLate, DirsOK
<1>7. CASE UNCHANGED vars
  BY <1>1, <1>7 DEF vars, mainVars, laneVars, DirsOK
<1>8. ASSUME NEW l \in Lanes, EmptyLane(l)
      PROVE  DirsOK'
  <2>1. phase = "clearing" /\ l \in clearing.lanes /\ UNCHANGED <<phase, clearing, cutShort>>
    BY <1>8 DEF EmptyLane, mainVars
  <2>2. dir' = [dir EXCEPT ![l] = "emptying"]
    BY <1>8 DEF EmptyLane
  <2>3. dir'[l] = "emptying" /\ \A k \in Lanes \ {l} : dir'[k] = dir[k]
    BY <2>2 DEF TypeOK
  <2> QED
    BY <1>1, <2>1, <2>3 DEF DirsOK
<1>9. ASSUME NEW l \in Lanes, RemoveLane(l)
      PROVE  DirsOK'
  <2>1. phase = "clearing" /\ UNCHANGED <<phase, cutShort>>
    BY <1>9 DEF RemoveLane
  <2>2. dir' = [dir EXCEPT ![l] = IF @ = "refilled" THEN "present" ELSE "absent"]
    BY <1>9 DEF RemoveLane
  <2>3. /\ dir[l] # "refilled" => dir'[l] = "absent"
        /\ dir'[l] # "refilled" /\ \A k \in Lanes \ {l} : dir'[k] = dir[k]
    BY <2>2 DEF TypeOK
  <2>4. clearing'.lanes = clearing.lanes \ {l}
    BY <1>9 DEF RemoveLane, TypeOK
  <2> QED
    BY <1>1, <2>1, <2>3, <2>4 DEF DirsOK
<1>10. ASSUME NEW l \in Lanes, WriteLate(l)
       PROVE  DirsOK'
  <2>1. given.outlives /\ phase' = phase
    BY <1>10, Deleting DEF WriteLate, LaneOK, InLane
  <2> QED
    BY <1>1, <2>1 DEF DirsOK, Watched
<1>11. ASSUME NEW l \in Lanes, Acts(l)
       PROVE  DirsOK'
  <2>1. UNCHANGED <<phase, clearing, cutShort>> /\ \A k \in Lanes \ {l} : dir'[k] = dir[k]
    BY <1>11, Acting
  <2>2. Watched /\ phase \in Ended => pc[l] \in Settled
    BY DEF StagesOK, Watched
  <2>3. CASE Watched /\ phase \in Ended
    <3>1. FALSE
      BY <1>11, <2>2, <2>3, Acting DEF Settled, InHand, Busy
    <3> QED
      BY <3>1
  <2>4. CASE Watched /\ phase \notin Ended
    <3>1. dir[l] \notin {"refilled", "emptying"}
      BY <2>4 DEF DirsOK
    <3>2. dir'[l] \in {"present", dir[l]}
      BY <1>11, <3>1 DEF Acts, Worker, Setup, Take, Write, Check, Compile, Link, Test, Founder, Record,
         Raise, laneVars, TypeOK
    <3> QED
      BY <1>1, <2>1, <2>4, <3>1, <3>2 DEF DirsOK
  <2>5. CASE ~Watched
    BY <1>1, <2>1, <2>5 DEF DirsOK
  <2> QED
    BY <2>3, <2>4, <2>5
<1>12. phase \in Ended /\ (Directs \/ Drop \/ Interrupt)
         => ListLanes \/ Cleared \/ Report \/ (InterruptLate /\ Interrupt)
  BY DEF Directs, LanesUp, WriteProbe, BuildProbe, BuildBaseline, RunBaseline, SweepOver, Joined, Drop,
     Interrupt, InterruptAlone, InterruptPool
<1> QED
  BY <1>2, <1>3, <1>4, <1>5, <1>6, <1>7, <1>8, <1>9, <1>10, <1>11, <1>12, Whose DEF Deletes

---------------------------------------------------------------------------
(* The report *)

LEMMA Reporting ==
  ASSUME [Next]_vars
  PROVE  Report \/ reported' = reported
<1>1. ASSUME NEW l \in Lanes, Deletes(l) \/ WriteLate(l) \/ Acts(l)
      PROVE  reported' = reported
  BY <1>1, Deleting DEF Acts, Worker, Setup, Take, Write, Check, Compile, Link, Test, Founder, Record,
     Raise, mainVars
<1>2. CASE Directs \/ Drop \/ Interrupt \/ UNCHANGED vars
  BY <1>2 DEF Directs, LanesUp, WriteProbe, BuildProbe, BuildBaseline, RunBaseline, SweepOver, Joined,
     ListLanes, Cleared, Drop, Interrupt, vars, mainVars
<1> QED
  BY <1>1, <1>2, Whose

\* At the report, every mutant that was not dropped has one result.
LEMMA Reports ==
  ASSUME TypeOK, WorkOK, StagesOK, CoverOK, OnceOK, Report
  PROVE  /\ Scoring /\ ToSet(reported') = ToSet(results)
         /\ \A i, j \in DOMAIN reported' : i < j => reported'[i].mutant < reported'[j].mutant
         /\ Scored = {r.mutant : r \in ToSet(results)}
         /\ Scored \in {Mutants, Mutants \ given.unseen}
<1>1. Scoring /\ \A l \in Lanes : pc[l] = "left"
  BY DEF Report, StagesOK, Scoring, Alone
<1>2. Held = {}
  BY <1>1 DEF Held, InHand, Busy
<1>3. Waiting = {}
  <2>1. pending = <<>>
    BY <1>1, Constants DEF WorkOK
  <2> QED
    BY <2>1 DEF Waiting
<1>4. Scored = {r.mutant : r \in ToSet(results)}
  BY DEF Scored, ToSet
<1>5. reported' = InOrder
  BY DEF Report
<1>6. results \in Seq(Result)
      /\ \A i, j \in DOMAIN results : results[i].mutant = results[j].mutant => i = j
  BY DEF TypeOK, OnceOK
<1> QED
  BY <1>1, <1>2, <1>3, <1>4, <1>5, <1>6, InOrderIs DEF CoverOK

\* What is printed is every mutant once and in order, with the verdict it has
\* earned; and exit status 0 says so.
LEMMA PrintedStep ==
  ASSUME TypeOK, WorkOK, StagesOK, CoverOK, OnceOK, PrintedInOrder, [Next]_vars
  PROVE  PrintedInOrder'
<1>1. given' = given
  BY Unchanging
<1>2. CASE reported' = reported
  BY <1>1, <1>2 DEF PrintedInOrder
<1>3. CASE Report
  <2>1. DOMAIN given.fate = Mutants
    BY DEF TypeOK, Givens
  <2> QED
    BY <1>1, <1>3, <2>1, Reports DEF PrintedInOrder
<1> QED
  BY <1>2, <1>3, Reporting

LEMMA VerdictsStep ==
  ASSUME TypeOK, WorkOK, StagesOK, CoverOK, OnceOK, ResultsOK, [Next]_vars,
         ~given.outlives => VerdictsAreEarned
  PROVE  (~given.outlives => VerdictsAreEarned)'
<1>1. given' = given /\ \A m : Deserved(m)' = Deserved(m)
  BY Unchanging
<1>2. CASE reported' = reported
  BY <1>1, <1>2 DEF VerdictsAreEarned
<1>3. CASE Report
  <2> SUFFICES ASSUME ~given.outlives, given.suite # "flaky"
               PROVE  \A r \in ToSet(reported') : Earned(r)
    BY <1>1 DEF VerdictsAreEarned, Earned, Deserved, Fate, Seen
  <2>1. ToSet(reported') = ToSet(results)
    BY <1>3, Reports
  <2>2. \A r \in ToSet(results) : Earned(r)
    BY <1>3, Reports DEF ResultsOK, ToSet
  <2> QED
    BY <2>1, <2>2
<1> QED
  BY <1>2, <1>3, Reporting

LEMMA HolesStep ==
  ASSUME TypeOK, WorkOK, StagesOK, CoverOK, OnceOK, ResultsOK, HolesOK, [Next]_vars
  PROVE  HolesOK'
<1> DEFINE Owned(s) == \A m \in Mutants : Deserved(m) = "survived" =>
                         \/ m \in given.unseen
                         \/ \E r \in ToSet(s) : r.mutant = m /\ (r.verdict = "error" \/ r.timedOut)
<1>1. given' = given
  BY Unchanging
<1>2. NoHole' <=> Owned(reported')
  BY <1>1 DEF NoHole, Deserved, Fate, Seen
<1>3. NoHole <=> Owned(reported)
  BY DEF NoHole
<1> SUFFICES ASSUME exit' = "0", given.suite # "flaky", ~given.outlives
             PROVE  Owned(reported')
  BY <1>1, <1>2 DEF HolesOK
<1>4. CASE exit = "0" /\ ~Report
  BY <1>3, <1>4, Reporting DEF HolesOK
<1>5. CASE Report
  <2>1. ToSet(reported') = ToSet(results) /\ Scored \in {Mutants, Mutants \ given.unseen}
    BY <1>5, Reports
  <2>2. \A r \in ToSet(results) : Earned(r) /\ r.verdict # "survived"
    BY <1>5, Reports DEF Report, ResultsOK, ToSet
  <2>3. ASSUME NEW m \in Mutants, Deserved(m) = "survived", m \notin given.unseen
        PROVE  \E r \in ToSet(results) : r.mutant = m /\ (r.verdict = "error" \/ r.timedOut)
    <3>1. PICK r \in ToSet(results) : r.mutant = m
      BY <1>5, <2>1, <2>3, Reports
    <3> QED
      BY <2>2, <2>3, <3>1 DEF Earned
  <2> QED
    BY <2>1, <2>3
<1>6. CASE exit # "0" /\ ~Report
  <2>1. Drop /\ exit' = "0"
    <3>1. ASSUME NEW l \in Lanes, Deletes(l) \/ WriteLate(l) \/ Acts(l)
          PROVE  exit' = exit
      BY <3>1, Deleting, Acting
    <3>2. CASE Directs \/ Interrupt \/ UNCHANGED vars
      BY <1>6, <3>2 DEF Directs, LanesUp, WriteProbe, BuildProbe, BuildBaseline, RunBaseline, SweepOver,
         Joined, ListLanes, Cleared, Interrupt, InterruptAlone, InterruptPool, InterruptLate, LeaveLanes,
         vars, mainVars
    <3> QED
      BY <1>6, <3>1, <3>2, Whose
  <2>2. PICK kept \in {[i \in Mutants |-> i], Compiled} : kept = <<>>
    <3>1. ~UNCHANGED exit
      BY <1>6, <2>1
    <3> QED
      BY <2>1, <3>1 DEF Drop
  <2>3. [i \in Mutants |-> i] # <<>>
    <3>1. 1 \in Mutants
      BY Constants
    <3>2. DOMAIN [i \in Mutants |-> i] = Mutants
      OBVIOUS
    <3>3. DOMAIN <<>> = {}
      OBVIOUS
    <3> QED
      BY <3>1, <3>2, <3>3
  <2>4. PICK seen : seen = Mutants \ given.unseen
    OBVIOUS
  <2>5. seen = {}
    BY <2>2, <2>3, <2>4, CompiledIs
  <2> QED
    BY <2>4, <2>5
<1> QED
  BY <1>4, <1>5, <1>6

---------------------------------------------------------------------------
(* The invariant *)

LEMMA InitHolds ==
  ASSUME Init
  PROVE  IInv
<1> USE Constants
<1>1. TypeOK
  <2>1. /\ phase \in Phases /\ pc \in [Lanes -> Steps]
        /\ verdict \in [Lanes -> Verdicts \cup {NoVerdict, "timeout"}]
    BY DEF Init, Phases, Steps
  <2>2. /\ pending \in Seq(Mutants) /\ results \in Seq(Result) /\ reported \in Seq(Result)
    BY DEF Init
  <2>3. /\ clearing \in [lanes : SUBSET Lanes, passes : 0..2]
        /\ spent \in [timeouts : 0..Timeouts, interrupts : 0..Interrupts, failures : 0..Failures]
        /\ greens \in 0..BaselineRuns
    BY DEF Init
  <2>4. /\ given \in Givens
        /\ job \in [Lanes -> {Tree} \cup Mutants]
        /\ text \in [Lanes -> Texts]
        /\ {object, binary, orphan} \subseteq [Lanes -> Texts \cup {Nothing}]
        /\ dir \in [Lanes -> {"absent", "present", "emptying", "refilled"}]
        /\ probed \in BOOLEAN /\ cutShort \in BOOLEAN
        /\ exit \in {"none", "0", "1", "2", "130"}
    BY DEF Init
  <2> QED
    BY <2>1, <2>2, <2>3, <2>4 DEF TypeOK
<1>2. WorkOK
  BY DEF Init, WorkOK, InHand, Busy
<1>3. StagesOK
  BY DEF Init, StagesOK, Alone, Scoring
<1>4. ProvenOK
  BY DEF Init, ProvenOK, InHand, Busy
<1>5. GoodOK
  BY DEF Init, GoodOK
<1>6. LaneOK
  BY DEF Init, LaneOK, InLane
<1>7. ResultsOK /\ CoverOK /\ HolesOK
  BY DEF Init, ResultsOK, CoverOK, HolesOK, Scoring
<1>8. OnceOK
  <2>1. \A l \in Lanes : pc[l] \notin InHand
    BY DEF Init, InHand, Busy
  <2>2. pending = <<>> /\ results = <<>>
    BY DEF Init
  <2> QED
    BY <2>1, <2>2 DEF OnceOK, Waiting, Held, Scored
<1>9. DirsOK
  BY DEF Init, DirsOK
<1>10. PrintedInOrder /\ VerdictsAreEarned
  <2>1. reported = <<>> /\ ToSet(<<>>) = {}
    BY DEF Init, ToSet
  <2> QED
    BY <2>1 DEF PrintedInOrder, VerdictsAreEarned
<1> QED
  BY <1>1, <1>2, <1>3, <1>4, <1>5, <1>6, <1>7, <1>8, <1>9, <1>10 DEF IInv

LEMMA StepHolds ==
  ASSUME IInv, [Next]_vars
  PROVE  IInv'
BY TypeStep, WorkStep, StagesStep, ProvenStep, GoodStep, LaneStep, ResultsStep, CoverStep, OnceStep,
   DirsStep, HolesStep, PrintedStep, VerdictsStep DEF IInv

LEMMA Invariant == Spec => []IInv
<1>1. IInv /\ [Next]_vars => IInv'
  BY StepHolds
<1> QED
  BY InitHolds, <1>1, PTL DEF Spec

---------------------------------------------------------------------------
(* What the run promises *)

\* A printed verdict is the one its own mutant deserves, and exit status 0 means
\* that no hole was found, however many lanes there are and however their steps,
\* timeouts, exceptions and Ctrl-Cs mix: no lane's build is read as another's, and
\* no text, object or binary of an earlier mutant is taken for the one in hand,
\* unless a compiler outlives its build.  (evaluate, run_mutants, main.)
THEOREM VerdictsAlwaysStand == Spec => []VerdictsStand
<1>1. IInv => VerdictsStand
  BY DEF IInv, VerdictsStand, HolesOK, NoHole, ZeroMeansNoHole
<1> QED
  BY Invariant, <1>1, PTL

\* No mutant is scored before a suite that runs something was seen to be green
\* and the probe failed to build, where it was answered; and on a good tree, with
\* no fault, the run comes to a score.  (baseline, check_target_is_built.)
THEOREM ScoredIsAlwaysProven == Spec => []ScoredIsProven
<1>1. IInv => ScoredIsProven
  BY DEF IInv, ProvenOK, GoodOK, StagesOK, SeenGreen, ScoredIsProven, NothingScoredUnproven,
         GoodTreeIsScored
<1> QED
  BY Invariant, <1>1, PTL

\* What is printed is every mutant once, in the order they were collected, or
\* every one the build compiles: the queue loses none and hands none out twice,
\* and the sort undoes whatever order the lanes finished in.  (run_mutants.)
THEOREM AlwaysPrintedInOrder == Spec => []PrintedInOrder
<1>1. IInv => PrintedInOrder
  BY DEF IInv
<1> QED
  BY Invariant, <1>1, PTL

\* However the run ends, its lanes end with it, unless they are to be kept or a
\* second Ctrl-C, or a compiler left behind, keeps someone writing to them.
\* (lanes_for, clear_lanes.)
THEOREM LanesAlwaysGo == Spec => []LanesGo
<1>1. IInv => LanesGo
  BY DEF IInv, DirsOK, Watched, Done, LanesGo
<1> QED
  BY Invariant, <1>1, PTL
=============================================================================
