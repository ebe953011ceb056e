-------------------------- MODULE LaneReuseProofs --------------------------
(***************************************************************************)
(* A lane kept over any number of runs, for every tree and every edit:     *)
(* what the tests run on was built from the lane, and the lane is the tree *)
(* but for the mutant and what was left behind in directories the tree has *)
(* no more.                                                                *)
(*                                                                         *)
(* A binary is trusted because it is not dirty, so the invariant says what *)
(* not being dirty is worth at each point: an object that ninja would not  *)
(* compile again was made from what the lane holds, except that nothing is *)
(* known of those that read the target before the setup has stamped it.    *)
(***************************************************************************)
EXTENDS LaneReuse, TLAPS

\* Objects and the binary are functions, and nothing is built in a new lane.
Shapes ==
    /\ object = [u \in Units |-> object[u]]
    /\ binary.of = [u \in DOMAIN binary.of |-> binary.of[u]]
    /\ ~there \/ phase = "copy" => \A u \in Units : object[u] = Uncompiled
    /\ ~there => phase = "idle"

\* From the stamp on the objects of including units are known, too.
Stamping == phase \in {"idle", "copy", "sync", "stamp"}

\* What it says of a unit's object that ninja would keep it.
ObjectsKnown ==
    \A u \in Units : \/ Dirty(u)
                     \/ lane[u].text = Gone
                     \/ Stamping /\ u \in Including
                     \/ object[u].of = Source(u)

\* ... and of the binary.
BinaryKnown ==
    \A u \in DOMAIN binary.of : u \in Units /\ (object[u].time > binary.time
                                                \/ binary.of[u] = object[u].of)

\* The build knows the units of the tree, and no other that is not left behind.
ListIsRight ==
    /\ InTree \subseteq listed /\ listed \subseteq InLane
    /\ \A u \in listed \ InTree : LeftBehind(u)
ListKnown == phase \in {"build", "test", "next"} => ListIsRight

\* How far setup has got in making the lane's text that of the tree.
AsInTree(f) == lane[f].text = repo[f] \/ LeftBehind(f)
TextKnown ==
    /\ phase \in {"copy", "sync"} =>
         stage = "baseline" /\ \A f \in Files \ todo : AsInTree(f)
    /\ phase \in {"stamp", "configure"} =>
         stage = "baseline" /\ \A f \in Files : AsInTree(f)

IInv == TypeOK /\ Shapes /\ ObjectsKnown /\ BinaryKnown /\ ListKnown /\ TextKnown
        /\ LaneIsTheTree /\ TestsRunTheLane

LEMMA InitHolds == Init => IInv
<1> SUFFICES ASSUME Init PROVE IInv
  OBVIOUS
<1> USE DEF Init
<1>1. TypeOK
  <2>1. repo \in [Files -> Texts \cup {Gone}] /\ edited \in [Files -> 0..clock]
    BY SMT
  <2>2. lane \in [Files -> [text : Texts \cup {Gone}, time : 0..clock]]
    BY SMT DEF Missing
  <2>3. /\ \A u \in Units : object[u].time \in 0..clock
        /\ binary.time \in 0..clock /\ DOMAIN binary.of \subseteq Units
    <3>1. \A u \in Units : object[u].time = 0
      BY SMT DEF Uncompiled
    <3>2. binary.time = 0 /\ DOMAIN binary.of = {}
      BY SMT DEF Unlinked, Nothing
    <3> QED
      BY <3>1, <3>2, SMT
  <2>4. spent \in [runs : 0..Runs, edits : 0..Edits, mutants : 0..Mutants]
    BY ReuseAssumption, SMT
  <2>5. /\ listed \subseteq Units /\ clock \in Nat /\ todo \subseteq Files
        /\ phase \in {"idle", "copy", "sync", "stamp", "configure", "build", "test", "next"}
        /\ stage \in {"baseline", "mutant"}
    BY SMT
  <2>6. there \in BOOLEAN
    BY Zenon
  <2> QED
    BY <2>1, <2>2, <2>3, <2>4, <2>5, <2>6, Zenon DEF TypeOK
<1>2. Shapes
  BY SMT DEF Shapes, Unlinked, Nothing
<1>3. ObjectsKnown /\ BinaryKnown
  BY SMT DEF ObjectsKnown, BinaryKnown, Dirty, Unlinked, Nothing
<1>4. ListKnown /\ TextKnown /\ LaneIsTheTree /\ TestsRunTheLane
  BY SMT DEF ListKnown, TextKnown, LaneIsTheTree, TestsRunTheLane
<1> QED
  BY <1>1, <1>2, <1>3, <1>4 DEF IInv

-----------------------------------------------------------------------------
(* Types.                                                                  *)

LEMMA TypeStep == TypeOK /\ Shapes /\ [Next]_vars => TypeOK'
<1> SUFFICES ASSUME TypeOK, Shapes, [Next]_vars PROVE TypeOK'
  OBVIOUS
<1> USE ReuseAssumption DEF TypeOK
<1>1. ASSUME NEW f \in Files, NEW t \in Texts \cup {Gone}, Edit(f, t) PROVE TypeOK'
  BY <1>1, SMT DEF Edit, build
<1>2. CASE Restore
  BY <1>2, SMT DEF Restore, tree, build, Files
<1>3. CASE Start
  <2>1. there' \in BOOLEAN
    BY <1>3, Zenon DEF Start
  <2>2. /\ phase' \in {"idle", "copy", "sync", "stamp", "configure", "build", "test", "next"}
        /\ stage' \in {"baseline", "mutant"}
    BY <1>3, SMT DEF Start
  <2>3. spent' \in [runs : 0..Runs, edits : 0..Edits, mutants : 0..Mutants]
    <3>1. spent' = [runs |-> spent.runs + 1, edits |-> spent.edits, mutants |-> 0]
      BY <1>3 DEF Start
    <3>2. spent.runs + 1 \in 0..Runs /\ spent.edits \in 0..Edits /\ 0 \in 0..Mutants
      BY <1>3, SMT DEF Start
    <3> QED
      BY <3>1, <3>2, SMT
  <2>4. (/\ repo \in [Files -> Texts \cup {Gone}] /\ edited \in [Files -> 0..clock]
         /\ lane \in [Files -> [text : Texts \cup {Gone}, time : 0..clock]]
         /\ listed \subseteq Units
         /\ \A u \in Units : object[u].time \in 0..clock
         /\ binary.time \in 0..clock /\ DOMAIN binary.of \subseteq Units
         /\ clock \in Nat /\ todo \subseteq Files)'
    BY <1>3, SMT DEF Start, tree, build
  <2> QED
    BY <2>1, <2>2, <2>3, <2>4, Zenon DEF TypeOK
<1>4. ASSUME NEW f \in Files, Copy(f) PROVE TypeOK'
  BY <1>4, SMT DEF Copy, tree, build, Missing
<1>5. ASSUME NEW f \in Files, Sync(f) PROVE TypeOK'
  BY <1>5, SMT DEF Sync, tree, build, Missing, Removed, Fresh
<1>6. CASE Copied \/ Synced \/ Refuse \/ Test \/ End
  BY <1>6, SMT DEF Copied, Synced, Refuse, Test, End, tree, build
<1>7. CASE Stamp
  BY <1>7, SMT DEF Stamp, Stamped, tree, build, Files
<1>8. CASE Configure
  BY <1>8, SMT DEF Configure, Configured, InTree, InLane, tree, build
<1>9. ASSUME NEW u \in Units, Compile(u) PROVE TypeOK'
  BY <1>9, SMT DEF Compile, tree, Shapes
<1>10. CASE Link
  BY <1>10, SMT DEF Link, tree
<1>11. ASSUME NEW t \in Texts, WriteTarget(t) PROVE TypeOK'
  BY <1>11, SMT DEF WriteTarget, tree, build, Files
<1>12. CASE UNCHANGED vars
  BY <1>12, SMT DEF vars, tree, build
<1> QED
  BY <1>1, <1>2, <1>3, <1>4, <1>5, <1>6, <1>7, <1>8, <1>9, <1>10, <1>11, <1>12 DEF Next

-----------------------------------------------------------------------------
(* What is built.  An object and its sources change only by the steps named *)
(* here; every other step leaves both alone.                               *)

LEMMA SameBuild ==
    ASSUME UNCHANGED <<lane, object>>, NEW u \in Units
    PROVE  (Dirty(u)' <=> Dirty(u)) /\ Source(u)' = Source(u)
  BY SMT DEF Dirty, Source, Reads

LEMMA ShapesStep == IInv /\ [Next]_vars => Shapes'
<1> SUFFICES ASSUME IInv, [Next]_vars PROVE Shapes'
  OBVIOUS
<1> USE DEF IInv, Shapes
<1>1. ASSUME NEW f \in Files, NEW t \in Texts \cup {Gone}, Edit(f, t) PROVE Shapes'
  BY <1>1, SMT DEF Edit, build
<1>2. CASE Restore
  BY <1>2, SMT DEF Restore, build
<1>3. CASE Start
  BY <1>3, SMT DEF Start, build
<1>4. ASSUME NEW f \in Files, Copy(f) \/ Sync(f) PROVE Shapes'
  BY <1>4, SMT DEF Copy, Sync, build
<1>5. CASE Copied \/ Synced \/ Refuse \/ Test \/ End \/ Stamp \/ Configure
  BY <1>5, SMT DEF Copied, Synced, Refuse, Test, End, Stamp, Configure, build
<1>6. ASSUME NEW u \in Units, Compile(u) PROVE Shapes'
  BY <1>6, SMT DEF Compile
<1>7. CASE Link
  <2>1. UNCHANGED <<object, there>> /\ phase' = "test" /\ phase = "build"
    BY <1>7 DEF Link
  <2>2. binary'.of = [u \in DOMAIN binary'.of |-> binary'.of[u]]
    <3>1. CASE LinkDirty
      <4>1. binary' = [of |-> [u \in listed |-> object[u].of], time |-> clock + 1]
        BY <1>7, <3>1 DEF Link
      <4>2. binary'.of = [u \in listed |-> object[u].of]
        BY <4>1, Zenon
      <4> QED
        BY <4>2, Zenon
    <3>2. CASE ~LinkDirty
      BY <1>7, <3>2 DEF Link
    <3> QED
      BY <3>1, <3>2
  <2> QED
    BY <2>1, <2>2, SMT
<1>8. ASSUME NEW t \in Texts, WriteTarget(t) PROVE Shapes'
  BY <1>8, SMT DEF WriteTarget, build
<1>9. CASE UNCHANGED vars
  BY <1>9, SMT DEF vars, build
<1> QED
  BY <1>1, <1>2, <1>3, <1>4, <1>5, <1>6, <1>7, <1>8, <1>9 DEF Next

LEMMA BinaryStep == IInv /\ [Next]_vars => BinaryKnown'
<1> SUFFICES ASSUME IInv, [Next]_vars PROVE BinaryKnown'
  OBVIOUS
<1> USE DEF IInv, BinaryKnown
<1>0. clock \in Nat /\ binary.time \in 0..clock /\ listed \subseteq Units
      /\ (\A v \in Units : object[v].time \in 0..clock)
  BY SMT DEF TypeOK
<1>1. ASSUME NEW u \in Units, Compile(u) PROVE BinaryKnown'
  <2>1. binary' = binary /\ \A v \in Units \ {u} : object'[v] = object[v]
    BY <1>1, SMT DEF Compile, Shapes
  <2>2. object'[u].time > binary.time
    <3>1. object'[u].time = clock + 1
      BY <1>1, SMT DEF Compile, Shapes
    <3> QED
      BY <1>0, <3>1, SMT
  <2> QED
    BY <2>1, <2>2, Zenon
<1>2. CASE Link
  <2>1. CASE LinkDirty
    <3>1. binary' = [of |-> [v \in listed |-> object[v].of], time |-> clock + 1] /\ object' = object
      BY <1>2, <2>1 DEF Link
    <3>2. DOMAIN binary'.of = listed /\ \A v \in listed : binary'.of[v] = object'[v].of
      BY <3>1, SMT
    <3> QED
      BY <1>0, <3>2
  <2>2. CASE ~LinkDirty
    BY <1>2, <2>2 DEF Link
  <2> QED
    BY <2>1, <2>2
<1>3. CASE UNCHANGED build
  BY <1>3, SMT DEF build
<1>4. (\E f \in Files, t \in Texts \cup {Gone} : Edit(f, t)) => UNCHANGED build
  BY DEF Edit
<1>5. (\E f \in Files : Copy(f) \/ Sync(f)) => UNCHANGED build
  BY DEF Copy, Sync
<1>6. (\E t \in Texts : WriteTarget(t)) => UNCHANGED build
  BY DEF WriteTarget
<1>7. Restore \/ Start \/ Copied \/ Synced \/ Stamp \/ Configure \/ Refuse \/ Test \/ End
        => UNCHANGED build
  BY DEF Restore, Start, Copied, Synced, Stamp, Configure, Refuse, Test, End
<1>8. UNCHANGED vars => UNCHANGED build
  BY DEF vars
<1> QED
  BY <1>1, <1>2, <1>3, <1>4, <1>5, <1>6, <1>7, <1>8 DEF Next

LEMMA ObjectsStep == IInv /\ [Next]_vars => ObjectsKnown'
<1> SUFFICES ASSUME IInv, [Next]_vars, NEW u \in Units
             PROVE  (\/ Dirty(u) \/ lane[u].text = Gone
                     \/ (Stamping /\ u \in Including) \/ object[u].of = Source(u))'
  BY DEF ObjectsKnown
<1> DEFINE Known == \/ Dirty(u) \/ lane[u].text = Gone
                    \/ (Stamping /\ u \in Including) \/ object[u].of = Source(u)
<1>0. Known
  BY DEF IInv, ObjectsKnown
<1>00. lane \in [Files -> [text : Texts \cup {Gone}, time : 0..clock]] /\ clock \in Nat
       /\ object[u].time \in 0..clock /\ u \in Files /\ Target \in Files /\ u # Target
       /\ object = [v \in Units |-> object[v]]
  BY ReuseAssumption, SMT DEF IInv, TypeOK, Shapes, Files
<1>1. CASE UNCHANGED <<lane, object>> /\ (Stamping => Stamping')
  <2>1. (Dirty(u)' <=> Dirty(u)) /\ Source(u)' = Source(u)
    BY <1>1, SameBuild
  <2> QED
    BY <1>0, <1>1, <2>1
<1>2. CASE Restore
  <2>1. CASE u \in Including
    BY <1>2, <2>1, SMT DEF Restore, Stamping
  <2>2. CASE u \notin Including
    <3>1. lane'[u] = lane[u] /\ object' = object
      BY <1>00, <1>2, SMT DEF Restore, build
    <3>2. (Dirty(u)' <=> Dirty(u)) /\ Source(u)' = Source(u)
      BY <2>2, <3>1, SMT DEF Dirty, Source, Reads
    <3> QED
      BY <1>0, <2>2, <3>1, <3>2
  <2> QED
    BY <2>1, <2>2
<1>3. ASSUME NEW f \in Files, Copy(f) PROVE Known'
  BY <1>3, SMT DEF IInv, Shapes, Copy, build, Dirty
<1>4. ASSUME NEW f \in Files, Sync(f) PROVE Known'
  BY <1>0, <1>00, <1>4, SMT DEF Sync, build, Stamping, Dirty, Source, Reads, Removed, Missing, Fresh
<1>5. CASE Copied
  BY <1>5, SMT DEF IInv, Shapes, Copied, build, Dirty
<1>6. CASE Stamp
  BY <1>0, <1>00, <1>6, SMT DEF Stamp, Stamped, build, Stamping, Dirty, Source, Reads
<1>7. ASSUME NEW v \in Units, Compile(v) PROVE Known'
  <2>1. lane' = lane /\ Stamping' = Stamping
    BY <1>7, SMT DEF Compile, Stamping
  <2>2. CASE u = v
    <3>1. object'[u].of = Source(u)
      BY <1>00, <1>7, <2>2, Zenon DEF Compile
    <3>2. Source(u)' = Source(u)
      BY <2>1, SMT DEF Source
    <3> QED
      BY <3>1, <3>2
  <2>3. CASE u # v
    <3>1. object'[u] = object[u]
      BY <1>00, <1>7, <2>3, SMT DEF Compile
    <3>2. (Dirty(u)' <=> Dirty(u)) /\ Source(u)' = Source(u)
      BY <2>1, <3>1, SMT DEF Dirty, Source
    <3> QED
      BY <1>0, <2>1, <3>1, <3>2
  <2> QED
    BY <2>2, <2>3
<1>8. ASSUME NEW t \in Texts, WriteTarget(t) PROVE Known'
  BY <1>0, <1>00, <1>8, SMT DEF WriteTarget, build, Stamping, Dirty, Source, Reads
<1> QED
  <2>1. CASE Synced \/ Configure \/ Refuse \/ Test \/ Link \/ End \/ Start
             \/ (\E f \in Files, t \in Texts \cup {Gone} : Edit(f, t)) \/ UNCHANGED vars
    <3>1. UNCHANGED <<lane, object>>
      BY <2>1, SMT DEF Synced, Configure, Refuse, Test, Link, End, Start, Edit, vars, build
    <3>2. Stamping => Stamping'
      BY <2>1, SMT DEF Synced, Configure, Refuse, Test, Link, End, Start, Edit, vars, Stamping
    <3> QED
      BY <1>1, <3>1, <3>2
  <2> QED
    BY <2>1, <1>2, <1>3, <1>4, <1>5, <1>6, <1>7, <1>8 DEF Next

-----------------------------------------------------------------------------
(* What the lane holds.  Which files are left behind depends on the tree   *)
(* alone, and the tree changes only while nothing runs.                    *)

LEMMA SameTree ==
    ASSUME repo' = repo
    PROVE  InTree' = InTree /\ \A f \in Files : LeftBehind(f)' <=> LeftBehind(f)
  BY DEF InTree, LeftBehind, Walked

LEMMA LeftIsGone ==
    ASSUME NEW f \in Files, LeftBehind(f)
    PROVE  repo[f] = Gone
  BY DEF LeftBehind, Walked

\* A lane in which setup has visited every file has the units of the tree, and
\* those left behind.
LEMMA VisitedUnits ==
    ASSUME \A f \in Files : AsInTree(f)
    PROVE  InTree \subseteq InLane /\ \A u \in InLane \ InTree : LeftBehind(u)
<1>1. ASSUME NEW u \in InTree PROVE u \in InLane
  <2>1. u \in Files /\ u \in Units /\ repo[u] # Gone
    BY <1>1 DEF InTree, Files
  <2>2. lane[u].text = repo[u]
    BY <2>1, LeftIsGone DEF AsInTree
  <2> QED
    BY <2>1, <2>2 DEF InLane
<1>2. ASSUME NEW u \in InLane \ InTree PROVE LeftBehind(u)
  <2>1. u \in Files /\ lane[u].text # Gone /\ repo[u] = Gone
    BY <1>2 DEF InTree, InLane, Files
  <2> QED
    BY <2>1 DEF AsInTree
<1> QED
  BY <1>1, <1>2

LEMMA SameList ==
    ASSUME ListIsRight, repo' = repo, listed' = listed, listed \subseteq Units,
           \A u \in Units : lane'[u].text = lane[u].text
    PROVE  ListIsRight'
<1>1. InLane' = InLane
  BY DEF InLane
<1>2. InTree' = InTree /\ \A u \in Units : LeftBehind(u)' <=> LeftBehind(u)
  BY SameTree DEF Files
<1> QED
  BY <1>1, <1>2 DEF ListIsRight

LEMMA ListStep == IInv /\ [Next]_vars => ListKnown'
<1> SUFFICES ASSUME IInv, [Next]_vars, (phase \in {"build", "test", "next"})' PROVE ListIsRight'
  BY DEF ListKnown
<1>0. listed \subseteq Units /\ (phase \in {"build", "test", "next"} => ListIsRight)
  BY DEF IInv, TypeOK, ListKnown
<1>1. ASSUME NEW t \in Texts, WriteTarget(t) PROVE ListIsRight'
  <2>1. \A u \in Units : lane'[u] = lane[u]
    BY <1>1, ReuseAssumption, SMT DEF IInv, WriteTarget, TypeOK, Files
  <2>2. listed' = listed /\ phase = "next" /\ repo' = repo
    BY <1>1 DEF WriteTarget, tree
  <2> QED
    BY <1>0, <2>1, <2>2, SameList
<1>2. CASE Configure
  <2>1. InTree \subseteq InLane /\ \A u \in InLane \ InTree : LeftBehind(u)
    BY <1>2, VisitedUnits DEF Configure, IInv, TextKnown
  <2>2. /\ InTree \subseteq listed' /\ listed' \subseteq InLane
        /\ \A u \in listed' \ InTree : LeftBehind(u)
    BY <1>2, <2>1 DEF Configure, Configured
  <2>3. repo' = repo /\ lane' = lane
    BY <1>2 DEF Configure, tree
  <2>4. InTree' = InTree /\ InLane' = InLane /\ \A u \in Units : LeftBehind(u)' <=> LeftBehind(u)
    BY <2>3, SameTree DEF InLane, Files
  <2>5. listed' \subseteq Units
    BY <2>2 DEF InLane
  <2> QED
    BY <2>2, <2>4, <2>5 DEF ListIsRight
<1>3. CASE Refuse \/ Test \/ Link \/ (\E u \in Units : Compile(u)) \/ UNCHANGED vars
  <2>1. UNCHANGED <<repo, lane, listed>> /\ phase \in {"build", "test", "next"}
    BY <1>3, SMT DEF Refuse, Test, Link, Compile, vars, tree
  <2> QED
    BY <1>0, <2>1, SameList
<1>4. ~(\/ Restore \/ Start \/ Copied \/ Synced \/ Stamp \/ End
        \/ (\E f \in Files : Copy(f) \/ Sync(f))
        \/ (\E f \in Files, t \in Texts \cup {Gone} : Edit(f, t)))
  BY SMT DEF Restore, Start, Copied, Synced, Stamp, End, Copy, Sync, Edit
<1> QED
  BY <1>1, <1>2, <1>3, <1>4 DEF Next

LEMMA TextStep == IInv /\ [Next]_vars => TextKnown' /\ LaneIsTheTree'
<1> SUFFICES ASSUME IInv, [Next]_vars PROVE TextKnown' /\ LaneIsTheTree'
  OBVIOUS
<1> USE DEF IInv, TextKnown, LaneIsTheTree, AsInTree
<1>0. lane \in [Files -> [text : Texts \cup {Gone}, time : 0..clock]] /\ todo \subseteq Files
      /\ Target \in Files
  BY SMT DEF TypeOK, Files
<1>00. repo' = repo => \A f \in Files : LeftBehind(f)' <=> LeftBehind(f)
  BY SameTree
<1>1. ASSUME NEW f \in Files, Copy(f) PROVE TextKnown' /\ LaneIsTheTree'
  BY <1>0, <1>00, <1>1, SMT DEF Copy, tree, Missing
<1>2. ASSUME NEW f \in Files, Sync(f) PROVE TextKnown' /\ LaneIsTheTree'
  <2>1. lane'[f].text = repo[f] \/ LeftBehind(f)
    BY <1>0, <1>2, SMT DEF Sync, Missing, Removed, Same, Fresh
  <2>2. \A g \in Files \ {f} : lane'[g] = lane[g]
    BY <1>0, <1>2, SMT DEF Sync
  <2> QED
    BY <1>0, <1>00, <1>2, <2>1, <2>2, SMT DEF Sync, tree
<1>3. CASE Stamp
  BY <1>0, <1>00, <1>3, SMT DEF Stamp, Stamped, tree
<1>4. ASSUME NEW t \in Texts, WriteTarget(t) PROVE TextKnown' /\ LaneIsTheTree'
  BY <1>0, <1>00, <1>4, SMT DEF WriteTarget, tree
<1>5. CASE Restore \/ Start \/ Copied \/ Synced \/ Configure \/ Refuse \/ Test \/ Link \/ End
  BY <1>0, <1>00, <1>5, SMT
     DEF Restore, Start, Copied, Synced, Configure, Refuse, Test, Link, End, tree
<1>6. ASSUME NEW u \in Units, Compile(u) PROVE TextKnown' /\ LaneIsTheTree'
  BY <1>00, <1>6, SMT DEF Compile, tree
<1>7. ASSUME NEW f \in Files, NEW t \in Texts \cup {Gone}, Edit(f, t)
      PROVE  TextKnown' /\ LaneIsTheTree'
  BY <1>7, SMT DEF Edit
<1>8. CASE UNCHANGED vars
  BY <1>00, <1>8, SMT DEF vars, tree
<1> QED
  BY <1>1, <1>2, <1>3, <1>4, <1>5, <1>6, <1>7, <1>8 DEF Next

LEMMA TestStep == IInv /\ [Next]_vars => TestsRunTheLane'
<1> SUFFICES ASSUME IInv, [Next]_vars, phase' = "test"
             PROVE  (binary.of = [u \in listed |-> Source(u)])' /\ ListIsRight'
  BY DEF TestsRunTheLane, ListIsRight
<1>0. ListIsRight'
  BY ListStep DEF ListKnown
<1>1. CASE Link
  <2>1. ListIsRight /\ ~Stamping /\ UNCHANGED <<lane, object, listed>>
    BY <1>1, SMT DEF Link, IInv, ListKnown, Stamping
  <2>2. \A u \in listed : object[u].of = Source(u)
    <3>1. \A u \in listed : u \in Units /\ lane[u].text # Gone
      BY <2>1 DEF ListIsRight, InLane
    <3> QED
      BY <1>1, <2>1, <3>1, SMT DEF Link, IInv, ObjectsKnown
  <2>3. binary'.of = [u \in listed |-> object[u].of]
    <3>1. CASE LinkDirty
      <4>1. binary' = [of |-> [u \in listed |-> object[u].of], time |-> clock + 1]
        BY <1>1, <3>1 DEF Link
      <4> QED
        BY <4>1, Zenon
    <3>2. CASE ~LinkDirty
      <4>1. binary' = binary /\ DOMAIN binary.of = listed
            /\ \A u \in listed : ~(object[u].time > binary.time)
        BY <1>1, <3>2 DEF Link, LinkDirty
      <4>2. \A u \in listed : binary.of[u] = object[u].of
        BY <4>1 DEF IInv, BinaryKnown
      <4>3. binary.of = [u \in listed |-> binary.of[u]]
        BY <4>1 DEF IInv, Shapes
      <4> QED
        BY <4>1, <4>2, <4>3
    <3> QED
      BY <3>1, <3>2
  <2>4. \A u \in listed : Source(u)' = Source(u)
    BY <2>1, SMT DEF Source
  <2>5. binary'.of = [u \in listed |-> Source(u)]
    BY <2>2, <2>3
  <2> QED
    BY <1>0, <2>1, <2>4, <2>5
<1>2. CASE UNCHANGED vars
  <2>1. UNCHANGED <<binary, listed, lane>> /\ phase = "test"
    BY <1>2 DEF vars, build
  <2>2. \A u \in listed : Source(u)' = Source(u)
    BY <2>1, SMT DEF Source
  <2> QED
    BY <1>0, <2>1, <2>2 DEF IInv, TestsRunTheLane
<1>3. ~(\/ \E f \in Files, t \in Texts \cup {Gone} : Edit(f, t)
        \/ Restore \/ Start \/ Copied \/ Synced \/ Stamp \/ Configure \/ Refuse \/ Test \/ End
        \/ \E f \in Files : Copy(f) \/ Sync(f)
        \/ \E u \in Units : Compile(u)
        \/ \E t \in Texts : WriteTarget(t))
  BY SMT DEF Edit, Restore, Start, Copied, Synced, Stamp, Configure, Refuse, Test, End, Copy, Sync,
         Compile, WriteTarget
<1> QED
  BY <1>1, <1>2, <1>3 DEF Next

-----------------------------------------------------------------------------
LEMMA Invariant == Spec => []IInv
<1>1. IInv /\ [Next]_vars => IInv'
  BY TypeStep, ShapesStep, BinaryStep, ObjectsStep, ListStep, TextStep, TestStep DEF IInv
<1> QED
  BY <1>1, InitHolds, PTL DEF Spec

\* Every variable of a lane keeps its type over all runs.
THEOREM TypeCorrect == Spec => []TypeOK
<1>1. IInv => TypeOK
  BY DEF IInv
<1> QED
  BY <1>1, Invariant, PTL

\* Tests run on what the lane holds: no object or mutant of before is in the
\* binary, and no unit that is not in the tree but one left behind with its
\* directory, whatever interrupted the runs before.
THEOREM TestsRunTheLaneAlways == Spec => []TestsRunTheLane
<1>1. IInv => TestsRunTheLane
  BY DEF IInv
<1> QED
  BY <1>1, Invariant, PTL

\* A baseline is the tree as it is, and a mutant differs from it in the target:
\* in the directories of the tree, for in others deleted files stay.
THEOREM LaneIsTheTreeAlways == Spec => []LaneIsTheTree
<1>1. IInv => LaneIsTheTree
  BY DEF IInv
<1> QED
  BY <1>1, Invariant, PTL
=============================================================================
