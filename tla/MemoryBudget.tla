---------------------------- MODULE MemoryBudget ----------------------------
(***************************************************************************)
(* How a run of the mutation tool keeps inside the machine: the lanes,     *)
(* jobs and memory that plan() settles, the room check_room_for() insists  *)
(* on, and the cap each child of a lane runs under, in                     *)
(* src/scripts/mutate/mutate_core.py.                                      *)
(*                                                                         *)
(* A mutant may make the compiler or the tests ask for any amount; a child *)
(* that asks for more than its cap is stopped.  Memory is counted in       *)
(* eighths of a gigabyte.                                                  *)
(***************************************************************************)
EXTENDS Naturals, FiniteSets, FiniteSetsExt

CONSTANTS Machines,   \* [cores, total, scopes]; a total of 0 is one it does not tell
          Requests,   \* [lanes, jobs, limit, filter]; jobs and limit may be Unsaid
          Unsaid,
          Wanted,     \* numbers of mutants
          Rooms,      \* [kept, free]: lanes built in before, and room for more
          LaneBytes,  \* Project.lane_bytes
          SuiteTakes, \* what the tests of an unmutated tree take
          UnitTakes,  \* what a compiler takes for one translation unit
          Runaway     \* bound: what a mutant may ask for

GIB == 8
MEMORY_PER_JOB == 4

\* What the constants have to satisfy.
BudgetAssumption ==
    /\ \A m \in Machines : m.cores \in Nat \ {0} /\ m.total \in Nat /\ m.scopes \in BOOLEAN
    /\ \A q \in Requests : /\ q.lanes \in Nat
                           /\ q.jobs \in (Nat \ {0}) \cup {Unsaid}
                           /\ q.limit \in Nat \cup {Unsaid}
                           /\ q.filter \in BOOLEAN
    /\ Wanted \subseteq Nat \ {0}
    /\ \A r \in Rooms : r.kept \in Nat /\ r.free \in Nat
    /\ LaneBytes \in Nat /\ SuiteTakes \in 1..GIB
    /\ UnitTakes \in 1..MEMORY_PER_JOB /\ Runaway \in Nat

VARIABLES machine, request, wanted, room,   \* what the run finds: constant
          phase,     \* how far it is
          lanes, jobs, limit, note,         \* what plan() settled
          child,     \* what runs in each lane, and what it takes
          killed     \* children stopped at their caps

vars == <<machine, request, wanted, room, phase, lanes, jobs, limit, note, child, killed>>

Idle == [does |-> "idle", jobs |-> 0, cap |-> 0, takes |-> 0]
NoLanes == <<>>
Works == {"lines", "syntax", "build", "test"}

\* The children that run: their jobs, their caps (0 is none) and what they take.
TypeOK ==
    /\ phase \in {"plan", "room", "lines", "build", "test", "sweep", "refused"}
    /\ phase # "plan" => lanes \in 1..wanted /\ jobs \in Nat \ {0} /\ limit \in Nat
    /\ note \in BOOLEAN
    /\ \A l \in DOMAIN child :
         /\ child[l].does \in {"idle"} \cup Works
         /\ child[l].cap # 0 => child[l].takes <= child[l].cap
    /\ \A k \in killed : k.does \in Works /\ k.cap < k.asked

Init ==
    /\ machine \in Machines /\ request \in Requests /\ wanted \in Wanted /\ room \in Rooms
    /\ phase = "plan"
    /\ lanes = 0 /\ jobs = 0 /\ limit = 0 /\ note = FALSE
    /\ child = NoLanes /\ killed = {}

-----------------------------------------------------------------------------
(* The arithmetic.                                                         *)

AtLeast(a, b) == IF a < b THEN b ELSE a
AtMost(a, b) == IF a < b THEN a ELSE b

\* The smaller of a lane's share of four fifths of the machine and of what its
\* jobs can honestly need, but a gigabyte at least.
default_memory_limit(lane_count, job_count) ==
    LET honest == AtLeast(2, job_count) * 2 * MEMORY_PER_JOB
        share == ((4 * machine.total) \div 5) \div lane_count
    IN  AtLeast(GIB, IF machine.total = 0 THEN honest ELSE AtMost(honest, share))

\* A slip: a build is capped like the tests.
LaneLimit(job_count) == limit

build_memory_limit(job_count) == IF limit = 0 THEN 0 ELSE AtLeast(limit, job_count * MEMORY_PER_JOB)

-----------------------------------------------------------------------------
(* The run.                                                                *)

\* plan(): memory_cap_reason tries a scope, and without one there is no cap.
Plan ==
    /\ phase = "plan"
    /\ lanes' = AtLeast(1, AtMost(request.lanes, wanted))
    /\ jobs' = IF request.jobs # Unsaid THEN request.jobs ELSE AtLeast(1, machine.cores \div lanes')
    /\ LET asked == IF request.limit # Unsaid THEN request.limit ELSE default_memory_limit(lanes', jobs')
       IN  /\ note' = (asked # 0 /\ ~machine.scopes)
           /\ limit' = IF note' THEN 0 ELSE asked
    /\ phase' = "room"
    /\ UNCHANGED <<machine, request, wanted, room, child, killed>>

\* check_room_for: lanes that have been built in before take no more room.
New == IF lanes > room.kept THEN lanes - room.kept ELSE 0

MakeLanes ==
    /\ phase = "room"
    /\ IF New * LaneBytes > room.free
       THEN phase' = "refused" /\ UNCHANGED child
       ELSE phase' = "lines" /\ child' = [l \in 1..lanes |-> Idle]
    /\ UNCHANGED <<machine, request, wanted, room, lanes, jobs, limit, note, killed>>

\* A child that asks for more than its cap is stopped there.
memory_capped(l, does, job_count, cap, asks) ==
    IF cap # 0 /\ asks > cap
    THEN /\ killed' = killed \cup {[does |-> does, jobs |-> job_count, cap |-> cap, asked |-> asks]}
         /\ child' = [child EXCEPT ![l] = [does |-> does, jobs |-> job_count, cap |-> cap, takes |-> cap]]
    ELSE /\ child' = [child EXCEPT ![l] = [does |-> does, jobs |-> job_count, cap |-> cap, takes |-> asks]]
         /\ UNCHANGED killed

\* A build takes what its jobs need.
Build(l, job_count, asks) == memory_capped(l, "build", job_count, build_memory_limit(job_count), asks)

\* What Lane._run caps a child at that is given no cap of its own.
OwnCap == limit

\* The tests, and the compiler that checks the syntax or only preprocesses, run
\* under the lane's cap.
Test(l, asks) == memory_capped(l, "test", 1, OwnCap, asks)
CompileOne(l, does, asks) == memory_capped(l, does, 1, OwnCap, asks)

\* drop_uncompiled(): the preprocessor is asked, in the first lane, if there is a
\* syntax check at all; without an answer no mutant is dropped.
CompiledLines ==
    /\ phase = "lines"
    /\ IF request.filter THEN CompileOne(1, "lines", UnitTakes) ELSE UNCHANGED <<child, killed>>
    /\ phase' = "build"
    /\ UNCHANGED <<machine, request, wanted, room, lanes, jobs, limit, note>>

\* baseline(): alone on the machine, a build with all its cores and then the
\* tests, once at least; a child stopped at the cap refuses the run.
BaselineBuild ==
    /\ phase = "build" /\ child[1] = Idle
    /\ Build(1, machine.cores, machine.cores * MEMORY_PER_JOB)
    /\ phase' = IF killed' # killed THEN "refused" ELSE "test"
    /\ UNCHANGED <<machine, request, wanted, room, lanes, jobs, limit, note>>

BaselineTest ==
    /\ phase = "test" /\ child[1] = Idle
    /\ Test(1, SuiteTakes)
    /\ phase' = IF killed' # killed THEN "refused" ELSE "sweep"
    /\ UNCHANGED <<machine, request, wanted, room, lanes, jobs, limit, note>>

\* A worker checks the syntax of a mutant, builds it or tests it, which may ask
\* for anything; each of the three, when it is stopped, is scored `oom`.
Evaluate(l) ==
    /\ phase = "sweep" /\ child[l] = Idle
    /\ \/ request.filter /\ \E asks \in {UnitTakes, Runaway} : CompileOne(l, "syntax", asks)
       \/ \E asks \in {jobs * MEMORY_PER_JOB, Runaway} : Build(l, jobs, asks)
       \/ \E asks \in {SuiteTakes, Runaway} : Test(l, asks)
    /\ UNCHANGED <<machine, request, wanted, room, phase, lanes, jobs, limit, note>>

End(l) ==
    /\ child[l] # Idle
    /\ child' = [child EXCEPT ![l] = Idle]
    /\ UNCHANGED <<machine, request, wanted, room, phase, lanes, jobs, limit, note, killed>>

Next == Plan \/ MakeLanes \/ CompiledLines \/ BaselineBuild \/ BaselineTest
        \/ (\E l \in DOMAIN child : Evaluate(l) \/ End(l))
        \/ (phase = "refused" /\ UNCHANGED vars)

Spec == Init /\ [][Next]_vars

-----------------------------------------------------------------------------
\* A build is stopped at its cap only if it asked for more than a compiler for
\* each of its jobs, however tight --memory-limit is; once mutants are scored,
\* tests only if they asked for more than the unmutated suite does; and a syntax
\* check only if it asked for more than an unmutated unit does, or --memory-limit
\* is less than that.  (build_memory_limit, baseline, Lane._run.)
HonestChildrenFit ==
    \A k \in killed :
        /\ k.does = "build" => k.asked > k.jobs * MEMORY_PER_JOB
        /\ k.does = "test" /\ phase = "sweep" => k.asked > SuiteTakes
        /\ k.does = "syntax" => k.asked > UnitTakes \/ request.limit \in 1..(UnitTakes - 1)

\* With the defaults, whatever the mutants ask for, the lanes together take no
\* more than four fifths of the machine, or what all cores' compilers do, or a
\* gigabyte each; a cap that cannot be had is said.  (plan, default_memory_limit.)
MachineHolds ==
    request.limit = Unsaid /\ request.jobs = Unsaid /\ machine.total # 0 /\ phase = "sweep" =>
        \/ note
        \/ MapThenSumSet(LAMBDA l : child[l].takes, DOMAIN child)
             <= AtLeast(AtLeast((4 * machine.total) \div 5, machine.cores * MEMORY_PER_JOB), lanes * GIB)

=============================================================================
