--------------------------- MODULE TableTransfer ---------------------------
(***************************************************************************)
(* Tables that are copied, moved and swapped: which allocator an index     *)
(* array came from, who holds it, and whether a table can still be used    *)
(* after an operation on two tables failed half way.                       *)
(*                                                                         *)
(* A table holds two things that allocate, m_values and m_buckets, each    *)
(* with an allocator of its own; group_storage keeps the pointer to an     *)
(* array and the allocator apart.  Elements are a set and an array is      *)
(* described by what it points at: GroupIndex has the rest.  m_values is   *)
(* a std::vector, which is modelled by its contract: it takes the other    *)
(* vector's elements along with their storage if it may, moves them one by *)
(* one otherwise, and on copy assignment takes the allocator first.        *)
(***************************************************************************)
EXTENDS Integers, FiniteSets

CONSTANTS
    Table,              \* names of tables
    Elem,               \* the elements
    Allocator,          \* allocators that compare unequal
    Nobody,             \* not an allocator
    Array,              \* names of index arrays
    NoArray,            \* not an array
    Pocca, Pocma, Pocs, \* propagate_on_container_copy_assignment, ...
    HashBits, InitialShifts, SlotsPerGroup, MaxBucketCount, \* see ProbeSequence
    DefaultLoadFactor, LoadFactors                          \* in percent

ASSUME TransferAssumption ==
    /\ Allocator # {} /\ Nobody \notin Allocator /\ NoArray \notin Array
    /\ {Pocca, Pocma, Pocs} \subseteq BOOLEAN
    /\ IsFiniteSet(Table) /\ IsFiniteSet(Array)
    /\ Cardinality(Array) > Cardinality(Table)  \* a new one beside the old
    /\ HashBits \in Nat /\ InitialShifts \in 0 .. HashBits
    /\ SlotsPerGroup \in Nat \ {0} /\ MaxBucketCount \in Nat \ {0}
    /\ LoadFactors \cup {DefaultLoadFactor} \subseteq 0 .. 100

VARIABLES
    alive,      \* the tables that exist
    tables,     \* their members
    heap,       \* the arrays, each with the allocator that has handed it out
    left_by     \* what left a table unspecified: its caller may assign to it
                \* or destroy it, and nothing else ("nothing" if nothing did)

vars == <<alive, tables, heap, left_by>>

(* The sizes of arrays; nothing is hashed here. *)
Probe == INSTANCE ProbeSequence
           WITH Key <- {}, Hash <- <<>>, FingerprintValues <- 2,
                Counters <- 1, MaxCounter <- 1

(* The shift comes down by one when an array is full, and an array that is  *)
(* not the largest one has a shift that can.                               *)
ASSUME ShiftsAssumption ==
    \A s \in 0 .. InitialShifts :
      /\ Probe!calc_num_groups(s) \in Nat \ {0}
      /\ Probe!calc_num_buckets(s) # MaxBucketCount => s # 0

capacity_of(shifts, load_factor) ==
    Probe!capacity_for(Probe!calc_num_buckets(shifts), load_factor)

FreeBlocks == [from |-> Nobody, shifts |-> InitialShifts, points |-> {}]

(* A default constructed table that uses this allocator. *)
Empty(a) == [m_values |-> {}, values_alloc |-> a,
             m_buckets |-> NoArray, buckets_alloc |-> a,
             m_shifts |-> InitialShifts, m_group_mask |-> 0,
             m_max_bucket_capacity |-> 0, m_max_load_factor |-> DefaultLoadFactor]

---------------------------------------------------------------------------
(* group_storage, on an array and the heap *)

Fresh(h) == CHOOSE b \in Array : h[b].from = Nobody

make(h, a, shifts, points) ==
    [h EXCEPT ![Fresh(h)] = [from |-> a, shifts |-> shifts, points |-> points]]

(* deallocate(), if there is an array *)
clear(h, buckets) == [b \in Array |-> IF b = buckets THEN FreeBlocks ELSE h[b]]

---------------------------------------------------------------------------
(* The private members of table that the operations share *)

describe_buckets(t, shifts) ==
    [t EXCEPT !.m_group_mask = Probe!calc_num_groups(shifts) - 1,
              !.m_max_bucket_capacity = capacity_of(shifts, t.m_max_load_factor)]

deallocate_buckets(t) ==
    [t EXCEPT !.m_buckets = NoArray, !.m_group_mask = 0,
              !.m_max_bucket_capacity = 0]

(* A slip: the shift of the array that is gone stays. *)
reset_keeps_shift(t) ==
    [deallocate_buckets(t) EXCEPT !.m_values = {}]

reset_to_empty(t) ==
    [deallocate_buckets(t) EXCEPT !.m_values = {}, !.m_shifts = InitialShifts]

(* copy_buckets(other), for the table and for the heap *)
copy_buckets(t, h, other) ==
    IF t.m_values = {}
    THEN [t EXCEPT !.m_shifts = InitialShifts]
    ELSE [describe_buckets(t, h[other.m_buckets].shifts) EXCEPT
            !.m_buckets = Fresh(h), !.m_shifts = other.m_shifts]

copied_blocks(t, h, other) ==
    IF t.m_values = {}
    THEN h
    ELSE make(h, t.buckets_alloc, h[other.m_buckets].shifts,
                 h[other.m_buckets].points)

(* A new array beside the old one, which is given back. *)
allocate_buckets_from_shift(t, h, shifts) ==
    [describe_buckets(t, shifts) EXCEPT !.m_buckets = Fresh(h), !.m_shifts = shifts]

allocated_blocks(t, h, shifts, points) ==
    clear(make(h, t.buckets_alloc, shifts, points), t.m_buckets)

Specified(t) == t \in alive /\ left_by[t] = "nothing"

(* The operation ends with t like this, as it should be, ... *)
Finish(t, new) ==
    /\ tables' = [tables EXCEPT ![t] = new]
    /\ left_by' = [left_by EXCEPT ![t] = "nothing"]

(* ... or with both tables changed. *)
FinishBoth(t, new, s, other) ==
    /\ tables' = [tables EXCEPT ![t] = new, ![s] = other]
    /\ left_by' = [left_by EXCEPT ![t] = "nothing"]

---------------------------------------------------------------------------
Init ==
    /\ alive = {}
    /\ tables = [t \in Table |-> Empty(CHOOSE a \in Allocator : TRUE)]
    /\ heap = [b \in Array |-> FreeBlocks]
    /\ left_by = [t \in Table |-> "nothing"]

(* table(alloc) allocates nothing. *)
Construct(t, a) ==
    /\ t \notin alive
    /\ alive' = alive \cup {t}
    /\ Finish(t, Empty(a))
    /\ UNCHANGED heap

(* ~table(): ~group_storage gives the array back to its own allocator. *)
Destroy(t) ==
    /\ t \in alive
    /\ alive' = alive \ {t}
    /\ Finish(t, Empty(CHOOSE a \in Allocator : TRUE))
    /\ heap' = clear(heap, tables[t].m_buckets)

(* An insert of an absent element, growing the array if it is full. *)
Insert(t, e) ==
    LET old      == tables[t]
        capacity == IF old.m_buckets = NoArray
                    THEN capacity_of(old.m_shifts, old.m_max_load_factor)
                    ELSE old.m_max_bucket_capacity
        is_full  == Cardinality(old.m_values) + 1 > capacity
        shifts   == IF is_full THEN old.m_shifts - 1 ELSE old.m_shifts
        values   == old.m_values \cup {e}
        new      == [old EXCEPT !.m_values = values]
    IN  /\ Specified(t)
        /\ e \notin old.m_values
        /\ is_full => capacity # MaxBucketCount
        /\ IF is_full \/ old.m_buckets = NoArray
           THEN /\ Finish(t, allocate_buckets_from_shift(new, heap, shifts))
                /\ heap' = allocated_blocks(old, heap, shifts, values)
           ELSE /\ Finish(t, new)
                /\ heap' = [heap EXCEPT ![old.m_buckets].points = values]
        /\ UNCHANGED alive

(* clear() empties the index with the values and keeps the array. *)
Clear(t) ==
    /\ Specified(t)
    /\ tables[t].m_values # {}
    /\ Finish(t, [tables[t] EXCEPT !.m_values = {}])
    /\ heap' = [heap EXCEPT ![tables[t].m_buckets].points = {}]
    /\ UNCHANGED alive

max_load_factor(t, ml) ==
    LET new == [tables[t] EXCEPT !.m_max_load_factor = ml]
    IN  /\ Specified(t)
        /\ Finish(t, IF new.m_buckets = NoArray THEN new
                          ELSE describe_buckets(new, heap[new.m_buckets].shifts))
        /\ UNCHANGED <<alive, heap>>

calc_shifts_for_size(t, n) ==
    LET enough(s) == \/ s = 0
                     \/ Probe!calc_num_buckets(s) >= MaxBucketCount
                     \/ capacity_of(s, t.m_max_load_factor) >= n
    IN  CHOOSE s \in 0 .. InitialShifts :
          enough(s) /\ \A r \in s + 1 .. InitialShifts : ~enough(r)

(* replace(container), up to the move of the container: the array it is    *)
(* going to fill comes from the allocator the index has. *)
ReplaceBuckets(t, n, a) ==
    LET old    == tables[t]
        shifts == calc_shifts_for_size(old, n)
    IN  IF old.m_buckets = NoArray \/ shifts < old.m_shifts \/ a # old.values_alloc
        THEN <<allocate_buckets_from_shift(old, heap, shifts),
               allocated_blocks(old, heap, shifts, {})>>
        ELSE <<old, [heap EXCEPT ![old.m_buckets].points = {}]>>

(* m_values = std::move(container), every element of which then gets a     *)
(* slot.  a is the container's allocator. *)
Replace(t, container, a) ==
    LET ready == ReplaceBuckets(t, Cardinality(container), a)
    IN  /\ Specified(t)
        /\ Cardinality(container) <= MaxBucketCount
        /\ Finish(t, [ready[1] EXCEPT
                             !.m_values = container,
                             !.values_alloc = IF Pocma THEN a ELSE @])
        /\ heap' = [ready[2] EXCEPT ![ready[1].m_buckets].points = container]
        /\ UNCHANGED alive

(* Moving the elements one by one throws: some of the old values are still *)
(* there, and none of them has a slot. *)
ReplaceThrows(t, container, a) ==
    LET ready == ReplaceBuckets(t, Cardinality(container), a)
    IN  /\ Specified(t)
        /\ Cardinality(container) <= MaxBucketCount
        /\ ~Pocma /\ a # tables[t].values_alloc /\ container # {}
        /\ tables' = [tables EXCEPT ![t] = ready[1]]
        /\ heap' = ready[2]
        /\ left_by' = [left_by EXCEPT ![t] = "replace"]
        /\ UNCHANGED alive

---------------------------------------------------------------------------
(* Copies *)

(* table(other) and table(other, alloc).  One that throws leaves nothing. *)
CopyConstruct(t, s, a) ==
    LET new == [Empty(a) EXCEPT !.m_values = tables[s].m_values,
                                !.m_max_load_factor = tables[s].m_max_load_factor]
    IN  /\ t \notin alive
        /\ Specified(s)
        /\ alive' = alive \cup {t}
        /\ Finish(t, copy_buckets(new, heap, tables[s]))
        /\ heap' = copied_blocks(new, heap, tables[s])

(* A slip: the index does not follow the values to another allocator. *)
TakesAllocatorForValues(t, s) ==
    LET gone == deallocate_buckets(tables[t])
    IN  IF Pocca THEN [gone EXCEPT !.values_alloc = tables[s].values_alloc]
                 ELSE gone

(* What a copy assignment works on: no array, and under pocca the          *)
(* allocator of the other table for both halves. *)
TakesAllocatorOf(t, s) ==
    LET gone == deallocate_buckets(tables[t])
    IN  IF Pocca THEN [gone EXCEPT !.buckets_alloc = tables[s].values_alloc,
                                   !.values_alloc = tables[s].values_alloc]
                 ELSE gone

(* operator=(table const&) of another table *)
CopyAssign(t, s) ==
    LET freed == clear(heap, tables[t].m_buckets)
        new   == [TakesAllocatorOf(t, s) EXCEPT
                    !.m_values = tables[s].m_values,
                    !.m_max_load_factor = tables[s].m_max_load_factor]
    IN  /\ t \in alive /\ Specified(s) /\ t # s
        /\ Finish(t, copy_buckets(new, freed, tables[s]))
        /\ heap' = copied_blocks(new, freed, tables[s])
        /\ UNCHANGED alive

(* Copying the values or allocating the array throws, the latter after the *)
(* load factor has been taken over. *)
CopyAssignThrows(t, s) ==
    /\ t \in alive /\ Specified(s) /\ t # s
    /\ tables[s].m_values # {}
    /\ \E load_factor \in {tables[t].m_max_load_factor, tables[s].m_max_load_factor} :
         Finish(t, [reset_to_empty(TakesAllocatorOf(t, s)) EXCEPT
                           !.m_max_load_factor = load_factor])
    /\ heap' = clear(heap, tables[t].m_buckets)
    /\ UNCHANGED alive

---------------------------------------------------------------------------
(* Moves *)

(* What the exchanges of a move leave of the table that was moved from. *)
exchanged(other) ==
    [Empty(other.values_alloc) EXCEPT !.buckets_alloc = other.buckets_alloc]

(* table(table&&) and table(table&&, alloc).  An array from another        *)
(* allocator is copied, and then given back. *)
MoveConstruct(t, s, a) ==
    LET other == tables[s]
        copied == other.m_buckets # NoArray /\ other.buckets_alloc # a
        new   == [other EXCEPT !.values_alloc = a, !.buckets_alloc = a,
                               !.m_buckets = IF copied THEN Fresh(heap) ELSE @]
    IN  /\ t \notin alive
        /\ Specified(s)
        /\ alive' = alive \cup {t}
        /\ FinishBoth(t, new, s, exchanged(other))
        /\ heap' = IF copied
                   THEN clear(make(heap, a, other.m_shifts,
                                   heap[other.m_buckets].points),
                              other.m_buckets)
                   ELSE heap

(* With another allocator both members may throw; the values have left by  *)
(* the time the array does. *)
MoveConstructThrows(s, a) ==
    /\ Specified(s)
    /\ a # tables[s].values_alloc /\ tables[s].m_values # {}
    /\ \E values \in {tables[s].m_values, {}} :
         tables' = [tables EXCEPT ![s].m_values = values]
    /\ left_by' = [left_by EXCEPT ![s] = "construction"]
    /\ UNCHANGED <<alive, heap>>

(* m_values = std::move(other.m_values), the array being gone already. *)
TakesValuesOf(t, s) ==
    [deallocate_buckets(tables[t]) EXCEPT
       !.m_values = tables[s].m_values,
       !.values_alloc = IF Pocma THEN tables[s].values_alloc ELSE @]

(* A slip: the array is always taken. *)
MayTakeArrayAlways(new, other) == TRUE

(* get_allocator() == other.get_allocator() *)
MayTakeArray(new, other) == new.values_alloc = other.values_alloc

(* operator=(table&&) of another table *)
MoveAssign(t, s) ==
    LET other == tables[s]
        freed == clear(heap, tables[t].m_buckets)
        moved == TakesValuesOf(t, s)
        taken == [other EXCEPT !.values_alloc = moved.values_alloc,
                               !.buckets_alloc = moved.buckets_alloc]
        new   == [moved EXCEPT !.m_max_load_factor = other.m_max_load_factor]
        copy  == copied_blocks(new, freed, other)
    IN  /\ t \in alive /\ Specified(s) /\ t # s
        /\ IF MayTakeArray(moved, other)
           THEN /\ FinishBoth(t, taken, s, exchanged(other))
                /\ heap' = freed
           ELSE /\ FinishBoth(t, copy_buckets(new, freed, other),
                             s, [other EXCEPT !.m_values = {}])
                /\ heap' = IF other.m_buckets = NoArray THEN copy
                           ELSE [copy EXCEPT ![other.m_buckets].points = {}]
        /\ UNCHANGED alive

(* Moving the elements one by one, or then allocating the array, throws.   *)
(* Only the table assigned to is put back together. *)
MoveAssignThrows(t, s) ==
    LET other == tables[s]
        old   == reset_to_empty(tables[t])
        new   == [old EXCEPT !.m_max_load_factor = other.m_max_load_factor]
    IN  /\ t \in alive /\ Specified(s) /\ t # s
        /\ ~Pocma /\ tables[t].values_alloc # other.values_alloc
        /\ other.m_values # {}
        /\ \/ tables' = [tables EXCEPT ![t] = old]
           \/ tables' = [tables EXCEPT ![t] = new, ![s].m_values = {}]
        /\ left_by' = [left_by EXCEPT ![t] = "nothing", ![s] = "assignment"]
        /\ heap' = clear(heap, tables[t].m_buckets)
        /\ UNCHANGED alive

(* What swap makes of one of the two tables. *)
SwappedIn(own, other) ==
    IF Pocs THEN other
            ELSE [other EXCEPT !.values_alloc = own.values_alloc,
                               !.buckets_alloc = own.buckets_alloc]

(* Containers that do not swap their allocators must have equal ones. *)
swap(t, s) ==
    /\ Specified(t) /\ Specified(s) /\ t # s
    /\ Pocs \/ tables[t].values_alloc = tables[s].values_alloc
    /\ FinishBoth(t, SwappedIn(tables[t], tables[s]), s, SwappedIn(tables[s], tables[t]))
    /\ UNCHANGED <<alive, heap>>

---------------------------------------------------------------------------
Next ==
    \E t \in Table :
      \/ Destroy(t)
      \/ Clear(t)
      \/ \E e \in Elem : Insert(t, e)
      \/ \E ml \in LoadFactors : max_load_factor(t, ml)
      \/ \E a \in Allocator :
           \/ Construct(t, a)
           \/ MoveConstructThrows(t, a)
           \/ \E s \in Table : CopyConstruct(t, s, a) \/ MoveConstruct(t, s, a)
           \/ \E c \in SUBSET Elem : Replace(t, c, a) \/ ReplaceThrows(t, c, a)
      \/ \E s \in Table : \/ CopyAssign(t, s) \/ CopyAssignThrows(t, s)
                          \/ MoveAssign(t, s) \/ MoveAssignThrows(t, s)
                          \/ swap(t, s)

Spec == Init /\ [][Next]_vars

---------------------------------------------------------------------------
(* Properties *)

SlotsOf(t) == IF t.m_buckets = NoArray THEN 0
              ELSE Probe!calc_num_buckets(heap[t.m_buckets].shifts)

Members == [m_values : SUBSET Elem, values_alloc : Allocator,
            m_buckets : Array \cup {NoArray}, buckets_alloc : Allocator,
            m_shifts : 0 .. InitialShifts, m_group_mask : Nat,
            m_max_bucket_capacity : Nat,
            m_max_load_factor : LoadFactors \cup {DefaultLoadFactor}]

Blocks == [from : Allocator \cup {Nobody}, shifts : 0 .. InitialShifts,
           points : SUBSET Elem]

(* Every variable has its type; the capacity is never above the slots there are. *)
TypeOK ==
    /\ alive \subseteq Table
    /\ tables \in [Table -> Members]
    /\ heap \in [Array -> Blocks]
    /\ left_by \in [Table -> {"nothing", "construction", "assignment", "replace"}]
    /\ \A t \in Table : tables[t].m_max_bucket_capacity <= SlotsOf(tables[t])

(* "Whatever the allocator is, everything it handed out has to come back   *)
(* to it": every array is held by one table, which will give it to the     *)
(* allocator that made it, and none is left when the tables are gone, also *)
(* if an operation threw. *)
ArraysAccountedFor ==
    /\ \A b \in Array : heap[b].from # Nobody =>
         \E t \in alive : tables[t].m_buckets = b
    /\ \A t \in alive : tables[t].m_buckets # NoArray =>
         /\ heap[tables[t].m_buckets].from = tables[t].buckets_alloc
         /\ \A s \in alive \ {t} : tables[s].m_buckets # tables[t].m_buckets

(* get_allocator(), which is that of m_values, describes the index too:    *)
(* move assignment decides by it whether it may take the array. *)
HalvesAgree ==
    \A t \in alive : tables[t].values_alloc = tables[t].buckets_alloc

(* A table can be used, whatever it went through: its array points at the  *)
(* values it has and shift, mask and capacity are those of this array.     *)
(* This includes a table moved from, and one whose assignment threw.       *)
Usable ==
    \A t \in Table : Specified(t) =>
      LET x == tables[t] IN
      IF x.m_buckets = NoArray
      THEN /\ x.m_values = {} /\ x.m_shifts = InitialShifts
           /\ x.m_group_mask = 0 /\ x.m_max_bucket_capacity = 0
      ELSE LET b == heap[x.m_buckets] IN
           /\ b.points = x.m_values
           /\ x.m_shifts = b.shifts
           /\ x.m_group_mask = Probe!calc_num_groups(b.shifts) - 1
           /\ x.m_max_bucket_capacity = capacity_of(b.shifts, x.m_max_load_factor)

(* ... and it is as typed. *)
TablesUsable == TypeOK /\ Usable

(* "assignment owes the basic guarantee, which means valid": the index of  *)
(* a table an assignment failed to move from never points at a value that  *)
(* the table does not have. *)
AssignmentGuarantee ==
    \A t \in alive : left_by[t] = "assignment" /\ tables[t].m_buckets # NoArray =>
      heap[tables[t].m_buckets].points \subseteq tables[t].m_values
=============================================================================
