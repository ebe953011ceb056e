------------------------ MODULE TableTransferProofs ------------------------
(***************************************************************************)
(* Tables that are copied, moved and swapped, for any number of tables,    *)
(* elements, allocators and arrays, and whatever the allocators propagate: *)
(* a table that is not left unspecified can be used; and, unless an        *)
(* allocator follows a move assignment, every array goes back to the       *)
(* allocator that made it.                                                 *)
(*                                                                         *)
(* An operation takes a free array from the heap, gives one back, or hands *)
(* one on, so the invariant says who holds what: an array that is handed   *)
(* out has one table, and a table that is gone has none.                   *)
(***************************************************************************)
EXTENDS TableTransfer, FiniteSetTheorems, WellFoundedInduction, TLAPS

Factors == LoadFactors \cup {DefaultLoadFactor}

\* A table that is gone has given its array back.
GoneHoldNothing == \A t \in Table \ alive : tables[t].m_buckets = NoArray

\* Every array that is handed out has a table that exists, ...
EveryArrayHeld ==
    \A b \in Array : heap[b].from # Nobody => \E t \in alive : tables[t].m_buckets = b

\* ... an array a table has is handed out, ...
HeldIsHandedOut ==
    \A t \in Table : tables[t].m_buckets # NoArray => heap[tables[t].m_buckets].from # Nobody

\* ... and no other table has it.
HeldOnce ==
    \A t, s \in Table : tables[t].m_buckets # NoArray /\ tables[s].m_buckets = tables[t].m_buckets
                        => s = t

Held == GoneHoldNothing /\ EveryArrayHeld /\ HeldIsHandedOut /\ HeldOnce

IInv == TypeOK /\ Held /\ Usable

---------------------------------------------------------------------------
(* Sizes *)

LEMMA Sizes ==
  ASSUME NEW s \in 0 .. InitialShifts, NEW lf \in Factors
  PROVE  /\ Probe!calc_num_buckets(s) \in Nat
         /\ Probe!calc_num_groups(s) - 1 \in Nat
         /\ capacity_of(s, lf) \in Nat
         /\ capacity_of(s, lf) <= Probe!calc_num_buckets(s)
         /\ capacity_of(s, lf) # MaxBucketCount => s # 0
<1> DEFINE n == Probe!calc_num_buckets(s)
<1>1. n \in Nat /\ Probe!calc_num_groups(s) - 1 \in Nat
  BY TransferAssumption, ShiftsAssumption DEF Probe!calc_num_buckets
<1>2. lf \in 0 .. 100
  BY TransferAssumption DEF Factors
<1>3. (n * lf) \div 100 \in Nat /\ (n * lf) \div 100 <= n
  <2> HIDE DEF n
  <2>1. n * lf \in Nat /\ n * lf <= n * 100
    BY <1>1, <1>2
  <2> QED
    BY <1>1, <2>1
<1>4. n # MaxBucketCount => s # 0
  BY ShiftsAssumption
<1> QED
  BY <1>1, <1>3, <1>4, TransferAssumption DEF capacity_of, Probe!capacity_for

\* A set of numbers up to n has a least one.
LEMMA LeastOf ==
  ASSUME NEW n \in Nat, NEW T \in SUBSET (0 .. n), T # {}
  PROVE  \E x \in T : \A m \in T : x <= m
<1> DEFINE UpTo(k) == {m \in T : m <= k}
           R == StrictSubsetOrdering(0 .. n)
           Parts == {UpTo(k) : k \in T}
<1>1. IsFiniteSet(0 .. n)
  BY FS_Interval
<1>2. IsWellFoundedOn(R, SUBSET (0 .. n))
  BY <1>1, FS_StrictSubsetOrderingWellFounded, FS_FiniteSubsetsOfFinite
<1>3. Parts \subseteq SUBSET (0 .. n) /\ Parts # {}
  OBVIOUS
<1>4. PICK c \in Parts : \A d \in Parts : ~ (<<d, c>> \in R)
  <2> HIDE DEF R, Parts
  <2> QED
    BY <1>2, <1>3, WFMin
<1>5. PICK x \in T : c = UpTo(x)
  OBVIOUS
<1>6. ASSUME NEW m \in T, m < x
      PROVE  FALSE
  <2>1. UpTo(m) \in Parts
    OBVIOUS
  <2>2. UpTo(m) \subseteq UpTo(x) /\ x \in UpTo(x) /\ x \notin UpTo(m)
    <3>1. \A k \in T : k <= m => k <= x
      BY <1>6
    <3>2. x <= x /\ ~(x <= m)
      BY <1>6
    <3> QED
      BY <3>1, <3>2
  <2> QED
    BY <2>1, <2>2, <1>3, <1>4, <1>5 DEF StrictSubsetOrdering
<1> QED
  BY <1>6

\* calc_shifts_for_size comes to an end at the largest array.
LEMMA ShiftsForSize ==
  ASSUME NEW x \in Members, NEW n
  PROVE  calc_shifts_for_size(x, n) \in 0 .. InitialShifts
<1> DEFINE enough(s) == \/ s = 0
                        \/ Probe!calc_num_buckets(s) >= MaxBucketCount
                        \/ capacity_of(s, x.m_max_load_factor) >= n
           T == {k \in 0 .. InitialShifts : enough(InitialShifts - k)}
<1>1. InitialShifts \in Nat
  BY TransferAssumption
<1>2. InitialShifts \in T /\ T \in SUBSET (0 .. InitialShifts)
  BY <1>1
<1>3. PICK k \in T : \A m \in T : k <= m
  <2> HIDE DEF T
  <2> QED
    BY <1>1, <1>2, LeastOf
<1> DEFINE s == InitialShifts - k
<1>4. s \in 0 .. InitialShifts /\ enough(s)
  BY <1>1
<1>5. ASSUME NEW r \in s + 1 .. InitialShifts, enough(r)
      PROVE  FALSE
  <2>1. InitialShifts - r \in 0 .. InitialShifts /\ InitialShifts - (InitialShifts - r) = r
    BY <1>1, <1>4
  <2>2. InitialShifts - r \in T
    <3> HIDE DEF enough
    <3> QED
      BY <1>5, <2>1
  <2> QED
    BY <1>1, <1>3, <2>2
<1> HIDE DEF s
<1>6. \E z \in 0 .. InitialShifts : enough(z) /\ \A r \in z + 1 .. InitialShifts : ~enough(r)
  <2> HIDE DEF enough
  <2> QED
    BY <1>4, <1>5
<1> QED
  BY <1>6 DEF calc_shifts_for_size

---------------------------------------------------------------------------
(* The heap *)

(* While tables hold what is handed out, one of the arrays is free. *)
LEMMA FreshIsFree ==
  ASSUME TypeOK, Held, NEW h,
         \A b \in Array : h[b].from # Nobody => heap[b].from # Nobody
  PROVE  Fresh(h) \in Array /\ h[Fresh(h)].from = Nobody
<1> SUFFICES \E b \in Array : h[b].from = Nobody
  BY DEF Fresh
<1> SUFFICES ASSUME \A b \in Array : h[b].from # Nobody
             PROVE  FALSE
  OBVIOUS
<1> DEFINE holder == [b \in Array |-> CHOOSE t \in alive : tables[t].m_buckets = b]
<1>1. \A b \in Array : holder[b] \in Table /\ tables[holder[b]].m_buckets = b
  BY DEF Held, EveryArrayHeld, TypeOK
<1>2. holder \in [Array -> Table]
  BY <1>1
<1>3. PICK b, c \in Array : b # c /\ holder[b] = holder[c]
  <2> HIDE DEF holder
  <2>1. Cardinality(Table) < Cardinality(Array)
    BY TransferAssumption, FS_CardinalityType
  <2> QED
    BY <1>2, <2>1, TransferAssumption, FS_PigeonHole
<1> QED
  BY <1>1, <1>3

LEMMA Made ==
  ASSUME NEW h \in [Array -> Blocks], Fresh(h) \in Array,
         NEW a \in Allocator, NEW s \in 0 .. InitialShifts, NEW points \in SUBSET Elem
  PROVE  /\ make(h, a, s, points) \in [Array -> Blocks]
         /\ make(h, a, s, points)[Fresh(h)] = [from |-> a, shifts |-> s, points |-> points]
         /\ \A b \in Array \ {Fresh(h)} : make(h, a, s, points)[b] = h[b]
BY DEF make, Blocks

LEMMA Cleared ==
  ASSUME NEW h \in [Array -> Blocks], NEW buckets
  PROVE  /\ clear(h, buckets) \in [Array -> Blocks]
         /\ \A b \in Array \ {buckets} : clear(h, buckets)[b] = h[b]
         /\ buckets \in Array => clear(h, buckets)[buckets] = FreeBlocks
<1>1. FreeBlocks \in Blocks
  BY TransferAssumption DEF FreeBlocks, Blocks
<1> QED
  BY <1>1 DEF clear

LEMMA Pointed ==
  ASSUME NEW h \in [Array -> Blocks], NEW b \in Array, NEW points \in SUBSET Elem,
         NEW g, g = [h EXCEPT ![b].points = points]
  PROVE  /\ g \in [Array -> Blocks]
         /\ g[b].from = h[b].from /\ g[b].shifts = h[b].shifts /\ g[b].points = points
         /\ \A c \in Array \ {b} : g[c] = h[c]
BY DEF Blocks

---------------------------------------------------------------------------
(* One table.  A record's fields are given one by one. *)

\* TypeOK and Usable, for one table.
Fits(x, h) ==
    x.m_max_bucket_capacity <=
      IF x.m_buckets = NoArray THEN 0 ELSE Probe!calc_num_buckets(h[x.m_buckets].shifts)

Works(x, h) ==
    IF x.m_buckets = NoArray
    THEN /\ x.m_values = {} /\ x.m_shifts = InitialShifts
         /\ x.m_group_mask = 0 /\ x.m_max_bucket_capacity = 0
    ELSE /\ h[x.m_buckets].points = x.m_values
         /\ x.m_shifts = h[x.m_buckets].shifts
         /\ x.m_group_mask = Probe!calc_num_groups(h[x.m_buckets].shifts) - 1
         /\ x.m_max_bucket_capacity =
              capacity_of(h[x.m_buckets].shifts, x.m_max_load_factor)

LEMMA EmptyMembers ==
  ASSUME NEW a \in Allocator
  PROVE  /\ Empty(a) \in Members
         /\ Empty(a).values_alloc = a /\ Empty(a).buckets_alloc = a
         /\ Empty(a).m_buckets = NoArray
         /\ \A h : Fits(Empty(a), h) /\ Works(Empty(a), h)
BY TransferAssumption DEF Empty, Members, Fits, Works

LEMMA Described ==
  ASSUME NEW x \in Members, NEW s \in 0 .. InitialShifts,
         NEW d, d = describe_buckets(x, s)
  PROVE  /\ d \in Members
         /\ d.m_values = x.m_values /\ d.m_shifts = x.m_shifts
         /\ d.values_alloc = x.values_alloc /\ d.buckets_alloc = x.buckets_alloc
         /\ d.m_buckets = x.m_buckets /\ d.m_max_load_factor = x.m_max_load_factor
         /\ d.m_group_mask = Probe!calc_num_groups(s) - 1
         /\ d.m_max_bucket_capacity = capacity_of(s, x.m_max_load_factor)
<1>1. /\ Probe!calc_num_groups(s) - 1 \in Nat
      /\ capacity_of(s, x.m_max_load_factor) \in Nat
  BY Sizes DEF Members, Factors
<1> QED
  BY <1>1, Zenon DEF describe_buckets, Members

LEMMA Deallocated ==
  ASSUME NEW x \in Members, NEW d, d = deallocate_buckets(x)
  PROVE  /\ d \in Members
         /\ d.m_values = x.m_values /\ d.m_shifts = x.m_shifts
         /\ d.values_alloc = x.values_alloc /\ d.buckets_alloc = x.buckets_alloc
         /\ d.m_buckets = NoArray /\ d.m_max_load_factor = x.m_max_load_factor
         /\ d.m_group_mask = 0 /\ d.m_max_bucket_capacity = 0
<1>1. 0 \in Nat
  OBVIOUS
<1> QED
  BY <1>1, Zenon DEF deallocate_buckets, Members

LEMMA Reset ==
  ASSUME NEW x \in Members, NEW d, d = reset_to_empty(x)
  PROVE  /\ d \in Members
         /\ d.m_values = {} /\ d.m_shifts = InitialShifts
         /\ d.values_alloc = x.values_alloc /\ d.buckets_alloc = x.buckets_alloc
         /\ d.m_buckets = NoArray /\ d.m_max_load_factor = x.m_max_load_factor
         /\ d.m_group_mask = 0 /\ d.m_max_bucket_capacity = 0
<1>1. InitialShifts \in 0 .. InitialShifts
  BY TransferAssumption
<1> DEFINE g == deallocate_buckets(x)
<1>2. /\ g \in Members
      /\ g.values_alloc = x.values_alloc /\ g.buckets_alloc = x.buckets_alloc
      /\ g.m_buckets = NoArray /\ g.m_max_load_factor = x.m_max_load_factor
      /\ g.m_group_mask = 0 /\ g.m_max_bucket_capacity = 0
  BY Deallocated, Zenon
<1>3. d = [g EXCEPT !.m_values = {}, !.m_shifts = InitialShifts]
  BY DEF reset_to_empty
<1> HIDE DEF g
<1> QED
  BY <1>1, <1>2, <1>3, Zenon DEF Members

\* The new members of a table, but for its array and what describes it.
LEMMA Allocated ==
  ASSUME NEW x \in Members, NEW h, Fresh(h) \in Array, NEW s \in 0 .. InitialShifts,
         NEW d, d = allocate_buckets_from_shift(x, h, s)
  PROVE  /\ d \in Members
         /\ d.m_values = x.m_values /\ d.m_shifts = s
         /\ d.values_alloc = x.values_alloc /\ d.buckets_alloc = x.buckets_alloc
         /\ d.m_buckets = Fresh(h) /\ d.m_max_load_factor = x.m_max_load_factor
         /\ d.m_group_mask = Probe!calc_num_groups(s) - 1
         /\ d.m_max_bucket_capacity = capacity_of(s, x.m_max_load_factor)
<1> DEFINE g == describe_buckets(x, s)
<1>1. /\ g \in Members
      /\ g.m_values = x.m_values
      /\ g.values_alloc = x.values_alloc /\ g.buckets_alloc = x.buckets_alloc
      /\ g.m_max_load_factor = x.m_max_load_factor
      /\ g.m_group_mask = Probe!calc_num_groups(s) - 1
      /\ g.m_max_bucket_capacity = capacity_of(s, x.m_max_load_factor)
  BY Described, ZenonT(30)
<1>2. d = [g EXCEPT !.m_buckets = Fresh(h), !.m_shifts = s]
  BY DEF allocate_buckets_from_shift
<1> HIDE DEF g
<1> QED
  BY <1>1, <1>2, Zenon DEF Members

LEMMA WithValues ==
  ASSUME NEW x \in Members, NEW values \in SUBSET Elem,
         NEW d, d = [x EXCEPT !.m_values = values]
  PROVE  /\ d \in Members
         /\ d.m_values = values /\ d.m_shifts = x.m_shifts
         /\ d.values_alloc = x.values_alloc /\ d.buckets_alloc = x.buckets_alloc
         /\ d.m_buckets = x.m_buckets /\ d.m_max_load_factor = x.m_max_load_factor
         /\ d.m_group_mask = x.m_group_mask
         /\ d.m_max_bucket_capacity = x.m_max_bucket_capacity
BY Zenon DEF Members

LEMMA WithFactor ==
  ASSUME NEW x \in Members, NEW ml \in Factors,
         NEW d, d = [x EXCEPT !.m_max_load_factor = ml]
  PROVE  /\ d \in Members
         /\ d.m_values = x.m_values /\ d.m_shifts = x.m_shifts
         /\ d.values_alloc = x.values_alloc /\ d.buckets_alloc = x.buckets_alloc
         /\ d.m_buckets = x.m_buckets /\ d.m_max_load_factor = ml
         /\ d.m_group_mask = x.m_group_mask
         /\ d.m_max_bucket_capacity = x.m_max_bucket_capacity
BY Zenon DEF Members, Factors

---------------------------------------------------------------------------
(* The step of an operation *)

Reasons == {"nothing", "construction", "assignment", "replace"}

\* The operation leaves t as x and s as y (which are one table if it is about
\* one), and the heap as h: whatever array they had is theirs or free again,
\* whatever they have now was theirs or free, and no other array is touched.
Exchange(t, x, s, y, h) ==
    LET had == {tables[t].m_buckets, tables[s].m_buckets}
        has == {x.m_buckets, y.m_buckets}
    IN  /\ {x, y} \subseteq Members
        /\ h \in [Array -> Blocks]
        /\ Fits(x, h) /\ Fits(y, h)
        /\ \A b \in Array \ (had \cup has) : h[b] = heap[b]
        /\ \A b \in has \ {NoArray} : /\ h[b].from # Nobody
                                      /\ b \in had \/ heap[b].from = Nobody
        /\ \A b \in had \ has : b # NoArray => h[b].from = Nobody
        /\ t # s /\ x.m_buckets # NoArray => x.m_buckets # y.m_buckets

\* What is left of the two tables.
Leaves(t, x, s, y) ==
    /\ tables' = [u \in Table |-> IF u = t THEN x ELSE IF u = s THEN y ELSE tables[u]]
    /\ t = s => x = y
    /\ alive' \subseteq Table /\ alive' \ {t, s} = alive \ {t, s}
    /\ t \in alive' \/ x.m_buckets = NoArray
    /\ s \in alive' \/ y.m_buckets = NoArray
    /\ left_by' \in [Table -> Reasons]
    /\ \A u \in Table \ {t, s} : left_by'[u] = left_by[u]
    /\ t \in alive' /\ left_by'[t] = "nothing" => Works(x, heap')
    /\ s \in alive' /\ left_by'[s] = "nothing" => Works(y, heap')

\* The allocator that made an array is the one it will go back to, and the one
\* get_allocator() says.
Owned(x, h) ==
    /\ x.values_alloc = x.buckets_alloc
    /\ x.m_buckets # NoArray => h[x.m_buckets].from = x.buckets_alloc

AllOwned == \A t \in Table : Owned(tables[t], heap)

LEMMA Handover ==
  ASSUME IInv, NEW t \in Table, NEW s \in Table, NEW x, NEW y,
         Exchange(t, x, s, y, heap'), Leaves(t, x, s, y)
  PROVE  /\ IInv'
         /\ AllOwned /\ Owned(x, heap') /\ Owned(y, heap') => AllOwned'
<1> USE DEF IInv, Held
<1>1. \A u \in Table : tables'[u] = IF u = t THEN x ELSE IF u = s THEN y ELSE tables[u]
  BY DEF Leaves
<1>2. \A u \in Table \ {t, s} :
        /\ tables'[u] = tables[u]
        /\ tables[u].m_buckets # NoArray => heap'[tables[u].m_buckets] = heap[tables[u].m_buckets]
  <2> SUFFICES ASSUME NEW u \in Table \ {t, s}, tables[u].m_buckets # NoArray
               PROVE  heap'[tables[u].m_buckets] = heap[tables[u].m_buckets]
    BY <1>1
  <2>1. tables[u].m_buckets \in Array /\ heap[tables[u].m_buckets].from # Nobody
    BY DEF TypeOK, Members, HeldIsHandedOut
  <2>2. tables[u].m_buckets \notin {tables[t].m_buckets, tables[s].m_buckets}
    BY DEF HeldOnce
  <2>3. tables[u].m_buckets \notin {x.m_buckets, y.m_buckets}
    BY <2>1, <2>2 DEF Exchange
  <2> QED
    BY <2>1, <2>2, <2>3 DEF Exchange
<1>3. tables'[t] = x /\ tables'[s] = y
  BY <1>1 DEF Leaves
<1>4. TypeOK'
  <2>1. tables' \in [Table -> Members]
    BY <1>1 DEF TypeOK, Leaves, Exchange
  <2>2. ASSUME NEW u \in Table
        PROVE  Fits(tables'[u], heap')
    <3>1. CASE u \in {t, s}
      BY <3>1, <1>3 DEF Exchange
    <3>2. CASE u \notin {t, s}
      <4>1. Fits(tables[u], heap)
        BY DEF TypeOK, SlotsOf, Fits
      <4> QED
        BY <3>2, <4>1, <1>2 DEF Fits
    <3> QED
      BY <3>1, <3>2
  <2>3. \A u \in Table : (tables[u].m_max_bucket_capacity <= SlotsOf(tables[u]))'
    BY <2>2 DEF Fits, SlotsOf
  <2>4. alive' \subseteq Table /\ left_by' \in [Table -> Reasons] /\ heap' \in [Array -> Blocks]
    BY DEF Leaves, Exchange
  <2> QED
    BY <2>1, <2>3, <2>4 DEF TypeOK, Reasons
<1>5. GoneHoldNothing'
  BY <1>2, <1>3 DEF GoneHoldNothing, Leaves
<1>6. HeldIsHandedOut'
  BY <1>2, <1>3 DEF HeldIsHandedOut, Exchange
<1>7. HeldOnce'
  <2> SUFFICES ASSUME NEW u \in Table, NEW v \in Table, u # v,
                      tables'[u].m_buckets # NoArray,
                      tables'[v].m_buckets = tables'[u].m_buckets
               PROVE  FALSE
    BY DEF HeldOnce
  <2>1. CASE u \notin {t, s} /\ v \notin {t, s}
    BY <2>1, <1>2 DEF HeldOnce
  <2>2. ASSUME NEW w \in Table \ {t, s}, tables[w].m_buckets # NoArray
        PROVE  tables[w].m_buckets \notin {x.m_buckets, y.m_buckets}
    <3>1. heap[tables[w].m_buckets].from # Nobody
      BY <2>2 DEF HeldIsHandedOut
    <3>2. tables[w].m_buckets \notin {tables[t].m_buckets, tables[s].m_buckets}
      BY <2>2 DEF HeldOnce
    <3> QED
      BY <2>2, <3>1, <3>2 DEF Exchange
  <2>3. CASE u \in {t, s} /\ v \in {t, s}
    BY <2>3, <1>3 DEF Exchange
  <2> QED
    BY <2>1, <2>2, <2>3, <1>2, <1>3
<1>8. EveryArrayHeld'
  <2> SUFFICES ASSUME NEW b \in Array, heap'[b].from # Nobody
               PROVE  \E u \in alive' : tables'[u].m_buckets = b
    BY DEF EveryArrayHeld
  <2>1. b # NoArray
    BY TransferAssumption
  <2>2. CASE b \in {x.m_buckets, y.m_buckets}
    BY <2>1, <2>2, <1>3 DEF Leaves
  <2>3. CASE b \notin {x.m_buckets, y.m_buckets}
    <3>1. b \notin {tables[t].m_buckets, tables[s].m_buckets}
      BY <2>1, <2>3 DEF Exchange
    <3>2. heap'[b] = heap[b]
      BY <2>3, <3>1 DEF Exchange
    <3>3. PICK u \in alive : tables[u].m_buckets = b
      BY <3>2 DEF EveryArrayHeld
    <3>4. u \in Table \ {t, s}
      BY <3>1, <3>3 DEF TypeOK
    <3> QED
      BY <3>3, <3>4, <1>2 DEF Leaves
  <2> QED
    BY <2>2, <2>3
<1>9. Usable'
  <2> SUFFICES ASSUME NEW u \in Table, u \in alive', left_by'[u] = "nothing"
               PROVE  Works(tables'[u], heap')
    BY DEF Usable, Specified, Works
  <2>1. CASE u \in {t, s}
    BY <2>1, <1>3 DEF Leaves
  <2>2. CASE u \notin {t, s}
    <3>1. Works(tables[u], heap)
      BY <2>2 DEF Usable, Specified, Works, Leaves
    <3> QED
      BY <2>2, <3>1, <1>2 DEF Works
  <2> QED
    BY <2>1, <2>2
<1>10. AllOwned /\ Owned(x, heap') /\ Owned(y, heap') => AllOwned'
  BY <1>2, <1>3 DEF AllOwned, Owned
<1> QED
  BY <1>4, <1>5, <1>6, <1>7, <1>8, <1>9, <1>10

---------------------------------------------------------------------------
(* Operations on one table *)

\* std::allocator follows a move assignment, too, but there is only one value
\* of it.
AllocatorsStay == ~Pocma \/ \A a, b \in Allocator : a = b

\* What every operation keeps.
Kept == IInv' /\ (AllocatorsStay /\ AllOwned => AllOwned')

LEMMA OfOne ==
  ASSUME IInv, NEW t \in Table, NEW x, NEW why \in Reasons,
         Exchange(t, x, t, x, heap'),
         tables' = [tables EXCEPT ![t] = x], left_by' = [left_by EXCEPT ![t] = why],
         alive' \subseteq Table, alive' \ {t} = alive \ {t},
         t \in alive' \/ x.m_buckets = NoArray,
         t \in alive' /\ why = "nothing" => Works(x, heap'),
         AllocatorsStay /\ Owned(tables[t], heap) => Owned(x, heap')
  PROVE  Kept
<1>1. Leaves(t, x, t, x)
  BY DEF IInv, TypeOK, Leaves, Reasons
<1> QED
  BY <1>1, Handover DEF Kept, AllOwned

LEMMA ConstructStep ==
  ASSUME IInv, NEW t \in Table, NEW a \in Allocator, Construct(t, a)
  PROVE  Kept
<1>1. tables[t].m_buckets = NoArray
  BY DEF IInv, Held, GoneHoldNothing, Construct
<1>2. Exchange(t, Empty(a), t, Empty(a), heap')
  BY <1>1, EmptyMembers DEF Exchange, Construct, IInv, TypeOK
<1>3. /\ tables' = [tables EXCEPT ![t] = Empty(a)]
      /\ left_by' = [left_by EXCEPT ![t] = "nothing"]
      /\ alive' = alive \cup {t}
  BY DEF Construct, Finish
<1>4. Works(Empty(a), heap') /\ Owned(Empty(a), heap')
  BY EmptyMembers DEF Owned
<1> QED
  BY <1>2, <1>3, <1>4, OfOne DEF Reasons, IInv, TypeOK

LEMMA DestroyStep ==
  ASSUME IInv, NEW t \in Table, Destroy(t)
  PROVE  Kept
<1> DEFINE a == CHOOSE a \in Allocator : TRUE
<1>1. a \in Allocator
  BY TransferAssumption
<1>2. /\ tables' = [tables EXCEPT ![t] = Empty(a)]
      /\ left_by' = [left_by EXCEPT ![t] = "nothing"]
      /\ alive' = alive \ {t}
      /\ heap' = clear(heap, tables[t].m_buckets)
  BY DEF Destroy, Finish
<1> HIDE DEF a
<1>3. /\ Empty(a) \in Members /\ Empty(a).m_buckets = NoArray /\ Fits(Empty(a), heap')
      /\ Owned(Empty(a), heap')
  BY <1>1, EmptyMembers DEF Owned
<1>4. Exchange(t, Empty(a), t, Empty(a), heap')
  <2>1. /\ heap' \in [Array -> Blocks]
        /\ \A b \in Array \ {tables[t].m_buckets} : heap'[b] = heap[b]
        /\ tables[t].m_buckets \in Array => heap'[tables[t].m_buckets].from = Nobody
    BY <1>2, Cleared DEF IInv, TypeOK, FreeBlocks
  <2>2. tables[t].m_buckets \in Array \cup {NoArray}
    BY DEF IInv, TypeOK, Members
  <2> QED
    BY <1>3, <2>1, <2>2 DEF Exchange
<1> QED
  BY <1>2, <1>3, <1>4, OfOne DEF Reasons, IInv, TypeOK

LEMMA ClearStep ==
  ASSUME IInv, NEW t \in Table, Clear(t)
  PROVE  Kept
<1> DEFINE old == tables[t]
           x   == [old EXCEPT !.m_values = {}]
<1>1. old \in Members /\ heap \in [Array -> Blocks] /\ {} \in SUBSET Elem
  BY DEF IInv, TypeOK
<1>2. /\ t \in alive /\ left_by[t] = "nothing" /\ old.m_values # {}
      /\ tables' = [tables EXCEPT ![t] = x]
      /\ left_by' = [left_by EXCEPT ![t] = "nothing"]
      /\ heap' = [heap EXCEPT ![old.m_buckets].points = {}]
      /\ alive' = alive
  BY DEF Clear, Finish, Specified
<1>3. Works(old, heap)
  BY <1>2 DEF IInv, Usable, Specified, Works
<1>4. old.m_buckets \in Array /\ old.m_buckets # NoArray
  BY <1>1, <1>2, <1>3, TransferAssumption DEF Works, Members
<1>5. /\ x \in Members /\ x.m_values = {} /\ x.m_shifts = old.m_shifts
      /\ x.values_alloc = old.values_alloc /\ x.buckets_alloc = old.buckets_alloc
      /\ x.m_buckets = old.m_buckets /\ x.m_max_load_factor = old.m_max_load_factor
      /\ x.m_group_mask = old.m_group_mask
      /\ x.m_max_bucket_capacity = old.m_max_bucket_capacity
  <2> HIDE DEF old
  <2> QED
    BY <1>1, WithValues
<1> HIDE DEF x
<1>6. /\ heap' \in [Array -> Blocks]
      /\ heap'[old.m_buckets].from = heap[old.m_buckets].from
      /\ heap'[old.m_buckets].shifts = heap[old.m_buckets].shifts
      /\ heap'[old.m_buckets].points = {}
      /\ \A c \in Array \ {old.m_buckets} : heap'[c] = heap[c]
  <2> DEFINE b == old.m_buckets
  <2>1. heap' = [heap EXCEPT ![b].points = {}] /\ b \in Array
    BY <1>2, <1>4
  <2> HIDE DEF b
  <2>2. /\ heap' \in [Array -> Blocks]
        /\ heap'[b].from = heap[b].from
        /\ heap'[b].shifts = heap[b].shifts
        /\ heap'[b].points = {}
        /\ \A c \in Array \ {b} : heap'[c] = heap[c]
    BY <1>1, <2>1 DEF Blocks
  <2> QED
    BY <2>2 DEF b
<1>7. Exchange(t, x, t, x, heap')
  <2>1. Fits(old, heap) /\ heap[old.m_buckets].from # Nobody
    BY <1>4 DEF IInv, TypeOK, SlotsOf, Fits, Held, HeldIsHandedOut
  <2> QED
    BY <1>4, <1>5, <1>6, <2>1 DEF Exchange, Fits
<1>8. Works(x, heap')
  BY <1>3, <1>4, <1>5, <1>6 DEF Works
<1>9. Owned(old, heap) => Owned(x, heap')
  BY <1>5, <1>6 DEF Owned
<1> QED
  BY <1>2, <1>7, <1>8, <1>9, OfOne DEF Reasons, IInv, TypeOK

LEMMA MaxLoadFactorStep ==
  ASSUME IInv, NEW t \in Table, NEW ml \in LoadFactors, max_load_factor(t, ml)
  PROVE  Kept
<1> DEFINE old == tables[t]
           new == [old EXCEPT !.m_max_load_factor = ml]
           b   == old.m_buckets
           x   == IF b = NoArray THEN new ELSE describe_buckets(new, heap[b].shifts)
<1>1. /\ old \in Members /\ heap \in [Array -> Blocks] /\ ml \in Factors
      /\ b \in Array \cup {NoArray}
  BY DEF IInv, TypeOK, Factors, Members
<1>2. /\ new \in Members /\ new.m_values = old.m_values /\ new.m_shifts = old.m_shifts
      /\ new.values_alloc = old.values_alloc /\ new.buckets_alloc = old.buckets_alloc
      /\ new.m_buckets = b /\ new.m_max_load_factor = ml
      /\ new.m_group_mask = old.m_group_mask
      /\ new.m_max_bucket_capacity = old.m_max_bucket_capacity
  <2> HIDE DEF old
  <2> QED
    BY <1>1, WithFactor
<1>3. /\ t \in alive /\ left_by[t] = "nothing"
      /\ tables' = [tables EXCEPT ![t] = x]
      /\ left_by' = [left_by EXCEPT ![t] = "nothing"]
      /\ heap' = heap /\ alive' = alive
  <2>1. /\ t \in alive /\ left_by[t] = "nothing"
        /\ tables' = [tables EXCEPT ![t] =
                        IF new.m_buckets = NoArray THEN new
                        ELSE describe_buckets(new, heap[new.m_buckets].shifts)]
        /\ left_by' = [left_by EXCEPT ![t] = "nothing"]
        /\ heap' = heap /\ alive' = alive
    BY DEF max_load_factor, Finish, Specified
  <2> HIDE DEF new, b
  <2> QED
    BY <1>2, <2>1
<1> HIDE DEF new
<1>4. Works(old, heap)
  BY <1>3 DEF IInv, Usable, Specified, Works
<1>5. /\ x \in Members /\ x.m_values = old.m_values /\ x.m_shifts = old.m_shifts
      /\ x.values_alloc = old.values_alloc /\ x.buckets_alloc = old.buckets_alloc
      /\ x.m_buckets = b /\ x.m_max_load_factor = ml
      /\ x.m_group_mask = old.m_group_mask
      /\ x.m_max_bucket_capacity = IF b = NoArray THEN 0 ELSE capacity_of(heap[b].shifts, ml)
  <2>1. CASE b = NoArray
    BY <2>1, <1>2, <1>4 DEF Works
  <2>2. CASE b # NoArray
    <3>1. heap[b].shifts \in 0 .. InitialShifts
      BY <1>1, <2>2 DEF Blocks
    <3>2. x = describe_buckets(new, heap[b].shifts)
      BY <2>2
    <3> HIDE DEF x, old, b
    <3> QED
      BY <1>2, <1>4, <2>2, <3>1, <3>2, Described DEF Works, old, b
  <2> QED
    BY <2>1, <2>2
<1> HIDE DEF x
<1>6. Exchange(t, x, t, x, heap')
  <2>1. b # NoArray => heap[b].from # Nobody
    BY DEF IInv, Held, HeldIsHandedOut
  <2>2. b # NoArray => capacity_of(heap[b].shifts, ml) <= Probe!calc_num_buckets(heap[b].shifts)
    BY <1>1, Sizes DEF Blocks
  <2>3. Fits(x, heap)
    BY <1>5, <2>2 DEF Fits
  <2> QED
    BY <1>1, <1>3, <1>5, <2>1, <2>3 DEF Exchange
<1>7. Works(x, heap')
  BY <1>3, <1>4, <1>5 DEF Works
<1>8. Owned(old, heap) => Owned(x, heap')
  BY <1>3, <1>5 DEF Owned
<1> QED
  BY <1>3, <1>6, <1>7, <1>8, OfOne DEF Reasons, IInv, TypeOK

\* A new array for a table, beside the one it has, which is given back.
LEMMA NewArray ==
  ASSUME IInv, NEW t \in Table, NEW x \in Members,
         x.buckets_alloc = tables[t].buckets_alloc,
         NEW s \in 0 .. InitialShifts, NEW points \in SUBSET Elem,
         NEW n, n = allocate_buckets_from_shift(x, heap, s),
         NEW h, h = allocated_blocks(tables[t], heap, s, points)
  PROVE  /\ Exchange(t, n, t, n, h)
         /\ n.m_values = x.m_values /\ n.m_shifts = s
         /\ n.values_alloc = x.values_alloc /\ n.buckets_alloc = x.buckets_alloc
         /\ n.m_buckets \in Array /\ n.m_max_load_factor = x.m_max_load_factor
         /\ n.m_group_mask = Probe!calc_num_groups(s) - 1
         /\ n.m_max_bucket_capacity = capacity_of(s, x.m_max_load_factor)
         /\ h[n.m_buckets] = [from |-> n.buckets_alloc, shifts |-> s, points |-> points]
<1> DEFINE b == tables[t].m_buckets
           a == tables[t].buckets_alloc
           g == make(heap, a, s, points)
           f == Fresh(heap)
<1>1. /\ b \in Array \cup {NoArray} /\ a \in Allocator /\ heap \in [Array -> Blocks]
      /\ b # NoArray => heap[b].from # Nobody
  BY DEF IInv, TypeOK, Members, Held, HeldIsHandedOut
<1>2. f \in Array /\ heap[f].from = Nobody
  BY FreshIsFree DEF IInv
<1>3. /\ g \in [Array -> Blocks]
      /\ g[f] = [from |-> a, shifts |-> s, points |-> points]
      /\ \A c \in Array \ {f} : g[c] = heap[c]
  <2> HIDE DEF a
  <2> QED
    BY <1>1, <1>2, Made
<1>4. h = clear(g, b)
  BY DEF allocated_blocks
<1> HIDE DEF f, g
<1>5. f # b /\ f # NoArray /\ a # Nobody
  BY <1>1, <1>2, TransferAssumption
<1>6. /\ h \in [Array -> Blocks]
      /\ \A c \in Array \ {b} : h[c] = g[c]
      /\ b \in Array => h[b].from = Nobody
  BY <1>3, <1>4, Cleared DEF FreeBlocks
<1>7. /\ n \in Members /\ n.m_values = x.m_values /\ n.m_shifts = s
      /\ n.values_alloc = x.values_alloc /\ n.buckets_alloc = x.buckets_alloc
      /\ n.m_buckets = f /\ n.m_max_load_factor = x.m_max_load_factor
      /\ n.m_group_mask = Probe!calc_num_groups(s) - 1
      /\ n.m_max_bucket_capacity = capacity_of(s, x.m_max_load_factor)
  BY <1>2, Allocated DEF f
<1>8. h[f] = [from |-> a, shifts |-> s, points |-> points]
  BY <1>2, <1>3, <1>5, <1>6
<1>9. Fits(n, h)
  <2>1. x.m_max_load_factor \in Factors
    BY DEF Members, Factors
  <2>2. capacity_of(s, x.m_max_load_factor) <= Probe!calc_num_buckets(s)
    BY <2>1, Sizes
  <2> QED
    BY <1>5, <1>7, <1>8, <2>2 DEF Fits
<1>10. Exchange(t, n, t, n, h)
  BY <1>1, <1>2, <1>3, <1>5, <1>6, <1>7, <1>8, <1>9 DEF Exchange
<1> QED
  BY <1>2, <1>7, <1>8, <1>10

LEMMA InsertStep ==
  ASSUME IInv, NEW t \in Table, NEW e \in Elem, Insert(t, e)
  PROVE  Kept
<1> DEFINE old      == tables[t]
           capacity == IF old.m_buckets = NoArray
                       THEN capacity_of(old.m_shifts, old.m_max_load_factor)
                       ELSE old.m_max_bucket_capacity
           is_full  == Cardinality(old.m_values) + 1 > capacity
           shifts   == IF is_full THEN old.m_shifts - 1 ELSE old.m_shifts
           values   == old.m_values \cup {e}
           new      == [old EXCEPT !.m_values = values]
           b        == old.m_buckets
<1>1. /\ old \in Members /\ heap \in [Array -> Blocks]
      /\ b \in Array \cup {NoArray} /\ values \in SUBSET Elem
      /\ old.m_max_load_factor \in Factors /\ old.m_shifts \in 0 .. InitialShifts
  BY DEF IInv, TypeOK, Factors, Members
<1>2. /\ t \in alive /\ left_by[t] = "nothing"
      /\ is_full => capacity # MaxBucketCount
      /\ left_by' = [left_by EXCEPT ![t] = "nothing"] /\ alive' = alive
      /\ IF is_full \/ b = NoArray
         THEN /\ tables' = [tables EXCEPT ![t] = allocate_buckets_from_shift(new, heap, shifts)]
              /\ heap' = allocated_blocks(old, heap, shifts, values)
         ELSE /\ tables' = [tables EXCEPT ![t] = new]
              /\ heap' = [heap EXCEPT ![b].points = values]
  BY DEF Insert, Finish, Specified
<1>3. Works(old, heap)
  BY <1>2 DEF IInv, Usable, Specified, Works
<1>4. shifts \in 0 .. InitialShifts
  <2>1. CASE is_full
    <3>1. capacity = capacity_of(old.m_shifts, old.m_max_load_factor)
      BY <1>3 DEF Works
    <3>2. old.m_shifts # 0
      BY <1>1, <1>2, <2>1, <3>1, Sizes
    <3>3. shifts = old.m_shifts - 1
      BY <2>1
    <3> QED
      BY <1>1, <3>2, <3>3, TransferAssumption
  <2>2. CASE ~is_full
    BY <2>2, <1>1
  <2> QED
    BY <2>1, <2>2
<1> HIDE DEF capacity, is_full, shifts, values, b
<1>5. /\ new \in Members /\ new.m_values = values /\ new.m_shifts = old.m_shifts
      /\ new.values_alloc = old.values_alloc /\ new.buckets_alloc = old.buckets_alloc
      /\ new.m_buckets = b /\ new.m_max_load_factor = old.m_max_load_factor
      /\ new.m_group_mask = old.m_group_mask
      /\ new.m_max_bucket_capacity = old.m_max_bucket_capacity
  <2>1. old.m_buckets = b
    BY DEF b
  <2> HIDE DEF old
  <2> QED
    BY <1>1, <2>1, WithValues
<1> HIDE DEF new
<1>6. CASE is_full \/ b = NoArray
  <2> DEFINE x == allocate_buckets_from_shift(new, heap, shifts)
  <2>1. tables' = [tables EXCEPT ![t] = x] /\ heap' = allocated_blocks(old, heap, shifts, values)
    BY <1>2, <1>6
  <2>2. /\ Exchange(t, x, t, x, heap')
        /\ x.m_values = values /\ x.m_shifts = shifts
        /\ x.values_alloc = old.values_alloc /\ x.buckets_alloc = old.buckets_alloc
        /\ x.m_buckets \in Array /\ x.m_max_load_factor = old.m_max_load_factor
        /\ x.m_group_mask = Probe!calc_num_groups(shifts) - 1
        /\ x.m_max_bucket_capacity = capacity_of(shifts, old.m_max_load_factor)
        /\ heap'[x.m_buckets] = [from |-> x.buckets_alloc, shifts |-> shifts, points |-> values]
    BY <1>1, <1>4, <1>5, <2>1, NewArray
  <2> HIDE DEF x
  <2>3. x.m_buckets # NoArray
    BY <2>2, TransferAssumption
  <2>4. Works(x, heap')
    BY <2>2, <2>3 DEF Works
  <2>5. Owned(old, heap) => Owned(x, heap')
    BY <2>2 DEF Owned
  <2> QED
    BY <1>2, <2>1, <2>2, <2>4, <2>5, OfOne DEF Reasons, IInv, TypeOK
<1>7. CASE ~(is_full \/ b = NoArray)
  <2>1. /\ tables' = [tables EXCEPT ![t] = new] /\ heap' = [heap EXCEPT ![b].points = values]
        /\ b \in Array
    BY <1>1, <1>2, <1>7
  <2>2. /\ heap' \in [Array -> Blocks]
        /\ heap'[b].from = heap[b].from /\ heap'[b].shifts = heap[b].shifts
        /\ heap'[b].points = values
        /\ \A c \in Array \ {b} : heap'[c] = heap[c]
    BY <1>1, <2>1 DEF Blocks
  <2>3. Fits(old, heap) /\ heap[b].from # Nobody
    BY <1>7 DEF b, IInv, TypeOK, SlotsOf, Fits, Held, HeldIsHandedOut
  <2>4. Exchange(t, new, t, new, heap')
    BY <1>5, <1>7, <2>2, <2>3 DEF Exchange, Fits, b
  <2>5. Works(new, heap')
    BY <1>3, <1>5, <1>7, <2>2 DEF Works, b
  <2>6. Owned(old, heap) => Owned(new, heap')
    BY <1>5, <1>7, <2>2 DEF Owned, b
  <2> QED
    BY <1>2, <2>1, <2>4, <2>5, <2>6, OfOne DEF Reasons, IInv, TypeOK
<1> QED
  BY <1>6, <1>7

\* The array replace is going to fill, new or the old one emptied.
LEMMA ReadyToFill ==
  ASSUME IInv, NEW t \in Table, Specified(t), NEW size, NEW a \in Allocator,
         NEW r, r = ReplaceBuckets(t, size, a)
  PROVE  LET x == r[1] IN
         /\ Exchange(t, x, t, x, r[2])
         /\ x.values_alloc = tables[t].values_alloc
         /\ x.buckets_alloc = tables[t].buckets_alloc
         /\ x.m_buckets \in Array
         /\ x.m_shifts = r[2][x.m_buckets].shifts
         /\ x.m_group_mask = Probe!calc_num_groups(x.m_shifts) - 1
         /\ x.m_max_bucket_capacity = capacity_of(x.m_shifts, x.m_max_load_factor)
         /\ Owned(tables[t], heap) => Owned(x, r[2])
<1> DEFINE old    == tables[t]
           b      == old.m_buckets
           shifts == calc_shifts_for_size(old, size)
           is_new == b = NoArray \/ shifts < old.m_shifts \/ a # old.values_alloc
<1>1. /\ old \in Members /\ heap \in [Array -> Blocks] /\ b \in Array \cup {NoArray}
      /\ {} \in SUBSET Elem
  BY DEF IInv, TypeOK, Members
<1>2. shifts \in 0 .. InitialShifts
  <2> HIDE DEF old
  <2> QED
    BY <1>1, ShiftsForSize
<1>3. Works(old, heap) /\ Fits(old, heap)
  BY DEF IInv, TypeOK, Usable, Works, SlotsOf, Fits
<1>4. r = IF is_new THEN <<allocate_buckets_from_shift(old, heap, shifts),
                           allocated_blocks(old, heap, shifts, {})>>
          ELSE <<old, [heap EXCEPT ![b].points = {}]>>
  BY DEF ReplaceBuckets
<1> HIDE DEF shifts
<1>5. CASE is_new
  <2>1. /\ r[1] = allocate_buckets_from_shift(old, heap, shifts)
        /\ r[2] = allocated_blocks(old, heap, shifts, {})
    BY <1>4, <1>5
  <2> DEFINE x == r[1]
             h == r[2]
             none == {}
  <2>2. /\ x = allocate_buckets_from_shift(old, heap, shifts)
        /\ h = allocated_blocks(tables[t], heap, shifts, none)
        /\ old.buckets_alloc = tables[t].buckets_alloc
        /\ none \in SUBSET Elem
    BY <2>1
  <2> HIDE DEF x, h, old, none
  <2>3. /\ Exchange(t, x, t, x, h)
        /\ x.m_shifts = shifts
        /\ x.values_alloc = old.values_alloc /\ x.buckets_alloc = old.buckets_alloc
        /\ x.m_buckets \in Array /\ x.m_max_load_factor = old.m_max_load_factor
        /\ x.m_group_mask = Probe!calc_num_groups(shifts) - 1
        /\ x.m_max_bucket_capacity = capacity_of(shifts, old.m_max_load_factor)
        /\ h[x.m_buckets] = [from |-> x.buckets_alloc, shifts |-> shifts, points |-> none]
    BY <1>1, <1>2, <2>2, NewArray
  <2>4. x.m_shifts = h[x.m_buckets].shifts /\ (Owned(old, heap) => Owned(x, h))
    BY <2>3 DEF Owned
  <2> QED
    BY <2>3, <2>4 DEF x, h, old
<1>6. CASE ~is_new
  <2>1. r[1] = old /\ r[2] = [heap EXCEPT ![b].points = {}] /\ b \in Array /\ b # NoArray
    BY <1>1, <1>4, <1>6
  <2> DEFINE h == r[2]
  <2>2. b = old.m_buckets /\ h = [heap EXCEPT ![b].points = {}] /\ b \in Array
    BY <2>1
  <2> HIDE DEF b, h
  <2>3. /\ h \in [Array -> Blocks]
        /\ h[b].from = heap[b].from /\ h[b].shifts = heap[b].shifts
        /\ h[b].points = {}
        /\ \A c \in Array \ {b} : h[c] = heap[c]
    BY <1>1, <2>2, Pointed
  <2>4. heap[b].from # Nobody
    BY <2>1, <2>2 DEF IInv, Held, HeldIsHandedOut
  <2>5. Exchange(t, old, t, old, h)
    BY <1>1, <1>3, <2>1, <2>2, <2>3, <2>4 DEF Exchange, Fits
  <2>6. /\ old.m_shifts = h[b].shifts
        /\ old.m_group_mask = Probe!calc_num_groups(old.m_shifts) - 1
        /\ old.m_max_bucket_capacity = capacity_of(old.m_shifts, old.m_max_load_factor)
    BY <1>3, <2>1, <2>2, <2>3 DEF Works
  <2>7. Owned(old, heap) => Owned(old, h)
    BY <2>2, <2>3 DEF Owned
  <2> QED
    BY <2>1, <2>2, <2>5, <2>6, <2>7 DEF h
<1> QED
  BY <1>5, <1>6

LEMMA ReplaceStep ==
  ASSUME IInv, NEW t \in Table, NEW container \in SUBSET Elem, NEW a \in Allocator,
         Replace(t, container, a)
  PROVE  Kept
<1> DEFINE r == ReplaceBuckets(t, Cardinality(container), a)
           y == r[1]
           h == r[2]
           b == y.m_buckets
           x == [y EXCEPT !.m_values = container,
                          !.values_alloc = IF Pocma THEN a ELSE @]
<1>1. /\ t \in alive /\ left_by[t] = "nothing" /\ Specified(t)
      /\ tables' = [tables EXCEPT ![t] = x]
      /\ left_by' = [left_by EXCEPT ![t] = "nothing"]
      /\ heap' = [h EXCEPT ![b].points = container]
      /\ alive' = alive
  BY DEF Replace, Finish, Specified
<1>2. /\ Exchange(t, y, t, y, h)
      /\ y.values_alloc = tables[t].values_alloc
      /\ y.buckets_alloc = tables[t].buckets_alloc
      /\ b \in Array
      /\ y.m_shifts = h[b].shifts
      /\ y.m_group_mask = Probe!calc_num_groups(y.m_shifts) - 1
      /\ y.m_max_bucket_capacity = capacity_of(y.m_shifts, y.m_max_load_factor)
      /\ Owned(tables[t], heap) => Owned(y, h)
  <2> HIDE DEF r
  <2> QED
    BY <1>1, ReadyToFill DEF r
<1> HIDE DEF r, y, h
<1>3. y \in Members /\ h \in [Array -> Blocks] /\ b # NoArray /\ b = y.m_buckets
  BY <1>2, TransferAssumption DEF Exchange
<1>4. (IF Pocma THEN a ELSE y.values_alloc) \in Allocator
  BY <1>3 DEF Members
<1>5. /\ x \in Members /\ x.m_values = container /\ x.m_shifts = y.m_shifts
      /\ x.values_alloc = (IF Pocma THEN a ELSE y.values_alloc)
      /\ x.buckets_alloc = y.buckets_alloc
      /\ x.m_buckets = b /\ x.m_max_load_factor = y.m_max_load_factor
      /\ x.m_group_mask = y.m_group_mask
      /\ x.m_max_bucket_capacity = y.m_max_bucket_capacity
  BY <1>3, <1>4, Zenon DEF Members
<1> HIDE DEF x, b
<1>6. /\ heap' \in [Array -> Blocks]
      /\ heap'[b].from = h[b].from /\ heap'[b].shifts = h[b].shifts
      /\ heap'[b].points = container
      /\ \A c \in Array \ {b} : heap'[c] = h[c]
  <2>1. heap' = [h EXCEPT ![b].points = container]
    BY <1>1
  <2> QED
    BY <1>2, <1>3, <2>1 DEF Blocks
<1>7. Exchange(t, x, t, x, heap')
  <2>1. Fits(x, heap')
    BY <1>2, <1>3, <1>5, <1>6 DEF Exchange, Fits
  <2>2. \A c \in Array \ {tables[t].m_buckets, b} : heap'[c] = heap[c]
    BY <1>2, <1>3, <1>6 DEF Exchange
  <2>3. heap'[b].from # Nobody /\ (b = tables[t].m_buckets \/ heap[b].from = Nobody)
    BY <1>2, <1>3, <1>6 DEF Exchange
  <2>4. tables[t].m_buckets \notin {b, NoArray} => heap'[tables[t].m_buckets].from = Nobody
    <3>1. tables[t].m_buckets \in Array \cup {NoArray}
      BY DEF IInv, TypeOK, Members
    <3> QED
      BY <1>2, <1>3, <1>6, <3>1 DEF Exchange
  <2> QED
    BY <1>5, <1>6, <2>1, <2>2, <2>3, <2>4 DEF Exchange
<1>8. Works(x, heap')
  BY <1>2, <1>3, <1>5, <1>6 DEF Works
<1>9. AllocatorsStay /\ Owned(tables[t], heap) => Owned(x, heap')
  <2>1. AllocatorsStay => x.values_alloc = y.values_alloc
    BY <1>3, <1>5 DEF AllocatorsStay, Members
  <2> QED
    BY <1>2, <1>3, <1>5, <1>6, <2>1 DEF Owned
<1> QED
  BY <1>1, <1>7, <1>8, <1>9, OfOne DEF Reasons, IInv, TypeOK

LEMMA ReplaceThrowsStep ==
  ASSUME IInv, NEW t \in Table, NEW container \in SUBSET Elem, NEW a \in Allocator,
         ReplaceThrows(t, container, a)
  PROVE  Kept
<1> DEFINE r == ReplaceBuckets(t, Cardinality(container), a)
<1>1. /\ t \in alive /\ Specified(t)
      /\ tables' = [tables EXCEPT ![t] = r[1]]
      /\ left_by' = [left_by EXCEPT ![t] = "replace"]
      /\ heap' = r[2]
      /\ alive' = alive
  BY DEF ReplaceThrows, Specified
<1>2. Exchange(t, r[1], t, r[1], heap') /\ (Owned(tables[t], heap) => Owned(r[1], heap'))
  BY <1>1, ReadyToFill
<1> QED
  BY <1>1, <1>2, OfOne DEF Reasons, IInv, TypeOK

---------------------------------------------------------------------------
(* Copies *)

\* A copy of s's index, on a heap t's own array has gone back to.
LEMMA Copied ==
  ASSUME IInv, NEW t \in Table, NEW s \in Table, t # s, Specified(s),
         NEW h \in [Array -> Blocks],
         \A b \in Array \ {tables[t].m_buckets} : h[b] = heap[b],
         tables[t].m_buckets \in Array => h[tables[t].m_buckets].from = Nobody,
         NEW x \in Members,
         x.m_values = tables[s].m_values, x.m_buckets = NoArray,
         x.m_group_mask = 0, x.m_max_bucket_capacity = 0,
         NEW n, n = copy_buckets(x, h, tables[s]),
         NEW g, g = copied_blocks(x, h, tables[s])
  PROVE  /\ Exchange(t, n, t, n, g)
         /\ Works(n, g)
         /\ n.m_buckets # NoArray => /\ n.m_buckets # tables[s].m_buckets
                                     /\ g[n.m_buckets].from = n.buckets_alloc
         /\ tables[s].m_buckets # NoArray =>
              g[tables[s].m_buckets] = heap[tables[s].m_buckets]
         /\ n.values_alloc = x.values_alloc /\ n.buckets_alloc = x.buckets_alloc
<1> DEFINE other == tables[s]
           o     == other.m_buckets
           b     == tables[t].m_buckets
           f     == Fresh(h)
<1>1. /\ other \in Members /\ heap \in [Array -> Blocks]
      /\ o \in Array \cup {NoArray} /\ b \in Array \cup {NoArray}
  BY DEF IInv, TypeOK, Members
<1>2. Works(other, heap)
  BY DEF IInv, Usable, Works
<1>3. o # NoArray => /\ o # b /\ heap[o].from # Nobody /\ h[o] = heap[o]
  BY <1>1 DEF IInv, Held, HeldOnce, HeldIsHandedOut
<1>4. f \in Array /\ h[f].from = Nobody
  <2>1. \A c \in Array : h[c].from # Nobody => heap[c].from # Nobody
    BY <1>1
  <2> QED
    BY <2>1, FreshIsFree DEF IInv
<1>5. f # o /\ f # NoArray /\ (f = b \/ heap[f].from = Nobody)
  BY <1>1, <1>3, <1>4, TransferAssumption
<1>6. CASE x.m_values = {}
  <2>1. n = [x EXCEPT !.m_shifts = InitialShifts] /\ g = h
    BY <1>6 DEF copy_buckets, copied_blocks
  <2>2. InitialShifts \in 0 .. InitialShifts
    BY TransferAssumption
  <2>3. /\ n \in Members /\ n.m_values = {} /\ n.m_shifts = InitialShifts
        /\ n.values_alloc = x.values_alloc /\ n.buckets_alloc = x.buckets_alloc
        /\ n.m_buckets = NoArray
        /\ n.m_group_mask = 0 /\ n.m_max_bucket_capacity = 0
    BY <1>6, <2>1, <2>2, Zenon DEF Members
  <2>4. Works(n, g) /\ Fits(n, g)
    BY <2>3 DEF Works, Fits
  <2>5. Exchange(t, n, t, n, g)
    BY <1>1, <2>1, <2>3, <2>4 DEF Exchange
  <2> QED
    BY <1>3, <2>1, <2>3, <2>4, <2>5
<1>7. CASE x.m_values # {}
  <2> DEFINE shifts == heap[o].shifts
             points == heap[o].points
             d      == describe_buckets(x, shifts)
  <2>1. /\ o \in Array /\ o # NoArray /\ h[o] = heap[o]
        /\ shifts \in 0 .. InitialShifts /\ points \in SUBSET Elem
        /\ other.m_shifts = shifts /\ points = x.m_values
    BY <1>1, <1>2, <1>3, <1>7 DEF Works, Blocks
  <2>2. /\ n = [d EXCEPT !.m_buckets = f, !.m_shifts = other.m_shifts]
        /\ g = make(h, x.buckets_alloc, shifts, points)
    BY <1>7, <2>1 DEF copy_buckets, copied_blocks
  <2> HIDE DEF shifts, points
  <2>3. /\ d \in Members
        /\ d.m_values = x.m_values
        /\ d.values_alloc = x.values_alloc /\ d.buckets_alloc = x.buckets_alloc
        /\ d.m_max_load_factor = x.m_max_load_factor
        /\ d.m_group_mask = Probe!calc_num_groups(shifts) - 1
        /\ d.m_max_bucket_capacity = capacity_of(shifts, x.m_max_load_factor)
    BY <2>1, Described
  <2> HIDE DEF d, f, other
  <2>4. /\ n \in Members /\ n.m_values = x.m_values /\ n.m_shifts = shifts
        /\ n.values_alloc = x.values_alloc /\ n.buckets_alloc = x.buckets_alloc
        /\ n.m_buckets = f /\ n.m_max_load_factor = x.m_max_load_factor
        /\ n.m_group_mask = Probe!calc_num_groups(shifts) - 1
        /\ n.m_max_bucket_capacity = capacity_of(shifts, x.m_max_load_factor)
    BY <1>4, <2>1, <2>2, <2>3, Zenon DEF Members
  <2>5. x.buckets_alloc \in Allocator /\ x.m_max_load_factor \in Factors
    BY DEF Members, Factors
  <2>6. /\ g \in [Array -> Blocks]
        /\ g[f] = [from |-> x.buckets_alloc, shifts |-> shifts, points |-> points]
        /\ \A c \in Array \ {f} : g[c] = h[c]
    BY <1>4, <2>1, <2>2, <2>5, Made DEF f
  <2>7. Works(n, g)
    BY <1>5, <2>1, <2>4, <2>6 DEF Works
  <2>8. Fits(n, g)
    <3>1. capacity_of(shifts, x.m_max_load_factor) <= Probe!calc_num_buckets(shifts)
      BY <2>1, <2>5, Sizes
    <3> QED
      BY <1>5, <2>4, <2>6, <3>1 DEF Fits
  <2>9. x.buckets_alloc # Nobody
    BY <2>5, TransferAssumption
  <2>10. Exchange(t, n, t, n, g)
    BY <1>1, <1>4, <1>5, <2>4, <2>6, <2>8, <2>9 DEF Exchange
  <2> QED
    BY <1>3, <1>5, <2>1, <2>4, <2>6, <2>7, <2>10 DEF other
<1> QED
  BY <1>6, <1>7

LEMMA CopyConstructStep ==
  ASSUME IInv, NEW t \in Table, NEW s \in Table, NEW a \in Allocator, CopyConstruct(t, s, a)
  PROVE  Kept
<1> DEFINE x == [Empty(a) EXCEPT !.m_values = tables[s].m_values,
                                 !.m_max_load_factor = tables[s].m_max_load_factor]
           n == copy_buckets(x, heap, tables[s])
<1>1. /\ t \notin alive /\ Specified(s) /\ t # s
      /\ tables' = [tables EXCEPT ![t] = n]
      /\ left_by' = [left_by EXCEPT ![t] = "nothing"]
      /\ heap' = copied_blocks(x, heap, tables[s])
      /\ alive' = alive \cup {t}
  BY DEF CopyConstruct, Finish, Specified
<1>2. /\ tables[s].m_values \in SUBSET Elem
      /\ tables[s].m_max_load_factor \in Factors
      /\ heap \in [Array -> Blocks] /\ tables[t].m_buckets = NoArray /\ NoArray \notin Array
  BY <1>1, TransferAssumption
  DEF IInv, TypeOK, Members, Factors, Held, GoneHoldNothing
<1>3. /\ x \in Members /\ x.m_values = tables[s].m_values /\ x.m_buckets = NoArray
      /\ x.m_group_mask = 0 /\ x.m_max_bucket_capacity = 0
      /\ x.values_alloc = a /\ x.buckets_alloc = a
  <2>1. /\ Empty(a) \in Members /\ Empty(a).m_buckets = NoArray
        /\ Empty(a).m_group_mask = 0 /\ Empty(a).m_max_bucket_capacity = 0
        /\ Empty(a).values_alloc = a /\ Empty(a).buckets_alloc = a
    BY EmptyMembers DEF Empty
  <2> QED
    BY <1>2, <2>1, Zenon DEF Members, Factors
<1> HIDE DEF x
<1>4. /\ Exchange(t, n, t, n, heap') /\ Works(n, heap')
      /\ n.m_buckets # NoArray => heap'[n.m_buckets].from = n.buckets_alloc
      /\ n.values_alloc = a /\ n.buckets_alloc = a
  BY <1>1, <1>2, <1>3, Copied
<1> HIDE DEF n
<1>5. Owned(n, heap')
  BY <1>4 DEF Owned
<1> QED
  BY <1>1, <1>4, <1>5, OfOne DEF Reasons, IInv, TypeOK

LEMMA TakenAllocator ==
  ASSUME IInv, NEW t \in Table, NEW s \in Table, NEW x, x = TakesAllocatorOf(t, s)
  PROVE  /\ x \in Members
         /\ x.values_alloc = (IF Pocca THEN tables[s].values_alloc ELSE tables[t].values_alloc)
         /\ x.buckets_alloc = (IF Pocca THEN tables[s].values_alloc ELSE tables[t].buckets_alloc)
         /\ x.m_buckets = NoArray
         /\ x.m_group_mask = 0 /\ x.m_max_bucket_capacity = 0
<1> DEFINE gone == deallocate_buckets(tables[t])
<1>1. tables[t] \in Members /\ tables[s].values_alloc \in Allocator
  BY DEF IInv, TypeOK, Members
<1>2. /\ gone \in Members /\ gone.values_alloc = tables[t].values_alloc
      /\ gone.buckets_alloc = tables[t].buckets_alloc /\ gone.m_buckets = NoArray
      /\ gone.m_group_mask = 0 /\ gone.m_max_bucket_capacity = 0
  BY <1>1, Deallocated, Zenon
<1>3. x = IF Pocca THEN [gone EXCEPT !.buckets_alloc = tables[s].values_alloc,
                                    !.values_alloc = tables[s].values_alloc]
                  ELSE gone
  BY DEF TakesAllocatorOf
<1> HIDE DEF gone
<1>4. CASE Pocca
  <2>1. x = [gone EXCEPT !.buckets_alloc = tables[s].values_alloc,
                         !.values_alloc = tables[s].values_alloc]
    BY <1>3, <1>4
  <2> QED
    BY <1>1, <1>2, <1>4, <2>1, Zenon DEF Members
<1>5. CASE ~Pocca
  BY <1>2, <1>3, <1>5
<1> QED
  BY <1>4, <1>5

LEMMA CopyAssignStep ==
  ASSUME IInv, NEW t \in Table, NEW s \in Table, CopyAssign(t, s)
  PROVE  Kept
<1> DEFINE h == clear(heap, tables[t].m_buckets)
           z == TakesAllocatorOf(t, s)
           x == [z EXCEPT !.m_values = tables[s].m_values,
                          !.m_max_load_factor = tables[s].m_max_load_factor]
           n == copy_buckets(x, h, tables[s])
<1>1. /\ t \in alive /\ Specified(s) /\ t # s
      /\ tables' = [tables EXCEPT ![t] = n]
      /\ left_by' = [left_by EXCEPT ![t] = "nothing"]
      /\ heap' = copied_blocks(x, h, tables[s])
      /\ alive' = alive
  BY DEF CopyAssign, Finish
<1>2. /\ tables[s].m_values \in SUBSET Elem
      /\ tables[s].m_max_load_factor \in Factors
  BY DEF IInv, TypeOK, Members, Factors
<1>3. /\ z \in Members
      /\ z.values_alloc = (IF Pocca THEN tables[s].values_alloc ELSE tables[t].values_alloc)
      /\ z.buckets_alloc = (IF Pocca THEN tables[s].values_alloc ELSE tables[t].buckets_alloc)
      /\ z.m_buckets = NoArray
      /\ z.m_group_mask = 0 /\ z.m_max_bucket_capacity = 0
  BY TakenAllocator
<1> HIDE DEF z
<1>4. /\ x \in Members /\ x.m_values = tables[s].m_values /\ x.m_buckets = NoArray
      /\ x.m_group_mask = 0 /\ x.m_max_bucket_capacity = 0
      /\ x.values_alloc = z.values_alloc /\ x.buckets_alloc = z.buckets_alloc
  BY <1>2, <1>3, Zenon DEF Members, Factors
<1> HIDE DEF x
<1>5. /\ h \in [Array -> Blocks]
      /\ \A b \in Array \ {tables[t].m_buckets} : h[b] = heap[b]
      /\ tables[t].m_buckets \in Array => h[tables[t].m_buckets].from = Nobody
  BY Cleared DEF IInv, TypeOK, FreeBlocks
<1> HIDE DEF h
<1>6. /\ Exchange(t, n, t, n, heap') /\ Works(n, heap')
      /\ n.m_buckets # NoArray => heap'[n.m_buckets].from = n.buckets_alloc
      /\ n.values_alloc = x.values_alloc /\ n.buckets_alloc = x.buckets_alloc
  BY <1>1, <1>4, <1>5, Copied
<1> HIDE DEF n
<1>7. Owned(tables[t], heap) => Owned(n, heap')
  BY <1>3, <1>4, <1>6 DEF Owned
<1> QED
  BY <1>1, <1>6, <1>7, OfOne DEF Reasons, IInv, TypeOK

LEMMA CopyAssignThrowsStep ==
  ASSUME IInv, NEW t \in Table, NEW s \in Table, CopyAssignThrows(t, s)
  PROVE  Kept
<1> DEFINE z == TakesAllocatorOf(t, s)
           r == reset_to_empty(z)
<1>1. PICK lf \in {tables[t].m_max_load_factor, tables[s].m_max_load_factor} :
        /\ tables' = [tables EXCEPT ![t] = [r EXCEPT !.m_max_load_factor = lf]]
        /\ left_by' = [left_by EXCEPT ![t] = "nothing"]
  BY DEF CopyAssignThrows, Finish
<1>2. t \in alive /\ heap' = clear(heap, tables[t].m_buckets) /\ alive' = alive
  BY DEF CopyAssignThrows
<1> DEFINE x == [r EXCEPT !.m_max_load_factor = lf]
<1>3. lf \in Factors
  BY DEF IInv, TypeOK, Members, Factors
<1>4. /\ z \in Members
      /\ z.values_alloc = (IF Pocca THEN tables[s].values_alloc ELSE tables[t].values_alloc)
      /\ z.buckets_alloc = (IF Pocca THEN tables[s].values_alloc ELSE tables[t].buckets_alloc)
  BY TakenAllocator
<1> HIDE DEF z
<1>5. /\ r \in Members /\ r.m_values = {} /\ r.m_shifts = InitialShifts
      /\ r.values_alloc = z.values_alloc /\ r.buckets_alloc = z.buckets_alloc
      /\ r.m_buckets = NoArray
      /\ r.m_group_mask = 0 /\ r.m_max_bucket_capacity = 0
  BY <1>4, Reset
<1> HIDE DEF r
<1>6. /\ x \in Members /\ x.m_values = {} /\ x.m_shifts = InitialShifts
      /\ x.values_alloc = z.values_alloc /\ x.buckets_alloc = z.buckets_alloc
      /\ x.m_buckets = NoArray
      /\ x.m_group_mask = 0 /\ x.m_max_bucket_capacity = 0
  BY <1>3, <1>5, WithFactor
<1>7. tables' = [tables EXCEPT ![t] = x]
  BY <1>1
<1> HIDE DEF x
<1>8. /\ heap' \in [Array -> Blocks]
      /\ \A b \in Array \ {tables[t].m_buckets} : heap'[b] = heap[b]
      /\ tables[t].m_buckets \in Array => heap'[tables[t].m_buckets].from = Nobody
      /\ tables[t].m_buckets \in Array \cup {NoArray}
  BY <1>2, Cleared DEF IInv, TypeOK, FreeBlocks, Members
<1>9. Works(x, heap') /\ Fits(x, heap')
  BY <1>6 DEF Works, Fits
<1>10. Exchange(t, x, t, x, heap')
  BY <1>6, <1>8, <1>9 DEF Exchange
<1>11. Owned(tables[t], heap) => Owned(x, heap')
  BY <1>4, <1>6 DEF Owned
<1> QED
  BY <1>1, <1>2, <1>7, <1>9, <1>10, <1>11, OfOne DEF Reasons, IInv, TypeOK

---------------------------------------------------------------------------
(* Moves *)

LEMMA OfTwo ==
  ASSUME IInv, NEW t \in Table, NEW s \in Table, t # s, NEW x, NEW y, NEW why \in Reasons,
         Exchange(t, x, s, y, heap'),
         tables' = [tables EXCEPT ![t] = x, ![s] = y],
         left_by' = [left_by EXCEPT ![t] = "nothing", ![s] = why],
         s \in alive, alive' = alive \cup {t},
         Works(x, heap'), why = "nothing" => Works(y, heap'),
         AllocatorsStay /\ Owned(tables[t], heap) /\ Owned(tables[s], heap)
           => Owned(x, heap') /\ Owned(y, heap')
  PROVE  Kept
<1>1. Leaves(t, x, s, y)
  BY DEF IInv, TypeOK, Leaves, Reasons
<1> QED
  BY <1>1, Handover DEF Kept, AllOwned

LEMMA Exchanged ==
  ASSUME NEW other \in Members, NEW y, y = exchanged(other)
  PROVE  /\ y \in Members /\ y.m_buckets = NoArray
         /\ y.values_alloc = other.values_alloc /\ y.buckets_alloc = other.buckets_alloc
         /\ \A h : Fits(y, h) /\ Works(y, h)
<1> DEFINE e == Empty(other.values_alloc)
<1>1. other.values_alloc \in Allocator /\ other.buckets_alloc \in Allocator
  BY DEF Members
<1>2. /\ e \in Members /\ e.values_alloc = other.values_alloc
      /\ e.m_values = {} /\ e.m_shifts = InitialShifts
      /\ e.m_buckets = NoArray
      /\ e.m_group_mask = 0 /\ e.m_max_bucket_capacity = 0
  BY <1>1, EmptyMembers DEF Empty
<1>3. y = [e EXCEPT !.buckets_alloc = other.buckets_alloc]
  BY DEF exchanged
<1> HIDE DEF e
<1>4. /\ y \in Members /\ y.values_alloc = other.values_alloc
      /\ y.buckets_alloc = other.buckets_alloc
      /\ y.m_values = {} /\ y.m_shifts = InitialShifts
      /\ y.m_buckets = NoArray
      /\ y.m_group_mask = 0 /\ y.m_max_bucket_capacity = 0
  BY <1>1, <1>2, <1>3, Zenon DEF Members
<1> QED
  BY <1>4 DEF Fits, Works

LEMMA MoveConstructStep ==
  ASSUME IInv, NEW t \in Table, NEW s \in Table, NEW a \in Allocator, MoveConstruct(t, s, a)
  PROVE  Kept
<1> DEFINE other  == tables[s]
           o      == other.m_buckets
           copied == o # NoArray /\ other.buckets_alloc # a
           f      == Fresh(heap)
           x      == [other EXCEPT !.values_alloc = a, !.buckets_alloc = a,
                                   !.m_buckets = IF copied THEN f ELSE @]
           y      == exchanged(other)
           g      == make(heap, a, other.m_shifts, heap[o].points)
<1>1. /\ t \notin alive /\ Specified(s) /\ s \in alive /\ left_by[s] = "nothing" /\ t # s
      /\ tables' = [tables EXCEPT ![t] = x, ![s] = y]
      /\ left_by' = [left_by EXCEPT ![t] = "nothing"]
      /\ heap' = (IF copied THEN clear(g, o) ELSE heap)
      /\ alive' = alive \cup {t}
  BY DEF MoveConstruct, FinishBoth, Specified
<1>2. /\ other \in Members /\ heap \in [Array -> Blocks]
      /\ o \in Array \cup {NoArray} /\ tables[t].m_buckets = NoArray
      /\ other.m_shifts \in 0 .. InitialShifts
      /\ o # NoArray => heap[o].from # Nobody /\ heap[o].points \in SUBSET Elem
  BY <1>1 DEF IInv, TypeOK, Members, Blocks, Held, GoneHoldNothing, HeldIsHandedOut
<1>3. Works(other, heap) /\ Fits(other, heap)
  BY <1>1 DEF IInv, TypeOK, Usable, Works, SlotsOf, Fits
<1>4. f \in Array /\ heap[f].from = Nobody /\ f # NoArray
  BY FreshIsFree, TransferAssumption DEF IInv
<1>5. /\ y \in Members /\ y.m_buckets = NoArray
      /\ y.values_alloc = other.values_alloc /\ y.buckets_alloc = other.buckets_alloc
      /\ Fits(y, heap') /\ Works(y, heap')
  BY <1>2, Exchanged
<1>6. /\ x \in Members /\ x.m_values = other.m_values /\ x.m_shifts = other.m_shifts
      /\ x.values_alloc = a /\ x.buckets_alloc = a
      /\ x.m_buckets = (IF copied THEN f ELSE o)
      /\ x.m_max_load_factor = other.m_max_load_factor
      /\ x.m_group_mask = other.m_group_mask
      /\ x.m_max_bucket_capacity = other.m_max_bucket_capacity
  <2> DEFINE c == IF copied THEN f ELSE o
  <2>1. c \in Array \cup {NoArray}
    BY <1>2, <1>4
  <2>2. x = [other EXCEPT !.values_alloc = a, !.buckets_alloc = a, !.m_buckets = c]
    OBVIOUS
  <2> HIDE DEF c, other, x
  <2>3. /\ x \in Members /\ x.m_values = other.m_values /\ x.m_shifts = other.m_shifts
        /\ x.values_alloc = a /\ x.buckets_alloc = a
        /\ x.m_buckets = c
        /\ x.m_max_load_factor = other.m_max_load_factor
        /\ x.m_group_mask = other.m_group_mask
        /\ x.m_max_bucket_capacity = other.m_max_bucket_capacity
    BY <1>2, <2>1, <2>2, Zenon DEF Members
  <2> QED
    BY <2>3 DEF c
<1>7. \A b \in Array : heap[b].from # Nobody => b # f
  BY <1>4
<1>8. CASE copied
  <2>1. /\ g \in [Array -> Blocks]
        /\ g[f] = [from |-> a, shifts |-> other.m_shifts, points |-> heap[o].points]
        /\ \A c \in Array \ {f} : g[c] = heap[c]
    <3> DEFINE points == heap[o].points
               shifts == other.m_shifts
    <3>1. points \in SUBSET Elem /\ shifts \in 0 .. InitialShifts
      BY <1>2, <1>8
    <3> HIDE DEF points, shifts
    <3> QED
      BY <1>2, <1>4, <3>1, Made DEF points, shifts
  <2>2. heap' = clear(g, o)
    BY <1>1, <1>8
  <2> HIDE DEF g, f, x, y
  <2>3. /\ o \in Array /\ o # NoArray /\ o # f
    BY <1>2, <1>4, <1>8
  <2>4. /\ heap' \in [Array -> Blocks]
        /\ heap'[f] = [from |-> a, shifts |-> other.m_shifts, points |-> heap[o].points]
        /\ \A c \in Array \ {f, o} : heap'[c] = heap[c]
        /\ heap'[o].from = Nobody
    BY <1>4, <2>1, <2>2, <2>3, Cleared DEF FreeBlocks
  <2>5. x.m_buckets = f /\ a # Nobody
    BY <1>6, <1>8, TransferAssumption
  <2>6. Works(x, heap')
    BY <1>3, <1>4, <1>6, <2>3, <2>4, <2>5 DEF Works
  <2>7. Fits(x, heap')
    BY <1>3, <1>4, <1>6, <2>3, <2>4, <2>5 DEF Works, Fits
  <2>8. Exchange(t, x, s, y, heap')
    BY <1>2, <1>4, <1>5, <1>6, <2>3, <2>4, <2>5, <2>7 DEF Exchange
  <2>9. Owned(x, heap') /\ (Owned(other, heap) => Owned(y, heap'))
    BY <1>5, <1>6, <2>4, <2>5 DEF Owned
  <2> QED
    BY <1>1, <1>5, <2>6, <2>8, <2>9, OfTwo DEF Reasons, IInv, TypeOK
<1>9. CASE ~copied
  <2>1. heap' = heap
    BY <1>1, <1>9
  <2>2. x.m_buckets = o
    BY <1>6, <1>9
  <2>3. o # NoArray => other.buckets_alloc = a
    BY <1>9
  <2> HIDE DEF f, x, y
  <2>4. Works(x, heap') /\ Fits(x, heap')
    BY <1>3, <1>6, <2>1, <2>2 DEF Works, Fits
  <2>5. Exchange(t, x, s, y, heap')
    BY <1>2, <1>5, <1>6, <2>1, <2>2, <2>4 DEF Exchange
  <2>6. Owned(other, heap) => Owned(x, heap') /\ Owned(y, heap')
    BY <1>5, <1>6, <2>1, <2>2, <2>3 DEF Owned
  <2> QED
    BY <1>1, <1>5, <2>4, <2>5, <2>6, OfTwo DEF Reasons, IInv, TypeOK
<1> QED
  BY <1>8, <1>9

LEMMA MoveConstructThrowsStep ==
  ASSUME IInv, NEW s \in Table, NEW a \in Allocator, MoveConstructThrows(s, a)
  PROVE  Kept
<1> DEFINE other == tables[s]
<1>1. PICK values \in {other.m_values, {}} : tables' = [tables EXCEPT ![s].m_values = values]
  BY DEF MoveConstructThrows
<1> DEFINE x == [other EXCEPT !.m_values = values]
<1>2. /\ s \in alive /\ left_by' = [left_by EXCEPT ![s] = "construction"]
      /\ heap' = heap /\ alive' = alive
  BY DEF MoveConstructThrows, Specified
<1>3. tables' = [tables EXCEPT ![s] = x]
  BY <1>1
<1>4. /\ other \in Members /\ values \in SUBSET Elem /\ heap \in [Array -> Blocks]
      /\ Fits(other, heap) /\ other.m_buckets \in Array \cup {NoArray}
      /\ other.m_buckets # NoArray => heap[other.m_buckets].from # Nobody
  BY DEF IInv, TypeOK, Members, SlotsOf, Fits, Held, HeldIsHandedOut
<1>5. /\ x \in Members
      /\ x.values_alloc = other.values_alloc /\ x.buckets_alloc = other.buckets_alloc
      /\ x.m_buckets = other.m_buckets
      /\ x.m_max_bucket_capacity = other.m_max_bucket_capacity
  <2> HIDE DEF other
  <2> QED
    BY <1>4, WithValues
<1> HIDE DEF x
<1>6. Exchange(s, x, s, x, heap')
  BY <1>2, <1>4, <1>5 DEF Exchange, Fits
<1>7. Owned(other, heap) => Owned(x, heap')
  BY <1>2, <1>5 DEF Owned
<1> QED
  BY <1>2, <1>3, <1>6, <1>7, OfOne DEF Reasons, IInv, TypeOK

\* What a move assignment works on, before the array comes.
LEMMA TakenValues ==
  ASSUME IInv, NEW t \in Table, NEW s \in Table, NEW x, x = TakesValuesOf(t, s)
  PROVE  /\ x \in Members /\ x.m_values = tables[s].m_values
         /\ x.values_alloc = (IF Pocma THEN tables[s].values_alloc ELSE tables[t].values_alloc)
         /\ x.buckets_alloc = tables[t].buckets_alloc
         /\ x.m_buckets = NoArray
         /\ x.m_group_mask = 0 /\ x.m_max_bucket_capacity = 0
<1> DEFINE gone == deallocate_buckets(tables[t])
           va   == IF Pocma THEN tables[s].values_alloc ELSE gone.values_alloc
<1>1. /\ tables[t] \in Members /\ tables[s].values_alloc \in Allocator
      /\ tables[s].m_values \in SUBSET Elem
  BY DEF IInv, TypeOK, Members
<1>2. /\ gone \in Members /\ gone.values_alloc = tables[t].values_alloc
      /\ gone.buckets_alloc = tables[t].buckets_alloc /\ gone.m_buckets = NoArray
      /\ gone.m_group_mask = 0 /\ gone.m_max_bucket_capacity = 0
  BY <1>1, Deallocated, Zenon
<1>3. x = [gone EXCEPT !.m_values = tables[s].m_values, !.values_alloc = va]
  BY DEF TakesValuesOf
<1>4. va \in Allocator /\ va = (IF Pocma THEN tables[s].values_alloc ELSE tables[t].values_alloc)
  BY <1>1, <1>2 DEF Members
<1> HIDE DEF gone, va
<1>5. /\ x \in Members /\ x.m_values = tables[s].m_values
      /\ x.values_alloc = va /\ x.buckets_alloc = gone.buckets_alloc
      /\ x.m_buckets = NoArray
      /\ x.m_group_mask = 0 /\ x.m_max_bucket_capacity = 0
  BY <1>1, <1>2, <1>3, <1>4, Zenon DEF Members
<1> QED
  BY <1>2, <1>4, <1>5

\* The array is handed on.
LEMMA MoveAssignTakes ==
  ASSUME IInv, NEW t \in Table, NEW s \in Table, MoveAssign(t, s),
         MayTakeArray(TakesValuesOf(t, s), tables[s])
  PROVE  Kept
<1> DEFINE other == tables[s]
           o     == other.m_buckets
           b     == tables[t].m_buckets
           z     == TakesValuesOf(t, s)
           x     == [other EXCEPT !.values_alloc = z.values_alloc,
                                  !.buckets_alloc = z.buckets_alloc]
           y     == exchanged(other)
<1>1. /\ t \in alive /\ s \in alive /\ left_by[s] = "nothing" /\ t # s
      /\ tables' = [tables EXCEPT ![t] = x, ![s] = y]
      /\ left_by' = [left_by EXCEPT ![t] = "nothing"]
      /\ heap' = clear(heap, b)
      /\ alive' = alive
  BY Zenon DEF MoveAssign, FinishBoth, Specified
<1>2. z.values_alloc = other.values_alloc
  BY DEF MayTakeArray
<1>3. /\ other \in Members /\ heap \in [Array -> Blocks]
      /\ o \in Array \cup {NoArray} /\ b \in Array \cup {NoArray}
      /\ o # NoArray => o # b /\ heap[o].from # Nobody
  BY <1>1 DEF IInv, TypeOK, Members, Held, HeldOnce, HeldIsHandedOut
<1>4. Works(other, heap) /\ Fits(other, heap)
  BY <1>1 DEF IInv, TypeOK, Usable, Specified, Works, SlotsOf, Fits
<1>5. /\ z.values_alloc = (IF Pocma THEN other.values_alloc ELSE tables[t].values_alloc)
      /\ z.buckets_alloc = tables[t].buckets_alloc
      /\ z.values_alloc \in Allocator /\ z.buckets_alloc \in Allocator
  BY TakenValues DEF Members
<1> HIDE DEF z
<1>6. /\ x \in Members /\ x.m_values = other.m_values /\ x.m_shifts = other.m_shifts
      /\ x.values_alloc = z.values_alloc /\ x.buckets_alloc = z.buckets_alloc
      /\ x.m_buckets = o /\ x.m_max_load_factor = other.m_max_load_factor
      /\ x.m_group_mask = other.m_group_mask
      /\ x.m_max_bucket_capacity = other.m_max_bucket_capacity
  <2> HIDE DEF other
  <2> QED
    BY <1>3, <1>5, Zenon DEF Members, o
<1>7. /\ y \in Members /\ y.m_buckets = NoArray
      /\ y.values_alloc = other.values_alloc /\ y.buckets_alloc = other.buckets_alloc
      /\ Fits(y, heap') /\ Works(y, heap')
  BY <1>3, Exchanged
<1> HIDE DEF x, y
<1>8. /\ heap' \in [Array -> Blocks]
      /\ \A c \in Array \ {b} : heap'[c] = heap[c]
      /\ b \in Array => heap'[b].from = Nobody
  BY <1>1, <1>3, Cleared DEF FreeBlocks
<1>9. o # NoArray => heap'[o] = heap[o]
  BY <1>3, <1>8
<1>10. Works(x, heap') /\ Fits(x, heap')
  BY <1>4, <1>6, <1>9 DEF Works, Fits
<1>11. Exchange(t, x, s, y, heap')
  BY <1>3, <1>6, <1>7, <1>8, <1>9, <1>10 DEF Exchange
<1>12. AllocatorsStay /\ Owned(tables[t], heap) /\ Owned(other, heap)
         => Owned(x, heap') /\ Owned(y, heap')
  <2> SUFFICES ASSUME AllocatorsStay, Owned(tables[t], heap), Owned(other, heap)
               PROVE  Owned(x, heap') /\ Owned(y, heap')
    OBVIOUS
  <2>1. z.values_alloc = tables[t].values_alloc
    <3>1. z.values_alloc \in Allocator /\ tables[t].values_alloc \in Allocator
      BY <1>5 DEF IInv, TypeOK, Members
    <3> QED
      BY <1>5, <3>1 DEF AllocatorsStay
  <2>2. z.values_alloc = z.buckets_alloc
    BY <1>5, <2>1 DEF Owned
  <2> QED
    BY <1>2, <1>6, <1>7, <1>9, <2>2 DEF Owned
<1> QED
  BY <1>1, <1>7, <1>10, <1>11, <1>12, OfTwo DEF Reasons, IInv, TypeOK

\* The array is copied, and the other table keeps its own, empty.
LEMMA MoveAssignCopies ==
  ASSUME IInv, NEW t \in Table, NEW s \in Table, MoveAssign(t, s),
         ~MayTakeArray(TakesValuesOf(t, s), tables[s])
  PROVE  Kept
<1> DEFINE other == tables[s]
           o     == other.m_buckets
           z     == TakesValuesOf(t, s)
           h     == clear(heap, tables[t].m_buckets)
           x     == [z EXCEPT !.m_max_load_factor = other.m_max_load_factor]
           n     == copy_buckets(x, h, other)
           g     == copied_blocks(x, h, other)
           y     == [other EXCEPT !.m_values = {}]
<1>1. /\ t \in alive /\ s \in alive /\ left_by[s] = "nothing" /\ t # s /\ Specified(s)
      /\ tables' = [tables EXCEPT ![t] = n, ![s] = y]
      /\ left_by' = [left_by EXCEPT ![t] = "nothing"]
      /\ heap' = (IF o = NoArray THEN g ELSE [g EXCEPT ![o].points = {}])
      /\ alive' = alive
  BY Zenon DEF MoveAssign, FinishBoth, Specified
<1>2. /\ other \in Members /\ heap \in [Array -> Blocks] /\ {} \in SUBSET Elem
      /\ o \in Array \cup {NoArray} /\ other.m_max_load_factor \in Factors
      /\ o # NoArray => heap[o].from # Nobody
  BY DEF IInv, TypeOK, Members, Factors, Held, HeldIsHandedOut
<1>3. Works(other, heap) /\ Fits(other, heap)
  BY <1>1 DEF IInv, TypeOK, Usable, Works, SlotsOf, Fits
<1>4. /\ z \in Members /\ z.m_values = other.m_values
      /\ z.values_alloc = (IF Pocma THEN other.values_alloc ELSE tables[t].values_alloc)
      /\ z.buckets_alloc = tables[t].buckets_alloc
      /\ z.m_buckets = NoArray
      /\ z.m_group_mask = 0 /\ z.m_max_bucket_capacity = 0
  BY TakenValues
<1> HIDE DEF z
<1>5. /\ x \in Members /\ x.m_values = other.m_values
      /\ x.values_alloc = z.values_alloc /\ x.buckets_alloc = z.buckets_alloc
      /\ x.m_buckets = NoArray
      /\ x.m_group_mask = 0 /\ x.m_max_bucket_capacity = 0
  <2> HIDE DEF other
  <2> QED
    BY <1>2, <1>4, WithFactor
<1> HIDE DEF x
<1>6. /\ h \in [Array -> Blocks]
      /\ \A c \in Array \ {tables[t].m_buckets} : h[c] = heap[c]
      /\ tables[t].m_buckets \in Array => h[tables[t].m_buckets].from = Nobody
  BY <1>2, Cleared DEF FreeBlocks
<1> HIDE DEF h
<1>7. /\ Exchange(t, n, t, n, g)
      /\ Works(n, g)
      /\ n.m_buckets # NoArray => /\ n.m_buckets # o
                                  /\ g[n.m_buckets].from = n.buckets_alloc
      /\ o # NoArray => g[o] = heap[o]
      /\ n.values_alloc = x.values_alloc /\ n.buckets_alloc = x.buckets_alloc
  BY <1>1, <1>5, <1>6, Copied
<1>8. /\ y \in Members /\ y.m_values = {} /\ y.m_shifts = other.m_shifts
      /\ y.values_alloc = other.values_alloc /\ y.buckets_alloc = other.buckets_alloc
      /\ y.m_buckets = o /\ y.m_max_load_factor = other.m_max_load_factor
      /\ y.m_group_mask = other.m_group_mask
      /\ y.m_max_bucket_capacity = other.m_max_bucket_capacity
  <2> HIDE DEF other
  <2> QED
    BY <1>2, WithValues DEF o
<1> HIDE DEF n, g, y
<1>9. /\ heap' \in [Array -> Blocks]
      /\ o # NoArray => /\ heap'[o].from = heap[o].from
                        /\ heap'[o].shifts = heap[o].shifts
                        /\ heap'[o].points = {}
      /\ \A c \in Array \ {o} : heap'[c] = g[c]
  <2>1. g \in [Array -> Blocks] /\ NoArray \notin Array
    BY <1>7, TransferAssumption DEF Exchange
  <2>2. CASE o = NoArray
    BY <1>1, <2>1, <2>2
  <2>3. CASE o # NoArray
    <3>1. g[o] = heap[o] /\ o \in Array
      BY <1>2, <1>7, <2>3
    <3> DEFINE none == {}
    <3>2. heap' = [g EXCEPT ![o].points = none] /\ none \in SUBSET Elem
      BY <1>1, <2>3
    <3> HIDE DEF o, none
    <3>3. /\ heap' \in [Array -> Blocks]
          /\ heap'[o].from = g[o].from /\ heap'[o].shifts = g[o].shifts
          /\ heap'[o].points = none
          /\ \A c \in Array \ {o} : heap'[c] = g[c]
      BY <2>1, <3>1, <3>2, Pointed
    <3> USE DEF o, none
    <3> QED
      BY <3>1, <3>3
  <2> QED
    BY <2>2, <2>3
<1>10. n.m_buckets # NoArray => heap'[n.m_buckets] = g[n.m_buckets]
  BY <1>7, <1>9 DEF Exchange, Members
<1>11. Works(n, heap') /\ Fits(n, heap')
  BY <1>7, <1>10 DEF Works, Fits, Exchange
<1>12. Works(y, heap') /\ Fits(y, heap')
  BY <1>3, <1>8, <1>9 DEF Works, Fits
<1>13. Exchange(t, n, s, y, heap')
  <2>1. \A c \in Array \ {tables[t].m_buckets, o, n.m_buckets} : heap'[c] = heap[c]
    BY <1>7, <1>9 DEF Exchange
  <2>2. n.m_buckets # NoArray => /\ heap'[n.m_buckets].from # Nobody
                                 /\ \/ n.m_buckets = tables[t].m_buckets
                                    \/ heap[n.m_buckets].from = Nobody
    BY <1>7, <1>10 DEF Exchange
  <2>3. tables[t].m_buckets \notin {n.m_buckets, o, NoArray}
          => heap'[tables[t].m_buckets].from = Nobody
    <3>1. tables[t].m_buckets \in Array \cup {NoArray}
      BY DEF IInv, TypeOK, Members
    <3> QED
      BY <1>7, <1>9, <3>1 DEF Exchange
  <2>4. n \in Members
    BY <1>7 DEF Exchange
  <2> QED
    BY <1>2, <1>7, <1>8, <1>9, <1>11, <1>12, <2>1, <2>2, <2>3, <2>4 DEF Exchange
<1>14. AllocatorsStay /\ Owned(tables[t], heap) /\ Owned(other, heap)
         => Owned(n, heap') /\ Owned(y, heap')
  <2> SUFFICES ASSUME AllocatorsStay, Owned(tables[t], heap), Owned(other, heap)
               PROVE  Owned(n, heap') /\ Owned(y, heap')
    OBVIOUS
  <2>1. z.values_alloc = tables[t].values_alloc
    <3>1. z.values_alloc \in Allocator /\ tables[t].values_alloc \in Allocator
      BY <1>4 DEF IInv, TypeOK, Members
    <3> QED
      BY <1>4, <3>1 DEF AllocatorsStay
  <2>2. n.values_alloc = n.buckets_alloc
    BY <1>4, <1>5, <1>7, <2>1 DEF Owned
  <2>3. Owned(n, heap')
    BY <1>7, <1>10, <2>2 DEF Owned
  <2>4. Owned(y, heap')
    BY <1>8, <1>9 DEF Owned
  <2> QED
    BY <2>3, <2>4
<1> QED
  BY <1>1, <1>11, <1>12, <1>13, <1>14, OfTwo DEF Reasons, IInv, TypeOK

LEMMA MoveAssignThrowsStep ==
  ASSUME IInv, NEW t \in Table, NEW s \in Table, MoveAssignThrows(t, s)
  PROVE  Kept
<1> DEFINE other == tables[s]
           b     == tables[t].m_buckets
           old   == reset_to_empty(tables[t])
           new   == [old EXCEPT !.m_max_load_factor = other.m_max_load_factor]
           gone  == [other EXCEPT !.m_values = {}]
<1>1. /\ t \in alive /\ s \in alive /\ t # s
      /\ \/ tables' = [tables EXCEPT ![t] = old]
         \/ tables' = [tables EXCEPT ![t] = new, ![s].m_values = {}]
      /\ left_by' = [left_by EXCEPT ![t] = "nothing", ![s] = "assignment"]
      /\ heap' = clear(heap, b) /\ alive' = alive
  BY DEF MoveAssignThrows, Specified
<1>2. /\ other \in Members /\ tables[t] \in Members /\ heap \in [Array -> Blocks]
      /\ other.m_max_load_factor \in Factors /\ {} \in SUBSET Elem
      /\ b \in Array \cup {NoArray}
      /\ Fits(other, heap)
      /\ other.m_buckets # NoArray => other.m_buckets # b /\ heap[other.m_buckets].from # Nobody
      /\ other.m_buckets \in Array \cup {NoArray}
  BY <1>1 DEF IInv, TypeOK, Members, Factors, Held, HeldOnce, HeldIsHandedOut, SlotsOf, Fits
<1>3. /\ old \in Members /\ old.m_values = {} /\ old.m_shifts = InitialShifts
      /\ old.values_alloc = tables[t].values_alloc
      /\ old.buckets_alloc = tables[t].buckets_alloc
      /\ old.m_buckets = NoArray
      /\ old.m_group_mask = 0 /\ old.m_max_bucket_capacity = 0
  BY <1>2, Reset
<1> HIDE DEF old
<1>4. /\ new \in Members /\ new.m_values = {} /\ new.m_shifts = InitialShifts
      /\ new.values_alloc = old.values_alloc /\ new.buckets_alloc = old.buckets_alloc
      /\ new.m_buckets = NoArray
      /\ new.m_group_mask = 0 /\ new.m_max_bucket_capacity = 0
  <2> HIDE DEF other
  <2> QED
    BY <1>2, <1>3, WithFactor
<1>5. /\ gone \in Members
      /\ gone.values_alloc = other.values_alloc /\ gone.buckets_alloc = other.buckets_alloc
      /\ gone.m_buckets = other.m_buckets
      /\ gone.m_max_bucket_capacity = other.m_max_bucket_capacity
  <2> HIDE DEF other
  <2> QED
    BY <1>2, WithValues
<1>6. \E x \in {old, new}, y \in {other, gone} : tables' = [tables EXCEPT ![t] = x, ![s] = y]
  <2>1. CASE tables' = [tables EXCEPT ![t] = old]
    <3>1. tables' = [tables EXCEPT ![t] = old, ![s] = other]
      BY <1>1, <2>1 DEF IInv, TypeOK
    <3> QED
      BY <3>1
  <2>2. CASE tables' = [tables EXCEPT ![t] = new, ![s].m_values = {}]
    <3>1. tables' = [tables EXCEPT ![t] = new, ![s] = gone]
      BY <1>1, <2>2 DEF IInv, TypeOK
    <3> QED
      BY <3>1
  <2> QED
    BY <1>1, <2>1, <2>2
<1>7. PICK x \in {old, new}, y \in {other, gone} :
        tables' = [tables EXCEPT ![t] = x, ![s] = y]
  BY <1>6
<1> HIDE DEF new, gone
<1>8. /\ x \in Members /\ x.m_values = {} /\ x.m_shifts = InitialShifts
      /\ x.values_alloc = tables[t].values_alloc /\ x.buckets_alloc = tables[t].buckets_alloc
      /\ x.m_buckets = NoArray
      /\ x.m_group_mask = 0 /\ x.m_max_bucket_capacity = 0
  BY <1>3, <1>4
<1>9. /\ y \in Members
      /\ y.values_alloc = other.values_alloc /\ y.buckets_alloc = other.buckets_alloc
      /\ y.m_buckets = other.m_buckets
      /\ y.m_max_bucket_capacity = other.m_max_bucket_capacity
  BY <1>2, <1>5
<1>10. /\ heap' \in [Array -> Blocks]
       /\ \A c \in Array \ {b} : heap'[c] = heap[c]
       /\ b \in Array => heap'[b].from = Nobody
  BY <1>1, <1>2, Cleared DEF FreeBlocks
<1>11. Works(x, heap') /\ Fits(x, heap')
  BY <1>8 DEF Works, Fits
<1>12. y.m_buckets # NoArray => heap'[y.m_buckets] = heap[y.m_buckets]
  BY <1>2, <1>9, <1>10
<1>13. Fits(y, heap')
  BY <1>2, <1>9, <1>12 DEF Fits
<1>14. Exchange(t, x, s, y, heap')
  BY <1>2, <1>8, <1>9, <1>10, <1>11, <1>12, <1>13 DEF Exchange
<1>15. Owned(tables[t], heap) /\ Owned(other, heap) => Owned(x, heap') /\ Owned(y, heap')
  BY <1>8, <1>9, <1>12 DEF Owned
<1>16. alive' = alive \cup {t} /\ "assignment" \in Reasons /\ "assignment" # "nothing"
  BY <1>1 DEF Reasons
<1> QED
  BY <1>1, <1>7, <1>11, <1>14, <1>15, <1>16, OfTwo

LEMMA SwapStep ==
  ASSUME IInv, NEW t \in Table, NEW s \in Table, swap(t, s)
  PROVE  Kept
<1> DEFINE x == SwappedIn(tables[t], tables[s])
           y == SwappedIn(tables[s], tables[t])
<1>1. /\ Specified(t) /\ Specified(s) /\ t # s /\ s \in alive /\ t \in alive
      /\ left_by[s] = "nothing"
      /\ Pocs \/ tables[t].values_alloc = tables[s].values_alloc
      /\ tables' = [tables EXCEPT ![t] = x, ![s] = y]
      /\ left_by' = [left_by EXCEPT ![t] = "nothing"]
      /\ heap' = heap /\ alive' = alive
  BY DEF swap, FinishBoth, Specified
<1>2. /\ tables[t] \in Members /\ tables[s] \in Members /\ heap \in [Array -> Blocks]
      /\ Fits(tables[t], heap) /\ Fits(tables[s], heap)
      /\ Works(tables[t], heap) /\ Works(tables[s], heap)
      /\ \A u \in {t, s} : tables[u].m_buckets # NoArray =>
                             heap[tables[u].m_buckets].from # Nobody
      /\ tables[t].m_buckets # NoArray => tables[s].m_buckets # tables[t].m_buckets
  BY <1>1 DEF IInv, TypeOK, Usable, Works, SlotsOf, Fits, Held, HeldOnce, HeldIsHandedOut
<1>3. ASSUME NEW own \in Members, NEW other \in Members, NEW z, z = SwappedIn(own, other)
      PROVE  /\ z \in Members /\ z.m_values = other.m_values /\ z.m_shifts = other.m_shifts
             /\ z.values_alloc = (IF Pocs THEN other.values_alloc ELSE own.values_alloc)
             /\ z.buckets_alloc = (IF Pocs THEN other.buckets_alloc ELSE own.buckets_alloc)
             /\ z.m_buckets = other.m_buckets /\ z.m_max_load_factor = other.m_max_load_factor
             /\ z.m_group_mask = other.m_group_mask
             /\ z.m_max_bucket_capacity = other.m_max_bucket_capacity
  <2>1. CASE Pocs
    BY <1>3, <2>1 DEF SwappedIn
  <2>2. CASE ~Pocs
    <3> DEFINE v == own.values_alloc
               w == own.buckets_alloc
    <3>1. z = [other EXCEPT !.values_alloc = v, !.buckets_alloc = w]
      BY <1>3, <2>2 DEF SwappedIn
    <3>2. v \in Allocator /\ w \in Allocator
      BY DEF Members
    <3>3. /\ z \in Members /\ z.m_values = other.m_values /\ z.m_shifts = other.m_shifts
          /\ z.values_alloc = v /\ z.buckets_alloc = w
          /\ z.m_buckets = other.m_buckets /\ z.m_max_load_factor = other.m_max_load_factor
          /\ z.m_group_mask = other.m_group_mask
          /\ z.m_max_bucket_capacity = other.m_max_bucket_capacity
      <4> HIDE DEF v, w
      <4> QED
        BY <3>1, <3>2, Zenon DEF Members
    <3> QED
      BY <2>2, <3>3
  <2> QED
    BY <2>1, <2>2
<1>4. /\ x \in Members /\ x.m_values = tables[s].m_values /\ x.m_shifts = tables[s].m_shifts
      /\ x.values_alloc = (IF Pocs THEN tables[s].values_alloc ELSE tables[t].values_alloc)
      /\ x.buckets_alloc = (IF Pocs THEN tables[s].buckets_alloc ELSE tables[t].buckets_alloc)
      /\ x.m_buckets = tables[s].m_buckets
      /\ x.m_max_load_factor = tables[s].m_max_load_factor
      /\ x.m_group_mask = tables[s].m_group_mask
      /\ x.m_max_bucket_capacity = tables[s].m_max_bucket_capacity
  BY <1>2, <1>3
<1>5. /\ y \in Members /\ y.m_values = tables[t].m_values /\ y.m_shifts = tables[t].m_shifts
      /\ y.values_alloc = (IF Pocs THEN tables[t].values_alloc ELSE tables[s].values_alloc)
      /\ y.buckets_alloc = (IF Pocs THEN tables[t].buckets_alloc ELSE tables[s].buckets_alloc)
      /\ y.m_buckets = tables[t].m_buckets
      /\ y.m_max_load_factor = tables[t].m_max_load_factor
      /\ y.m_group_mask = tables[t].m_group_mask
      /\ y.m_max_bucket_capacity = tables[t].m_max_bucket_capacity
  BY <1>2, <1>3
<1> HIDE DEF x, y
<1>6. Works(x, heap') /\ Fits(x, heap')
  BY <1>1, <1>2, <1>4 DEF Works, Fits
<1>7. Works(y, heap') /\ Fits(y, heap')
  BY <1>1, <1>2, <1>5 DEF Works, Fits
<1>8. Exchange(t, x, s, y, heap')
  BY <1>1, <1>2, <1>4, <1>5, <1>6, <1>7 DEF Exchange
<1>9. Owned(tables[t], heap) /\ Owned(tables[s], heap) => Owned(x, heap') /\ Owned(y, heap')
  BY <1>1, <1>4, <1>5 DEF Owned
<1> QED
  BY <1>1, <1>6, <1>7, <1>8, <1>9, OfTwo DEF Reasons, IInv, TypeOK

---------------------------------------------------------------------------
(* Every step *)

LEMMA InitHolds == Init => IInv /\ AllOwned
<1> SUFFICES ASSUME Init
             PROVE  IInv /\ AllOwned
  OBVIOUS
<1> DEFINE a == CHOOSE c \in Allocator : TRUE
<1>1. /\ alive = {} /\ tables = [t \in Table |-> Empty(a)]
      /\ heap = [b \in Array |-> FreeBlocks]
      /\ left_by = [t \in Table |-> "nothing"]
  BY DEF Init
<1>2. a \in Allocator
  BY TransferAssumption
<1> HIDE DEF a
<1>3. /\ Empty(a) \in Members /\ Empty(a).m_buckets = NoArray
      /\ Fits(Empty(a), heap)
  BY <1>2, EmptyMembers
<1>4. FreeBlocks \in Blocks /\ FreeBlocks.from = Nobody
  BY TransferAssumption DEF FreeBlocks, Blocks
<1>5. TypeOK
  <2>1. \A t \in Table : tables[t].m_max_bucket_capacity <= SlotsOf(tables[t])
    BY <1>1, <1>3 DEF SlotsOf, Fits
  <2>2. /\ tables \in [Table -> Members] /\ heap \in [Array -> Blocks]
        /\ left_by \in [Table -> {"nothing", "construction", "assignment", "replace"}]
        /\ alive \subseteq Table
    BY <1>1, <1>3, <1>4
  <2> QED
    BY <2>1, <2>2 DEF TypeOK
<1>6. Held
  BY <1>1, <1>3, <1>4
  DEF Held, GoneHoldNothing, EveryArrayHeld, HeldIsHandedOut, HeldOnce
<1>7. Usable /\ AllOwned
  BY <1>1, <1>2, <1>3, EmptyMembers DEF Usable, Specified, AllOwned, Owned
<1> QED
  BY <1>5, <1>6, <1>7 DEF IInv

LEMMA MoveAssignStep ==
  ASSUME IInv, NEW t \in Table, NEW s \in Table, MoveAssign(t, s)
  PROVE  Kept
BY MoveAssignTakes, MoveAssignCopies

LEMMA NextStep == IInv /\ [Next]_vars => Kept
<1> SUFFICES ASSUME IInv, [Next]_vars
             PROVE  Kept
  OBVIOUS
<1>1. CASE UNCHANGED vars
  BY <1>1 DEF vars, Kept, IInv, TypeOK, SlotsOf, Held, GoneHoldNothing, EveryArrayHeld,
     HeldIsHandedOut, HeldOnce, Usable, Specified, AllOwned, Owned
<1>2. ASSUME NEW t \in Table, Destroy(t) \/ Clear(t)
      PROVE  Kept
  BY <1>2, DestroyStep, ClearStep
<1>3. ASSUME NEW t \in Table, NEW e \in Elem, Insert(t, e)
      PROVE  Kept
  BY <1>3, InsertStep
<1>4. ASSUME NEW t \in Table, NEW ml \in LoadFactors, max_load_factor(t, ml)
      PROVE  Kept
  BY <1>4, MaxLoadFactorStep
<1>5. ASSUME NEW t \in Table, NEW a \in Allocator, Construct(t, a) \/ MoveConstructThrows(t, a)
      PROVE  Kept
  BY <1>5, ConstructStep, MoveConstructThrowsStep
<1>6. ASSUME NEW t \in Table, NEW a \in Allocator, NEW s \in Table,
             CopyConstruct(t, s, a) \/ MoveConstruct(t, s, a)
      PROVE  Kept
  BY <1>6, CopyConstructStep, MoveConstructStep
<1>7. ASSUME NEW t \in Table, NEW a \in Allocator, NEW c \in SUBSET Elem,
             Replace(t, c, a) \/ ReplaceThrows(t, c, a)
      PROVE  Kept
  BY <1>7, ReplaceStep, ReplaceThrowsStep
<1>8. ASSUME NEW t \in Table, NEW s \in Table,
             CopyAssign(t, s) \/ CopyAssignThrows(t, s)
      PROVE  Kept
  BY <1>8, CopyAssignStep, CopyAssignThrowsStep
<1>9. ASSUME NEW t \in Table, NEW s \in Table,
             MoveAssign(t, s) \/ MoveAssignThrows(t, s) \/ swap(t, s)
      PROVE  Kept
  BY <1>9, MoveAssignStep, MoveAssignThrowsStep, SwapStep
<1> QED
  BY <1>1, <1>2, <1>3, <1>4, <1>5, <1>6, <1>7, <1>8, <1>9 DEF Next

LEMMA Invariant == Spec => []IInv
<1>1. IInv /\ [Next]_vars => IInv'
  BY NextStep DEF Kept
<1> QED
  BY <1>1, InitHolds, PTL DEF Spec

\* A table an operation did not leave unspecified can be used, whatever it went
\* through and whatever the allocators propagate: its array points at the values
\* it has, and its shift, mask and capacity are those of that array.
THEOREM TablesStayUsable == Spec => []TablesUsable
<1>1. IInv => TablesUsable
  BY DEF IInv, TablesUsable
<1> QED
  BY <1>1, Invariant, PTL

\* No operation loses an array or gives one to two tables, whatever the allocators
\* propagate and also if it throws: those that are handed out are those that the
\* tables there are hold, each one of them once.
THEOREM NoArrayIsLost == Spec => []Held
<1>1. IInv => Held
  BY DEF IInv
<1> QED
  BY <1>1, Invariant, PTL

LEMMA OwnedInvariant == ASSUME AllocatorsStay PROVE Spec => [](IInv /\ AllOwned)
<1>1. IInv /\ AllOwned /\ [Next]_vars => IInv' /\ AllOwned'
  BY NextStep DEF Kept
<1> QED
  BY <1>1, InitHolds, PTL DEF Spec

\* Unless an allocator follows a move assignment, the index of every table keeps
\* the allocator that get_allocator() tells of, which is that of the values.
THEOREM HalvesStayTogether == ASSUME AllocatorsStay PROVE Spec => []HalvesAgree
<1>1. IInv /\ AllOwned => HalvesAgree
  BY DEF IInv, TypeOK, AllOwned, Owned, HalvesAgree
<1> QED
  BY <1>1, OwnedInvariant, PTL

\* ... and then every array that an allocator handed out is held by one table,
\* which will give it back to this allocator.
THEOREM ArraysComeBack == ASSUME AllocatorsStay PROVE Spec => []ArraysAccountedFor
<1>1. IInv /\ AllOwned => ArraysAccountedFor
  BY DEF IInv, TypeOK, Held, EveryArrayHeld, HeldOnce, AllOwned, Owned, ArraysAccountedFor
<1> QED
  BY <1>1, OwnedInvariant, PTL
=============================================================================
