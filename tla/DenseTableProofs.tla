-------------------------- MODULE DenseTableProofs --------------------------
(***************************************************************************)
(* One table, for every set of keys, every hash, every size of group,      *)
(* array and counter, and every sequence of operations.                    *)
(*                                                                         *)
(* First, the table keeps an exact index of its values: the inductive      *)
(* invariant TableInv, and what follows from it.                           *)
(*                                                                         *)
(* Second, what a step does.  It never takes anything off a counter that   *)
(* has reached its maximum, and never displaces the entry of a key that    *)
(* stays in the table to anywhere but its home group.                      *)
(*                                                                         *)
(* Third, the table is a map: the steps of DenseTable, seen through what a *)
(* lookup finds, are steps of AbstractMap or change nothing there.  Two    *)
(* facts carry it.  By the inductive invariant a lookup finds exactly the  *)
(* values of m_values, so that the contents are a set of a sequence; and   *)
(* that set changes as its sequence is appended to, assigned to, or loses  *)
(* a value to the last one.                                                *)
(***************************************************************************)
EXTENDS DenseTable, GroupIndexProofs

---------------------------------------------------------------------------
(* The inductive invariant *)

ScalarsOK ==
    /\ m_values \in Seq(Element)
    /\ m_max_load_factor \in 0 .. 100
    /\ indexed \in 0 .. size
    /\ dedup \in BOOLEAN
    /\ dedup => ~Idle

(* The values fit into the array, and the largest array is used up to its  *)
(* last slot. *)
SizedOK ==
    IF m_buckets.size = 0
    THEN /\ m_buckets = NoBlocks
         /\ m_shifts = InitialShifts
         /\ m_values = <<>>
         /\ m_max_bucket_capacity = 0
    ELSE /\ size <= bucket_count
         /\ m_max_bucket_capacity \in 0 .. bucket_count
         /\ bucket_count = MaxBucketCount => m_max_bucket_capacity = MaxBucketCount

IndexOK(slack) == IndexFor(Data(m_buckets), m_shifts, KeyAt, 1 .. indexed, slack)

TableInv(slack) == ScalarsOK /\ SizedOK /\ IndexOK(slack) /\ KeysUnique

---------------------------------------------------------------------------
(* Sizes *)

(* A share of at most a hundred percent is not more than the whole. *)
LEMMA PercentBound ==
    ASSUME NEW n \in Nat, NEW f \in 0 .. 100
    PROVE  (n * f) \div 100 \in 0 .. n
<1>1. n * f \in Nat /\ n * f <= n * 100
  BY SMT
<1> DEFINE m == n * f
<1> HIDE DEF m
<1>2. m \in Nat /\ m <= n * 100
  BY <1>1 DEF m
<1>3. m \div 100 \in 0 .. n
  BY <1>2
<1> QED
  BY <1>3 DEF m

(* An array has at least one group and at most MaxGroups; one that is not  *)
(* the largest has room to double. *)
LEMMA ArraySizes ==
    ASSUME NEW s \in ArrayShifts
    PROVE  /\ calc_num_groups(s) \in Nat \ {0}
           /\ calc_num_buckets(s) \in Nat \ {0}
           /\ calc_num_buckets(s) = calc_num_groups(s) * SlotsPerGroup
           /\ calc_num_buckets(s) <= MaxBucketCount
           /\ calc_num_buckets(s) # MaxBucketCount =>
                /\ s - 1 \in ArrayShifts
                /\ calc_num_buckets(s - 1) = 2 * calc_num_buckets(s)
<1> DEFINE n == calc_num_groups(s)
<1>1. n \in Nat \ {0}
  BY GroupsAssumption
<1>2. n <= MaxGroups /\ MaxGroups \in Nat
  BY SizesAssumption DEF calc_num_groups, MaxGroups, ArrayShifts
<1>3. SlotsPerGroup \in Nat \ {0} /\ MaxBucketCount = MaxGroups * SlotsPerGroup
  BY SizesAssumption, GroupsAssumption
<1>4. n # MaxGroups => s - 1 \in ArrayShifts /\ calc_num_groups(s - 1) = 2 * n
  BY GroupsAssumption
<1>5. calc_num_buckets(s) = n * SlotsPerGroup
  BY DEF calc_num_buckets
<1>6. calc_num_buckets(s - 1) = calc_num_groups(s - 1) * SlotsPerGroup
  BY DEF calc_num_buckets
<1> HIDE DEF n
<1>7. n * SlotsPerGroup \in Nat \ {0}
  BY <1>1, <1>3
<1>8. n * SlotsPerGroup <= MaxGroups * SlotsPerGroup
  BY <1>1, <1>2, <1>3
<1>9. (2 * n) * SlotsPerGroup = 2 * (n * SlotsPerGroup)
  BY <1>1, <1>3
<1> QED
  BY <1>1, <1>3, <1>4, <1>5, <1>6, <1>7, <1>8, <1>9 DEF n

(* The capacity of an array is at most its slots, and all of them for the  *)
(* largest. *)
LEMMA CapacityFits ==
    ASSUME NEW n \in Nat, NEW f \in 0 .. 100
    PROVE  /\ capacity_for(n, f) \in 0 .. n
           /\ n = MaxBucketCount => capacity_for(n, f) = MaxBucketCount
BY PercentBound DEF capacity_for

(* The shift an operation asks for is that of an array there can be, and   *)
(* the array has a slot for each of the values it was asked to hold. *)
LEMMA ShiftsForSize ==
    ASSUME m_max_load_factor \in 0 .. 100, NEW n \in 0 .. MaxBucketCount
    PROVE  /\ calc_shifts_for_size(n) \in ArrayShifts
           /\ n <= calc_num_buckets(calc_shifts_for_size(n))
<1> DEFINE s == calc_shifts_for_size(n)
           L == {t \in 0 .. InitialShifts : large_enough(t, n)}
<1>1. InitialShifts \in Nat /\ InitialShifts \in ArrayShifts
  BY SizesAssumption, GroupsAssumption
<1>2. /\ s \in 0 .. InitialShifts
      /\ large_enough(s, n)
      /\ \A t \in 0 .. InitialShifts : large_enough(t, n) => t <= s
  <2> DEFINE D == {InitialShifts - t : t \in L}
  <2>1. 0 \in L
    BY <1>1 DEF large_enough
  <2>2. D \subseteq Nat /\ D # {}
    BY <1>1, <2>1
  <2>3. PICK m \in D : \A d \in D : m <= d
    BY <2>2, LeastNatural
  <2>4. PICK t \in L : m = InitialShifts - t
    OBVIOUS
  <2>5. \A u \in L : u <= t
    BY <1>1, <2>3, <2>4
  <2>6. \E t1 \in 0 .. InitialShifts :
          /\ large_enough(t1, n)
          /\ \A u \in 0 .. InitialShifts : large_enough(u, n) => u <= t1
    BY <2>4, <2>5
  <2> HIDE DEF L
  <2> QED
    BY <2>6 DEF calc_shifts_for_size
<1> HIDE DEF s
<1>3. s \in ArrayShifts
  <2> SUFFICES ASSUME s \notin ArrayShifts
               PROVE  FALSE
    OBVIOUS
  <2>1. s + 1 \in 0 .. InitialShifts
    BY <1>1, <1>2
  <2>2. calc_num_groups(s + 1) = MaxGroups
    BY <1>2, GroupsAssumption
  <2>3. calc_num_buckets(s + 1) = MaxBucketCount
    BY <2>2, GroupsAssumption DEF calc_num_buckets
  <2>4. large_enough(s + 1, n)
    BY <2>3, SizesAssumption DEF large_enough
  <2> QED
    BY <1>2, <2>1, <2>4
<1>4. n <= calc_num_buckets(s)
  <2>1. CASE s = 0
    <3>1. s - 1 \notin ArrayShifts
      BY <1>1, <2>1 DEF ArrayShifts
    <3> QED
      BY <1>3, <3>1, ArraySizes, SizesAssumption
  <2>2. CASE calc_num_buckets(s) >= MaxBucketCount
    BY <1>3, <2>2, ArraySizes, SizesAssumption
  <2>3. CASE (calc_num_buckets(s) * m_max_load_factor) \div 100 >= n
    <3>1. calc_num_buckets(s) \in Nat
      BY <1>3, ArraySizes
    <3> DEFINE b == calc_num_buckets(s)
               c == (b * m_max_load_factor) \div 100
    <3>2. c \in 0 .. b
      BY <3>1, PercentBound
    <3>3. c >= n
      BY <2>3
    <3> HIDE DEF b, c
    <3>4. b \in Nat
      BY <3>1 DEF b
    <3>5. n <= b
      BY <3>2, <3>3, <3>4
    <3> QED
      BY <3>5 DEF b
  <2> QED
    BY <1>2, <2>1, <2>2, <2>3 DEF large_enough
<1> QED
  BY <1>3, <1>4 DEF s

---------------------------------------------------------------------------
(* The index of a table *)

(* Only the keys of the values that are indexed matter. *)
LEMMA OnlyIndexedKeysMatter ==
    ASSUME NEW ix, NEW s, NEW key, NEW P, NEW slack, IndexFor(ix, s, key, P, slack),
           NEW key2, \A p \in P : key2[p] = key[p]
    PROVE  IndexFor(ix, s, key2, P, slack)
<1>1. PointsExactly(ix, key, P) /\ CountsWithin(ix, s, key, slack)
  BY DEF IndexFor
<1>2. \A x \in Occupied(ix) : key2[ix.slot[x].idx] = key[ix.slot[x].idx]
  BY <1>1 DEF PointsExactly
<1>3. PointsExactly(ix, key2, P)
  BY <1>1, <1>2 DEF PointsExactly
<1>4. CountsWithin(ix, s, key2, slack)
  <2> SUFFICES ASSUME NEW g \in Groups(ix), NEW class \in Counter
               PROVE  CountIs(ix.overflow[<<g, class>>],
                              Cardinality(PassedBy(ix, s, key2, g, class)), slack)
    BY DEF CountsWithin
  <2>1. PassedBy(ix, s, key2, g, class) = PassedBy(ix, s, key, g, class)
    BY <1>2 DEF PassedBy
  <2> QED
    BY <1>1, <2>1 DEF CountsWithin
<1> QED
  BY <1>3, <1>4 DEF IndexFor

(* A slot that is freed is room. *)
LEMMA ErasedHasRoom ==
    ASSUME NEW ix, IndexType(ix), NEW s, NEW k, NEW x \in Slots(ix)
    PROVE  HasRoom(erase_group_slot(ix, s, k, x))
<1> DEFINE nx == erase_group_slot(ix, s, k, x)
<1>1. nx.size = ix.size /\ nx.slot = [ix.slot EXCEPT ![x] = FreeSlot]
  BY ErasedParts
<1>2. DOMAIN ix.slot = Slots(ix)
  BY DEF IndexType
<1> HIDE DEF nx
<1>3. nx.slot[x].fp = 0 /\ x = <<x[1], x[2]>>
  BY <1>1, <1>2 DEF FreeSlot, Slots
<1>4. x[1] \in Groups(nx) /\ x[2] \in Lane
  BY <1>1 DEF Slots, Groups
<1>5. x[2] \in match_empty(nx, x[1])
  BY <1>3, <1>4 DEF match_empty, match_fingerprint
<1> QED
  BY <1>4, <1>5 DEF HasRoom, nx

(* An index of fewer values than slots has room, also where a slot was     *)
(* promised by a capacity. *)
LEMMA RoomForNext ==
    ASSUME NEW ix, NEW s, NEW key, NEW slack, NEW n \in Nat, NEW m \in Nat,
           IndexFor(ix, s, key, 1 .. n, slack), n < m, m <= ix.size * SlotsPerGroup
    PROVE  HasRoom(ix)
<1>1. ix.size * SlotsPerGroup \in Nat
  BY SizesAssumption DEF IndexFor, IndexType
<1>2. n < ix.size * SlotsPerGroup
  BY <1>1
<1> QED
  BY <1>2, ExactIsOnce, RoomWhileFewer

(* Counters are too high by natural numbers, and may be exact. *)
LEMMA SlackIs ==
    ASSUME NEW slack, TableInv(slack)
    PROVE  slack \in SUBSET Nat /\ 0 \in slack
BY DEF TableInv, IndexOK, IndexFor

(* The array an operation that writes the index writes to. *)
LEMMA Writable ==
    ASSUME NEW slack, TableInv(slack)
    PROVE  /\ WritableBlocks.size \in Nat \ {0}
           /\ WritableBlocks.size = calc_num_groups(m_shifts)
           /\ m_shifts \in ArrayShifts
           /\ IndexFor(WritableBlocks, m_shifts, KeyAt, 1 .. indexed, slack)
           /\ calc_num_buckets(m_shifts) = WritableBlocks.size * SlotsPerGroup
           /\ size <= WritableBlocks.size * SlotsPerGroup
           /\ WritableCapacity \in 0 .. WritableBlocks.size * SlotsPerGroup
           /\ WritableBlocks.size * SlotsPerGroup = MaxBucketCount =>
                WritableCapacity = MaxBucketCount
<1>1. /\ IndexFor(WritableBlocks, m_shifts, KeyAt, 1 .. indexed, slack)
      /\ m_shifts \in ArrayShifts
      /\ WritableBlocks.size = calc_num_groups(m_shifts)
  BY DEF TableInv, IndexOK, WritableBlocks, IndexFor
<1>2. /\ WritableBlocks.size \in Nat \ {0}
      /\ calc_num_buckets(m_shifts) = WritableBlocks.size * SlotsPerGroup
      /\ calc_num_buckets(m_shifts) \in Nat
  BY <1>1, ArraySizes
<1>3. m_max_load_factor \in 0 .. 100
  BY DEF TableInv, ScalarsOK
<1>4. CASE m_buckets.size = 0
  <2>1. size = 0
    BY <1>4 DEF TableInv, SizedOK, size
  <2>2. WritableCapacity = capacity_for(calc_num_buckets(m_shifts), m_max_load_factor)
    BY <1>4 DEF WritableCapacity
  <2>3. /\ WritableCapacity \in 0 .. calc_num_buckets(m_shifts)
        /\ calc_num_buckets(m_shifts) = MaxBucketCount =>
             WritableCapacity = MaxBucketCount
    BY <1>2, <1>3, <2>2, CapacityFits
  <2>4. WritableBlocks.size * SlotsPerGroup \in Nat
    BY <1>2
  <2>5. size <= WritableBlocks.size * SlotsPerGroup
    BY <2>1, <2>4
  <2> QED
    BY <1>1, <1>2, <2>3, <2>5
<1>5. CASE m_buckets.size # 0
  <2>1. WritableBlocks = m_buckets /\ WritableCapacity = m_max_bucket_capacity
    BY <1>5 DEF WritableBlocks, WritableCapacity, Data
  <2> QED
    BY <1>1, <1>2, <1>5, <2>1 DEF TableInv, SizedOK, bucket_count
<1> QED
  BY <1>4, <1>5

(* The positions and the types of the elements. *)
LEMMA Elements ==
    ASSUME NEW slack, TableInv(slack)
    PROVE  /\ size \in Nat
           /\ indexed \in 0 .. size
           /\ \A p \in 1 .. size : /\ m_values[p] \in Element
                                   /\ KeyAt[p] = m_values[p].key
                                   /\ m_values[p].key \in Key
<1>1. m_values \in Seq(Element) /\ indexed \in 0 .. size
  BY DEF TableInv, ScalarsOK
<1>2. \A p \in 1 .. Len(m_values) : m_values[p] \in Element
  BY <1>1
<1>3. \A p \in 1 .. Len(m_values) : KeyAt[p] = m_values[p].key
  BY DEF KeyAt, size
<1>4. \A e \in Element : e.key \in Key
  BY DEF Element
<1> QED
  BY <1>1, <1>2, <1>3, <1>4 DEF size

(* The array there is holds a whole number of groups, at most the largest. *)
LEMMA BucketCount ==
    ASSUME NEW slack, TableInv(slack)
    PROVE  /\ bucket_count \in Nat
           /\ bucket_count <= MaxBucketCount
           /\ size <= bucket_count
           /\ m_max_bucket_capacity \in 0 .. bucket_count
           /\ m_buckets.size # 0 => bucket_count = calc_num_buckets(m_shifts)
<1>1. CASE m_buckets.size = 0
  BY <1>1, SizesAssumption DEF TableInv, SizedOK, bucket_count, size
<1>2. CASE m_buckets.size # 0
  <2>1. /\ m_shifts \in ArrayShifts
        /\ m_buckets.size = calc_num_groups(m_shifts)
    BY <1>2 DEF TableInv, IndexOK, IndexFor, Data
  <2>2. bucket_count = calc_num_buckets(m_shifts)
    BY <2>1, ArraySizes DEF bucket_count
  <2> QED
    BY <1>2, <2>1, <2>2, ArraySizes DEF TableInv, SizedOK
<1> QED
  BY <1>1, <1>2

(* Between operations every value is indexed and no loop runs. *)
LEMMA WhenIdle ==
    ASSUME NEW slack, TableInv(slack), Idle
    PROVE  /\ m_values \in Seq(Element)
           /\ m_max_load_factor \in 0 .. 100
           /\ indexed = size
           /\ dedup = FALSE
<1>1. dedup \in BOOLEAN /\ ~dedup
  BY DEF TableInv, ScalarsOK
<1>2. dedup = FALSE
  BY <1>1
<1> QED
  BY <1>2 DEF TableInv, ScalarsOK, Idle

(* What a lookup answers. *)
LEMMA Lookup ==
    ASSUME NEW slack, TableInv(slack), NEW k \in Key
    PROVE  /\ FindsKey(k) <=> \E p \in 1 .. indexed : m_values[p].key = k
           /\ FindsKey(k) => /\ m_buckets.size # 0
                             /\ SlotOfKey(k) \in Occupied(m_buckets)
                             /\ IndexOfKey(k) \in 1 .. indexed
                             /\ m_values[IndexOfKey(k)].key = k
<1> DEFINE ix == Data(m_buckets)
<1>1. IndexFor(ix, m_shifts, KeyAt, 1 .. indexed, slack)
  BY DEF TableInv, IndexOK
<1>2. \A p \in 1 .. indexed : p \in 1 .. size /\ m_values[p].key = KeyAt[p]
  BY Elements
<1> HIDE DEF ix
<1>3. /\ Found(ix, m_shifts, m_values, k) <=> \E p \in 1 .. indexed : KeyAt[p] = k
      /\ Found(ix, m_shifts, m_values, k) =>
           /\ probe(ix, m_shifts, m_values, k) \in Occupied(ix)
           /\ KeyAt[ix.slot[probe(ix, m_shifts, m_values, k)].idx] = k
  <2>1. \A p \in 1 .. indexed : m_values[p].key = KeyAt[p]
    BY <1>2
  <2> DEFINE P == 1 .. indexed
  <2> HIDE DEF P
  <2>2. /\ IndexFor(ix, m_shifts, KeyAt, P, slack)
        /\ \A p \in P : m_values[p].key = KeyAt[p]
    BY <1>1, <2>1 DEF P
  <2>3. /\ Found(ix, m_shifts, m_values, k) <=> \E p \in P : KeyAt[p] = k
        /\ Found(ix, m_shifts, m_values, k) =>
             /\ probe(ix, m_shifts, m_values, k) \in Occupied(ix)
             /\ KeyAt[ix.slot[probe(ix, m_shifts, m_values, k)].idx] = k
    BY <2>2, ProbeFinds
  <2> QED
    BY <2>3 DEF P
<1>4. FindsKey(k) <=> \E p \in 1 .. indexed : m_values[p].key = k
  BY <1>2, <1>3 DEF FindsKey, ix
<1>5. ASSUME FindsKey(k)
      PROVE  /\ m_buckets.size # 0
             /\ SlotOfKey(k) \in Occupied(m_buckets)
             /\ IndexOfKey(k) \in 1 .. indexed
             /\ m_values[IndexOfKey(k)].key = k
  <2>1. SlotOfKey(k) \in Occupied(ix) /\ KeyAt[ix.slot[SlotOfKey(k)].idx] = k
    BY <1>3, <1>5 DEF FindsKey, SlotOfKey, ix
  <2>2. ix.slot[SlotOfKey(k)].idx \in 1 .. indexed
    BY <1>1, <2>1 DEF IndexFor, PointsExactly
  <2>3. m_buckets.size # 0
    <3>1. PICK p \in 1 .. indexed : m_values[p].key = k
      BY <1>4, <1>5
    <3>2. size # 0
      BY <3>1, Elements
    <3> QED
      BY <3>2 DEF TableInv, SizedOK, size
  <2>4. ix = m_buckets
    BY <2>3 DEF Data, ix
  <2> QED
    BY <1>2, <2>1, <2>2, <2>3, <2>4 DEF IndexOfKey
<1> QED
  BY <1>4, <1>5

---------------------------------------------------------------------------
(* The values *)

(* An appended element comes after all others. *)
LEMMA Appended ==
    ASSUME NEW vs \in Seq(Element), NEW e \in Element,
           NEW vs2, vs2 = Append(vs, e)
    PROVE  /\ vs2 \in Seq(Element)
           /\ Len(vs2) = Len(vs) + 1
           /\ vs2[Len(vs) + 1] = e
           /\ \A p \in 1 .. Len(vs) : vs2[p] = vs[p]
OBVIOUS

(* The last element fills the hole that one leaves. *)
LEMMA HoleFilled ==
    ASSUME NEW vs \in Seq(Element), NEW p \in 1 .. Len(vs)
    PROVE  /\ CloseHole(vs, p) \in Seq(Element)
           /\ Len(CloseHole(vs, p)) = Len(vs) - 1
           /\ \A q \in 1 .. Len(vs) - 1 :
                CloseHole(vs, p)[q] = IF q = p THEN vs[Len(vs)] ELSE vs[q]
<1> DEFINE vs2 == CloseHole(vs, p)
<1> DEFINE mid == [vs EXCEPT ![p] = vs[Len(vs)]]
<1>1. /\ mid \in Seq(Element)
      /\ Len(mid) = Len(vs)
      /\ Len(vs) \in Nat \ {0}
      /\ \A q \in 1 .. Len(vs) : mid[q] = IF q = p THEN vs[Len(vs)] ELSE vs[q]
  OBVIOUS
<1> HIDE DEF mid
<1>2. vs2 = SubSeq(mid, 1, Len(vs) - 1)
  BY DEF mid, CloseHole
<1> HIDE DEF vs2
<1>3. /\ Len(vs2) = Len(vs) - 1
      /\ vs2 \in Seq(Element)
      /\ \A q \in 1 .. Len(vs) - 1 : vs2[q] = mid[q]
  BY <1>1, <1>2
<1> QED
  BY <1>1, <1>3 DEF vs2

---------------------------------------------------------------------------
(* New arrays *)

(* An array that was just allocated for at least as many values as there   *)
(* are. *)
LEMMA Allocated ==
    ASSUME m_max_load_factor \in 0 .. 100, NEW slack \in SUBSET Nat, 0 \in slack,
           NEW s \in ArrayShifts, allocate_buckets_from_shift(s),
           m_values' \in Seq(Element), size' <= calc_num_buckets(s), indexed' = 0
    PROVE  SizedOK' /\ IndexOK(slack)'
<1> DEFINE n == calc_num_groups(s)
<1>1. /\ n \in Nat \ {0}
      /\ calc_num_buckets(s) \in Nat
      /\ calc_num_buckets(s) = n * SlotsPerGroup
  BY ArraySizes
<1>2. /\ m_buckets' = EmptyBlocks(n)
      /\ m_shifts' = s
      /\ m_max_bucket_capacity' = capacity_for(calc_num_buckets(s), m_max_load_factor)
  BY DEF allocate_buckets_from_shift
<1>3. IndexFor(EmptyBlocks(n), s, KeyAt', {}, slack)
  BY EmptyIndex
<1>4. EmptyBlocks(n).size = n
  BY <1>1, EmptyBlocksType
<1>5. bucket_count' = calc_num_buckets(s)
  BY <1>1, <1>2, <1>4 DEF bucket_count
<1>6. SizedOK'
  BY <1>1, <1>2, <1>4, <1>5, CapacityFits DEF SizedOK
<1>7. IndexOK(slack)'
  <2>1. Data(m_buckets)' = EmptyBlocks(n)
    BY <1>1, <1>2, <1>4 DEF Data
  <2>2. 1 .. indexed' = {}
    OBVIOUS
  <2> QED
    BY <1>2, <1>3, <2>1, <2>2 DEF IndexOK
<1> QED
  BY <1>6, <1>7

(* An array that was just cleared and holds at least as many values as     *)
(* there are. *)
LEMMA Cleared ==
    ASSUME SizedOK, m_shifts \in ArrayShifts,
           Data(m_buckets).size = calc_num_groups(m_shifts),
           NEW slack \in SUBSET Nat, 0 \in slack, clear_buckets,
           m_values' \in Seq(Element), size' <= bucket_count, indexed' = 0
    PROVE  SizedOK' /\ IndexOK(slack)'
<1> DEFINE n == m_buckets.size
<1>1. /\ m_buckets' = EmptyBlocks(n)
      /\ m_shifts' = m_shifts
      /\ m_max_bucket_capacity' = m_max_bucket_capacity
  BY DEF clear_buckets
<1>2. 1 .. indexed' = {}
  OBVIOUS
<1>3. CASE n = 0
  <2>1. /\ m_shifts = InitialShifts /\ m_max_bucket_capacity = 0 /\ bucket_count = 0
    BY <1>3, SizesAssumption DEF SizedOK, bucket_count
  <2>2. m_buckets' = NoBlocks /\ m_buckets'.size = 0
    BY <1>1, <1>3, EmptyBlocksType DEF NoBlocks
  <2>3. m_values' = <<>>
    BY <2>1 DEF size
  <2>4. SizedOK'
    BY <1>1, <2>1, <2>2, <2>3 DEF SizedOK
  <2>5. Data(m_buckets)' = EmptyBlocks(calc_num_groups(InitialShifts))
    BY <2>2 DEF Data
  <2>6. IndexFor(EmptyBlocks(calc_num_groups(InitialShifts)), InitialShifts,
                 KeyAt', {}, slack)
    BY EmptyIndex, GroupsAssumption
  <2> QED
    BY <1>1, <1>2, <2>1, <2>4, <2>5, <2>6 DEF IndexOK
<1>4. CASE n # 0
  <2>1. n = calc_num_groups(m_shifts) /\ n \in Nat
    BY <1>4, GroupsAssumption DEF Data
  <2>2. m_buckets'.size = n
    BY <1>1, <2>1, EmptyBlocksType
  <2>3. bucket_count' = bucket_count
    BY <2>2 DEF bucket_count
  <2>4. SizedOK'
    BY <1>1, <1>4, <2>2, <2>3 DEF SizedOK
  <2>5. Data(m_buckets)' = EmptyBlocks(n)
    BY <1>1, <1>4, <2>2 DEF Data
  <2>6. IndexFor(EmptyBlocks(n), m_shifts, KeyAt', {}, slack)
    BY <2>1, EmptyIndex
  <2> QED
    BY <1>1, <1>2, <2>4, <2>5, <2>6 DEF IndexOK
<1> QED
  BY <1>3, <1>4

---------------------------------------------------------------------------
(* Every operation keeps the invariant. *)

(* An empty table, with no array and the load factor it starts with,       *)
(* satisfies the invariant. *)
LEMMA InitInv ==
    ASSUME Init, NEW slack \in SUBSET Nat, 0 \in slack
    PROVE  TableInv(slack)
<1> USE DEF Init
<1>1. ScalarsOK
  <2>1. m_values \in Seq(Element) /\ size = 0
    BY DEF size
  <2>2. dedup \in BOOLEAN /\ (dedup => ~Idle)
    OBVIOUS
  <2>3. m_max_load_factor \in 0 .. 100 /\ indexed \in 0 .. size
    BY <2>1, TableAssumption
  <2> QED
    BY <2>1, <2>2, <2>3 DEF ScalarsOK
<1>2. SizedOK
  BY EmptyBlocksType DEF SizedOK, NoBlocks
<1>3. IndexOK(slack)
  <2>1. Data(m_buckets) = EmptyBlocks(calc_num_groups(InitialShifts))
    BY EmptyBlocksType DEF Data, NoBlocks
  <2>2. IndexFor(EmptyBlocks(calc_num_groups(InitialShifts)), InitialShifts,
                 KeyAt, {}, slack)
    BY EmptyIndex, GroupsAssumption
  <2>3. 1 .. indexed = {}
    OBVIOUS
  <2> QED
    BY <2>1, <2>2, <2>3 DEF IndexOK
<1>4. KeysUnique
  <2>1. ~dedup /\ size = 0
    BY DEF size
  <2> QED
    BY <2>1 DEF KeysUnique
<1> QED
  BY <1>1, <1>2, <1>3, <1>4 DEF TableInv

(* An insert of a key that is absent leaves the keys of the values         *)
(* different from each other. *)
LEMMA InsertedUnique ==
    ASSUME NEW slack, TableInv(slack),
           Idle, NEW k \in Key, NEW v \in Value, ~FindsKey(k),
           m_values' = Append(m_values, [key |-> k, val |-> v])
    PROVE  /\ m_values' \in Seq(Element)
           /\ size' = size + 1
           /\ size \in Nat
           /\ KeyAt'[size + 1] = k
           /\ \A p \in 1 .. size : KeyAt'[p] = KeyAt[p]
           /\ \A p, q \in 1 .. size + 1 :
                m_values'[p].key = m_values'[q].key => p = q
<1> DEFINE e == [key |-> k, val |-> v]
<1>1. m_values \in Seq(Element) /\ e \in Element
  BY DEF TableInv, ScalarsOK, Element
<1> HIDE DEF e
<1>2. /\ m_values' \in Seq(Element)
      /\ Len(m_values') = Len(m_values) + 1
      /\ m_values'[Len(m_values) + 1] = e
      /\ \A p \in 1 .. Len(m_values) : m_values'[p] = m_values[p]
  BY <1>1, Appended DEF e
<1>3. size \in Nat /\ size' = size + 1 /\ size = Len(m_values)
  BY <1>1, <1>2 DEF size
<1>4. e.key = k
  BY DEF e
<1>5. KeyAt' = [p \in 1 .. size + 1 |-> m_values'[p].key]
  BY <1>3 DEF KeyAt
<1>6. KeyAt = [p \in 1 .. size |-> m_values[p].key]
  BY DEF KeyAt
<1>7. \A p \in 1 .. size : m_values[p].key # k
  BY Lookup DEF Idle
<1>8. ~dedup
  BY DEF TableInv, ScalarsOK
<1>9. \A p, q \in 1 .. size : m_values[p].key = m_values[q].key => p = q
  BY <1>8 DEF TableInv, KeysUnique
<1>10. \A p \in 1 .. size + 1 : p \in 1 .. size \/ p = size + 1
  BY <1>3
<1>11. ASSUME NEW p \in 1 .. size + 1, NEW q \in 1 .. size + 1,
              m_values'[p].key = m_values'[q].key
       PROVE  p = q
  BY <1>2, <1>3, <1>4, <1>7, <1>9, <1>10, <1>11
<1>12. KeyAt'[size + 1] = k
  BY <1>2, <1>3, <1>4, <1>5
<1>13. \A p \in 1 .. size : KeyAt'[p] = KeyAt[p]
  BY <1>2, <1>3, <1>5, <1>6
<1> QED
  BY <1>2, <1>3, <1>11, <1>12, <1>13

(* Placing an absent key with room for it: the new value gets the only     *)
(* new slot, and the counters it passes count it. *)
LEMMA InsertPlacesInv ==
    ASSUME NEW slack, TableInv(slack),
           NEW k \in Key, NEW v \in Value, InsertPlaces(k, v)
    PROVE  TableInv(slack)'
<1>1. /\ Idle /\ ~FindsKey(k)
      /\ size + 1 <= WritableCapacity
      /\ m_values' = Append(m_values, [key |-> k, val |-> v])
      /\ m_buckets' = place_group(WritableBlocks, m_shifts, k, size + 1)
      /\ m_max_bucket_capacity' = WritableCapacity
      /\ indexed' = size + 1
      /\ m_max_load_factor' = m_max_load_factor
      /\ m_shifts' = m_shifts
      /\ dedup' = dedup
  BY DEF InsertPlaces
<1>2. /\ m_values' \in Seq(Element)
      /\ size' = size + 1
      /\ size \in Nat
      /\ KeyAt'[size + 1] = k
      /\ \A p \in 1 .. size : KeyAt'[p] = KeyAt[p]
      /\ \A p, q \in 1 .. size + 1 : m_values'[p].key = m_values'[q].key => p = q
  BY <1>1, InsertedUnique
<1>3. /\ WritableBlocks.size \in Nat \ {0}
      /\ IndexFor(WritableBlocks, m_shifts, KeyAt, 1 .. indexed, slack)
      /\ WritableCapacity \in 0 .. WritableBlocks.size * SlotsPerGroup
      /\ WritableBlocks.size * SlotsPerGroup = MaxBucketCount =>
           WritableCapacity = MaxBucketCount
  BY Writable
<1>4. m_max_load_factor \in 0 .. 100 /\ indexed = size /\ dedup = FALSE
  BY <1>1, WhenIdle
<1>5. WritableBlocks.size * SlotsPerGroup \in Nat
  BY <1>3, SizesAssumption
<1>6. HasRoom(WritableBlocks)
  <2>1. /\ size < size + 1 /\ size + 1 \in Nat
        /\ size + 1 <= WritableBlocks.size * SlotsPerGroup
    BY <1>1, <1>2, <1>3, <1>5
  <2> QED
    BY <1>2, <1>3, <1>4, <2>1, RoomForNext
<1>7. IndexFor(m_buckets', m_shifts, KeyAt', (1 .. size) \cup {size + 1}, slack)
  <2>1. size + 1 \in Nat \ (1 .. size)
    BY <1>2
  <2>2. KeyAt'[size + 1] \in Key
    BY <1>2
  <2> DEFINE P == 1 .. size
             n == size + 1
             key2 == KeyAt'
  <2>3. IndexFor(WritableBlocks, m_shifts, KeyAt, P, slack)
    BY <1>3, <1>4
  <2>4. n \in Nat \ P /\ key2[n] \in Key /\ \A q \in P : key2[q] = KeyAt[q]
    BY <1>2, <2>1, <2>2
  <2> HIDE DEF P, n, key2
  <2>5. IndexFor(place_group(WritableBlocks, m_shifts, key2[n], n), m_shifts,
                 key2, P \cup {n}, slack)
    BY <1>6, <2>3, <2>4, PlaceKeepsIndex
  <2> QED
    BY <1>1, <1>2, <2>5 DEF P, n, key2
<1>8. (1 .. size) \cup {size + 1} = 1 .. indexed'
  BY <1>1, <1>2
<1>9. m_buckets'.size = WritableBlocks.size
  BY <1>3, <1>7 DEF IndexFor
<1>10. ScalarsOK'
  <2>1. m_max_load_factor' \in 0 .. 100 /\ indexed' \in 0 .. size'
    BY <1>1, <1>2, <1>4
  <2>2. dedup' \in BOOLEAN /\ ~dedup'
    BY <1>1, <1>4
  <2> QED
    BY <1>2, <2>1, <2>2 DEF ScalarsOK
<1>11. SizedOK'
  <2>1. bucket_count' = WritableBlocks.size * SlotsPerGroup
    BY <1>9 DEF bucket_count
  <2>2. size' <= bucket_count'
    BY <1>1, <1>2, <1>3, <1>5, <2>1
  <2> QED
    BY <1>1, <1>3, <1>9, <2>1, <2>2 DEF SizedOK
<1>12. IndexOK(slack)'
  <2>1. Data(m_buckets)' = m_buckets'
    BY <1>3, <1>9 DEF Data
  <2> QED
    BY <1>1, <1>7, <1>8, <2>1 DEF IndexOK
<1>13. KeysUnique'
  BY <1>1, <1>2, <1>4 DEF KeysUnique
<1> QED
  BY <1>10, <1>11, <1>12, <1>13 DEF TableInv

(* A growth starts over with a larger, empty array that will hold every    *)
(* value. *)
LEMMA InsertGrowsInv ==
    ASSUME NEW slack, TableInv(slack),
           NEW k \in Key, NEW v \in Value, InsertGrows(k, v)
    PROVE  TableInv(slack)'
<1>1. /\ Idle /\ ~FindsKey(k)
      /\ WritableCapacity # MaxBucketCount
      /\ m_values' = Append(m_values, [key |-> k, val |-> v])
      /\ allocate_buckets_from_shift(m_shifts - 1)
      /\ indexed' = 0
      /\ m_max_load_factor' = m_max_load_factor
      /\ dedup' = dedup
  BY DEF InsertGrows
<1>2. /\ m_values' \in Seq(Element)
      /\ size' = size + 1
      /\ size \in Nat
      /\ \A p, q \in 1 .. size + 1 : m_values'[p].key = m_values'[q].key => p = q
  BY <1>1, InsertedUnique
<1>3. /\ m_shifts - 1 \in ArrayShifts
      /\ size' <= calc_num_buckets(m_shifts - 1)
  <2>1. /\ m_shifts \in ArrayShifts
        /\ calc_num_buckets(m_shifts) = WritableBlocks.size * SlotsPerGroup
        /\ size <= WritableBlocks.size * SlotsPerGroup
        /\ calc_num_buckets(m_shifts) # MaxBucketCount
    BY <1>1, Writable
  <2>2. /\ m_shifts - 1 \in ArrayShifts
        /\ calc_num_buckets(m_shifts - 1) = 2 * calc_num_buckets(m_shifts)
        /\ calc_num_buckets(m_shifts) \in Nat \ {0}
    BY <2>1, ArraySizes
  <2> QED
    BY <1>2, <2>1, <2>2
<1>4. m_max_load_factor \in 0 .. 100 /\ dedup = FALSE
  BY <1>1, WhenIdle
<1>5. SizedOK' /\ IndexOK(slack)'
  BY <1>1, <1>2, <1>3, <1>4, SlackIs, Allocated
<1>6. ScalarsOK'
  <2>1. m_max_load_factor' \in 0 .. 100 /\ indexed' \in 0 .. size'
    BY <1>1, <1>2, <1>4
  <2>2. dedup' \in BOOLEAN /\ ~dedup'
    BY <1>1, <1>4
  <2> QED
    BY <1>2, <2>1, <2>2 DEF ScalarsOK
<1>7. KeysUnique'
  BY <1>1, <1>2, <1>4 DEF KeysUnique
<1> QED
  BY <1>5, <1>6, <1>7 DEF TableInv

(* An insert that fails has at most allocated the first, empty array. *)
LEMMA InsertThrowsInv ==
    ASSUME NEW slack, TableInv(slack), NEW k \in Key, InsertThrows(k)
    PROVE  TableInv(slack)'
<1>1. /\ m_buckets' = WritableBlocks
      /\ m_max_bucket_capacity' = WritableCapacity
      /\ m_values' = m_values
      /\ m_max_load_factor' = m_max_load_factor
      /\ m_shifts' = m_shifts
      /\ indexed' = indexed
      /\ dedup' = dedup
  BY DEF InsertThrows
<1>2. size' = size /\ KeyAt' = KeyAt
  BY <1>1 DEF size, KeyAt
<1>3. ScalarsOK'
  BY <1>1, <1>2 DEF TableInv, ScalarsOK, Idle
<1>4. /\ WritableBlocks.size \in Nat \ {0}
      /\ IndexFor(WritableBlocks, m_shifts, KeyAt, 1 .. indexed, slack)
      /\ size <= WritableBlocks.size * SlotsPerGroup
      /\ WritableCapacity \in 0 .. WritableBlocks.size * SlotsPerGroup
      /\ WritableBlocks.size * SlotsPerGroup = MaxBucketCount =>
           WritableCapacity = MaxBucketCount
  BY Writable
<1>5. SizedOK'
  BY <1>1, <1>2, <1>4 DEF SizedOK, bucket_count
<1>6. IndexOK(slack)'
  <2>1. Data(m_buckets)' = WritableBlocks
    BY <1>1, <1>4 DEF Data
  <2> QED
    BY <1>1, <1>2, <1>4, <2>1 DEF IndexOK
<1>7. KeysUnique'
  BY <1>1, <1>2 DEF TableInv, KeysUnique
<1> QED
  BY <1>3, <1>5, <1>6, <1>7 DEF TableInv

(* A hit moves its entry home. *)
LEMMA MovedHome ==
    ASSUME NEW slack, TableInv(slack), Idle, NEW k \in Key, FindsKey(k),
           m_buckets' = move_home(m_buckets, m_shifts, k, SlotOfKey(k))
    PROVE  /\ m_buckets'.size = m_buckets.size
           /\ m_buckets'.size # 0
           /\ IndexFor(m_buckets', m_shifts, KeyAt, 1 .. indexed, slack)
<1> DEFINE x == SlotOfKey(k)
<1>1. /\ m_buckets.size # 0
      /\ x \in Occupied(m_buckets)
      /\ IndexOfKey(k) \in 1 .. indexed
      /\ m_values[IndexOfKey(k)].key = k
  BY Lookup
<1>2. m_buckets.slot[x].idx = IndexOfKey(k)
  BY DEF IndexOfKey
<1>3. KeyAt[m_buckets.slot[x].idx] = k
  BY <1>1, <1>2, Elements
<1>4. IndexFor(m_buckets, m_shifts, KeyAt, 1 .. indexed, slack)
  BY <1>1 DEF TableInv, IndexOK, Data
<1> HIDE DEF x
<1>5. IndexFor(move_home(m_buckets, m_shifts, KeyAt[m_buckets.slot[x].idx], x),
               m_shifts, KeyAt, 1 .. indexed, slack)
  BY <1>1, <1>4, MoveHomeKeepsIndex
<1>6. IndexFor(m_buckets', m_shifts, KeyAt, 1 .. indexed, slack)
  BY <1>3, <1>5 DEF x
<1> QED
  BY <1>1, <1>4, <1>6 DEF IndexFor

(* Finding a key moves at most its own entry, to its home group. *)
LEMMA InsertFindsInv ==
    ASSUME NEW slack, TableInv(slack), NEW k \in Key, InsertFinds(k)
    PROVE  TableInv(slack)'
<1>1. /\ Idle /\ FindsKey(k)
      /\ m_buckets' = move_home(m_buckets, m_shifts, k, SlotOfKey(k))
      /\ m_max_bucket_capacity' = m_max_bucket_capacity
      /\ m_values' = m_values
      /\ m_max_load_factor' = m_max_load_factor
      /\ m_shifts' = m_shifts
      /\ indexed' = indexed
      /\ dedup' = dedup
  BY DEF InsertFinds
<1>2. size' = size /\ KeyAt' = KeyAt
  BY <1>1 DEF size, KeyAt
<1>3. /\ m_buckets'.size = m_buckets.size
      /\ m_buckets'.size # 0
      /\ IndexFor(m_buckets', m_shifts, KeyAt, 1 .. indexed, slack)
  BY <1>1, MovedHome
<1>4. ScalarsOK'
  BY <1>1, <1>2 DEF TableInv, ScalarsOK, Idle
<1>5. SizedOK'
  BY <1>1, <1>2, <1>3 DEF TableInv, SizedOK, bucket_count
<1>6. IndexOK(slack)'
  BY <1>1, <1>2, <1>3 DEF IndexOK, Data
<1>7. KeysUnique'
  BY <1>1, <1>2 DEF TableInv, KeysUnique
<1> QED
  BY <1>4, <1>5, <1>6, <1>7 DEF TableInv

(* Assigning changes no key, and the index depends on nothing else. *)
LEMMA AssignFindsInv ==
    ASSUME NEW slack, TableInv(slack),
           NEW k \in Key, NEW v \in Value, AssignFinds(k, v)
    PROVE  TableInv(slack)'
<1> DEFINE i == IndexOfKey(k)
<1>1. /\ Idle /\ FindsKey(k)
      /\ m_buckets' = move_home(m_buckets, m_shifts, k, SlotOfKey(k))
      /\ m_max_bucket_capacity' = m_max_bucket_capacity
      /\ m_values' = [m_values EXCEPT ![i].val = v]
      /\ m_max_load_factor' = m_max_load_factor
      /\ m_shifts' = m_shifts
      /\ indexed' = indexed
      /\ dedup' = dedup
  BY DEF AssignFinds
<1> HIDE DEF i
<1>2. /\ m_values' \in Seq(Element)
      /\ size' = size
      /\ \A p \in 1 .. size : m_values'[p].key = m_values[p].key
  <2>1. m_values \in Seq(Element)
    BY DEF TableInv, ScalarsOK
  <2>2. /\ \A p \in 1 .. Len(m_values) : m_values[p] \in Element
        /\ DOMAIN m_values = 1 .. Len(m_values)
        /\ Len(m_values) \in Nat
    BY <2>1
  <2>3. \A e \in Element : /\ [e EXCEPT !.val = v] \in Element
                           /\ [e EXCEPT !.val = v].key = e.key
    BY DEF Element
  <2>4. \A p \in 1 .. Len(m_values) :
          m_values'[p] = IF p = i THEN [m_values[p] EXCEPT !.val = v] ELSE m_values[p]
    BY <1>1, <2>2
  <2>5. m_values' \in [1 .. Len(m_values) -> Element]
    BY <1>1, <2>2, <2>3, <2>4
  <2>6. m_values' \in Seq(Element) /\ Len(m_values') = Len(m_values)
    BY <2>2, <2>5
  <2> QED
    BY <2>2, <2>3, <2>4, <2>6 DEF size
<1>3. KeyAt' = KeyAt
  BY <1>2 DEF KeyAt
<1>4. /\ m_buckets'.size = m_buckets.size
      /\ m_buckets'.size # 0
      /\ IndexFor(m_buckets', m_shifts, KeyAt, 1 .. indexed, slack)
  BY <1>1, MovedHome
<1>5. ScalarsOK'
  BY <1>1, <1>2 DEF TableInv, ScalarsOK, Idle
<1>6. SizedOK'
  BY <1>1, <1>2, <1>4 DEF TableInv, SizedOK, bucket_count
<1>7. IndexOK(slack)'
  BY <1>1, <1>3, <1>4 DEF IndexOK, Data
<1>8. KeysUnique'
  <2>1. ~dedup /\ size \in Nat
    BY <1>1, Elements DEF TableInv, ScalarsOK
  <2> QED
    BY <1>1, <1>2, <2>1 DEF TableInv, KeysUnique
<1> QED
  BY <1>5, <1>6, <1>7, <1>8 DEF TableInv

(* An erase frees the slot of the value at position p, moves the last      *)
(* value there and repoints its slot. *)
LEMMA DoEraseInv ==
    ASSUME NEW slack, TableInv(slack), Idle, m_buckets.size # 0,
           NEW p \in 1 .. size, NEW x \in Occupied(m_buckets),
           m_buckets.slot[x].idx = p, do_erase(x, p)
    PROVE  TableInv(slack)'
<1> DEFINE freed == erase_group_slot(m_buckets, m_shifts, m_values[p].key, x)
           last  == m_values[size].key
<1>1. /\ m_values' = CloseHole(m_values, p)
      /\ m_buckets' = IF p = size THEN freed
                      ELSE repoint_value(freed, m_shifts, last, size, p)
      /\ indexed' = size - 1
      /\ m_max_bucket_capacity' = m_max_bucket_capacity
      /\ m_max_load_factor' = m_max_load_factor
      /\ m_shifts' = m_shifts
      /\ dedup' = dedup
  BY DEF do_erase
<1>2. /\ m_values \in Seq(Element)
      /\ m_max_load_factor \in 0 .. 100
      /\ indexed = size
      /\ dedup = FALSE
      /\ size \in Nat /\ size = Len(m_values)
  BY WhenIdle, Elements DEF size
<1>3. /\ m_values' \in Seq(Element)
      /\ size' = size - 1
      /\ \A q \in 1 .. size - 1 :
           m_values'[q] = IF q = p THEN m_values[size] ELSE m_values[q]
  BY <1>1, <1>2, HoleFilled, ZenonT(30) DEF size
<1>4. /\ \A q \in 1 .. size : KeyAt[q] = m_values[q].key
      /\ \A q \in 1 .. size - 1 : KeyAt'[q] = IF q = p THEN KeyAt[size] ELSE KeyAt[q]
  <2>1. \A q \in 1 .. size - 1 : KeyAt'[q] = m_values'[q].key
    BY <1>3 DEF KeyAt
  <2>2. \A q \in 1 .. size : KeyAt[q] = m_values[q].key
    BY DEF KeyAt
  <2>3. \A q \in 1 .. size - 1 : q \in 1 .. size
    BY <1>2
  <2>4. size \in 1 .. size
    BY <1>2
  <2> QED
    BY <1>3, <2>1, <2>2, <2>3, <2>4
<1>5. IndexFor(m_buckets, m_shifts, KeyAt, 1 .. size, slack)
  BY <1>2 DEF TableInv, IndexOK, Data
<1>6. freed = erase_group_slot(m_buckets, m_shifts, KeyAt[p], x)
  BY <1>4
<1> HIDE DEF freed, last
<1>7. IndexFor(m_buckets', m_shifts, KeyAt', 1 .. size - 1, slack)
  <2> DEFINE P    == 1 .. size
             key2 == KeyAt'
  <2>1. IndexFor(m_buckets, m_shifts, KeyAt, P, slack) /\ p \in P
    BY <1>5
  <2>2. CASE p = size
    <3>1. P \ {p} = 1 .. size - 1
      BY <1>2, <2>2
    <3>2. \A q \in P \ {p} : key2[q] = KeyAt[q]
      BY <1>4, <2>2, <3>1
    <3> HIDE DEF P, key2
    <3>3. IndexFor(freed, m_shifts, key2, P \ {p}, slack)
      BY <1>6, <2>1, <3>2, EraseKeepsIndex
    <3> QED
      BY <1>1, <2>2, <3>1, <3>3 DEF key2
  <2>3. CASE p # size
    <3>1. IndexFor(freed, m_shifts, KeyAt, P \ {p}, slack)
      <4> HIDE DEF P
      <4> QED
        BY <1>6, <2>1, EraseKeepsIndex
    <3> DEFINE R == P \ {p}
    <3>2. /\ size \in R
          /\ p \in Nat \ R
          /\ (R \ {size}) \cup {p} = 1 .. size - 1
      BY <1>2, <2>3
    <3>3. key2[p] = KeyAt[size] /\ \A r \in R \ {size} : key2[r] = KeyAt[r]
      BY <1>2, <1>4, <2>3
    <3>4. last = KeyAt[size]
      BY <1>2, <1>4 DEF last
    <3>5. IndexFor(freed, m_shifts, KeyAt, R, slack)
      BY <3>1
    <3> DEFINE q == size
    <3>6. /\ q \in R
          /\ key2[p] = KeyAt[q]
          /\ \A r \in R \ {q} : key2[r] = KeyAt[r]
      BY <3>2, <3>3
    <3> HIDE DEF R, P, key2, q
    <3>7. IndexFor(repoint_value(freed, m_shifts, KeyAt[q], q, p),
                   m_shifts, key2, (R \ {q}) \cup {p}, slack)
      BY <3>2, <3>5, <3>6, RepointKeepsIndex
    <3> QED
      BY <1>1, <2>3, <3>2, <3>4, <3>7 DEF q, key2
  <2> QED
    BY <2>2, <2>3
<1>8. m_buckets'.size = m_buckets.size
  BY <1>5, <1>7 DEF IndexFor
<1>9. ScalarsOK'
  <2>1. m_max_load_factor' \in 0 .. 100 /\ indexed' \in 0 .. size'
    BY <1>1, <1>2, <1>3
  <2>2. dedup' \in BOOLEAN /\ ~dedup'
    BY <1>1, <1>2
  <2> QED
    BY <1>3, <2>1, <2>2 DEF ScalarsOK
<1>10. SizedOK'
  <2>1. /\ size <= bucket_count
        /\ m_max_bucket_capacity \in 0 .. bucket_count
        /\ bucket_count = MaxBucketCount => m_max_bucket_capacity = MaxBucketCount
    BY DEF TableInv, SizedOK
  <2>2. bucket_count' = bucket_count
    BY <1>8 DEF bucket_count
  <2>3. size' <= bucket_count
    BY <1>2, <1>3, BucketCount
  <2> QED
    BY <1>1, <1>8, <2>1, <2>2, <2>3 DEF SizedOK
<1>11. IndexOK(slack)'
  BY <1>1, <1>7, <1>8 DEF IndexOK, Data
<1>12. KeysUnique'
  <2>1. \A q, r \in 1 .. size : m_values[q].key = m_values[r].key => q = r
    BY <1>2 DEF TableInv, KeysUnique
  <2>2. \A q \in 1 .. size - 1 : q \in 1 .. size /\ q # size
    BY <1>2
  <2>4. size \in 1 .. size
    BY <1>2
  <2>3. \A q, r \in 1 .. size - 1 : m_values'[q].key = m_values'[r].key => q = r
    BY <1>3, <2>1, <2>2, <2>4
  <2> QED
    BY <1>1, <1>2, <1>3, <2>3 DEF KeysUnique
<1> QED
  BY <1>9, <1>10, <1>11, <1>12 DEF TableInv

(* Erasing by key frees the slot the probe found. *)
LEMMA EraseKeyInv ==
    ASSUME NEW slack, TableInv(slack), NEW k \in Key, EraseKey(k)
    PROVE  TableInv(slack)'
<1>1. Idle /\ FindsKey(k) /\ do_erase(SlotOfKey(k), IndexOfKey(k))
  BY DEF EraseKey
<1>2. /\ m_buckets.size # 0
      /\ SlotOfKey(k) \in Occupied(m_buckets)
      /\ IndexOfKey(k) \in 1 .. indexed
      /\ m_buckets.slot[SlotOfKey(k)].idx = IndexOfKey(k)
  BY <1>1, Lookup DEF IndexOfKey
<1>3. IndexOfKey(k) \in 1 .. size
  BY <1>1, <1>2, WhenIdle
<1> QED
  BY <1>1, <1>2, <1>3, DoEraseInv

(* The slot that points at a value. *)
LEMMA Located ==
    ASSUME NEW slack, TableInv(slack), Idle, NEW p \in 1 .. size
    PROVE  LET x == slot_of_value(m_buckets, m_shifts, m_values[p].key, p)
           IN  /\ m_buckets.size # 0
               /\ x \in Occupied(m_buckets)
               /\ m_buckets.slot[x].idx = p
<1>1. m_buckets.size # 0
  BY Elements DEF TableInv, SizedOK, size
<1>2. IndexFor(m_buckets, m_shifts, KeyAt, 1 .. size, slack)
  BY <1>1, WhenIdle DEF TableInv, IndexOK, Data
<1>3. KeyAt[p] = m_values[p].key
  BY Elements
<1> DEFINE P == 1 .. size
<1>4. IndexFor(m_buckets, m_shifts, KeyAt, P, slack) /\ p \in P
  BY <1>2
<1> HIDE DEF P
<1>5. /\ slot_of_value(m_buckets, m_shifts, KeyAt[p], p) \in Occupied(m_buckets)
      /\ m_buckets.slot[slot_of_value(m_buckets, m_shifts, KeyAt[p], p)].idx = p
  BY <1>4, SlotOfValueIs
<1> QED
  BY <1>1, <1>3, <1>5

(* Erasing by position frees the slot that points at it. *)
LEMMA EraseAtInv ==
    ASSUME NEW slack, TableInv(slack), NEW p \in 1 .. size, EraseAt(p)
    PROVE  TableInv(slack)'
<1> DEFINE x == slot_of_value(m_buckets, m_shifts, m_values[p].key, p)
<1>1. Idle /\ do_erase(x, p)
  BY DEF EraseAt
<1>2. /\ m_buckets.size # 0
      /\ x \in Occupied(m_buckets)
      /\ m_buckets.slot[x].idx = p
  BY <1>1, Located
<1> QED
  BY <1>1, <1>2, DoEraseInv

(* A renamed value leaves its old counters and is counted by its new key. *)
LEMMA ReplaceKeyInv ==
    ASSUME NEW slack, TableInv(slack),
           NEW p \in 1 .. size, NEW k \in Key, replace_key(p, k)
    PROVE  TableInv(slack)'
<1> DEFINE old == m_values[p].key
           x   == slot_of_value(m_buckets, m_shifts, old, p)
           ex  == erase_group_slot(m_buckets, m_shifts, old, x)
<1>1. /\ Idle /\ ~FindsKey(k)
      /\ m_values' = [m_values EXCEPT ![p].key = k]
      /\ m_buckets' = place_group(ex, m_shifts, k, p)
      /\ m_max_bucket_capacity' = m_max_bucket_capacity
      /\ m_max_load_factor' = m_max_load_factor
      /\ m_shifts' = m_shifts
      /\ indexed' = indexed
      /\ dedup' = dedup
  BY DEF replace_key
<1>2. /\ m_buckets.size # 0
      /\ x \in Occupied(m_buckets)
      /\ m_buckets.slot[x].idx = p
  BY <1>1, Located
<1>3. KeyAt[p] = old
  BY Elements
<1> HIDE DEF old
<1>4. ex = erase_group_slot(m_buckets, m_shifts, KeyAt[p], x)
  BY <1>3
<1> HIDE DEF x, ex
<1>5. /\ m_values \in Seq(Element)
      /\ m_max_load_factor \in 0 .. 100
      /\ indexed = size
      /\ dedup = FALSE
      /\ size \in Nat /\ size = Len(m_values)
  BY <1>1, WhenIdle, Elements DEF size
<1>6. /\ m_values' \in Seq(Element)
      /\ size' = size
      /\ \A q \in 1 .. size : m_values'[q].key = IF q = p THEN k ELSE m_values[q].key
  <2>1. /\ \A q \in 1 .. Len(m_values) : m_values[q] \in Element
        /\ DOMAIN m_values = 1 .. Len(m_values)
    BY <1>5
  <2>2. \A e \in Element : /\ [e EXCEPT !.key = k] \in Element
                           /\ [e EXCEPT !.key = k].key = k
    BY DEF Element
  <2>3. \A q \in 1 .. Len(m_values) :
          m_values'[q] = IF q = p THEN [m_values[q] EXCEPT !.key = k] ELSE m_values[q]
    BY <1>1, <2>1
  <2>4. m_values' \in [1 .. Len(m_values) -> Element]
    BY <1>1, <2>1, <2>2, <2>3
  <2>5. m_values' \in Seq(Element) /\ Len(m_values') = Len(m_values)
    BY <1>5, <2>4
  <2> QED
    BY <1>5, <2>1, <2>2, <2>3, <2>5 DEF size
<1>7. /\ \A q \in 1 .. size : KeyAt'[q] = IF q = p THEN k ELSE KeyAt[q]
  BY <1>6 DEF KeyAt
<1>8. IndexFor(m_buckets, m_shifts, KeyAt, 1 .. size, slack)
  BY <1>2, <1>5 DEF TableInv, IndexOK, Data
<1>9. IndexFor(m_buckets', m_shifts, KeyAt', 1 .. size, slack)
  <2> DEFINE P    == 1 .. size
             R    == P \ {p}
             key2 == KeyAt'
  <2>1. /\ IndexFor(m_buckets, m_shifts, KeyAt, P, slack)
        /\ p \in P /\ p \in Nat \ R /\ R \cup {p} = P
        /\ key2[p] = k
        /\ \A q \in R : key2[q] = KeyAt[q]
    BY <1>7, <1>8
  <2> HIDE DEF P, key2
  <2>2. IndexFor(ex, m_shifts, KeyAt, R, slack)
    BY <1>2, <1>4, <2>1, EraseKeepsIndex
  <2>3. HasRoom(ex)
    <3>1. IndexType(m_buckets) /\ x \in Slots(m_buckets)
      BY <1>2, <2>1 DEF IndexFor, Occupied
    <3> QED
      BY <1>4, <3>1, ErasedHasRoom
  <2> HIDE DEF R
  <2>4. IndexFor(place_group(ex, m_shifts, key2[p], p), m_shifts,
                 key2, R \cup {p}, slack)
    BY <2>1, <2>2, <2>3, PlaceKeepsIndex
  <2> QED
    BY <1>1, <2>1, <2>4 DEF P, key2
<1>10. m_buckets'.size = m_buckets.size
  BY <1>8, <1>9 DEF IndexFor
<1>11. ScalarsOK'
  <2>1. m_max_load_factor' \in 0 .. 100 /\ indexed' \in 0 .. size'
    BY <1>1, <1>5, <1>6
  <2>2. dedup' \in BOOLEAN /\ ~dedup'
    BY <1>1, <1>5
  <2> QED
    BY <1>6, <2>1, <2>2 DEF ScalarsOK
<1>12. SizedOK'
  BY <1>1, <1>2, <1>6, <1>10 DEF TableInv, SizedOK, bucket_count
<1>13. IndexOK(slack)'
  BY <1>1, <1>2, <1>5, <1>9, <1>10 DEF IndexOK, Data
<1>14. KeysUnique'
  <2>1. \A q, r \in 1 .. size : m_values[q].key = m_values[r].key => q = r
    BY <1>5 DEF TableInv, KeysUnique
  <2>2. \A q \in 1 .. size : m_values[q].key # k
    BY <1>1, <1>5, Lookup
  <2>3. \A q, r \in 1 .. size : m_values'[q].key = m_values'[r].key => q = r
    BY <1>6, <2>1, <2>2
  <2> QED
    BY <1>1, <1>5, <1>6, <2>3 DEF KeysUnique
<1> QED
  BY <1>11, <1>12, <1>13, <1>14 DEF TableInv

(* clear() and extract() leave no values and an empty array. *)
LEMMA EmptiedInv ==
    ASSUME NEW slack, TableInv(slack),
           Idle, m_values' = <<>>, clear_buckets, indexed' = 0,
           m_max_load_factor' = m_max_load_factor, dedup' = dedup
    PROVE  TableInv(slack)'
<1>1. m_values' \in Seq(Element) /\ size' = 0
  BY DEF size
<1>2. m_max_load_factor \in 0 .. 100 /\ dedup = FALSE
  BY WhenIdle
<1>3. bucket_count \in Nat
  BY BucketCount
<1>4. SizedOK' /\ IndexOK(slack)'
  BY <1>1, <1>3, SlackIs, Writable, Cleared DEF TableInv, WritableBlocks
<1>5. ScalarsOK'
  <2>1. m_max_load_factor' \in 0 .. 100 /\ indexed' \in 0 .. size'
    BY <1>1, <1>2
  <2>2. dedup' \in BOOLEAN /\ ~dedup'
    BY <1>2
  <2> QED
    BY <1>1, <2>1, <2>2 DEF ScalarsOK
<1>6. KeysUnique'
  BY <1>1, <1>2 DEF KeysUnique
<1> QED
  BY <1>4, <1>5, <1>6 DEF TableInv

(* Capping the load factor at 1 keeps the capacity within the slots.  It   *)
(* may fall below the number of values, which the next insert grows for. *)
LEMMA MaxLoadFactorInv ==
    ASSUME NEW slack, TableInv(slack), NEW ml \in LoadFactors, max_load_factor(ml)
    PROVE  TableInv(slack)'
<1> DEFINE capped == IF ml < 100 THEN ml ELSE 100
<1>1. /\ m_max_load_factor' = capped
      /\ m_max_bucket_capacity' =
             IF bucket_count = MaxBucketCount THEN m_max_bucket_capacity
             ELSE (bucket_count * capped) \div 100
      /\ m_values' = m_values /\ m_buckets' = m_buckets /\ m_shifts' = m_shifts
      /\ indexed' = indexed /\ dedup' = dedup
  BY DEF max_load_factor
<1>2. capped \in 0 .. 100
  BY TableAssumption
<1> HIDE DEF capped
<1>3. size' = size /\ KeyAt' = KeyAt /\ bucket_count' = bucket_count
  BY <1>1 DEF size, KeyAt, bucket_count
<1>4. ScalarsOK'
  BY <1>1, <1>2, <1>3 DEF TableInv, ScalarsOK, Idle
<1>5. SizedOK'
  <2>1. bucket_count \in Nat /\ m_max_bucket_capacity \in 0 .. bucket_count
    BY BucketCount
  <2>2. (bucket_count * capped) \div 100 \in 0 .. bucket_count
    BY <1>2, <2>1, PercentBound
  <2>3. m_max_bucket_capacity' \in 0 .. bucket_count
    BY <1>1, <2>1, <2>2
  <2>4. m_buckets.size = 0 => bucket_count = 0
    BY SizesAssumption DEF bucket_count
  <2> QED
    BY <1>1, <1>3, <2>3, <2>4 DEF TableInv, SizedOK
<1>6. IndexOK(slack)'
  BY <1>1, <1>3 DEF TableInv, IndexOK
<1>7. KeysUnique'
  BY <1>1, <1>3 DEF TableInv, KeysUnique
<1> QED
  BY <1>4, <1>5, <1>6, <1>7 DEF TableInv

(* An operation that rebuilds the index keeps the values. *)
LEMMA ReindexedInv ==
    ASSUME NEW slack, TableInv(slack),
           Idle, SizedOK' /\ IndexOK(slack)', indexed' = 0,
           m_values' = m_values, m_max_load_factor' = m_max_load_factor,
           dedup' = dedup
    PROVE  TableInv(slack)'
<1>1. /\ m_values \in Seq(Element)
      /\ m_max_load_factor \in 0 .. 100
      /\ dedup = FALSE
      /\ size \in Nat /\ size' = size
  BY WhenIdle, Elements DEF size
<1>2. ScalarsOK'
  <2>1. m_max_load_factor' \in 0 .. 100 /\ indexed' \in 0 .. size'
    BY <1>1
  <2>2. dedup' \in BOOLEAN /\ ~dedup'
    BY <1>1
  <2> QED
    BY <1>1, <2>1, <2>2 DEF ScalarsOK
<1>3. KeysUnique'
  BY <1>1 DEF TableInv, KeysUnique
<1> QED
  BY <1>2, <1>3 DEF TableInv

(* The size that rehash and reserve ask an array for. *)
LEMMA AtLeastSizeFits ==
    ASSUME NEW slack, TableInv(slack), NEW n \in Nat
    PROVE  /\ AtLeastSize(n) \in 0 .. MaxBucketCount
           /\ size <= AtLeastSize(n)
<1>1. size \in Nat /\ size <= MaxBucketCount /\ MaxBucketCount \in Nat
  BY Elements, BucketCount, SizesAssumption
<1> QED
  BY <1>1 DEF AtLeastSize

(* A rehash keeps the array or makes one, empty, that fits every value. *)
LEMMA RehashInv ==
    ASSUME NEW slack, TableInv(slack), NEW n \in Sizes, rehash(n)
    PROVE  TableInv(slack)'
<1> DEFINE s == calc_shifts_for_size(AtLeastSize(n))
<1>1. /\ Idle
      /\ IF s # m_shifts THEN allocate_buckets_from_shift(s) ELSE clear_buckets
      /\ indexed' = 0 /\ m_values' = m_values
      /\ m_max_load_factor' = m_max_load_factor /\ dedup' = dedup
  BY DEF rehash
<1>2. /\ m_values' \in Seq(Element)
      /\ m_max_load_factor \in 0 .. 100
      /\ size' = size /\ size \in Nat
  BY <1>1, WhenIdle, Elements DEF size
<1>3. /\ AtLeastSize(n) \in 0 .. MaxBucketCount
      /\ size <= AtLeastSize(n)
  BY TableAssumption, AtLeastSizeFits
<1>4. s \in ArrayShifts /\ AtLeastSize(n) <= calc_num_buckets(s)
  BY <1>2, <1>3, ShiftsForSize
<1> HIDE DEF s
<1>5. CASE s # m_shifts
  <2>1. size' <= calc_num_buckets(s)
    <3>1. calc_num_buckets(s) \in Nat
      BY <1>4, ArraySizes
    <3> QED
      BY <1>2, <1>3, <1>4, <3>1
  <2>2. SizedOK' /\ IndexOK(slack)'
    BY <1>1, <1>2, <1>4, <1>5, <2>1, SlackIs, Allocated
  <2> QED
    BY <1>1, <2>2, ReindexedInv
<1>6. CASE s = m_shifts
  <2>1. SizedOK' /\ IndexOK(slack)'
    BY <1>1, <1>2, <1>6, BucketCount, SlackIs, Writable, Cleared
    DEF TableInv, WritableBlocks
  <2> QED
    BY <1>1, <2>1, ReindexedInv
<1> QED
  BY <1>5, <1>6

(* The same for reserve, which only ever makes a larger one. *)
LEMMA ReserveInv ==
    ASSUME NEW slack, TableInv(slack), NEW n \in Sizes, reserve(n)
    PROVE  TableInv(slack)'
<1> DEFINE s == calc_shifts_for_size(AtLeastSize(n))
<1>1. /\ Idle
      /\ allocate_buckets_from_shift(s)
      /\ indexed' = 0 /\ m_values' = m_values
      /\ m_max_load_factor' = m_max_load_factor /\ dedup' = dedup
  BY DEF reserve
<1>2. /\ m_values' \in Seq(Element)
      /\ m_max_load_factor \in 0 .. 100
      /\ size' = size /\ size \in Nat
  BY <1>1, WhenIdle, Elements DEF size
<1>3. /\ AtLeastSize(n) \in 0 .. MaxBucketCount
      /\ size <= AtLeastSize(n)
  BY TableAssumption, AtLeastSizeFits
<1>4. s \in ArrayShifts /\ AtLeastSize(n) <= calc_num_buckets(s)
  BY <1>2, <1>3, ShiftsForSize
<1> HIDE DEF s
<1>5. size' <= calc_num_buckets(s)
  <2>1. calc_num_buckets(s) \in Nat
    BY <1>4, ArraySizes
  <2> QED
    BY <1>2, <1>3, <1>4, <2>1
<1>6. SizedOK' /\ IndexOK(slack)'
  BY <1>1, <1>2, <1>4, <1>5, SlackIs, Allocated
<1> QED
  BY <1>1, <1>6, ReindexedInv

(* replace() starts its loop with an empty array that fits the container. *)
LEMMA ReplaceInv ==
    ASSUME NEW slack, TableInv(slack),
           NEW c \in Containers, NEW b \in BOOLEAN, replace(c, b)
    PROVE  TableInv(slack)'
<1> DEFINE s == calc_shifts_for_size(Len(c))
<1>1. /\ Idle
      /\ IF bucket_count = 0 \/ s < m_shifts \/ b
         THEN allocate_buckets_from_shift(s)
         ELSE clear_buckets
      /\ m_values' = c
      /\ indexed' = 0
      /\ dedup' = (c # <<>>)
      /\ m_max_load_factor' = m_max_load_factor
  BY DEF replace
<1>2. /\ c \in Seq(Element)
      /\ Len(c) \in 0 .. MaxBucketCount
      /\ size' = Len(c)
      /\ m_max_load_factor \in 0 .. 100
  <2>1. m_max_load_factor \in 0 .. 100
    BY DEF TableInv, ScalarsOK
  <2> QED
    BY <1>1, <2>1, TableAssumption, SizesAssumption DEF size
<1>3. s \in ArrayShifts /\ Len(c) <= calc_num_buckets(s)
  BY <1>2, ShiftsForSize
<1> HIDE DEF s
<1>4. SizedOK' /\ IndexOK(slack)'
  <2>1. CASE bucket_count = 0 \/ s < m_shifts \/ b
    BY <1>1, <1>2, <1>3, <2>1, SlackIs, Allocated
  <2>2. CASE ~(bucket_count = 0 \/ s < m_shifts \/ b)
    <3>1. m_shifts \in ArrayShifts
      BY Writable
    <3>2. s \in Int /\ m_shifts \in Int /\ m_shifts <= s
      BY <1>3, <2>2, <3>1, SizesAssumption DEF ArrayShifts
    <3>3. /\ calc_num_groups(s) <= calc_num_groups(m_shifts)
          /\ calc_num_groups(s) \in Nat /\ calc_num_groups(m_shifts) \in Nat
      BY <1>3, <3>1, <3>2, GroupsAssumption
    <3>4. calc_num_buckets(s) <= calc_num_buckets(m_shifts)
      <4> DEFINE g == calc_num_groups(s)
                 h == calc_num_groups(m_shifts)
      <4> HIDE DEF g, h
      <4>1. g * SlotsPerGroup <= h * SlotsPerGroup
        BY <3>3, SizesAssumption DEF g, h
      <4> QED
        BY <4>1 DEF calc_num_buckets, g, h
    <3>5. bucket_count = calc_num_buckets(m_shifts)
      <4>1. m_buckets.size # 0
        BY <2>2, SizesAssumption DEF bucket_count
      <4> QED
        BY <4>1, BucketCount
    <3>6. size' <= bucket_count
      BY <1>2, <1>3, <3>1, <3>4, <3>5, ArraySizes
    <3> QED
      BY <1>1, <1>2, <2>2, <3>6, SlackIs, Writable, Cleared
      DEF TableInv, WritableBlocks
  <2> QED
    BY <2>1, <2>2
<1>5. ScalarsOK'
  <2>1. m_max_load_factor' \in 0 .. 100 /\ indexed' \in 0 .. size'
    BY <1>1, <1>2
  <2>2. dedup' \in BOOLEAN
    BY <1>1
  <2>3. c # <<>> => Len(c) # 0
    BY <1>2
  <2>4. dedup' => ~Idle'
    BY <1>1, <1>2, <2>3 DEF Idle
  <2> QED
    BY <1>1, <1>2, <2>1, <2>2, <2>4 DEF ScalarsOK
<1>6. KeysUnique'
  <2>1. CASE c = <<>>
    <3>1. size' = 0 /\ indexed' = 0
      BY <1>1, <2>1 DEF size
    <3> QED
      BY <3>1 DEF KeysUnique
  <2>2. CASE c # <<>>
    <3>1. dedup' /\ indexed' = 0
      BY <1>1, <2>2
    <3> QED
      BY <3>1 DEF KeysUnique
  <2> QED
    BY <2>1, <2>2
<1> QED
  BY <1>4, <1>5, <1>6 DEF TableInv

(* While a loop runs there is a value left, and room for it. *)
LEMMA LoopRuns ==
    ASSUME NEW slack, TableInv(slack), ~Idle
    PROVE  /\ size \in Nat
           /\ indexed \in 0 .. size - 1
           /\ m_buckets.size # 0
           /\ IndexFor(m_buckets, m_shifts, KeyAt, 1 .. indexed, slack)
           /\ HasRoom(m_buckets)
<1>1. size \in Nat /\ indexed \in 0 .. size - 1
  BY Elements DEF Idle
<1>2. m_buckets.size # 0
  BY <1>1 DEF TableInv, SizedOK, size
<1>3. IndexFor(m_buckets, m_shifts, KeyAt, 1 .. indexed, slack)
  BY <1>2 DEF TableInv, IndexOK, Data
<1>4. size <= m_buckets.size * SlotsPerGroup
  BY BucketCount DEF bucket_count
<1>5. HasRoom(m_buckets)
  <2>1. indexed \in Nat /\ indexed < size
    BY <1>1
  <2> QED
    BY <1>1, <1>3, <1>4, <2>1, RoomForNext
<1> QED
  BY <1>1, <1>2, <1>3, <1>5

(* A step of a loop that places the next value. *)
LEMMA PlacedNext ==
    ASSUME NEW slack, TableInv(slack), ~Idle, PlaceNext
    PROVE  /\ m_values' \in Seq(Element)
           /\ size' = size
           /\ size \in Nat
           /\ indexed \in 0 .. size - 1
           /\ indexed' = indexed + 1
           /\ m_max_load_factor' \in 0 .. 100
           /\ SizedOK'
           /\ IndexOK(slack)'
<1>1. /\ m_buckets' = place_group(m_buckets, m_shifts, NextValue.key, indexed + 1)
      /\ indexed' = indexed + 1
      /\ m_values' = m_values
      /\ m_max_bucket_capacity' = m_max_bucket_capacity
      /\ m_max_load_factor' = m_max_load_factor
      /\ m_shifts' = m_shifts
  BY DEF PlaceNext
<1>2. /\ size \in Nat
      /\ indexed \in 0 .. size - 1
      /\ m_buckets.size # 0
      /\ IndexFor(m_buckets, m_shifts, KeyAt, 1 .. indexed, slack)
      /\ HasRoom(m_buckets)
  BY LoopRuns
<1>3. size' = size /\ KeyAt' = KeyAt
  BY <1>1 DEF size, KeyAt
<1>4. indexed + 1 \in 1 .. size
  BY <1>2
<1>5. KeyAt[indexed + 1] = NextValue.key /\ NextValue.key \in Key
  BY <1>4, Elements DEF NextValue
<1>6. IndexFor(m_buckets', m_shifts, KeyAt, 1 .. indexed', slack)
  <2> DEFINE P == 1 .. indexed
             n == indexed + 1
             key == KeyAt
  <2>1. /\ IndexFor(m_buckets, m_shifts, key, P, slack)
        /\ n \in Nat \ P
        /\ key[n] \in Key
        /\ P \cup {n} = 1 .. indexed'
    BY <1>1, <1>2, <1>5
  <2> HIDE DEF P, n, key
  <2>2. IndexFor(place_group(m_buckets, m_shifts, key[n], n), m_shifts,
                 key, P \cup {n}, slack)
    BY <1>2, <2>1, PlaceKeepsIndex
  <2> QED
    BY <1>1, <1>5, <2>1, <2>2 DEF n, key
<1>7. m_buckets'.size = m_buckets.size
  BY <1>2, <1>6 DEF IndexFor
<1>8. SizedOK'
  BY <1>1, <1>2, <1>3, <1>7 DEF TableInv, SizedOK, bucket_count
<1>9. IndexOK(slack)'
  BY <1>1, <1>2, <1>3, <1>6, <1>7 DEF IndexOK, Data
<1> QED
  BY <1>1, <1>2, <1>3, <1>8, <1>9 DEF TableInv, ScalarsOK

(* Placing the next value of a fill: its key is not yet indexed. *)
LEMMA FillStepInv ==
    ASSUME NEW slack, TableInv(slack), FillStep
    PROVE  TableInv(slack)'
<1>1. ~Idle /\ ~dedup /\ PlaceNext /\ dedup' = dedup /\ m_values' = m_values
  BY DEF FillStep, PlaceNext
<1>2. /\ m_values' \in Seq(Element)
      /\ size' = size
      /\ size \in Nat
      /\ indexed \in 0 .. size - 1
      /\ indexed' = indexed + 1
      /\ m_max_load_factor' \in 0 .. 100
      /\ SizedOK' /\ IndexOK(slack)'
  BY <1>1, PlacedNext
<1>3. ScalarsOK'
  <2>1. indexed' \in 0 .. size'
    BY <1>2
  <2>2. dedup \in BOOLEAN
    BY DEF TableInv, ScalarsOK
  <2>3. dedup' \in BOOLEAN /\ ~dedup'
    BY <1>1, <2>2
  <2> QED
    BY <1>2, <2>1, <2>3 DEF ScalarsOK
<1>4. KeysUnique'
  BY <1>1, <1>2 DEF TableInv, KeysUnique
<1> QED
  BY <1>2, <1>3, <1>4 DEF TableInv

(* Placing the next value of replace(), whose key was just not found. *)
LEMMA ReplaceKeepsInv ==
    ASSUME NEW slack, TableInv(slack), ReplaceKeeps
    PROVE  TableInv(slack)'
<1>1. /\ ~Idle /\ dedup /\ PlaceNext /\ m_values' = m_values
      /\ ~FindsKey(NextValue.key)
      /\ dedup' = (indexed + 1 # size)
  BY DEF ReplaceKeeps, PlaceNext
<1>2. /\ m_values' \in Seq(Element)
      /\ size' = size
      /\ size \in Nat
      /\ indexed \in 0 .. size - 1
      /\ indexed' = indexed + 1
      /\ m_max_load_factor' \in 0 .. 100
      /\ SizedOK' /\ IndexOK(slack)'
  BY <1>1, PlacedNext
<1>3. ScalarsOK'
  <2>1. indexed' \in 0 .. size'
    BY <1>2
  <2>2. dedup' \in BOOLEAN
    BY <1>1
  <2>3. dedup' => ~Idle'
    BY <1>1, <1>2 DEF Idle
  <2> QED
    BY <1>2, <2>1, <2>2, <2>3 DEF ScalarsOK
<1>4. KeysUnique'
  <2>1. \A p, q \in 1 .. indexed : m_values[p].key = m_values[q].key => p = q
    BY <1>1 DEF TableInv, KeysUnique
  <2>2. NextValue.key \in Key
    BY <1>2, Elements DEF NextValue
  <2>3. \A p \in 1 .. indexed : m_values[p].key # NextValue.key
    BY <1>1, <2>2, Lookup
  <2>4. \A p \in 1 .. indexed + 1 : p \in 1 .. indexed \/ p = indexed + 1
    BY <1>2
  <2>5. \A p, q \in 1 .. indexed + 1 : m_values[p].key = m_values[q].key => p = q
    BY <2>1, <2>3, <2>4 DEF NextValue
  <2>6. CASE indexed + 1 = size
    <3>1. ~dedup'
      BY <1>1, <2>6
    <3> QED
      BY <1>1, <1>2, <2>5, <2>6, <3>1 DEF KeysUnique
  <2>7. CASE indexed + 1 # size
    <3>1. dedup'
      BY <1>1, <2>7
    <3> QED
      BY <1>1, <1>2, <2>5, <3>1 DEF KeysUnique
  <2> QED
    BY <2>6, <2>7
<1> QED
  BY <1>2, <1>3, <1>4 DEF TableInv

(* Dropping a duplicate touches no value that is indexed. *)
LEMMA ReplaceDropsInv ==
    ASSUME NEW slack, TableInv(slack), ReplaceDrops
    PROVE  TableInv(slack)'
<1>1. /\ ~Idle /\ dedup
      /\ m_values' = CloseHole(m_values, indexed + 1)
      /\ dedup' = (indexed # size - 1)
      /\ m_buckets' = m_buckets
      /\ m_max_bucket_capacity' = m_max_bucket_capacity
      /\ m_max_load_factor' = m_max_load_factor
      /\ m_shifts' = m_shifts
      /\ indexed' = indexed
  BY DEF ReplaceDrops
<1>2. /\ size \in Nat /\ size = Len(m_values)
      /\ indexed \in 0 .. size - 1
      /\ m_buckets.size # 0
      /\ IndexFor(m_buckets, m_shifts, KeyAt, 1 .. indexed, slack)
  BY <1>1, LoopRuns DEF size
<1>3. /\ m_values' \in Seq(Element)
      /\ size' = size - 1
      /\ \A p \in 1 .. indexed : m_values'[p] = m_values[p]
  <2> DEFINE h == indexed + 1
  <2>1. h \in 1 .. Len(m_values)
    BY <1>2
  <2>2. m_values' = CloseHole(m_values, h)
    BY <1>1
  <2>3. m_values \in Seq(Element)
    BY DEF TableInv, ScalarsOK
  <2>4. \A p \in 1 .. indexed : p \in 1 .. Len(m_values) - 1 /\ p # h
    BY <1>2
  <2> HIDE DEF h
  <2>5. /\ m_values' \in Seq(Element)
        /\ Len(m_values') = Len(m_values) - 1
        /\ \A q \in 1 .. Len(m_values) - 1 :
             m_values'[q] = IF q = h THEN m_values[Len(m_values)] ELSE m_values[q]
    BY <2>1, <2>2, <2>3, HoleFilled
  <2> QED
    BY <1>2, <2>4, <2>5 DEF size
<1>4. IndexOK(slack)'
  <2>1. \A p \in 1 .. indexed : KeyAt'[p] = KeyAt[p]
    <3>1. \A p \in 1 .. indexed : p \in 1 .. size /\ p \in 1 .. size'
      BY <1>2, <1>3
    <3> QED
      BY <1>3, <3>1 DEF KeyAt
  <2> DEFINE P == 1 .. indexed
             key2 == KeyAt'
  <2>2. /\ IndexFor(m_buckets, m_shifts, KeyAt, P, slack)
        /\ \A p \in P : key2[p] = KeyAt[p]
    BY <1>2, <2>1
  <2> HIDE DEF P, key2
  <2>3. IndexFor(m_buckets, m_shifts, key2, P, slack)
    BY <2>2, OnlyIndexedKeysMatter
  <2> QED
    BY <1>1, <1>2, <2>3 DEF IndexOK, Data, P, key2
<1>5. ScalarsOK'
  <2>1. m_max_load_factor' \in 0 .. 100 /\ indexed' \in 0 .. size'
    BY <1>1, <1>2, <1>3 DEF TableInv, ScalarsOK
  <2>2. dedup' \in BOOLEAN
    BY <1>1
  <2>3. dedup' => ~Idle'
    BY <1>1, <1>2, <1>3 DEF Idle
  <2> QED
    BY <1>3, <2>1, <2>2, <2>3 DEF ScalarsOK
<1>6. SizedOK'
  <2>1. bucket_count' = bucket_count
    BY <1>1 DEF bucket_count
  <2>2. size' <= bucket_count
    BY <1>2, <1>3, BucketCount
  <2> QED
    BY <1>1, <1>2, <2>1, <2>2 DEF TableInv, SizedOK
<1>7. KeysUnique'
  <2>1. \A p, q \in 1 .. indexed : m_values'[p].key = m_values'[q].key => p = q
    BY <1>1, <1>3 DEF TableInv, KeysUnique
  <2>2. CASE indexed = size - 1
    <3>1. ~dedup'
      BY <1>1, <2>2
    <3> QED
      BY <1>1, <1>3, <2>1, <2>2, <3>1 DEF KeysUnique
  <2>3. CASE indexed # size - 1
    <3>1. dedup'
      BY <1>1, <2>3
    <3> QED
      BY <1>1, <2>1, <3>1 DEF KeysUnique
  <2> QED
    BY <2>2, <2>3
<1> QED
  BY <1>4, <1>5, <1>6, <1>7 DEF TableInv

(* Every step keeps the invariant. *)
LEMMA NextInv ==
    ASSUME NEW slack, TableInv(slack), [Next]_vars
    PROVE  TableInv(slack)'
<1>1. CASE \E key \in Key, val \in Value : \/ InsertPlaces(key, val)
                                           \/ InsertGrows(key, val)
                                           \/ AssignFinds(key, val)
  BY <1>1, InsertPlacesInv, InsertGrowsInv, AssignFindsInv
<1>2. CASE \E key \in Key : InsertThrows(key) \/ InsertFinds(key) \/ EraseKey(key)
  BY <1>2, InsertThrowsInv, InsertFindsInv, EraseKeyInv
<1>3. CASE \E p \in 1 .. size : \/ EraseAt(p)
                                \/ \E key \in Key : replace_key(p, key)
  BY <1>3, EraseAtInv, ReplaceKeyInv
<1>4. CASE Clear \/ ExtractAll
  <2>1. /\ Idle /\ m_values' = <<>> /\ clear_buckets /\ indexed' = 0
        /\ m_max_load_factor' = m_max_load_factor /\ dedup' = dedup
    BY <1>4 DEF Clear, ExtractAll
  <2> QED
    BY <2>1, EmptiedInv
<1>5. CASE \E ml \in LoadFactors : max_load_factor(ml)
  BY <1>5, MaxLoadFactorInv
<1>6. CASE \E n \in Sizes : rehash(n) \/ reserve(n)
  BY <1>6, RehashInv, ReserveInv
<1>7. CASE \E c \in Containers, b \in BOOLEAN : replace(c, b)
  BY <1>7, ReplaceInv
<1>8. CASE Loop
  BY <1>8, FillStepInv, ReplaceKeepsInv, ReplaceDropsInv DEF Loop
<1>9. CASE UNCHANGED vars
  <2>1. /\ m_values' = m_values /\ m_buckets' = m_buckets
        /\ m_max_bucket_capacity' = m_max_bucket_capacity
        /\ m_max_load_factor' = m_max_load_factor /\ m_shifts' = m_shifts
        /\ indexed' = indexed /\ dedup' = dedup
    BY <1>9 DEF vars
  <2>2. size' = size /\ KeyAt' = KeyAt /\ bucket_count' = bucket_count
    BY <2>1 DEF size, KeyAt, bucket_count
  <2>3. ScalarsOK'
    BY <2>1, <2>2 DEF TableInv, ScalarsOK, Idle
  <2>4. SizedOK'
    BY <2>1, <2>2 DEF TableInv, SizedOK
  <2>5. IndexOK(slack)'
    BY <2>1, <2>2 DEF TableInv, IndexOK
  <2>6. KeysUnique'
    BY <2>1, <2>2 DEF TableInv, KeysUnique
  <2> QED
    BY <2>3, <2>4, <2>5, <2>6 DEF TableInv
<1> QED
  BY <1>1, <1>2, <1>3, <1>4, <1>5, <1>6, <1>7, <1>8, <1>9 DEF Next

---------------------------------------------------------------------------
(* What the invariant says *)

(* In every state the scalars fit the array, the index is exact over the   *)
(* values it has been given, and no two of them have the same key. *)
THEOREM TableInvariant == Spec => []TableInv({0})
<1>1. Init => TableInv({0})
  BY InitInv
<1>2. TableInv({0}) /\ [Next]_vars => TableInv({0})'
  BY NextInv
<1> QED
  BY <1>1, <1>2, PTL DEF Spec

(* The invariant implies that every variable has its type. *)
LEMMA InvTypeOK ==
    ASSUME NEW slack, TableInv(slack)
    PROVE  TypeOK
<1>1. IndexType(m_buckets)
  <2>1. CASE m_buckets.size = 0
    BY <2>1, EmptyBlocksType DEF TableInv, SizedOK, NoBlocks
  <2>2. CASE m_buckets.size # 0
    BY <2>2 DEF TableInv, IndexOK, IndexFor, Data
  <2> QED
    BY <2>1, <2>2
<1>2. m_max_bucket_capacity \in 0 .. bucket_count
  BY BucketCount
<1>3. m_shifts \in 0 .. InitialShifts
  BY Writable DEF ArrayShifts
<1> QED
  BY <1>1, <1>2, <1>3 DEF TableInv, ScalarsOK, TypeOK

(* Every variable always has its type, and an index is never said to hold  *)
(* more values than it has slots. *)
THEOREM TypeCorrect == Spec => []TypeOK
<1>1. TableInv({0}) => TypeOK
  BY InvTypeOK
<1> QED
  BY <1>1, TableInvariant, PTL

(* The invariant implies that every home is a group of the array. *)
LEMMA InvShift ==
    ASSUME NEW slack, TableInv(slack)
    PROVE  ShiftMatchesArray
<1>1. IndexFor(Data(m_buckets), m_shifts, KeyAt, 1 .. indexed, slack)
  BY DEF TableInv, IndexOK
<1>2. \A k \in Key : Home(k, m_shifts) \in Groups(Data(m_buckets))
  BY <1>1, HomeAssumption DEF IndexFor, Groups
<1>3. CASE m_buckets.size = 0
  BY <1>2, <1>3 DEF TableInv, SizedOK, ShiftMatchesArray, size
<1>4. CASE m_buckets.size # 0
  BY <1>1, <1>2, <1>4 DEF ShiftMatchesArray, IndexFor, Data
<1> QED
  BY <1>3, <1>4

(* hash >> m_shifts always names a group of the array there is. *)
THEOREM ShiftAlwaysMatches == Spec => []ShiftMatchesArray
<1>1. TableInv({0}) => ShiftMatchesArray
  BY InvShift
<1> QED
  BY <1>1, TableInvariant, PTL

(* The invariant implies that slots are exact, and counters up to slack. *)
LEMMA InvIndex ==
    ASSUME NEW slack, TableInv(slack)
    PROVE  IndexExact /\ CountsWithin(m_buckets, m_shifts, KeyAt, slack)
<1>1. CASE m_buckets.size = 0
  <2>1. /\ m_buckets.size = 0 /\ Occupied(m_buckets) = {}
        /\ Groups(m_buckets) = {}
    BY <1>1, EmptyBlocksType DEF TableInv, SizedOK, NoBlocks, Groups
  <2>2. 1 .. indexed = {}
    BY <1>1, Elements DEF TableInv, SizedOK, size
  <2> QED
    BY <2>1, <2>2 DEF IndexExact, PointsExactly, CountsWithin
<1>2. CASE m_buckets.size # 0
  BY <1>2 DEF TableInv, IndexOK, IndexFor, Data, IndexExact
<1> QED
  BY <1>1, <1>2

(* Without slack the counters are exact. *)
LEMMA InvCounters ==
    ASSUME TableInv({0})
    PROVE  CountersExact
<1> SUFFICES ASSUME NEW g \in Groups(m_buckets), NEW class \in Counter
             PROVE  \/ m_buckets.overflow[<<g, class>>] = MaxCounter
                    \/ m_buckets.overflow[<<g, class>>] =
                         Cardinality(PassedBy(m_buckets, m_shifts, KeyAt, g, class))
  BY DEF CountersExact, CountsExactly
<1> DEFINE n == Cardinality(PassedBy(m_buckets, m_shifts, KeyAt, g, class))
<1>1. IndexType(m_buckets)
  BY InvTypeOK DEF TypeOK
<1>2. n \in Nat
  <2>1. IsFiniteSet(Occupied(m_buckets))
    BY <1>1, SlotsFinite DEF IndexType
  <2>2. IsFiniteSet(PassedBy(m_buckets, m_shifts, KeyAt, g, class))
    BY <2>1, FS_Subset DEF PassedBy
  <2> QED
    BY <2>2, FS_CardinalityType
<1>3. m_buckets.overflow[<<g, class>>] \in Nat
  BY <1>1, SizesAssumption DEF IndexType
<1>4. CountIs(m_buckets.overflow[<<g, class>>], n, {0})
  BY InvIndex DEF CountsWithin
<1> QED
  BY <1>2, <1>3, <1>4 DEF CountIs

(* Every value that has been indexed has exactly one slot, and every slot  *)
(* a value. *)
THEOREM IndexAlwaysExact == Spec => []IndexExact
<1>1. TableInv({0}) => IndexExact
  BY InvIndex
<1> QED
  BY <1>1, TableInvariant, PTL

(* Every counter that has not saturated is the number of entries that      *)
(* passed its group. *)
THEOREM CountersAlwaysExact == Spec => []CountersExact
<1>1. TableInv({0}) => CountersExact
  BY InvCounters
<1> QED
  BY <1>1, TableInvariant, PTL

(* The uniqueness of keys is one of the parts of the invariant. *)
LEMMA InvKeys ==
    ASSUME NEW slack, TableInv(slack)
    PROVE  KeysUnique
BY DEF TableInv

(* No key is in the table twice. *)
THEOREM KeysAlwaysUnique == Spec => []KeysUnique
<1>1. TableInv({0}) => KeysUnique
  BY InvKeys
<1> QED
  BY <1>1, TableInvariant, PTL

(* With an exact index a probe finds exactly the keys that are indexed. *)
LEMMA InvLookups ==
    ASSUME NEW slack, TableInv(slack)
    PROVE  LookupsAgree
<1> SUFFICES ASSUME NEW k \in Key
             PROVE  LET holders == {p \in 1 .. indexed : m_values[p].key = k}
                    IN  /\ FindsKey(k) <=> holders # {}
                        /\ FindsKey(k) => IndexOfKey(k) \in holders
  BY DEF LookupsAgree
<1> QED
  BY Lookup

(* A lookup finds a key exactly if the table has it. *)
THEOREM LookupsAlwaysAgree == Spec => []LookupsAgree
<1>1. TableInv({0}) => LookupsAgree
  BY InvLookups
<1> QED
  BY <1>1, TableInvariant, PTL

(* With an exact index and fewer values than slots, some slot is free. *)
LEMMA InvRoom ==
    ASSUME NEW slack, TableInv(slack)
    PROVE  RoomToPlace
<1> SUFFICES ASSUME ~Idle \/ size + 1 <= WritableCapacity
             PROVE  HasRoom(WritableBlocks)
  BY DEF RoomToPlace
<1>1. CASE ~Idle
  <2>1. HasRoom(m_buckets) /\ m_buckets.size # 0
    BY <1>1, LoopRuns
  <2> QED
    BY <2>1 DEF WritableBlocks, Data
<1>2. CASE Idle /\ size + 1 <= WritableCapacity
  <2>1. /\ IndexFor(WritableBlocks, m_shifts, KeyAt, 1 .. size, slack)
        /\ WritableCapacity \in 0 .. WritableBlocks.size * SlotsPerGroup
        /\ WritableBlocks.size \in Nat \ {0}
    BY <1>2, Writable, WhenIdle
  <2>2. WritableBlocks.size * SlotsPerGroup \in Nat
    BY <2>1, SizesAssumption
  <2>3. size \in Nat
    BY Elements
  <2>4. /\ size + 1 \in Nat /\ size < size + 1
        /\ size + 1 <= WritableBlocks.size * SlotsPerGroup
    BY <1>2, <2>1, <2>2, <2>3
  <2> QED
    BY <2>1, <2>3, <2>4, RoomForNext
<1> QED
  BY <1>1, <1>2

(* Whenever a value is about to be placed some group has a free slot, so   *)
(* the walk that looks for one comes to its end. *)
THEOREM AlwaysRoomToPlace == Spec => []RoomToPlace
<1>1. TableInv({0}) => RoomToPlace
  BY InvRoom
<1> QED
  BY <1>1, TableInvariant, PTL

---------------------------------------------------------------------------
(* Saturated counters *)

KeepsSaturated(ix, nx) ==
    \A y \in DOMAIN ix.overflow :
      ix.overflow[y] = MaxCounter => nx.overflow[y] = MaxCounter

(* Neither counting a walk nor taking one back changes a saturated counter. *)
LEMMA WalksKeepSaturated ==
    ASSUME NEW ix, IndexType(ix), NEW home, NEW class, NEW g,
           NEW y \in DOMAIN ix.overflow, ix.overflow[y] = MaxCounter
    PROVE  /\ Counted(ix, home, class, g)[y] = MaxCounter
           /\ uncount(ix, home, class, g)[y] = MaxCounter
<1>1. Incremented(MaxCounter) = MaxCounter /\ Decremented(MaxCounter) = MaxCounter
  BY DEF Incremented, Decremented
<1>2. DOMAIN ix.overflow = Groups(ix) \X Counter
  BY DEF IndexType
<1> QED
  BY <1>1, <1>2 DEF Counted, uncount

(* The three operations that move counters. *)
LEMMA PlaceKeepsSaturated ==
    ASSUME NEW ix, NEW s \in ArrayShifts, IndexType(ix),
           ix.size = calc_num_groups(s), HasRoom(ix), NEW k \in Key, NEW p \in Nat
    PROVE  KeepsSaturated(ix, place_group(ix, s, k, p))
<1>1. PICK x \in Slots(ix) :
        place_group(ix, s, k, p).overflow
          = Counted(ix, Home(k, s), CounterOf(Fingerprint(k)), x[1])
  <2>1. PICK x \in Slots(ix) :
          place_group(ix, s, k, p) =
            [size     |-> ix.size,
             slot     |-> [ix.slot EXCEPT ![x] = [fp |-> Fingerprint(k), idx |-> p]],
             overflow |-> Counted(ix, Home(k, s), CounterOf(Fingerprint(k)), x[1])]
    BY PlacedParts
  <2> QED
    BY <2>1
<1> QED
  BY <1>1, WalksKeepSaturated DEF KeepsSaturated

(* Taking an entry out lowers no saturated counter of its walk. *)
LEMMA EraseKeepsSaturated ==
    ASSUME NEW ix, IndexType(ix), NEW s, NEW k, NEW x \in Slots(ix)
    PROVE  KeepsSaturated(ix, erase_group_slot(ix, s, k, x))
<1>1. erase_group_slot(ix, s, k, x).overflow
        = uncount(ix, Home(k, s), CounterOf(Fingerprint(k)), x[1])
  BY ErasedParts
<1> QED
  BY <1>1, WalksKeepSaturated DEF KeepsSaturated

(* Where an entry that moves home goes, and what it leaves. *)
LEMMA MovedParts ==
    ASSUME NEW ix, IndexType(ix), NEW s, NEW k, NEW x \in Slots(ix),
           Home(k, s) \in Groups(ix)
    PROVE  \/ move_home(ix, s, k, x) = ix
           \/ \E lane \in Lane :
                LET to == <<Home(k, s), lane>>
                IN  /\ to \in Slots(ix) /\ to \notin Occupied(ix)
                    /\ move_home(ix, s, k, x) =
                         [size     |-> ix.size,
                          slot     |-> [ix.slot EXCEPT ![to] = ix.slot[x],
                                                       ![x] = FreeSlot],
                          overflow |-> uncount(ix, Home(k, s),
                                               CounterOf(Fingerprint(k)), x[1])]
<1> DEFINE home == Home(k, s)
           lane == first_lane(match_empty(ix, home))
           to   == <<home, lane>>
           ov   == uncount(ix, home, CounterOf(Fingerprint(k)), x[1])
<1>1. CASE x[1] = home \/ match_empty(ix, home) = {}
  BY <1>1 DEF move_home
<1>2. CASE x[1] # home /\ match_empty(ix, home) # {}
  <2>1. lane \in match_empty(ix, home)
    BY <1>2, FirstLaneIsOne DEF match_empty, match_fingerprint
  <2>2. lane \in Lane /\ to \in Slots(ix) /\ to \notin Occupied(ix)
    BY <2>1 DEF match_empty, match_fingerprint, Slots, Occupied
  <2>3. move_home(ix, s, k, x) =
          [ix EXCEPT !.slot     = [@ EXCEPT ![to] = ix.slot[x], ![x] = FreeSlot],
                     !.overflow = ov]
    BY <1>2 DEF move_home
  <2> HIDE DEF ov, to
  <2>4. move_home(ix, s, k, x) =
          [size     |-> ix.size,
           slot     |-> [ix.slot EXCEPT ![to] = ix.slot[x], ![x] = FreeSlot],
           overflow |-> ov]
    BY <2>3 DEF IndexType
  <2> QED
    BY <2>2, <2>4 DEF to, ov
<1> QED
  BY <1>1, <1>2

(* Neither does moving one to its home group. *)
LEMMA MoveHomeKeepsSaturated ==
    ASSUME NEW ix, IndexType(ix), NEW s, NEW k, NEW x \in Slots(ix),
           Home(k, s) \in Groups(ix)
    PROVE  KeepsSaturated(ix, move_home(ix, s, k, x))
<1>1. CASE move_home(ix, s, k, x) = ix
  BY <1>1 DEF KeepsSaturated
<1>2. CASE move_home(ix, s, k, x) # ix
  <2>1. PICK lane \in Lane :
          move_home(ix, s, k, x) =
            [size     |-> ix.size,
             slot     |-> [ix.slot EXCEPT ![<<Home(k, s), lane>>] = ix.slot[x],
                                          ![x] = FreeSlot],
             overflow |-> uncount(ix, Home(k, s), CounterOf(Fingerprint(k)), x[1])]
    BY <1>2, MovedParts, ZenonT(60)
  <2> DEFINE sl == [ix.slot EXCEPT ![<<Home(k, s), lane>>] = ix.slot[x], ![x] = FreeSlot]
             ov == uncount(ix, Home(k, s), CounterOf(Fingerprint(k)), x[1])
  <2>2. move_home(ix, s, k, x).overflow = ov
    <3>1. move_home(ix, s, k, x) = [size |-> ix.size, slot |-> sl, overflow |-> ov]
      BY <2>1
    <3> HIDE DEF sl, ov
    <3> QED
      BY <3>1
  <2> QED
    BY <2>2, WalksKeepSaturated DEF KeepsSaturated
<1> QED
  BY <1>1, <1>2

(* Repointing a slot leaves its fingerprint, all other slots and the       *)
(* counters as they are. *)
LEMMA RepointedParts ==
    ASSUME NEW ix, IndexType(ix), NEW s, NEW k, NEW q, NEW p
    PROVE  LET x  == slot_of_value(ix, s, k, q)
               nx == repoint_value(ix, s, k, q, p)
           IN  /\ nx.size = ix.size /\ nx.overflow = ix.overflow
               /\ \A y \in Slots(ix) :
                    /\ nx.slot[y].fp = ix.slot[y].fp
                    /\ nx.slot[y].idx = IF y = x THEN p ELSE ix.slot[y].idx
<1> DEFINE x  == slot_of_value(ix, s, k, q)
           sl == [ix.slot EXCEPT ![x].idx = p]
           nx == repoint_value(ix, s, k, q, p)
<1>1. nx = [ix EXCEPT !.slot = sl]
  BY DEF repoint_value
<1> HIDE DEF x
<1>2. /\ DOMAIN ix.slot = Slots(ix)
      /\ \A y \in Slots(ix) : ix.slot[y] \in [fp : Nat, idx : Nat]
  BY DEF IndexType
<1>3. \A y \in Slots(ix) : /\ sl[y].fp = ix.slot[y].fp
                           /\ sl[y].idx = IF y = x THEN p ELSE ix.slot[y].idx
  BY <1>2
<1> HIDE DEF sl, nx
<1>4. nx.slot = sl /\ nx.size = ix.size /\ nx.overflow = ix.overflow
  BY <1>1 DEF IndexType
<1> QED
  BY <1>3, <1>4 DEF nx, x

---------------------------------------------------------------------------
(* The entries of the table *)

(* What a step may do to the entry of a key that stays indexed. *)
MovesHomeOnly ==
    \A k \in Key, x \in Occupied(m_buckets) :
         Holds(x, k) /\ (k \in IndexedKeys)' =>
           \/ Holds(x, k)'
           \/ \E lane \in Lane : Holds(<<Home(k, m_shifts), lane>>, k)'

StepKeeps ==
    /\ indexed' > 0 => KeepsSaturated(m_buckets, m_buckets')
    /\ MovesHomeOnly

(* A table with an entry has an array, in which the entry points at one of *)
(* the indexed values and no other entry does. *)
LEMMA EntriesPoint ==
    ASSUME TableInv({0})
    PROVE  /\ m_buckets.size = 0 => Occupied(m_buckets) = {} /\ DOMAIN m_buckets.overflow = {}
           /\ IndexType(m_buckets)
           /\ \A x \in Occupied(m_buckets) :
                /\ m_buckets.size # 0
                /\ x \in Slots(m_buckets)
                /\ m_buckets.slot[x].fp # 0
                /\ m_buckets.slot[x].idx \in 1 .. indexed
           /\ \A x, y \in Occupied(m_buckets) :
                m_buckets.slot[x].idx = m_buckets.slot[y].idx => x = y
<1>1. CASE m_buckets.size = 0
  <2>1. m_buckets = EmptyBlocks(0)
    BY <1>1 DEF TableInv, SizedOK, NoBlocks
  <2>2. Occupied(m_buckets) = {} /\ IndexType(m_buckets)
    BY <2>1, EmptyBlocksType
  <2>3. DOMAIN m_buckets.overflow = {}
    BY <2>1 DEF EmptyBlocks
  <2> QED
    BY <2>2, <2>3
<1>2. CASE m_buckets.size # 0
  <2>1. IndexFor(m_buckets, m_shifts, KeyAt, 1 .. indexed, {0})
    BY <1>2 DEF TableInv, IndexOK, Data
  <2> QED
    BY <1>2, <2>1 DEF IndexFor, PointsExactly, Occupied
<1> QED
  BY <1>1, <1>2

(* A slot that is taken and points at a value with the key holds the key. *)
LEMMA HoldsNext ==
    ASSUME m_buckets'.size = m_buckets.size, NEW y \in Slots(m_buckets), NEW k,
           m_buckets'.slot[y].fp # 0, m_values'[m_buckets'.slot[y].idx].key = k
    PROVE  Holds(y, k)'
<1>1. y \in Occupied(m_buckets)'
  BY DEF Occupied, Slots, Groups
<1> QED
  BY <1>1 DEF Holds

(* A step after which nothing is indexed. *)
LEMMA RestartKeeps ==
    ASSUME indexed' = 0
    PROVE  StepKeeps
<1>1. IndexedKeys' = {}
  BY DEF IndexedKeys
<1> QED
  BY <1>1 DEF StepKeeps, MovesHomeOnly

(* A step that leaves the index and the keys of the indexed values. *)
LEMMA SameIndexKeeps ==
    ASSUME TableInv({0}),
           m_buckets' = m_buckets \/ m_buckets.size = 0,
           m_buckets.size # 0 => \A p \in 1 .. indexed : m_values'[p].key = m_values[p].key
    PROVE  StepKeeps
<1>1. KeepsSaturated(m_buckets, m_buckets')
  BY EntriesPoint DEF KeepsSaturated
<1>2. MovesHomeOnly
  <2> SUFFICES ASSUME NEW k \in Key, NEW x \in Occupied(m_buckets), Holds(x, k)
               PROVE  Holds(x, k)'
    BY DEF MovesHomeOnly
  <2>1. /\ m_buckets.size # 0 /\ x \in Slots(m_buckets)
        /\ m_buckets.slot[x].fp # 0 /\ m_buckets.slot[x].idx \in 1 .. indexed
    BY EntriesPoint
  <2> QED
    BY <2>1, HoldsNext DEF Holds
<1> QED
  BY <1>1, <1>2 DEF StepKeeps

(* A step that places a value in a free slot. *)
LEMMA PlacingKeeps ==
    ASSUME TableInv({0}), NEW k \in Key, NEW p \in Nat,
           m_buckets.size # 0, HasRoom(m_buckets),
           m_buckets' = place_group(m_buckets, m_shifts, k, p),
           \A q \in 1 .. indexed : m_values'[q].key = m_values[q].key
    PROVE  StepKeeps
<1>1. /\ m_shifts \in ArrayShifts /\ m_buckets.size = calc_num_groups(m_shifts)
      /\ IndexType(m_buckets)
  BY DEF TableInv, IndexOK, IndexFor, Data
<1>2. KeepsSaturated(m_buckets, m_buckets')
  BY <1>1, PlaceKeepsSaturated
<1>3. PICK free \in Slots(m_buckets) :
        /\ free \notin Occupied(m_buckets)
        /\ m_buckets'.size = m_buckets.size
        /\ m_buckets'.slot = [m_buckets.slot EXCEPT ![free] =
                                [fp |-> Fingerprint(k), idx |-> p]]
  <2>1. PICK free \in Slots(m_buckets) :
          /\ free \notin Occupied(m_buckets)
          /\ m_buckets' =
               [size     |-> m_buckets.size,
                slot     |-> [m_buckets.slot EXCEPT ![free] =
                                [fp |-> Fingerprint(k), idx |-> p]],
                overflow |-> Counted(m_buckets, Home(k, m_shifts),
                                     CounterOf(Fingerprint(k)), free[1])]
    BY <1>1, PlacedParts
  <2> DEFINE sl == [m_buckets.slot EXCEPT ![free] = [fp |-> Fingerprint(k), idx |-> p]]
             ov == Counted(m_buckets, Home(k, m_shifts), CounterOf(Fingerprint(k)), free[1])
  <2>2. m_buckets' = [size |-> m_buckets.size, slot |-> sl, overflow |-> ov]
    BY <2>1
  <2> HIDE DEF sl, ov
  <2>3. m_buckets'.size = m_buckets.size /\ m_buckets'.slot = sl
    BY <2>2
  <2> QED
    BY <2>1, <2>3, Zenon DEF sl
<1>4. MovesHomeOnly
  <2> SUFFICES ASSUME NEW j \in Key, NEW x \in Occupied(m_buckets), Holds(x, j)
               PROVE  Holds(x, j)'
    BY DEF MovesHomeOnly
  <2>1. /\ x \in Slots(m_buckets) /\ x # free
        /\ m_buckets.slot[x].fp # 0 /\ m_buckets.slot[x].idx \in 1 .. indexed
    BY <1>3, EntriesPoint
  <2>2. m_buckets'.slot[x] = m_buckets.slot[x]
    BY <1>1, <1>3, <2>1 DEF IndexType
  <2> QED
    BY <1>3, <2>1, <2>2, HoldsNext DEF Holds
<1> QED
  BY <1>2, <1>4 DEF StepKeeps

(* A step that finds a key, and moves its entry home if there is room. *)
LEMMA FindingKeeps ==
    ASSUME TableInv({0}), NEW k \in Key, FindsKey(k),
           m_buckets' = move_home(m_buckets, m_shifts, k, SlotOfKey(k)),
           m_shifts' = m_shifts,
           \A q \in 1 .. indexed : m_values'[q].key = m_values[q].key
    PROVE  StepKeeps
<1> DEFINE at   == SlotOfKey(k)
           home == Home(k, m_shifts)
<1>1. /\ m_buckets.size # 0 /\ at \in Occupied(m_buckets)
      /\ m_buckets.slot[at].idx \in 1 .. indexed
      /\ m_values[m_buckets.slot[at].idx].key = k
  BY Lookup DEF IndexOfKey
<1>2. /\ m_shifts \in ArrayShifts /\ m_buckets.size = calc_num_groups(m_shifts)
      /\ IndexType(m_buckets)
      /\ at \in Slots(m_buckets) /\ m_buckets.slot[at].fp # 0
  BY <1>1, EntriesPoint DEF TableInv, IndexOK, IndexFor, Data
<1>3. home \in Groups(m_buckets)
  BY <1>2, HomeAssumption DEF Groups
<1> HIDE DEF at
<1>4. KeepsSaturated(m_buckets, m_buckets')
  BY <1>2, <1>3, MoveHomeKeepsSaturated DEF at
<1>5. CASE m_buckets' = m_buckets
  BY <1>5, SameIndexKeeps
<1>6. CASE m_buckets' # m_buckets
  <2>1. PICK lane \in Lane :
          /\ <<home, lane>> \in Slots(m_buckets) /\ <<home, lane>> \notin Occupied(m_buckets)
          /\ m_buckets'.size = m_buckets.size
          /\ m_buckets'.slot = [m_buckets.slot EXCEPT ![<<home, lane>>] = m_buckets.slot[at],
                                                      ![at] = FreeSlot]
    <3>1. PICK lane \in Lane :
            /\ <<home, lane>> \in Slots(m_buckets) /\ <<home, lane>> \notin Occupied(m_buckets)
            /\ m_buckets' =
                 [size     |-> m_buckets.size,
                  slot     |-> [m_buckets.slot EXCEPT
                                  ![<<home, lane>>] = m_buckets.slot[at],
                                  ![at] = FreeSlot],
                  overflow |-> uncount(m_buckets, home, CounterOf(Fingerprint(k)), at[1])]
      BY <1>2, <1>3, <1>6, MovedParts DEF at
    <3> DEFINE sl == [m_buckets.slot EXCEPT ![<<home, lane>>] = m_buckets.slot[at],
                                            ![at] = FreeSlot]
               ov == uncount(m_buckets, home, CounterOf(Fingerprint(k)), at[1])
    <3>2. m_buckets' = [size |-> m_buckets.size, slot |-> sl, overflow |-> ov]
      BY <3>1
    <3> HIDE DEF sl, ov
    <3>3. m_buckets'.size = m_buckets.size /\ m_buckets'.slot = sl
      BY <3>2
    <3> QED
      BY <3>1, <3>3, Zenon DEF sl
  <2> DEFINE to == <<home, lane>>
  <2>2. /\ m_buckets'.slot[to] = m_buckets.slot[at]
        /\ \A x \in Occupied(m_buckets) : x # at => m_buckets'.slot[x] = m_buckets.slot[x]
    <3>1. DOMAIN m_buckets.slot = Slots(m_buckets)
      BY <1>2 DEF IndexType
    <3>2. at \in Occupied(m_buckets) /\ Occupied(m_buckets) \subseteq Slots(m_buckets)
      BY <1>1 DEF at, Occupied
    <3> HIDE DEF to
    <3>3. /\ to \in Slots(m_buckets) /\ to \notin Occupied(m_buckets)
          /\ m_buckets'.slot = [m_buckets.slot EXCEPT ![to] = m_buckets.slot[at],
                                                      ![at] = FreeSlot]
      BY <2>1 DEF to
    <3> QED
      BY <3>1, <3>2, <3>3
  <2>3. Holds(to, k)'
    BY <1>1, <1>2, <2>1, <2>2, HoldsNext DEF at
  <2>4. MovesHomeOnly
    <3> SUFFICES ASSUME NEW j \in Key, NEW x \in Occupied(m_buckets), Holds(x, j)
                 PROVE  \/ Holds(x, j)'
                        \/ \E l \in Lane : Holds(<<Home(j, m_shifts), l>>, j)'
      BY DEF MovesHomeOnly
    <3>1. CASE x = at
      <4>1. j = k
        BY <1>1, <3>1 DEF Holds, at
      <4>2. Holds(<<Home(j, m_shifts), lane>>, j)'
        BY <2>3, <4>1 DEF Holds
      <4> QED
        BY <4>2
    <3>2. CASE x # at
      <4>1. /\ x \in Slots(m_buckets) /\ m_buckets.slot[x].fp # 0
            /\ m_buckets.slot[x].idx \in 1 .. indexed
        BY EntriesPoint
      <4>2. m_buckets'.slot[x] = m_buckets.slot[x] /\ m_buckets'.size = m_buckets.size
        BY <2>1, <2>2, <3>2
      <4>3. m_values'[m_buckets.slot[x].idx].key = j
        BY <4>1 DEF Holds
      <4>4. m_buckets'.slot[x].fp # 0 /\ m_values'[m_buckets'.slot[x].idx].key = j
        BY <4>1, <4>2, <4>3
      <4> QED
        BY <4>1, <4>2, <4>4, HoldsNext
    <3> QED
      BY <3>1, <3>2
  <2> QED
    BY <1>4, <2>4 DEF StepKeeps
<1> QED
  BY <1>5, <1>6

(* Erasing frees one slot, and repoints the one of the value that moves    *)
(* into the hole; the erased key does not stay. *)
LEMMA ErasingKeeps ==
    ASSUME TableInv({0}), Idle, m_buckets.size # 0,
           NEW p \in 1 .. size, NEW x \in Occupied(m_buckets),
           m_buckets.slot[x].idx = p, do_erase(x, p)
    PROVE  StepKeeps
<1> DEFINE freed == erase_group_slot(m_buckets, m_shifts, m_values[p].key, x)
           last  == m_values[size].key
           z     == slot_of_value(freed, m_shifts, last, size)
<1>1. /\ m_values' = CloseHole(m_values, p)
      /\ m_buckets' = IF p = size THEN freed
                      ELSE repoint_value(freed, m_shifts, last, size, p)
      /\ indexed' = size - 1
  BY DEF do_erase
<1>2. /\ m_values \in Seq(Element) /\ indexed = size /\ dedup = FALSE
      /\ size \in Nat /\ size = Len(m_values)
  BY WhenIdle, Elements DEF size
<1>3. \A q \in 1 .. size - 1 :
        m_values'[q] = IF q = p THEN m_values[size] ELSE m_values[q]
  BY <1>1, <1>2, HoleFilled
<1>4. /\ IndexFor(m_buckets, m_shifts, KeyAt, 1 .. size, {0})
      /\ IndexType(m_buckets) /\ x \in Slots(m_buckets)
  BY <1>2 DEF TableInv, IndexOK, IndexFor, Data, Occupied
<1>5. KeyAt[p] = m_values[p].key /\ KeyAt[size] = last
  BY <1>2, Elements
<1>6. /\ freed.size = m_buckets.size
      /\ freed.slot = [m_buckets.slot EXCEPT ![x] = FreeSlot]
  BY <1>4, ErasedParts
<1>7. IndexFor(freed, m_shifts, KeyAt, (1 .. size) \ {p}, {0})
  <2> DEFINE P == 1 .. size
  <2>1. IndexFor(m_buckets, m_shifts, KeyAt, P, {0})
    BY <1>4
  <2> HIDE DEF P
  <2>2. IndexFor(erase_group_slot(m_buckets, m_shifts, KeyAt[p], x),
                 m_shifts, KeyAt, P \ {p}, {0})
    BY <2>1, EraseKeepsIndex
  <2> QED
    BY <1>5, <2>2 DEF P
<1>8. KeepsSaturated(m_buckets, freed)
  BY <1>4, EraseKeepsSaturated
<1> HIDE DEF freed, z
<1>9. \A y \in Occupied(m_buckets) :
        y # x => /\ y \in Slots(m_buckets) /\ y \in Slots(freed)
                 /\ freed.slot[y] = m_buckets.slot[y]
                 /\ m_buckets.slot[y].fp # 0
                 /\ m_buckets.slot[y].idx \in 1 .. size
                 /\ m_buckets.slot[y].idx # p
  <2>1. DOMAIN m_buckets.slot = Slots(m_buckets)
    BY <1>4 DEF IndexType
  <2>2. Slots(freed) = Slots(m_buckets)
    BY <1>6 DEF Slots, Groups
  <2> QED
    BY <1>2, <1>6, <2>1, <2>2, EntriesPoint
<1>10. \A q, r \in 1 .. size : m_values[q].key = m_values[r].key => q = r
  BY <1>2 DEF TableInv, KeysUnique
<1>11. ASSUME p # size
       PROVE  /\ z \in Occupied(m_buckets) /\ z # x /\ m_buckets.slot[z].idx = size
              /\ m_buckets'.size = m_buckets.size /\ m_buckets'.overflow = freed.overflow
              /\ \A y \in Slots(freed) :
                   /\ m_buckets'.slot[y].fp = freed.slot[y].fp
                   /\ m_buckets'.slot[y].idx = IF y = z THEN p ELSE freed.slot[y].idx
  <2> DEFINE R == (1 .. size) \ {p}
             n == size
  <2>1. IndexFor(freed, m_shifts, KeyAt, R, {0}) /\ n \in R /\ KeyAt[n] = last
    BY <1>2, <1>5, <1>7, <1>11
  <2> HIDE DEF R, n
  <2>2. /\ slot_of_value(freed, m_shifts, last, n) \in Occupied(freed)
        /\ freed.slot[slot_of_value(freed, m_shifts, last, n)].idx = n
        /\ IndexType(freed)
    BY <2>1, SlotOfValueIs DEF IndexFor
  <2>3. z \in Occupied(freed) /\ freed.slot[z].idx = size
    BY <2>2 DEF n, z
  <2>4. z \in Slots(m_buckets) /\ freed.slot[z].fp # 0
    BY <1>6, <2>3 DEF Occupied, Slots, Groups
  <2>5. DOMAIN m_buckets.slot = Slots(m_buckets)
    BY <1>4 DEF IndexType
  <2>6. z # x /\ freed.slot[z] = m_buckets.slot[z]
    BY <1>4, <1>6, <2>4, <2>5 DEF FreeSlot
  <2>7. z \in Occupied(m_buckets)
    BY <2>4, <2>6 DEF Occupied
  <2>8. m_buckets' = repoint_value(freed, m_shifts, last, size, p)
    BY <1>1, <1>11
  <2>9. /\ m_buckets'.size = freed.size /\ m_buckets'.overflow = freed.overflow
        /\ \A y \in Slots(freed) :
             /\ m_buckets'.slot[y].fp = freed.slot[y].fp
             /\ m_buckets'.slot[y].idx = IF y = z THEN p ELSE freed.slot[y].idx
    <3> HIDE DEF last
    <3> QED
      BY <2>2, <2>8, RepointedParts DEF z
  <2>10. m_buckets'.size = m_buckets.size /\ m_buckets.slot[z].idx = size
    BY <1>6, <2>3, <2>6, <2>9
  <2> QED
    BY <2>6, <2>7, <2>9, <2>10
<1>12. KeepsSaturated(m_buckets, m_buckets')
  BY <1>1, <1>8, <1>11 DEF KeepsSaturated
<1>13. MovesHomeOnly
  <2> SUFFICES ASSUME NEW k \in Key, NEW y \in Occupied(m_buckets),
                      Holds(y, k), (k \in IndexedKeys)'
               PROVE  Holds(y, k)'
    BY DEF MovesHomeOnly
  <2>1. y # x
    <3> SUFFICES ASSUME y = x
                 PROVE  FALSE
      OBVIOUS
    <3>1. k = m_values[p].key
      BY DEF Holds
    <3>2. PICK q \in 1 .. size - 1 : m_values'[q].key = k
      BY <1>1 DEF IndexedKeys
    <3>3. PICK r \in 1 .. size : r # p /\ m_values[r].key = k
      <4>1. q \in 1 .. size /\ size \in 1 .. size /\ q # size
        BY <1>2
      <4> QED
        BY <1>3, <3>2, <4>1
    <3> QED
      BY <1>10, <3>1, <3>3
  <2> DEFINE i == m_buckets.slot[y].idx
  <2>2. /\ y \in Slots(m_buckets) /\ y \in Slots(freed)
        /\ freed.slot[y] = m_buckets.slot[y]
        /\ m_buckets.slot[y].fp # 0 /\ i \in 1 .. size /\ i # p
    BY <1>9, <2>1
  <2>3. m_values[i].key = k
    BY DEF Holds
  <2>4. CASE p = size
    <3>1. m_buckets' = freed /\ i \in 1 .. size - 1
      BY <1>1, <1>2, <2>2, <2>4
    <3>2. m_values'[i] = m_values[i]
      BY <1>3, <2>2, <3>1
    <3> QED
      BY <1>6, <2>2, <2>3, <3>1, <3>2, HoldsNext
  <2>5. CASE p # size /\ i = size
    <3>1. y = z
      BY <1>11, <2>5, EntriesPoint
    <3>2. /\ m_buckets'.slot[y].fp # 0 /\ m_buckets'.slot[y].idx = p
          /\ m_buckets'.size = m_buckets.size
      BY <1>11, <2>2, <2>5, <3>1
    <3>3. m_values'[p] = m_values[i]
      BY <1>2, <1>3, <2>5
    <3> QED
      BY <2>2, <2>3, <3>2, <3>3, HoldsNext
  <2>6. CASE p # size /\ i # size
    <3>1. y # z
      BY <1>11, <2>6
    <3>2. /\ m_buckets'.slot[y].fp # 0 /\ m_buckets'.slot[y].idx = i
          /\ m_buckets'.size = m_buckets.size
      BY <1>11, <2>2, <2>6, <3>1
    <3>3. m_values'[i] = m_values[i]
      BY <1>2, <1>3, <2>2, <2>6
    <3> QED
      BY <2>2, <2>3, <3>2, <3>3, HoldsNext
  <2> QED
    BY <2>4, <2>5, <2>6
<1> QED
  BY <1>12, <1>13 DEF StepKeeps

(* A value that gets another key: its slot is freed and one is taken; the  *)
(* old key does not stay. *)
LEMMA RekeyingKeeps ==
    ASSUME TableInv({0}), NEW p \in 1 .. size, NEW k \in Key, replace_key(p, k)
    PROVE  StepKeeps
<1> DEFINE old == m_values[p].key
           x   == slot_of_value(m_buckets, m_shifts, old, p)
           ex  == erase_group_slot(m_buckets, m_shifts, old, x)
<1>1. /\ Idle /\ ~FindsKey(k)
      /\ m_values' = [m_values EXCEPT ![p].key = k]
      /\ m_buckets' = place_group(ex, m_shifts, k, p)
      /\ indexed' = indexed
  BY DEF replace_key
<1>2. m_buckets.size # 0 /\ x \in Occupied(m_buckets) /\ m_buckets.slot[x].idx = p
  BY <1>1, Located
<1>3. /\ m_values \in Seq(Element) /\ indexed = size /\ dedup = FALSE
      /\ size \in Nat /\ size = Len(m_values)
  BY <1>1, WhenIdle, Elements DEF size
<1>4. \A q \in 1 .. size : m_values'[q].key = IF q = p THEN k ELSE m_values[q].key
  <2>1. \A q \in 1 .. size : m_values[q] \in Element
    BY <1>3
  <2>2. \A e \in Element : [e EXCEPT !.key = k].key = k
    BY DEF Element
  <2>3. \A q \in 1 .. size :
          m_values'[q] = IF q = p THEN [m_values[q] EXCEPT !.key = k] ELSE m_values[q]
    BY <1>1, <1>3
  <2> QED
    BY <2>1, <2>2, <2>3
<1>5. /\ IndexFor(m_buckets, m_shifts, KeyAt, 1 .. size, {0})
      /\ m_shifts \in ArrayShifts /\ m_buckets.size = calc_num_groups(m_shifts)
      /\ IndexType(m_buckets) /\ x \in Slots(m_buckets)
  BY <1>2, <1>3 DEF TableInv, IndexOK, IndexFor, Data, Occupied
<1> HIDE DEF x
<1>6. /\ ex.size = m_buckets.size
      /\ ex.slot = [m_buckets.slot EXCEPT ![x] = FreeSlot]
      /\ HasRoom(ex)
  BY <1>5, ErasedParts, ErasedHasRoom
<1>7. IndexType(ex)
  <2> DEFINE P == 1 .. size
  <2>1. IndexFor(m_buckets, m_shifts, KeyAt, P, {0}) /\ KeyAt[p] = old
    BY <1>5, Elements
  <2> HIDE DEF P
  <2>2. IndexFor(erase_group_slot(m_buckets, m_shifts, KeyAt[p], x),
                 m_shifts, KeyAt, P \ {p}, {0})
    BY <1>2, <2>1, EraseKeepsIndex
  <2> QED
    BY <2>1, <2>2 DEF IndexFor
<1>8. KeepsSaturated(m_buckets, ex)
  BY <1>5, EraseKeepsSaturated
<1> HIDE DEF ex
<1>9. KeepsSaturated(ex, m_buckets')
  BY <1>1, <1>5, <1>6, <1>7, PlaceKeepsSaturated
<1>10. KeepsSaturated(m_buckets, m_buckets')
  <2>1. DOMAIN ex.overflow = DOMAIN m_buckets.overflow
    BY <1>5, <1>6, <1>7 DEF IndexType, Groups
  <2> QED
    BY <1>8, <1>9, <2>1 DEF KeepsSaturated
<1>11. PICK free \in Slots(ex) :
         /\ free \notin Occupied(ex)
         /\ m_buckets'.size = ex.size
         /\ m_buckets'.slot = [ex.slot EXCEPT ![free] = [fp |-> Fingerprint(k), idx |-> p]]
  <2>1. /\ p \in Nat /\ ex.size = calc_num_groups(m_shifts)
        /\ IndexType(ex) /\ HasRoom(ex) /\ m_shifts \in ArrayShifts
    BY <1>3, <1>5, <1>6, <1>7
  <2>2. PICK free \in Slots(ex) :
          /\ free \notin Occupied(ex)
          /\ place_group(ex, m_shifts, k, p) =
               [size     |-> ex.size,
                slot     |-> [ex.slot EXCEPT ![free] = [fp |-> Fingerprint(k), idx |-> p]],
                overflow |-> Counted(ex, Home(k, m_shifts),
                                     CounterOf(Fingerprint(k)), free[1])]
    BY <2>1, PlacedParts
  <2> DEFINE nx == place_group(ex, m_shifts, k, p)
  <2>3. /\ nx.size = ex.size
        /\ nx.slot = [ex.slot EXCEPT ![free] = [fp |-> Fingerprint(k), idx |-> p]]
    BY <2>2
  <2>4. m_buckets' = nx
    BY <1>1
  <2> HIDE DEF nx
  <2> QED
    BY <2>2, <2>3, <2>4
<1>12. \A q, r \in 1 .. size : m_values[q].key = m_values[r].key => q = r
  BY <1>3 DEF TableInv, KeysUnique
<1>13. \A q \in 1 .. size : m_values[q].key # k
  BY <1>1, <1>3, Lookup
<1>14. MovesHomeOnly
  <2> SUFFICES ASSUME NEW j \in Key, NEW y \in Occupied(m_buckets),
                      Holds(y, j), (j \in IndexedKeys)'
               PROVE  Holds(y, j)'
    BY DEF MovesHomeOnly
  <2>1. y # x
    <3> SUFFICES ASSUME y = x
                 PROVE  FALSE
      OBVIOUS
    <3>1. j = m_values[p].key
      BY <1>2 DEF Holds
    <3>2. PICK q \in 1 .. size : m_values'[q].key = j
      BY <1>1, <1>3 DEF IndexedKeys
    <3> QED
      BY <1>4, <1>12, <1>13, <3>1, <3>2
  <2> DEFINE i == m_buckets.slot[y].idx
  <2>2. /\ y \in Slots(m_buckets) /\ m_buckets.slot[y].fp # 0
        /\ i \in 1 .. size /\ i # p
    BY <1>2, <1>3, <2>1, EntriesPoint
  <2>3. ex.slot[y] = m_buckets.slot[y]
    BY <1>5, <1>6, <2>1, <2>2 DEF IndexType
  <2>4. y \in Occupied(ex) /\ y \in Slots(ex)
    BY <1>6, <2>2, <2>3 DEF Occupied, Slots, Groups
  <2>5. m_buckets'.slot[y] = m_buckets.slot[y]
    BY <1>7, <1>11, <2>3, <2>4 DEF IndexType
  <2>6. m_values'[i].key = j
    BY <1>4, <2>2 DEF Holds
  <2> QED
    BY <1>6, <1>11, <2>2, <2>5, <2>6, HoldsNext
<1> QED
  BY <1>10, <1>14 DEF StepKeeps

(* An absent key with room for it: values are appended to. *)
LEMMA InsertingKeeps ==
    ASSUME TableInv({0}), NEW k \in Key, NEW v \in Value, InsertPlaces(k, v)
    PROVE  StepKeeps
<1>1. /\ Idle /\ size + 1 <= WritableCapacity
      /\ m_values' = Append(m_values, [key |-> k, val |-> v])
      /\ m_buckets' = place_group(WritableBlocks, m_shifts, k, size + 1)
  BY DEF InsertPlaces
<1>2. /\ m_values \in Seq(Element) /\ indexed = size
      /\ size \in Nat /\ size = Len(m_values)
  BY <1>1, WhenIdle, Elements DEF size
<1>3. \A q \in 1 .. indexed : m_values'[q].key = m_values[q].key
  BY <1>1, <1>2
<1>4. CASE m_buckets.size = 0
  BY <1>4, SameIndexKeeps
<1>5. CASE m_buckets.size # 0
  <2>1. WritableBlocks = m_buckets
    BY <1>5 DEF WritableBlocks, Data
  <2>2. HasRoom(m_buckets)
    BY <1>1, <2>1, InvRoom DEF RoomToPlace
  <2> QED
    BY <1>1, <1>2, <1>3, <1>5, <2>1, <2>2, PlacingKeeps
<1> QED
  BY <1>4, <1>5

(* A step of a loop: the next value is placed, or the last one takes the   *)
(* place of a duplicate that is not indexed. *)
LEMMA LoopKeeps ==
    ASSUME TableInv({0}), Loop
    PROVE  StepKeeps
<1>1. CASE FillStep \/ ReplaceKeeps
  <2>1. ~Idle /\ PlaceNext
    BY <1>1 DEF FillStep, ReplaceKeeps
  <2>2. /\ m_buckets' = place_group(m_buckets, m_shifts, NextValue.key, indexed + 1)
        /\ m_values' = m_values
    BY <2>1 DEF PlaceNext
  <2>3. /\ m_buckets.size # 0 /\ HasRoom(m_buckets)
        /\ indexed + 1 \in Nat /\ indexed + 1 \in 1 .. size
    BY <2>1, LoopRuns
  <2>4. NextValue.key \in Key
    BY <2>3, Elements DEF NextValue
  <2> QED
    BY <2>2, <2>3, <2>4, PlacingKeeps
<1>2. CASE ReplaceDrops
  <2>1. /\ ~Idle /\ m_buckets' = m_buckets
        /\ m_values' = CloseHole(m_values, indexed + 1)
    BY <1>2 DEF ReplaceDrops
  <2>2. /\ size \in Nat /\ size = Len(m_values) /\ indexed \in 0 .. size - 1
        /\ m_values \in Seq(Element)
    BY <2>1, LoopRuns DEF TableInv, ScalarsOK, size
  <2>3. \A q \in 1 .. indexed : m_values'[q] = m_values[q]
    <3> DEFINE h == indexed + 1
    <3>1. /\ h \in 1 .. Len(m_values)
          /\ \A q \in 1 .. indexed : q \in 1 .. Len(m_values) - 1 /\ q # h
      BY <2>2
    <3> HIDE DEF h
    <3>2. \A q \in 1 .. Len(m_values) - 1 :
            CloseHole(m_values, h)[q] = IF q = h THEN m_values[Len(m_values)] ELSE m_values[q]
      BY <2>2, <3>1, HoleFilled
    <3> QED
      BY <2>1, <3>1, <3>2 DEF h
  <2> QED
    BY <2>1, <2>3, SameIndexKeeps
<1> QED
  BY <1>1, <1>2 DEF Loop

(* No step takes from a saturated counter or displaces an entry. *)
LEMMA NextKeeps ==
    TableInv({0}) /\ [Next]_vars => StepKeeps
<1> SUFFICES ASSUME TableInv({0}), [Next]_vars
             PROVE  StepKeeps
  OBVIOUS
<1>1. ASSUME NEW k \in Key, NEW v \in Value, InsertPlaces(k, v)
      PROVE  StepKeeps
  BY <1>1, InsertingKeeps
<1>2. ASSUME indexed' = 0
      PROVE  StepKeeps
  BY <1>2, RestartKeeps
<1>3. ASSUME NEW k \in Key, InsertThrows(k)
      PROVE  StepKeeps
  <2>1. m_values' = m_values /\ m_buckets' = WritableBlocks
    BY <1>3 DEF InsertThrows
  <2>2. m_buckets' = m_buckets \/ m_buckets.size = 0
    BY <2>1 DEF WritableBlocks, Data
  <2> QED
    BY <2>1, <2>2, SameIndexKeeps
<1>4. ASSUME NEW k \in Key, InsertFinds(k)
      PROVE  StepKeeps
  BY <1>4, FindingKeeps DEF InsertFinds
<1>5. ASSUME NEW k \in Key, NEW v \in Value, AssignFinds(k, v)
      PROVE  StepKeeps
  <2>1. /\ Idle /\ FindsKey(k)
        /\ m_buckets' = move_home(m_buckets, m_shifts, k, SlotOfKey(k))
        /\ m_shifts' = m_shifts
        /\ m_values' = [m_values EXCEPT ![IndexOfKey(k)].val = v]
    BY <1>5 DEF AssignFinds
  <2>2. \A q \in 1 .. indexed : m_values'[q].key = m_values[q].key
    <3>1. m_values \in Seq(Element) /\ indexed = Len(m_values)
      BY <2>1, WhenIdle DEF size
    <3>2. \A q \in 1 .. Len(m_values) : m_values[q] \in Element
      BY <3>1
    <3>3. \A e \in Element : [e EXCEPT !.val = v].key = e.key
      BY DEF Element
    <3> DEFINE i == IndexOfKey(k)
    <3> HIDE DEF i
    <3>4. m_values' = [m_values EXCEPT ![i] = [m_values[i] EXCEPT !.val = v]]
      BY <2>1 DEF i
    <3>5. \A q \in 1 .. Len(m_values) :
            m_values'[q] = IF q = i THEN [m_values[q] EXCEPT !.val = v] ELSE m_values[q]
      BY <3>1, <3>4
    <3> QED
      BY <3>1, <3>2, <3>3, <3>5
  <2> QED
    BY <2>1, <2>2, FindingKeeps
<1>6. ASSUME NEW k \in Key, EraseKey(k)
      PROVE  StepKeeps
  <2>1. Idle /\ FindsKey(k) /\ do_erase(SlotOfKey(k), IndexOfKey(k))
    BY <1>6 DEF EraseKey
  <2>2. /\ m_buckets.size # 0 /\ SlotOfKey(k) \in Occupied(m_buckets)
        /\ IndexOfKey(k) \in 1 .. size
        /\ m_buckets.slot[SlotOfKey(k)].idx = IndexOfKey(k)
    BY <2>1, Lookup, WhenIdle DEF IndexOfKey
  <2> QED
    BY <2>1, <2>2, ErasingKeeps
<1>7. ASSUME NEW p \in 1 .. size, EraseAt(p)
      PROVE  StepKeeps
  <2> DEFINE x == slot_of_value(m_buckets, m_shifts, m_values[p].key, p)
  <2>1. Idle /\ do_erase(x, p)
    BY <1>7 DEF EraseAt
  <2>2. m_buckets.size # 0 /\ x \in Occupied(m_buckets) /\ m_buckets.slot[x].idx = p
    BY <2>1, Located
  <2> QED
    BY <2>1, <2>2, ErasingKeeps
<1>8. ASSUME NEW p \in 1 .. size, NEW k \in Key, replace_key(p, k)
      PROVE  StepKeeps
  BY <1>8, RekeyingKeeps
<1>9. CASE (\E ml \in LoadFactors : max_load_factor(ml)) \/ UNCHANGED vars
  <2>1. m_buckets' = m_buckets /\ m_values' = m_values
    BY <1>9 DEF max_load_factor, vars
  <2> QED
    BY <2>1, SameIndexKeeps
<1>10. CASE Loop
  BY <1>10, LoopKeeps
<1>11. CASE \/ \E k \in Key, v \in Value : InsertGrows(k, v)
            \/ Clear \/ ExtractAll
            \/ \E n \in Sizes : rehash(n) \/ reserve(n)
            \/ \E c \in Containers, b \in BOOLEAN : replace(c, b)
  <2>1. indexed' = 0
    BY <1>11 DEF InsertGrows, Clear, ExtractAll, rehash, reserve, replace
  <2> QED
    BY <1>2, <2>1
<1> QED
  BY <1>1, <1>3, <1>4, <1>5, <1>6, <1>7, <1>8, <1>9, <1>10, <1>11 DEF Next

---------------------------------------------------------------------------
(* What no step ever does *)

(* A counter that has reached its maximum stays there, and so never makes  *)
(* a probe stop early, until the array is cleared or replaced: then there  *)
(* is nothing indexed. *)
THEOREM SaturatedAlwaysStay == Spec => SaturatedStays
<1>1. TableInv({0}) /\ [Next]_vars =>
        [indexed' > 0 =>
           \A y \in DOMAIN m_buckets.overflow :
             m_buckets.overflow[y] = MaxCounter => m_buckets'.overflow[y] = MaxCounter]_vars
  BY NextKeeps DEF StepKeeps, KeepsSaturated
<1> QED
  BY <1>1, TableInvariant, PTL DEF Spec, SaturatedStays

(* The entry of a key that stays in the table is where it was, or in the   *)
(* home group: no insert, erase or rename displaces another key's entry.   *)
THEOREM EntriesAlwaysStay == Spec => EntriesOnlyMoveHome
<1>1. TableInv({0}) /\ [Next]_vars =>
        [\A k \in Key, x \in Occupied(m_buckets) :
           Holds(x, k) /\ (k \in IndexedKeys)' =>
             \/ Holds(x, k)'
             \/ \E lane \in Lane : Holds(<<Home(k, m_shifts), lane>>, k)']_vars
  BY NextKeeps DEF StepKeeps, MovesHomeOnly
<1> QED
  BY <1>1, TableInvariant, PTL DEF Spec, EntriesOnlyMoveHome

---------------------------------------------------------------------------
(* The elements of a sequence of values. *)
HeldBy(values) == {values[p] : p \in 1 .. Len(values)}

(* The contents a lookup finds are the values there are. *)
FindsWhatIsHeld == LookupContents = HeldBy(m_values)

---------------------------------------------------------------------------
(* What a lookup finds *)

(* The invariant implies it, whatever the index looks like. *)
LEMMA ContentsHeld ==
    TableInv({0}) => FindsWhatIsHeld
<1> SUFFICES ASSUME TableInv({0})
             PROVE  LookupContents = HeldBy(m_values)
  BY DEF FindsWhatIsHeld
<1>1. size = Len(m_values) /\ size \in Nat
  BY Elements DEF size
<1>2. CASE ~Idle
  BY <1>1, <1>2 DEF LookupContents, HeldBy
<1>3. CASE Idle
  <2>1. indexed = size /\ ~dedup
    BY <1>3, WhenIdle
  <2>2. \A p, q \in 1 .. size : m_values[p].key = m_values[q].key => p = q
    BY <2>1 DEF TableInv, KeysUnique
  <2>3. \A k \in Key :
          /\ FindsKey(k) <=> \E p \in 1 .. size : m_values[p].key = k
          /\ FindsKey(k) => /\ IndexOfKey(k) \in 1 .. size
                            /\ m_values[IndexOfKey(k)].key = k
    BY <2>1, Lookup
  <2> DEFINE found == {m_values[IndexOfKey(k)] : k \in {j \in Key : FindsKey(j)}}
  <2>4. found \subseteq HeldBy(m_values)
    BY <1>1, <2>3 DEF HeldBy
  <2>5. ASSUME NEW p \in 1 .. size
        PROVE  m_values[p] \in found
    <3> DEFINE k == m_values[p].key
    <3>1. k \in Key
      BY Elements
    <3>2. FindsKey(k) /\ IndexOfKey(k) \in 1 .. size /\ m_values[IndexOfKey(k)].key = k
      BY <2>3, <3>1
    <3>3. IndexOfKey(k) = p
      BY <2>2, <3>2
    <3> QED
      BY <3>1, <3>2, <3>3
  <2>6. HeldBy(m_values) \subseteq found
    BY <1>1, <2>5 DEF HeldBy
  <2> QED
    BY <1>3, <2>4, <2>6 DEF LookupContents
<1> QED
  BY <1>2, <1>3

(* The same of the state after a step. *)
LEMMA ContentsHeldNext ==
    TableInv({0})' => LookupContents' = HeldBy(m_values')
<1>1. TableInv({0})' => FindsWhatIsHeld'
  BY ContentsHeld, PTL
<1> QED
  BY <1>1 DEF FindsWhatIsHeld, HeldBy

(* While nothing runs, no key is held twice, and keys a probe does not     *)
(* find are not held. *)
LEMMA HeldWhenIdle ==
    ASSUME TableInv({0}), Idle
    PROVE  /\ Len(m_values) = size /\ size \in Nat
           /\ m_values \in Seq(Element)
           /\ dedup = FALSE
           /\ \A p, q \in 1 .. size : m_values[p].key = m_values[q].key => p = q
           /\ \A k \in Key : FindsKey(k) <=> k \in Map!KeysOf(HeldBy(m_values))
<1>1. Len(m_values) = size /\ size \in Nat
  BY Elements DEF size
<1>2. m_values \in Seq(Element) /\ dedup = FALSE /\ indexed = size
  BY WhenIdle
<1>3. \A p, q \in 1 .. size : m_values[p].key = m_values[q].key => p = q
  BY <1>2 DEF TableInv, KeysUnique
<1>4. ASSUME NEW k \in Key
      PROVE  FindsKey(k) <=> k \in Map!KeysOf(HeldBy(m_values))
  <2>1. FindsKey(k) <=> \E p \in 1 .. size : m_values[p].key = k
    BY <1>2, Lookup
  <2> QED
    BY <1>1, <2>1 DEF Map!KeysOf, HeldBy
<1> QED
  BY <1>1, <1>2, <1>3, <1>4

(* A sequence in which no key is twice holds one element of every key. *)
LEMMA UniqueIsFunctional ==
    ASSUME NEW values,
           \A p, q \in 1 .. Len(values) : values[p].key = values[q].key => p = q
    PROVE  Map!Functional(HeldBy(values))
BY DEF Map!Functional, HeldBy

---------------------------------------------------------------------------
(* How the set changes with its sequence *)

LEMMA HeldAfterAppend ==
    ASSUME NEW vs \in Seq(Element), NEW e \in Element, NEW vs2, vs2 = Append(vs, e)
    PROVE  HeldBy(vs2) = HeldBy(vs) \cup {e}
<1>1. /\ Len(vs) \in Nat
      /\ Len(vs2) = Len(vs) + 1
      /\ vs2[Len(vs) + 1] = e
      /\ \A p \in 1 .. Len(vs) : vs2[p] = vs[p]
  BY Appended
<1>2. Len(vs) + 1 \in 1 .. Len(vs2) /\ \A p \in 1 .. Len(vs) : p \in 1 .. Len(vs2)
  BY <1>1
<1>3. HeldBy(vs) \cup {e} \subseteq HeldBy(vs2)
  BY <1>1, <1>2 DEF HeldBy
<1>4. \A p \in 1 .. Len(vs2) : p \in 1 .. Len(vs) \/ p = Len(vs) + 1
  BY <1>1
<1>5. HeldBy(vs2) \subseteq HeldBy(vs) \cup {e}
  BY <1>1, <1>4 DEF HeldBy
<1> QED
  BY <1>3, <1>5

(* The last value closes the hole another leaves: the others stay. *)
LEMMA HeldAfterHole ==
    ASSUME NEW vs \in Seq(Element), NEW p \in 1 .. Len(vs)
    PROVE  /\ Len(CloseHole(vs, p)) = Len(vs) - 1
           /\ HeldBy(CloseHole(vs, p)) = {vs[q] : q \in 1 .. Len(vs) \ {p}}
<1> DEFINE vs2 == CloseHole(vs, p)
           n   == Len(vs)
<1>1. /\ Len(vs2) = n - 1
      /\ \A q \in 1 .. n - 1 : vs2[q] = IF q = p THEN vs[n] ELSE vs[q]
  BY HoleFilled
<1>2. n \in Nat /\ p \in 1 .. n
  OBVIOUS
<1> HIDE DEF vs2, n
<1>3. ASSUME NEW q \in 1 .. n - 1
      PROVE  \E r \in 1 .. n \ {p} : vs2[q] = vs[r]
  <2>1. CASE q = p
    <3>1. n \in 1 .. n \ {p} /\ vs2[q] = vs[n]
      BY <1>1, <1>2, <2>1
    <3> QED
      BY <3>1
  <2>2. CASE q # p
    <3>1. q \in 1 .. n \ {p} /\ vs2[q] = vs[q]
      BY <1>1, <1>2, <2>2
    <3> QED
      BY <3>1
  <2> QED
    BY <2>1, <2>2
<1>4. ASSUME NEW r \in 1 .. n \ {p}
      PROVE  \E q \in 1 .. n - 1 : vs[r] = vs2[q]
  <2>1. CASE r = n
    <3>1. p \in 1 .. n - 1 /\ vs2[p] = vs[r]
      BY <1>1, <1>2, <2>1
    <3> QED
      BY <3>1
  <2>2. CASE r # n
    <3>1. r \in 1 .. n - 1 /\ vs2[r] = vs[r]
      BY <1>1, <1>2, <2>2
    <3> QED
      BY <3>1
  <2> QED
    BY <2>1, <2>2
<1> DEFINE rest == {vs[r] : r \in 1 .. n \ {p}}
<1>5. HeldBy(vs2) \subseteq rest
  BY <1>1, <1>3 DEF HeldBy
<1>6. rest \subseteq HeldBy(vs2)
  BY <1>1, <1>4 DEF HeldBy
<1>7. HeldBy(vs2) = rest
  BY <1>5, <1>6
<1> QED
  BY <1>1, <1>7 DEF vs2, n

(* Where no key is twice, what one key's element leaves behind is all the  *)
(* others. *)
LEMMA HeldWithout ==
    ASSUME NEW vs \in Seq(Element), NEW p \in 1 .. Len(vs),
           \A q, r \in 1 .. Len(vs) : vs[q].key = vs[r].key => q = r
    PROVE  {vs[q] : q \in 1 .. Len(vs) \ {p}} = {e \in HeldBy(vs) : e.key # vs[p].key}
BY DEF HeldBy

(* ... and an element that replaces it joins them. *)
LEMMA HeldAfterUpdate ==
    ASSUME NEW vs \in Seq(Element), NEW p \in 1 .. Len(vs), NEW e \in Element,
           NEW vs2, Len(vs2) = Len(vs), vs2[p] = e,
           \A q \in 1 .. Len(vs) : q # p => vs2[q] = vs[q]
    PROVE  HeldBy(vs2) = {vs[q] : q \in 1 .. Len(vs) \ {p}} \cup {e}
BY DEF HeldBy

---------------------------------------------------------------------------
(* One lemma for what each kind of operation does to the contents.         *)

(* Nothing that keeps the values changes what is found. *)
LEMMA KeepsContents ==
    ASSUME TableInv({0}), TableInv({0})', m_values' = m_values, dedup' = dedup
    PROVE  UNCHANGED Map!absvars
BY ContentsHeld, ContentsHeldNext DEF Map!absvars, FindsWhatIsHeld

(* An absent key that is inserted, with room for it or into a larger array *)
(* that is not filled yet. *)
LEMMA InsertPuts ==
    ASSUME TableInv({0}), TableInv({0})',
           NEW k \in Key, NEW v \in Value,
           InsertPlaces(k, v) \/ InsertGrows(k, v)
    PROVE  Map!Put(k, v)
<1> DEFINE e == [key |-> k, val |-> v]
<1>1. Idle /\ ~FindsKey(k) /\ m_values' = Append(m_values, e) /\ dedup' = dedup
  BY DEF InsertPlaces, InsertGrows
<1>2. m_values \in Seq(Element) /\ dedup = FALSE /\ k \notin Map!KeysOf(HeldBy(m_values))
  BY <1>1, HeldWhenIdle
<1>3. e \in Element
  BY DEF Element
<1> HIDE DEF e
<1>4. HeldBy(m_values') = HeldBy(m_values) \cup {e}
  BY <1>1, <1>2, <1>3, HeldAfterAppend
<1>5. LookupContents = HeldBy(m_values) /\ LookupContents' = HeldBy(m_values')
  BY ContentsHeld, ContentsHeldNext DEF FindsWhatIsHeld
<1> QED
  BY <1>1, <1>2, <1>4, <1>5 DEF Map!Put, e

(* A value assigned to a key that is there, its entry moved home or not. *)
LEMMA AssignAssigns ==
    ASSUME TableInv({0}), TableInv({0})',
           NEW k \in Key, NEW v \in Value, AssignFinds(k, v)
    PROVE  Map!Assign(k, v)
<1> DEFINE i == IndexOfKey(k)
           e == [key |-> k, val |-> v]
<1>1. /\ Idle /\ FindsKey(k) /\ dedup' = dedup
      /\ m_values' = [m_values EXCEPT ![i].val = v]
  BY DEF AssignFinds
<1>2. /\ Len(m_values) = size /\ m_values \in Seq(Element) /\ dedup = FALSE
      /\ \A p, q \in 1 .. size : m_values[p].key = m_values[q].key => p = q
      /\ k \in Map!KeysOf(HeldBy(m_values))
  BY <1>1, HeldWhenIdle
<1>3. i \in 1 .. Len(m_values) /\ m_values[i].key = k
  BY <1>1, <1>2, Lookup, WhenIdle
<1> HIDE DEF i
<1>4. m_values[i] \in Element
  BY <1>2, <1>3
<1>5. /\ Len(m_values') = Len(m_values)
      /\ m_values'[i] = [m_values[i] EXCEPT !.val = v]
      /\ \A q \in 1 .. Len(m_values) : q # i => m_values'[q] = m_values[q]
  BY <1>1, <1>2, <1>3
<1>6. [m_values[i] EXCEPT !.val = v] = e /\ e \in Element
  BY <1>3, <1>4 DEF Element
<1> HIDE DEF e
<1>7. m_values'[i] = e
  BY <1>5, <1>6
<1>8. HeldBy(m_values') = {m_values[q] : q \in 1 .. Len(m_values) \ {i}} \cup {e}
  <2> DEFINE vs2 == m_values'
  <2>1. Len(vs2) = Len(m_values) /\ vs2[i] = e
        /\ \A q \in 1 .. Len(m_values) : q # i => vs2[q] = m_values[q]
    BY <1>5, <1>7
  <2> HIDE DEF vs2
  <2>2. HeldBy(vs2) = {m_values[q] : q \in 1 .. Len(m_values) \ {i}} \cup {e}
    BY <1>2, <1>3, <1>6, <2>1, HeldAfterUpdate
  <2> QED
    BY <2>2 DEF vs2
<1>9. {m_values[q] : q \in 1 .. Len(m_values) \ {i}} = {x \in HeldBy(m_values) : x.key # k}
  BY <1>2, <1>3, HeldWithout
<1>10. LookupContents = HeldBy(m_values) /\ LookupContents' = HeldBy(m_values')
  BY ContentsHeld, ContentsHeldNext DEF FindsWhatIsHeld
<1> QED
  BY <1>1, <1>2, <1>8, <1>9, <1>10 DEF Map!Assign, e

(* An erased value: the last one moves into its hole. *)
LEMMA EraseRemoves ==
    ASSUME TableInv({0}), TableInv({0})', Idle,
           NEW x, NEW p \in 1 .. size, do_erase(x, p)
    PROVE  Map!Remove(m_values[p].key)
<1>1. m_values' = CloseHole(m_values, p) /\ dedup' = dedup
  BY DEF do_erase
<1>2. /\ Len(m_values) = size /\ m_values \in Seq(Element) /\ dedup = FALSE
      /\ \A q, r \in 1 .. size : m_values[q].key = m_values[r].key => q = r
  BY HeldWhenIdle
<1>3. HeldBy(CloseHole(m_values, p)) = {m_values[q] : q \in 1 .. Len(m_values) \ {p}}
  BY <1>2, HeldAfterHole
<1>4. {m_values[q] : q \in 1 .. Len(m_values) \ {p}}
        = {e \in HeldBy(m_values) : e.key # m_values[p].key}
  BY <1>2, HeldWithout
<1>5. LookupContents = HeldBy(m_values) /\ LookupContents' = HeldBy(m_values')
  BY ContentsHeld, ContentsHeldNext DEF FindsWhatIsHeld
<1> QED
  BY <1>1, <1>2, <1>3, <1>4, <1>5 DEF Map!Remove

(* An element that gets another key stays the element it was. *)
LEMMA ReplaceKeyRenames ==
    ASSUME TableInv({0}), TableInv({0})',
           NEW p \in 1 .. size, NEW k \in Key, replace_key(p, k)
    PROVE  Map!Rename(m_values[p].key, k)
<1> DEFINE old == m_values[p].key
           e   == [m_values[p] EXCEPT !.key = k]
<1>1. /\ Idle /\ ~FindsKey(k) /\ dedup' = dedup
      /\ m_values' = [m_values EXCEPT ![p].key = k]
  BY DEF replace_key
<1>2. /\ Len(m_values) = size /\ m_values \in Seq(Element) /\ dedup = FALSE
      /\ \A q, r \in 1 .. size : m_values[q].key = m_values[r].key => q = r
      /\ k \notin Map!KeysOf(HeldBy(m_values))
  BY <1>1, HeldWhenIdle
<1>3. /\ Len(m_values') = Len(m_values)
      /\ m_values'[p] = e
      /\ \A q \in 1 .. Len(m_values) : q # p => m_values'[q] = m_values[q]
  BY <1>1, <1>2
<1> DEFINE Renamed(x) == IF x.key = old THEN [x EXCEPT !.key = k] ELSE x
<1>4. ASSUME NEW q \in 1 .. Len(m_values)
      PROVE  m_values'[q] = Renamed(m_values[q])
  BY <1>2, <1>3
<1> HIDE DEF Renamed
<1>5. HeldBy(m_values') = {Renamed(x) : x \in HeldBy(m_values)}
  BY <1>3, <1>4 DEF HeldBy
<1>6. LookupContents = HeldBy(m_values) /\ LookupContents' = HeldBy(m_values')
  BY ContentsHeld, ContentsHeldNext DEF FindsWhatIsHeld
<1> QED
  BY <1>1, <1>2, <1>5, <1>6 DEF Map!Rename, Renamed

(* A table that is emptied. *)
LEMMA EmptyingClears ==
    ASSUME TableInv({0}), TableInv({0})', Clear \/ ExtractAll
    PROVE  Map!Clear
<1>1. Idle /\ m_values' = <<>> /\ dedup' = dedup
  BY DEF Clear, ExtractAll
<1>2. dedup = FALSE
  BY <1>1, HeldWhenIdle
<1>3. LookupContents' = {}
  BY <1>1, ContentsHeldNext DEF HeldBy
<1> QED
  BY <1>1, <1>2, <1>3 DEF Map!Clear

(* replace() takes its container as it is; unless that is empty, it has    *)
(* duplicates to drop. *)
LEMMA ReplaceLoads ==
    ASSUME TableInv({0}), TableInv({0})',
           NEW c \in Containers, NEW b \in BOOLEAN, replace(c, b)
    PROVE  Map!Load
<1>1. Idle /\ m_values' = c /\ dedup' = (c # <<>>)
  BY DEF replace
<1>2. dedup = FALSE
  BY <1>1, HeldWhenIdle
<1>3. c \in Seq(Element)
  BY TableAssumption
<1>4. LookupContents' = HeldBy(c)
  BY <1>1, ContentsHeldNext
<1>5. HeldBy(c) \subseteq Element
  BY <1>3 DEF HeldBy
<1>6. c # <<>> <=> HeldBy(c) # {}
  BY <1>3 DEF HeldBy
<1> QED
  BY <1>1, <1>2, <1>4, <1>5, <1>6 DEF Map!Load, Map!Element, Element

(* The loop of replace() is over only when no key is held twice. *)
LEMMA OverWhenUnique ==
    ASSUME TableInv({0})', ~dedup'
    PROVE  Map!Functional(HeldBy(m_values'))
<1>1. \A p, q \in 1 .. Len(m_values') :
        m_values'[p].key = m_values'[q].key => p = q
  BY DEF TableInv, KeysUnique, size
<1> DEFINE vs == m_values'
<1> HIDE DEF vs
<1>2. \A p, q \in 1 .. Len(vs) : vs[p].key = vs[q].key => p = q
  BY <1>1 DEF vs
<1>3. Map!Functional(HeldBy(vs))
  BY <1>2, UniqueIsFunctional
<1> QED
  BY <1>3 DEF vs

(* A value it keeps changes nothing but that the loop may be over. *)
LEMMA KeepSettles ==
    ASSUME TableInv({0}), TableInv({0})', ReplaceKeeps
    PROVE  Map!Settle
<1>1. /\ ~Idle /\ dedup /\ dedup' = (indexed + 1 # size)
      /\ m_values' = m_values
  BY DEF ReplaceKeeps, PlaceNext
<1>2. LookupContents = HeldBy(m_values) /\ LookupContents' = HeldBy(m_values)
  BY <1>1, ContentsHeld, ContentsHeldNext DEF FindsWhatIsHeld
<1>3. ~dedup' => Map!Functional(LookupContents')
  BY <1>1, <1>2, OverWhenUnique
<1>4. dedup' \in BOOLEAN
  BY <1>1
<1> QED
  BY <1>1, <1>2, <1>3, <1>4 DEF Map!Settle

(* A duplicate it drops has its key among the values that are kept. *)
LEMMA DropSettles ==
    ASSUME TableInv({0}), TableInv({0})', ReplaceDrops
    PROVE  Map!Settle
<1> DEFINE h    == indexed + 1
           rest == {m_values[q] : q \in 1 .. Len(m_values) \ {h}}
<1>1. /\ ~Idle /\ dedup /\ dedup' = (indexed # size - 1)
      /\ FindsKey(NextValue.key)
      /\ m_values' = CloseHole(m_values, h)
  BY DEF ReplaceDrops
<1>2. /\ size \in Nat /\ size = Len(m_values)
      /\ indexed \in 0 .. size - 1
      /\ m_values \in Seq(Element)
  BY <1>1, LoopRuns DEF TableInv, ScalarsOK, size
<1>3. h \in 1 .. Len(m_values) /\ NextValue = m_values[h]
  BY <1>2 DEF NextValue
<1>4. \E q \in 1 .. Len(m_values) \ {h} : m_values[q].key = m_values[h].key
  <2>1. m_values[h].key \in Key
    BY <1>2, <1>3, Elements
  <2>2. PICK q \in 1 .. indexed : m_values[q].key = m_values[h].key
    BY <1>1, <1>3, <2>1, Lookup
  <2>3. q \in 1 .. Len(m_values) \ {h}
    BY <1>2
  <2> QED
    BY <2>2, <2>3
<1>5. LookupContents = HeldBy(m_values) /\ LookupContents' = rest
  BY <1>1, <1>2, <1>3, HeldAfterHole, ContentsHeld, ContentsHeldNext DEF FindsWhatIsHeld
<1>6. ~dedup' => Map!Functional(LookupContents')
  BY OverWhenUnique, ContentsHeldNext
<1> HIDE DEF h
<1>7. rest \subseteq HeldBy(m_values)
  BY DEF HeldBy
<1>8. Map!KeysOf(rest) = Map!KeysOf(HeldBy(m_values))
  BY <1>3, <1>4 DEF Map!KeysOf, HeldBy
<1> HIDE DEF rest
<1>9. dedup' \in BOOLEAN
  BY <1>1
<1> QED
  BY <1>1, <1>5, <1>6, <1>7, <1>8, <1>9 DEF Map!Settle

---------------------------------------------------------------------------
(* The refinement *)

(* A table starts as an empty map. *)
LEMMA InitIsEmpty ==
    Init => Map!Init
<1> SUFFICES ASSUME Init
             PROVE  Map!Init
  OBVIOUS
<1>1. TableInv({0})
  BY InitInv
<1>2. m_values = <<>> /\ dedup = FALSE
  BY DEF Init
<1>3. LookupContents = {}
  BY <1>1, <1>2, ContentsHeld DEF FindsWhatIsHeld, HeldBy
<1> QED
  BY <1>2, <1>3 DEF Map!Init

(* Every step of the table is one of the map, or the map stays. *)
LEMMA NextIsMapStep ==
    TableInv({0}) /\ TableInv({0})' /\ [Next]_vars => [Map!Next]_(Map!absvars)
<1> SUFFICES ASSUME TableInv({0}), TableInv({0})', [Next]_vars
             PROVE  Map!Next \/ UNCHANGED Map!absvars
  OBVIOUS
<1>1. ASSUME NEW k \in Key, NEW v \in Value, InsertPlaces(k, v) \/ InsertGrows(k, v)
      PROVE  Map!Next
  BY <1>1, InsertPuts DEF Map!Next
<1>2. ASSUME NEW k \in Key, NEW v \in Value, AssignFinds(k, v)
      PROVE  Map!Next
  BY <1>2, AssignAssigns DEF Map!Next
<1>3. ASSUME NEW k \in Key, InsertThrows(k) \/ InsertFinds(k)
      PROVE  UNCHANGED Map!absvars
  BY <1>3, KeepsContents DEF InsertThrows, InsertFinds
<1>4. ASSUME NEW k \in Key, EraseKey(k)
      PROVE  Map!Next
  <2>1. Idle /\ FindsKey(k) /\ do_erase(SlotOfKey(k), IndexOfKey(k))
    BY <1>4 DEF EraseKey
  <2>2. IndexOfKey(k) \in 1 .. size /\ m_values[IndexOfKey(k)].key = k
    BY <2>1, Lookup, WhenIdle
  <2>3. Map!Remove(k)
    BY <2>1, <2>2, EraseRemoves
  <2> QED
    BY <2>3 DEF Map!Next
<1>5. ASSUME NEW p \in 1 .. size, EraseAt(p)
      PROVE  Map!Next
  <2>1. m_values[p].key \in Key
    BY Elements
  <2>2. Map!Remove(m_values[p].key)
    BY <1>5, EraseRemoves DEF EraseAt
  <2> QED
    BY <2>1, <2>2 DEF Map!Next
<1>6. ASSUME NEW p \in 1 .. size, NEW k \in Key, replace_key(p, k)
      PROVE  Map!Next
  <2>1. m_values[p].key \in Key
    BY Elements
  <2>2. Map!Rename(m_values[p].key, k)
    BY <1>6, ReplaceKeyRenames
  <2> QED
    BY <2>1, <2>2 DEF Map!Next
<1>7. CASE Clear \/ ExtractAll
  BY <1>7, EmptyingClears DEF Map!Next
<1>8. CASE \/ \E ml \in LoadFactors : max_load_factor(ml)
           \/ \E n \in Sizes : rehash(n) \/ reserve(n)
           \/ UNCHANGED vars
  BY <1>8, KeepsContents DEF max_load_factor, rehash, reserve, vars
<1>9. ASSUME NEW c \in Containers, NEW b \in BOOLEAN, replace(c, b)
      PROVE  Map!Next
  BY <1>9, ReplaceLoads DEF Map!Next
<1>10. CASE FillStep
  BY <1>10, KeepsContents DEF FillStep, PlaceNext
<1>11. CASE ReplaceKeeps \/ ReplaceDrops
  BY <1>11, KeepSettles, DropSettles DEF Map!Next
<1> QED
  BY <1>1, <1>2, <1>3, <1>4, <1>5, <1>6, <1>7, <1>8, <1>9, <1>10, <1>11
  DEF Next, Loop

(* The table is a map: whatever the hashes collide in, wherever an array   *)
(* is replaced or an operation throws, what callers find is a set of       *)
(* elements that changes only as the contract of the operation says.       *)
THEOREM TableIsMap == Spec => ImplementsMap
<1>1. Spec => []TableInv({0})
  BY TableInvariant
<1> QED
  BY <1>1, InitIsEmpty, NextIsMapStep, PTL DEF Spec, ImplementsMap, Map!Spec

=============================================================================
