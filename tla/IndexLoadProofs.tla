-------------------------- MODULE IndexLoadProofs --------------------------
(***************************************************************************)
(* What the checks on bytes from outside are worth, for every content of   *)
(* those bytes, every hash and every size of group, array and counter.     *)
(*                                                                         *)
(* A table whose bytes passed the check may hold wrong fingerprints, wrong *)
(* counters and keys twice, so nothing of the invariant of a table that    *)
(* was built here is given, but that the index points at every value once. *)
(* That is enough for every operation to stay inside the table and to come *)
(* to its end.  A table that verify(full) has confirmed with no counter    *)
(* too low satisfies TableInv(Nat), the whole invariant but for counters   *)
(* that may be too high.                                                   *)
(***************************************************************************)
EXTENDS IndexLoad, DenseTableProofs

---------------------------------------------------------------------------
(* Operations on an index of which only that is known                      *)

(* A value is placed. *)
LEMMA OncePlaced ==
    ASSUME NEW ix, NEW s, NEW P, OnceFor(ix, s, P), HasRoom(ix),
           NEW k \in Key, NEW p \in Nat \ P
    PROVE  /\ OnceFor(place_group(ix, s, k, p), s, P \cup {p})
           /\ place_group(ix, s, k, p).size = ix.size
<1> DEFINE nx == place_group(ix, s, k, p)
           fp == Fingerprint(k)
<1>1. /\ s \in ArrayShifts /\ ix.size = calc_num_groups(s) /\ IndexType(ix)
      /\ P \subseteq Nat
  BY DEF OnceFor
<1>2. fp \in Nat \ {0}
  BY FingerprintAssumption
<1>3. PICK x \in Slots(ix) :
        /\ x \notin Occupied(ix)
        /\ nx = [size     |-> ix.size,
                 slot     |-> [ix.slot EXCEPT ![x] = [fp |-> fp, idx |-> p]],
                 overflow |-> Counted(ix, Home(k, s), CounterOf(fp), x[1])]
  BY <1>1, PlacedParts
<1> DEFINE sl == [ix.slot EXCEPT ![x] = [fp |-> fp, idx |-> p]]
           ov == Counted(ix, Home(k, s), CounterOf(fp), x[1])
<1>4. /\ ix.slot \in [Slots(ix) -> [fp : Nat, idx : Nat]]
      /\ ix.overflow \in [Groups(ix) \X Counter -> 0 .. MaxCounter]
      /\ ix.size \in Nat
  BY <1>1 DEF IndexType
<1>5. ov \in [Groups(ix) \X Counter -> 0 .. MaxCounter]
  BY <1>4, CounterSteps DEF Counted
<1>6. /\ sl \in [Slots(ix) -> [fp : Nat, idx : Nat]]
      /\ sl[x] = [fp |-> fp, idx |-> p]
      /\ \A y \in Slots(ix) : y # x => sl[y] = ix.slot[y]
  BY <1>2, <1>4
<1> HIDE DEF nx, sl, ov, fp
<1>7. nx.size = ix.size /\ nx.slot = sl /\ nx.overflow = ov
  BY <1>3 DEF sl, ov
<1>8. Slots(nx) = Slots(ix) /\ Groups(nx) = Groups(ix)
  BY <1>7 DEF Slots, Groups
<1>9. IndexType(nx)
  <2>1. nx = [size |-> ix.size, slot |-> sl, overflow |-> ov]
    BY <1>3 DEF sl, ov
  <2> QED
    BY <1>4, <1>5, <1>6, <1>7, <1>8, <2>1 DEF IndexType
<1>10. /\ Occupied(nx) = Occupied(ix) \cup {x}
       /\ \A y \in Occupied(ix) : nx.slot[y] = ix.slot[y] /\ y # x
       /\ nx.slot[x].idx = p
  BY <1>2, <1>3, <1>6, <1>7, <1>8 DEF Occupied
<1>11. {nx.slot[y].idx : y \in Occupied(nx)} = P \cup {p}
  BY <1>10 DEF OnceFor
<1>12. \A y, z \in Occupied(nx) : nx.slot[y].idx = nx.slot[z].idx => y = z
  BY <1>10 DEF OnceFor
<1> QED
  BY <1>1, <1>7, <1>9, <1>11, <1>12 DEF OnceFor, nx

(* A slot is freed. *)
LEMMA OnceErased ==
    ASSUME NEW ix, NEW s, NEW P, OnceFor(ix, s, P), NEW k, NEW x \in Occupied(ix)
    PROVE  /\ OnceFor(erase_group_slot(ix, s, k, x), s, P \ {ix.slot[x].idx})
           /\ erase_group_slot(ix, s, k, x).size = ix.size
<1> DEFINE nx == erase_group_slot(ix, s, k, x)
           sl == [ix.slot EXCEPT ![x] = FreeSlot]
           ov == uncount(ix, Home(k, s), CounterOf(Fingerprint(k)), x[1])
<1>1. /\ s \in ArrayShifts /\ ix.size = calc_num_groups(s) /\ IndexType(ix)
      /\ P \subseteq Nat
  BY DEF OnceFor
<1>2. x \in Slots(ix) /\ ix.slot[x].fp # 0
  BY DEF Occupied
<1>3. nx = [size |-> ix.size, slot |-> sl, overflow |-> ov]
  BY <1>1, <1>2, ErasedParts
<1>4. /\ ix.slot \in [Slots(ix) -> [fp : Nat, idx : Nat]]
      /\ ix.overflow \in [Groups(ix) \X Counter -> 0 .. MaxCounter]
      /\ ix.size \in Nat
  BY <1>1 DEF IndexType
<1>5. ov \in [Groups(ix) \X Counter -> 0 .. MaxCounter]
  BY <1>4, CounterSteps DEF uncount
<1>6. /\ sl \in [Slots(ix) -> [fp : Nat, idx : Nat]]
      /\ sl[x].fp = 0
      /\ \A y \in Slots(ix) : y # x => sl[y] = ix.slot[y]
  BY <1>2, <1>4 DEF FreeSlot
<1> HIDE DEF nx, sl, ov
<1>7. nx.size = ix.size /\ nx.slot = sl /\ nx.overflow = ov
  BY <1>3
<1>8. Slots(nx) = Slots(ix) /\ Groups(nx) = Groups(ix)
  BY <1>7 DEF Slots, Groups
<1>9. IndexType(nx)
  BY <1>3, <1>4, <1>5, <1>6, <1>7, <1>8 DEF IndexType
<1>10. /\ Occupied(nx) = Occupied(ix) \ {x}
       /\ \A y \in Occupied(nx) : nx.slot[y] = ix.slot[y]
  BY <1>2, <1>6, <1>7, <1>8 DEF Occupied
<1>11. {nx.slot[y].idx : y \in Occupied(nx)} = P \ {ix.slot[x].idx}
  BY <1>10 DEF OnceFor
<1>12. \A y, z \in Occupied(nx) : nx.slot[y].idx = nx.slot[z].idx => y = z
  BY <1>10 DEF OnceFor
<1> QED
  BY <1>1, <1>7, <1>9, <1>11, <1>12 DEF OnceFor, nx

(* An entry that was found moves home, or stays. *)
LEMMA OnceMovedHome ==
    ASSUME NEW ix, NEW s, NEW P, OnceFor(ix, s, P), NEW k \in Key,
           NEW x \in Occupied(ix)
    PROVE  /\ OnceFor(move_home(ix, s, k, x), s, P)
           /\ move_home(ix, s, k, x).size = ix.size
<1> DEFINE nx == move_home(ix, s, k, x)
           h  == Home(k, s)
<1>1. /\ s \in ArrayShifts /\ ix.size = calc_num_groups(s) /\ IndexType(ix)
      /\ P \subseteq Nat
  BY DEF OnceFor
<1>2. x \in Slots(ix) /\ ix.slot[x].fp # 0
  BY DEF Occupied
<1>3. h \in Groups(ix)
  BY <1>1, HomeAssumption DEF Groups
<1>4. CASE nx = ix
  BY <1>4
<1>5. CASE nx # ix
  <2>1. PICK lane \in Lane :
          LET to == <<h, lane>>
          IN  /\ to \in Slots(ix) /\ to \notin Occupied(ix)
              /\ nx = [size     |-> ix.size,
                       slot     |-> [ix.slot EXCEPT ![to] = ix.slot[x],
                                                    ![x] = FreeSlot],
                       overflow |-> uncount(ix, h, CounterOf(Fingerprint(k)), x[1])]
    BY <1>1, <1>2, <1>3, <1>5, MovedParts
  <2> DEFINE to == <<h, lane>>
             sl == [ix.slot EXCEPT ![to] = ix.slot[x], ![x] = FreeSlot]
             ov == uncount(ix, h, CounterOf(Fingerprint(k)), x[1])
  <2>2. to \in Slots(ix) /\ to \notin Occupied(ix) /\ to # x
    BY <2>1
  <2>3. nx = [size |-> ix.size, slot |-> sl, overflow |-> ov]
    BY <2>1
  <2>4. /\ ix.slot \in [Slots(ix) -> [fp : Nat, idx : Nat]]
        /\ ix.overflow \in [Groups(ix) \X Counter -> 0 .. MaxCounter]
        /\ ix.size \in Nat
    BY <1>1 DEF IndexType
  <2>5. ov \in [Groups(ix) \X Counter -> 0 .. MaxCounter]
    BY <2>4, CounterSteps DEF uncount
  <2> HIDE DEF nx, h, ov, to
  <2>6. /\ sl \in [Slots(ix) -> [fp : Nat, idx : Nat]]
        /\ sl[x].fp = 0 /\ sl[to] = ix.slot[x]
        /\ \A y \in Slots(ix) : y # x /\ y # to => sl[y] = ix.slot[y]
    BY <1>2, <2>2, <2>4 DEF FreeSlot
  <2> HIDE DEF sl
  <2>7. nx.size = ix.size /\ nx.slot = sl /\ nx.overflow = ov
    BY <2>3
  <2>8. Slots(nx) = Slots(ix) /\ Groups(nx) = Groups(ix)
    BY <2>7 DEF Slots, Groups
  <2>9. IndexType(nx)
    BY <2>3, <2>4, <2>5, <2>6, <2>7, <2>8 DEF IndexType
  <2>10. Occupied(nx) = (Occupied(ix) \ {x}) \cup {to}
    BY <1>2, <2>2, <2>6, <2>7, <2>8 DEF Occupied
  <2>11. /\ nx.slot[to].idx = ix.slot[x].idx
         /\ \A y \in Occupied(ix) \ {x} : nx.slot[y].idx = ix.slot[y].idx
    BY <2>2, <2>6, <2>7 DEF Occupied
  <2>12. {nx.slot[y].idx : y \in Occupied(nx)} = P
    <3>1. {nx.slot[y].idx : y \in Occupied(nx)}
            = {ix.slot[y].idx : y \in Occupied(ix)}
      BY <2>10, <2>11
    <3> QED
      BY <3>1 DEF OnceFor
  <2>13. \A y, z \in Occupied(nx) : nx.slot[y].idx = nx.slot[z].idx => y = z
    BY <2>10, <2>11 DEF OnceFor
  <2> QED
    BY <1>1, <2>7, <2>9, <2>12, <2>13 DEF OnceFor, nx
<1> QED
  BY <1>4, <1>5

(* If a slot with the right fingerprint points at a value, there is one    *)
(* such slot, which is found. *)
LEMMA OnceFoundByValue ==
    ASSUME NEW ix, NEW s, NEW P, OnceFor(ix, s, P), NEW k \in Key, NEW q,
           PointsAt(ix, k, q) # {}
    PROVE  /\ slot_of_value(ix, s, k, q) \in Occupied(ix)
           /\ ix.slot[slot_of_value(ix, s, k, q)].idx = q
<1>1. /\ s \in ArrayShifts /\ ix.size = calc_num_groups(s) /\ IndexType(ix)
  BY DEF OnceFor
<1>2. Fingerprint(k) # 0
  BY FingerprintAssumption
<1>3. PICK x : x \in PointsAt(ix, k, q)
  OBVIOUS
<1>4. \A y \in PointsAt(ix, k, q) : y \in Occupied(ix) /\ ix.slot[y].idx = q
  BY <1>2 DEF PointsAt, Occupied
<1>5. PointsAt(ix, k, q) = {x}
  BY <1>3, <1>4 DEF OnceFor
<1>6. /\ ~Passes(ix, Home(k, s), x[1], x[1])
      /\ x[2] <= x[2]
  <2>1. x[2] \in Nat /\ x[1] \in Groups(ix)
    BY <1>3, SizesAssumption DEF PointsAt, Slots, Lane
  <2>2. Home(k, s) \in Groups(ix)
    BY <1>1, HomeAssumption DEF Groups
  <2> QED
    BY <1>1, <2>1, <2>2, PassesOrder
<1>7. slot_of_value(ix, s, k, q) = x
  BY <1>5, <1>6 DEF slot_of_value
<1> QED
  BY <1>3, <1>4, <1>7

(* Its slot is repointed. *)
LEMMA OnceRepointed ==
    ASSUME NEW ix, NEW s, NEW P, OnceFor(ix, s, P), NEW k \in Key, NEW q \in P,
           PointsAt(ix, k, q) # {}, NEW p \in Nat \ P
    PROVE  /\ OnceFor(repoint_value(ix, s, k, q, p), s, (P \ {q}) \cup {p})
           /\ repoint_value(ix, s, k, q, p).size = ix.size
<1> DEFINE nx == repoint_value(ix, s, k, q, p)
           x  == slot_of_value(ix, s, k, q)
           sl == [ix.slot EXCEPT ![x].idx = p]
<1>1. /\ s \in ArrayShifts /\ ix.size = calc_num_groups(s) /\ IndexType(ix)
      /\ P \subseteq Nat
  BY DEF OnceFor
<1>2. x \in Occupied(ix) /\ x \in Slots(ix) /\ ix.slot[x].idx = q
  BY OnceFoundByValue DEF Occupied
<1>3. nx = [ix EXCEPT !.slot = sl]
  BY DEF repoint_value
<1>4. /\ ix.slot \in [Slots(ix) -> [fp : Nat, idx : Nat]]
      /\ ix.overflow \in [Groups(ix) \X Counter -> 0 .. MaxCounter]
      /\ ix.size \in Nat
  BY <1>1 DEF IndexType
<1> HIDE DEF x
<1>5. /\ sl \in [Slots(ix) -> [fp : Nat, idx : Nat]]
      /\ \A y \in Slots(ix) : /\ sl[y].fp = ix.slot[y].fp
                              /\ sl[y].idx = IF y = x THEN p ELSE ix.slot[y].idx
  BY <1>4
<1> HIDE DEF sl, nx
<1>6. nx = [size |-> ix.size, slot |-> sl, overflow |-> ix.overflow]
  BY <1>1, <1>3 DEF IndexType
<1>7. nx.size = ix.size /\ nx.slot = sl /\ nx.overflow = ix.overflow
  BY <1>6
<1>8. Slots(nx) = Slots(ix) /\ Groups(nx) = Groups(ix)
  BY <1>7 DEF Slots, Groups
<1>9. IndexType(nx)
  BY <1>4, <1>5, <1>6, <1>7, <1>8 DEF IndexType
<1>10. /\ Occupied(nx) = Occupied(ix)
       /\ \A y \in Occupied(ix) :
            nx.slot[y].idx = IF y = x THEN p ELSE ix.slot[y].idx
  BY <1>5, <1>7, <1>8 DEF Occupied
<1>11. {nx.slot[y].idx : y \in Occupied(nx)} = (P \ {q}) \cup {p}
  BY <1>2, <1>10 DEF OnceFor
<1>12. \A y, z \in Occupied(nx) : nx.slot[y].idx = nx.slot[z].idx => y = z
  BY <1>2, <1>10 DEF OnceFor
<1> QED
  BY <1>1, <1>7, <1>9, <1>11, <1>12 DEF OnceFor, nx

(* As many slots are full as there are positions, and no more than there   *)
(* are slots. *)
LEMMA OnceCounts ==
    ASSUME NEW ix, NEW s, NEW n \in Nat, OnceFor(ix, s, 1 .. n)
    PROVE  Cardinality(Occupied(ix)) = n
<1>1. IsFiniteSet(Occupied(ix))
  BY SlotsFinite DEF OnceFor, IndexType
<1> DEFINE f == [x \in Occupied(ix) |-> ix.slot[x].idx]
<1>2. f \in [Occupied(ix) -> 1 .. n]
  BY DEF OnceFor
<1>3. \A x, y \in Occupied(ix) : f[x] = f[y] => x = y
  BY DEF OnceFor
<1>4. \A p \in 1 .. n : \E x \in Occupied(ix) : f[x] = p
  BY DEF OnceFor
<1> HIDE DEF f
<1>5. f \in Bijection(Occupied(ix), 1 .. n)
  BY <1>2, <1>3, <1>4, Fun_IsBij
<1>6. IsFiniteSet(1 .. n) /\ Cardinality(1 .. n) = n
  BY FS_Interval
<1> QED
  BY <1>1, <1>5, <1>6, FS_Bijection DEF ExistsBijection

(* What check_index and check_index_unique establish. *)
LEMMA CheckedIsOnce ==
    ASSUME NEW s \in ArrayShifts, NEW ix, ix.size = calc_num_groups(s), IndexType(ix),
           NEW n \in Nat, check_index_unique(ix, n)
    PROVE  OnceFor(ix, s, 1 .. n) /\ n <= ix.size * SlotsPerGroup
<1>1. /\ ix.size \in Nat
      /\ IsFiniteSet(Slots(ix)) /\ Cardinality(Slots(ix)) = ix.size * SlotsPerGroup
      /\ IsFiniteSet(Occupied(ix))
  BY SlotsFinite DEF IndexType
<1>2. /\ \A x \in Occupied(ix) : ix.slot[x].idx \in 1 .. n
      /\ Cardinality(Occupied(ix)) = n
      /\ \A x, y \in Occupied(ix) : ix.slot[x].idx = ix.slot[y].idx => x = y
  BY DEF check_index_unique, check_index
<1> DEFINE f == [x \in Occupied(ix) |-> ix.slot[x].idx]
           R == {ix.slot[x].idx : x \in Occupied(ix)}
<1>3. f \in [Occupied(ix) -> R]
  OBVIOUS
<1>4. \A x, y \in Occupied(ix) : f[x] = f[y] => x = y
  BY <1>2
<1>5. \A p \in R : \E x \in Occupied(ix) : f[x] = p
  OBVIOUS
<1>6. R \subseteq 1 .. n
  BY <1>2
<1>7. IsFiniteSet(1 .. n) /\ Cardinality(1 .. n) = n
  BY FS_Interval
<1>8. R = 1 .. n
  <2> HIDE DEF f, R
  <2>1. f \in Bijection(Occupied(ix), R)
    BY <1>3, <1>4, <1>5, Fun_IsBij
  <2>2. Cardinality(R) = n
    BY <1>1, <1>2, <2>1, FS_Bijection DEF ExistsBijection
  <2> QED
    BY <1>6, <1>7, <2>2, FS_Subset
<1>9. n <= ix.size * SlotsPerGroup
  <2>1. Occupied(ix) \subseteq Slots(ix)
    BY DEF Occupied
  <2> QED
    BY <1>1, <1>2, <2>1, FS_Subset
<1>10. 1 .. n \subseteq Nat
  OBVIOUS
<1> QED
  BY <1>2, <1>8, <1>9, <1>10 DEF OnceFor

(* Whatever an index holds, a probe ends at a full slot with the           *)
(* fingerprint of the key, which points at a value with the key. *)
LEMMA ProbeHits ==
    ASSUME NEW s \in ArrayShifts, NEW ix, ix.size = calc_num_groups(s),
           NEW values, NEW k \in Key, Found(ix, s, values, k)
    PROVE  LET x == probe(ix, s, values, k)
           IN  /\ x \in Occupied(ix)
               /\ ix.slot[x].fp = Fingerprint(k)
               /\ values[ix.slot[x].idx].key = k
<1> DEFINE d == CHOOSE e \in FoundAt(ix, s, values, k) : TRUE
           h == Home(k, s)
           g == Visit(h, d, ix.size)
           H == Hits(ix, s, values, k, d)
<1>1. d \in FoundAt(ix, s, values, k)
  BY DEF Found
<1>2. probe(ix, s, values, k) = <<g, first_lane(H)>>
  BY DEF probe
<1> HIDE DEF d
<1>3. d \in Groups(ix) /\ H # {}
  BY <1>1 DEF FoundAt
<1>4. H = {lane \in Lane : /\ ix.slot[<<g, lane>>].fp = Fingerprint(k)
                           /\ values[ix.slot[<<g, lane>>].idx].key = k}
  BY DEF Hits, match_fingerprint
<1>5. g \in Groups(ix)
  <2>1. h \in 0 .. ix.size - 1
    BY HomeAssumption
  <2> HIDE DEF h
  <2> QED
    BY <1>3, <2>1, ProbeOrder DEF Groups
<1> DEFINE lane == first_lane(H)
<1> HIDE DEF H, g
<1>6. lane \in H
  BY <1>3, <1>4, FirstLaneIsOne
<1>7. Fingerprint(k) # 0
  BY FingerprintAssumption
<1> HIDE DEF lane
<1>8. /\ lane \in Lane
      /\ ix.slot[<<g, lane>>].fp = Fingerprint(k)
      /\ values[ix.slot[<<g, lane>>].idx].key = k
  BY <1>4, <1>6
<1>9. <<g, lane>> \in Occupied(ix)
  BY <1>5, <1>7, <1>8 DEF Occupied, Slots
<1> QED
  BY <1>2, <1>8, <1>9 DEF lane

---------------------------------------------------------------------------
(* Lookups in an array of which only the size is known to be right         *)

Readable == /\ m_shifts \in ArrayShifts
            /\ Data(m_buckets).size = calc_num_groups(m_shifts)

LEMMA ReadableLookup ==
    ASSUME Readable, NEW k \in Key, FindsKey(k)
    PROVE  /\ m_buckets.size # 0
           /\ SlotOfKey(k) \in Occupied(m_buckets)
           /\ m_buckets.slot[SlotOfKey(k)].fp = Fingerprint(k)
           /\ m_values[IndexOfKey(k)].key = k
<1> DEFINE ix == Data(m_buckets)
           x  == SlotOfKey(k)
<1>1. /\ x \in Occupied(ix)
      /\ ix.slot[x].fp = Fingerprint(k)
      /\ m_values[ix.slot[x].idx].key = k
  BY ProbeHits DEF Readable, FindsKey, SlotOfKey
<1>2. m_buckets.size # 0
  <2> SUFFICES ASSUME m_buckets.size = 0
               PROVE  FALSE
    OBVIOUS
  <2>1. ix = EmptyBlocks(calc_num_groups(InitialShifts))
    BY DEF Data
  <2>2. calc_num_groups(InitialShifts) \in Nat
    BY GroupsAssumption
  <2> QED
    BY <1>1, <2>1, <2>2, EmptyBlocksType
<1>3. ix = m_buckets
  BY <1>2 DEF Data
<1> QED
  BY <1>1, <1>2, <1>3 DEF IndexOfKey

---------------------------------------------------------------------------
(* A table of which only that is known                                     *)

Sound ==
    /\ ScalarsOK /\ dedup = FALSE
    /\ SizedOK
    /\ OnceFor(Data(m_buckets), m_shifts, 1 .. indexed)

(* A table with the whole invariant is one, between the steps of replace(). *)
LEMMA TableIsSound ==
    ASSUME NEW slack, TableInv(slack), dedup = FALSE
    PROVE  Sound
BY ExactIsOnce DEF TableInv, IndexOK, Sound

(* Its values and its array. *)
LEMMA SoundSizes ==
    ASSUME Sound
    PROVE  /\ m_values \in Seq(Element)
           /\ size \in Nat /\ indexed \in 0 .. size
           /\ m_max_load_factor \in 0 .. 100
           /\ m_shifts \in ArrayShifts
           /\ WritableBlocks.size \in Nat \ {0}
           /\ OnceFor(WritableBlocks, m_shifts, 1 .. indexed)
           /\ calc_num_buckets(m_shifts) = WritableBlocks.size * SlotsPerGroup
           /\ calc_num_buckets(m_shifts) \in Nat
           /\ size <= calc_num_buckets(m_shifts)
           /\ WritableCapacity \in 0 .. calc_num_buckets(m_shifts)
           /\ calc_num_buckets(m_shifts) = MaxBucketCount =>
                WritableCapacity = MaxBucketCount
           /\ bucket_count \in Nat /\ bucket_count <= MaxBucketCount
           /\ size <= bucket_count
           /\ m_max_bucket_capacity \in 0 .. bucket_count
<1>1. /\ m_values \in Seq(Element) /\ m_max_load_factor \in 0 .. 100
      /\ indexed \in 0 .. size /\ size \in Nat
  BY DEF Sound, ScalarsOK, size
<1>2. /\ OnceFor(WritableBlocks, m_shifts, 1 .. indexed)
      /\ m_shifts \in ArrayShifts
      /\ WritableBlocks.size = calc_num_groups(m_shifts)
  BY DEF Sound, WritableBlocks, OnceFor
<1>3. /\ WritableBlocks.size \in Nat \ {0}
      /\ calc_num_buckets(m_shifts) = WritableBlocks.size * SlotsPerGroup
      /\ calc_num_buckets(m_shifts) \in Nat
      /\ calc_num_buckets(m_shifts) <= MaxBucketCount
  BY <1>2, ArraySizes
<1>4. CASE m_buckets.size = 0
  <2>1. size = 0 /\ m_max_bucket_capacity = 0
    BY <1>4 DEF Sound, SizedOK, size
  <2>2. WritableCapacity = capacity_for(calc_num_buckets(m_shifts), m_max_load_factor)
    BY <1>4 DEF WritableCapacity
  <2>3. /\ WritableCapacity \in 0 .. calc_num_buckets(m_shifts)
        /\ calc_num_buckets(m_shifts) = MaxBucketCount =>
             WritableCapacity = MaxBucketCount
    BY <1>1, <1>3, <2>2, CapacityFits
  <2>4. bucket_count = 0
    BY <1>4, SizesAssumption DEF bucket_count
  <2>5. MaxBucketCount \in Nat
    BY SizesAssumption
  <2> QED
    BY <1>1, <1>2, <1>3, <2>1, <2>3, <2>4, <2>5
<1>5. CASE m_buckets.size # 0
  <2>1. WritableBlocks = m_buckets /\ WritableCapacity = m_max_bucket_capacity
    BY <1>5 DEF WritableBlocks, WritableCapacity, Data
  <2>2. bucket_count = calc_num_buckets(m_shifts)
    BY <1>3, <2>1 DEF bucket_count
  <2>3. /\ size <= bucket_count
        /\ m_max_bucket_capacity \in 0 .. bucket_count
        /\ bucket_count = MaxBucketCount => m_max_bucket_capacity = MaxBucketCount
    BY <1>5 DEF Sound, SizedOK
  <2> QED
    BY <1>1, <1>2, <1>3, <2>1, <2>2, <2>3
<1> QED
  BY <1>4, <1>5

(* What a lookup that finds says. *)
LEMMA SoundLookup ==
    ASSUME Sound, NEW k \in Key, FindsKey(k)
    PROVE  /\ m_buckets.size # 0
           /\ SlotOfKey(k) \in Occupied(m_buckets)
           /\ IndexOfKey(k) \in 1 .. indexed
           /\ m_values[IndexOfKey(k)].key = k
<1>1. /\ OnceFor(Data(m_buckets), m_shifts, 1 .. indexed)
      /\ Readable
  BY DEF Sound, OnceFor, Readable
<1>2. /\ m_buckets.size # 0
      /\ SlotOfKey(k) \in Occupied(m_buckets)
      /\ m_values[IndexOfKey(k)].key = k
  BY <1>1, ReadableLookup
<1> QED
  BY <1>1, <1>2 DEF IndexOfKey, OnceFor, Data

(* With fewer values indexed than there are slots, some slot is free. *)
LEMMA SoundHasRoom ==
    ASSUME Sound, indexed < calc_num_buckets(m_shifts)
    PROVE  HasRoom(WritableBlocks)
<1>1. /\ OnceFor(WritableBlocks, m_shifts, 1 .. indexed)
      /\ indexed < WritableBlocks.size * SlotsPerGroup
      /\ indexed \in Nat
  BY SoundSizes
<1> QED
  BY <1>1, RoomWhileFewer

---------------------------------------------------------------------------
(* Every operation keeps it so                                             *)

(* An operation that writes the array there is, or the first one. *)
LEMMA SoundWrites ==
    ASSUME Sound,
           m_values' \in Seq(Element), size' <= calc_num_buckets(m_shifts),
           indexed' \in 0 .. size',
           m_buckets'.size = WritableBlocks.size,
           OnceFor(m_buckets', m_shifts, 1 .. indexed'),
           m_max_bucket_capacity' = WritableCapacity, m_shifts' = m_shifts,
           m_max_load_factor' = m_max_load_factor, dedup' = dedup
    PROVE  Sound'
<1>1. /\ m_max_load_factor \in 0 .. 100
      /\ WritableBlocks.size \in Nat \ {0}
      /\ calc_num_buckets(m_shifts) = WritableBlocks.size * SlotsPerGroup
      /\ WritableCapacity \in 0 .. calc_num_buckets(m_shifts)
      /\ calc_num_buckets(m_shifts) = MaxBucketCount =>
           WritableCapacity = MaxBucketCount
  BY SoundSizes
<1>2. bucket_count' = calc_num_buckets(m_shifts)
  BY <1>1 DEF bucket_count
<1>3. SizedOK'
  BY <1>1, <1>2 DEF SizedOK
<1>4. dedup' = FALSE
  BY DEF Sound
<1>5. ScalarsOK'
  BY <1>1, <1>4 DEF ScalarsOK
<1>6. Data(m_buckets)' = m_buckets'
  BY <1>1 DEF Data
<1> QED
  BY <1>3, <1>4, <1>5, <1>6 DEF Sound

(* An operation that empties the index or makes a new one. *)
LEMMA SoundRestarts ==
    ASSUME Sound, SizedOK', IndexOK({0})', m_values' \in Seq(Element), indexed' = 0,
           m_max_load_factor' = m_max_load_factor, dedup' = dedup
    PROVE  Sound'
<1>1. m_max_load_factor \in 0 .. 100 /\ dedup = FALSE
  BY SoundSizes DEF Sound
<1>2. size' \in Nat
  BY DEF size
<1>3. ScalarsOK'
  <2>1. m_max_load_factor' \in 0 .. 100 /\ indexed' \in 0 .. size'
    BY <1>1, <1>2
  <2>2. dedup' \in BOOLEAN /\ ~dedup'
    BY <1>1
  <2> QED
    BY <2>1, <2>2 DEF ScalarsOK
<1>4. OnceFor(Data(m_buckets)', m_shifts', 1 .. indexed')
  BY ExactIsOnce DEF IndexOK
<1> QED
  BY <1>1, <1>3, <1>4 DEF Sound

(* A value that is absent, or that no lookup finds, is appended. *)
LEMMA SoundInsertPlaces ==
    ASSUME Sound, NEW k \in Key, NEW v \in Value, InsertPlaces(k, v)
    PROVE  Sound'
<1> DEFINE e == [key |-> k, val |-> v]
<1>1. /\ Idle /\ size + 1 <= WritableCapacity
      /\ m_values' = Append(m_values, e)
      /\ m_buckets' = place_group(WritableBlocks, m_shifts, k, size + 1)
      /\ m_max_bucket_capacity' = WritableCapacity
      /\ indexed' = size + 1
      /\ m_max_load_factor' = m_max_load_factor
      /\ m_shifts' = m_shifts
      /\ dedup' = dedup
  BY DEF InsertPlaces
<1>2. /\ m_values \in Seq(Element) /\ size \in Nat
      /\ OnceFor(WritableBlocks, m_shifts, 1 .. indexed)
      /\ calc_num_buckets(m_shifts) \in Nat
      /\ WritableCapacity \in 0 .. calc_num_buckets(m_shifts)
  BY SoundSizes
<1>3. e \in Element
  BY DEF Element
<1> HIDE DEF e
<1>4. m_values' \in Seq(Element) /\ size' = size + 1
  BY <1>1, <1>2, <1>3, Appended DEF size
<1>5. indexed = size /\ size + 1 <= calc_num_buckets(m_shifts)
  BY <1>1, <1>2 DEF Idle
<1>6. HasRoom(WritableBlocks)
  BY <1>2, <1>5, SoundHasRoom
<1>7. size + 1 \in Nat \ (1 .. size) /\ (1 .. size) \cup {size + 1} = 1 .. size + 1
  BY <1>2
<1>8. /\ OnceFor(m_buckets', m_shifts, 1 .. size + 1)
      /\ m_buckets'.size = WritableBlocks.size
  <2> DEFINE P == 1 .. size
             n == size + 1
  <2>1. n \in Nat \ P /\ OnceFor(WritableBlocks, m_shifts, P)
    BY <1>2, <1>5, <1>7
  <2> HIDE DEF P, n
  <2>2. /\ OnceFor(place_group(WritableBlocks, m_shifts, k, n), m_shifts, P \cup {n})
        /\ place_group(WritableBlocks, m_shifts, k, n).size = WritableBlocks.size
    BY <1>6, <2>1, OncePlaced
  <2> QED
    BY <1>1, <1>7, <2>2 DEF P, n
<1>9. indexed' \in 0 .. size'
  BY <1>1, <1>2, <1>4
<1> QED
  BY <1>1, <1>4, <1>5, <1>8, <1>9, SoundWrites

(* A growth makes an array of twice the size. *)
LEMMA SoundInsertGrows ==
    ASSUME Sound, NEW k \in Key, NEW v \in Value, InsertGrows(k, v)
    PROVE  Sound'
<1> DEFINE e == [key |-> k, val |-> v]
<1>1. /\ WritableCapacity # MaxBucketCount
      /\ m_values' = Append(m_values, e)
      /\ allocate_buckets_from_shift(m_shifts - 1)
      /\ indexed' = 0
      /\ m_max_load_factor' = m_max_load_factor
      /\ dedup' = dedup
  BY DEF InsertGrows
<1>2. /\ m_values \in Seq(Element) /\ size \in Nat
      /\ m_max_load_factor \in 0 .. 100
      /\ m_shifts \in ArrayShifts
      /\ size <= calc_num_buckets(m_shifts)
      /\ calc_num_buckets(m_shifts) # MaxBucketCount
  BY <1>1, SoundSizes
<1>3. e \in Element
  BY DEF Element
<1> HIDE DEF e
<1>4. m_values' \in Seq(Element) /\ size' = size + 1
  BY <1>1, <1>2, <1>3, Appended DEF size
<1>5. /\ m_shifts - 1 \in ArrayShifts
      /\ calc_num_buckets(m_shifts - 1) = 2 * calc_num_buckets(m_shifts)
      /\ calc_num_buckets(m_shifts) \in Nat \ {0}
  BY <1>2, ArraySizes
<1>6. size' <= calc_num_buckets(m_shifts - 1)
  BY <1>2, <1>4, <1>5
<1>7. SizedOK' /\ IndexOK({0})'
  <2>1. {0} \in SUBSET Nat /\ 0 \in {0}
    OBVIOUS
  <2> QED
    BY <1>1, <1>2, <1>4, <1>5, <1>6, <2>1, Allocated
<1> QED
  BY <1>1, <1>4, <1>7, SoundRestarts

(* An insert that fails leaves the first array behind. *)
LEMMA SoundInsertThrows ==
    ASSUME Sound, NEW k \in Key, InsertThrows(k)
    PROVE  Sound'
<1>1. /\ m_buckets' = WritableBlocks
      /\ m_max_bucket_capacity' = WritableCapacity
      /\ m_values' = m_values /\ indexed' = indexed
      /\ m_max_load_factor' = m_max_load_factor
      /\ m_shifts' = m_shifts /\ dedup' = dedup
  BY DEF InsertThrows
<1>2. size' = size
  BY <1>1 DEF size
<1> QED
  BY <1>1, <1>2, SoundSizes, SoundWrites

(* A hit moves its entry home. *)
LEMMA SoundInsertFinds ==
    ASSUME Sound, NEW k \in Key, InsertFinds(k)
    PROVE  Sound'
<1>1. /\ FindsKey(k)
      /\ m_buckets' = move_home(m_buckets, m_shifts, k, SlotOfKey(k))
      /\ m_max_bucket_capacity' = m_max_bucket_capacity
      /\ m_values' = m_values /\ indexed' = indexed
      /\ m_max_load_factor' = m_max_load_factor
      /\ m_shifts' = m_shifts /\ dedup' = dedup
  BY DEF InsertFinds
<1>2. m_buckets.size # 0 /\ SlotOfKey(k) \in Occupied(m_buckets)
  BY <1>1, SoundLookup
<1>3. WritableBlocks = m_buckets /\ WritableCapacity = m_max_bucket_capacity
  BY <1>2 DEF WritableBlocks, WritableCapacity, Data
<1>4. OnceFor(m_buckets, m_shifts, 1 .. indexed)
  BY <1>3, SoundSizes
<1>5. /\ OnceFor(m_buckets', m_shifts, 1 .. indexed)
      /\ m_buckets'.size = m_buckets.size
  BY <1>1, <1>2, <1>4, OnceMovedHome
<1>6. size' = size
  BY <1>1 DEF size
<1> QED
  BY <1>1, <1>3, <1>5, <1>6, SoundSizes, SoundWrites

(* Between operations, a table whose index points at the value p with a    *)
(* slot it finds. *)
LEMMA SoundFindsSlot ==
    ASSUME Sound, Idle, NEW p \in 1 .. size, PointsAt(m_buckets, m_values[p].key, p) # {}
    PROVE  LET x == slot_of_value(m_buckets, m_shifts, m_values[p].key, p)
           IN  /\ x \in Occupied(m_buckets) /\ m_buckets.slot[x].idx = p
               /\ m_values[p].key \in Key
<1>1. m_values[p].key \in Key
  <2>1. m_values \in Seq(Element) /\ p \in 1 .. Len(m_values)
    BY SoundSizes DEF size
  <2>2. m_values[p] \in Element
    BY <2>1
  <2> QED
    BY <2>2 DEF Element
<1>2. m_buckets.size # 0
  BY SoundSizes DEF Sound, SizedOK, size
<1>3. OnceFor(m_buckets, m_shifts, 1 .. indexed)
  BY <1>2 DEF Sound, Data
<1> QED
  BY <1>1, <1>3, OnceFoundByValue

(* An element gets another key: its slot is freed and it is placed anew. *)
LEMMA SoundReplaceKey ==
    ASSUME Sound, NEW p \in 1 .. size, NEW k \in Key, replace_key(p, k)
    PROVE  Sound'
<1> DEFINE old == m_values[p].key
           x   == slot_of_value(m_buckets, m_shifts, old, p)
           ex  == erase_group_slot(m_buckets, m_shifts, old, x)
<1>1. /\ Idle
      /\ PointsAt(m_buckets, old, p) # {}
      /\ m_values' = [m_values EXCEPT ![p].key = k]
      /\ m_buckets' = place_group(ex, m_shifts, k, p)
      /\ m_max_bucket_capacity' = m_max_bucket_capacity
      /\ m_max_load_factor' = m_max_load_factor
      /\ m_shifts' = m_shifts /\ indexed' = indexed /\ dedup' = dedup
  BY DEF replace_key
<1>2. /\ x \in Occupied(m_buckets) /\ m_buckets.slot[x].idx = p
  BY <1>1, SoundFindsSlot
<1>3. m_values \in Seq(Element) /\ size \in Nat /\ indexed = size
  BY <1>1, SoundSizes DEF Idle
<1>4. m_buckets.size # 0
  BY <1>3 DEF Sound, SizedOK, size
<1>5. WritableBlocks = m_buckets /\ WritableCapacity = m_max_bucket_capacity
  BY <1>4 DEF WritableBlocks, WritableCapacity, Data
<1>6. m_values' \in Seq(Element) /\ size' = size
  <2>1. \A e \in Element : [e EXCEPT !.key = k] \in Element
    BY DEF Element
  <2>2. m_values[p] \in Element /\ p \in 1 .. Len(m_values)
    BY <1>3 DEF size
  <2>3. m_values' = [m_values EXCEPT ![p] = [m_values[p] EXCEPT !.key = k]]
    BY <1>1
  <2> QED
    BY <1>3, <2>1, <2>2, <2>3 DEF size
<1> HIDE DEF old, x, ex
<1>7. /\ OnceFor(ex, m_shifts, (1 .. size) \ {p})
      /\ ex.size = m_buckets.size
  <2>1. OnceFor(m_buckets, m_shifts, 1 .. size)
    BY <1>3, <1>5, SoundSizes
  <2> QED
    BY <1>2, <2>1, OnceErased DEF ex
<1>8. HasRoom(ex)
  BY <1>2, <1>5, SoundSizes, ErasedHasRoom DEF ex, OnceFor, Occupied
<1>9. /\ OnceFor(m_buckets', m_shifts, 1 .. size)
      /\ m_buckets'.size = m_buckets.size
  <2> DEFINE P == (1 .. size) \ {p}
  <2>1. p \in Nat \ P /\ P \cup {p} = 1 .. size
    BY <1>3
  <2> HIDE DEF P
  <2>2. OnceFor(ex, m_shifts, P)
    BY <1>7 DEF P
  <2>3. /\ OnceFor(place_group(ex, m_shifts, k, p), m_shifts, P \cup {p})
        /\ place_group(ex, m_shifts, k, p).size = ex.size
    BY <1>8, <2>1, <2>2, OncePlaced
  <2> QED
    BY <1>1, <1>7, <2>1, <2>3
<1> QED
  BY <1>1, <1>3, <1>5, <1>6, <1>9, SoundSizes, SoundWrites

(* An array that is emptied, or a new one that fits every value. *)
LEMMA SoundCleared ==
    ASSUME Sound, clear_buckets,
           m_values' \in Seq(Element), size' <= bucket_count, indexed' = 0
    PROVE  SizedOK' /\ IndexOK({0})'
<1>1. SizedOK /\ m_shifts \in ArrayShifts /\ Data(m_buckets).size = calc_num_groups(m_shifts)
  BY DEF Sound, OnceFor
<1>2. {0} \in SUBSET Nat /\ 0 \in {0}
  OBVIOUS
<1> QED
  BY <1>1, <1>2, Cleared

LEMMA SoundAllocated ==
    ASSUME Sound, NEW n \in Nat,
           allocate_buckets_from_shift(calc_shifts_for_size(AtLeastSize(n))),
           m_values' = m_values, indexed' = 0
    PROVE  SizedOK' /\ IndexOK({0})'
<1> DEFINE s == calc_shifts_for_size(AtLeastSize(n))
<1>1. /\ m_values \in Seq(Element) /\ m_max_load_factor \in 0 .. 100
      /\ size \in Nat /\ size <= MaxBucketCount /\ MaxBucketCount \in Nat
  BY SoundSizes, SizesAssumption
<1>2. AtLeastSize(n) \in 0 .. MaxBucketCount /\ size <= AtLeastSize(n)
  BY <1>1 DEF AtLeastSize
<1>3. s \in ArrayShifts /\ AtLeastSize(n) <= calc_num_buckets(s)
  BY <1>1, <1>2, ShiftsForSize
<1> HIDE DEF s
<1>4. calc_num_buckets(s) \in Nat
  BY <1>3, ArraySizes
<1>5. size' <= calc_num_buckets(s)
  <2>1. size' = size
    BY DEF size
  <2> QED
    BY <1>1, <1>2, <1>3, <1>4, <2>1
<1>6. {0} \in SUBSET Nat /\ 0 \in {0}
  OBVIOUS
<1>7. allocate_buckets_from_shift(s)
  BY DEF s
<1> QED
  BY <1>1, <1>3, <1>5, <1>6, <1>7, Allocated

(* The operations that empty the index: clear, rehash and reserve. *)
LEMMA SoundClear ==
    ASSUME Sound, Clear
    PROVE  Sound'
<1>1. /\ m_values' = <<>> /\ clear_buckets /\ indexed' = 0
      /\ m_max_load_factor' = m_max_load_factor /\ dedup' = dedup
  BY DEF Clear
<1>2. m_values' \in Seq(Element) /\ size' = 0 /\ bucket_count \in Nat
  BY <1>1, SoundSizes DEF size
<1> QED
  BY <1>1, <1>2, SoundCleared, SoundRestarts

LEMMA SoundRehash ==
    ASSUME Sound, NEW n \in Nat, rehash(n) \/ reserve(n)
    PROVE  Sound'
<1> DEFINE s == calc_shifts_for_size(AtLeastSize(n))
<1>1. /\ allocate_buckets_from_shift(s) \/ clear_buckets
      /\ m_values' = m_values /\ indexed' = 0
      /\ m_max_load_factor' = m_max_load_factor /\ dedup' = dedup
  BY DEF rehash, reserve
<1>2. m_values' \in Seq(Element) /\ size' <= bucket_count
  BY <1>1, SoundSizes DEF size
<1>3. SizedOK' /\ IndexOK({0})'
  BY <1>1, <1>2, SoundCleared, SoundAllocated
<1> QED
  BY <1>1, <1>2, <1>3, SoundRestarts

(* A load factor, capped at 1, gives a capacity within the slots. *)
LEMMA SoundMaxLoadFactor ==
    ASSUME Sound, NEW ml \in LoadFactors, max_load_factor(ml)
    PROVE  Sound'
<1> DEFINE capped == IF ml < 100 THEN ml ELSE 100
<1>1. /\ m_max_load_factor' = capped
      /\ m_max_bucket_capacity' =
             IF bucket_count = MaxBucketCount THEN m_max_bucket_capacity
             ELSE (bucket_count * capped) \div 100
      /\ m_values' = m_values /\ m_buckets' = m_buckets /\ m_shifts' = m_shifts
      /\ indexed' = indexed /\ dedup' = dedup
  BY DEF max_load_factor
<1>2. capped \in 0 .. 100
  BY TableAssumption
<1> HIDE DEF capped
<1>3. size' = size /\ bucket_count' = bucket_count
  BY <1>1 DEF size, bucket_count
<1>4. ScalarsOK'
  BY <1>1, <1>2, <1>3 DEF Sound, ScalarsOK, Idle
<1>5. SizedOK'
  <2>1. bucket_count \in Nat /\ m_max_bucket_capacity \in 0 .. bucket_count
    BY SoundSizes
  <2>2. (bucket_count * capped) \div 100 \in 0 .. bucket_count
    BY <1>2, <2>1, PercentBound
  <2>3. m_max_bucket_capacity' \in 0 .. bucket_count
    BY <1>1, <2>1, <2>2
  <2>4. m_buckets.size = 0 => bucket_count = 0
    BY SizesAssumption DEF bucket_count
  <2> QED
    BY <1>1, <1>3, <2>3, <2>4 DEF Sound, SizedOK
<1> QED
  BY <1>1, <1>4, <1>5 DEF Sound

(* The loop of a fill places the next value. *)
LEMMA SoundFillStep ==
    ASSUME Sound, FillStep
    PROVE  Sound'
<1> DEFINE key == NextValue.key
<1>1. /\ ~Idle /\ dedup' = dedup
      /\ m_buckets' = place_group(m_buckets, m_shifts, key, indexed + 1)
      /\ indexed' = indexed + 1
      /\ m_values' = m_values
      /\ m_max_bucket_capacity' = m_max_bucket_capacity
      /\ m_max_load_factor' = m_max_load_factor
      /\ m_shifts' = m_shifts
  BY DEF FillStep, PlaceNext
<1>2. /\ m_values \in Seq(Element) /\ size \in Nat /\ indexed \in 0 .. size - 1
      /\ size <= calc_num_buckets(m_shifts) /\ calc_num_buckets(m_shifts) \in Nat
  BY <1>1, SoundSizes DEF Idle
<1>3. key \in Key
  <2>1. NextValue \in Element
    BY <1>2 DEF NextValue, size
  <2> QED
    BY <2>1 DEF Element
<1>4. m_buckets.size # 0
  BY <1>2 DEF Sound, SizedOK, size
<1>5. WritableBlocks = m_buckets /\ WritableCapacity = m_max_bucket_capacity
  BY <1>4 DEF WritableBlocks, WritableCapacity, Data
<1>6. OnceFor(m_buckets, m_shifts, 1 .. indexed) /\ HasRoom(m_buckets)
  <2>1. indexed < calc_num_buckets(m_shifts)
    BY <1>2
  <2> QED
    BY <1>5, <2>1, SoundSizes, SoundHasRoom
<1> HIDE DEF key
<1>7. /\ OnceFor(m_buckets', m_shifts, 1 .. indexed')
      /\ m_buckets'.size = m_buckets.size
  <2> DEFINE P == 1 .. indexed
             n == indexed + 1
  <2>1. n \in Nat \ P /\ P \cup {n} = 1 .. indexed' /\ OnceFor(m_buckets, m_shifts, P)
    BY <1>1, <1>2, <1>6
  <2> HIDE DEF P, n
  <2>2. /\ OnceFor(place_group(m_buckets, m_shifts, key, n), m_shifts, P \cup {n})
        /\ place_group(m_buckets, m_shifts, key, n).size = m_buckets.size
    BY <1>3, <1>6, <2>1, OncePlaced
  <2> QED
    BY <1>1, <2>1, <2>2 DEF n
<1>8. size' = size /\ indexed' \in 0 .. size'
  BY <1>1, <1>2 DEF size
<1> QED
  BY <1>1, <1>2, <1>5, <1>7, <1>8, SoundWrites

(* An erase that finds the slot to repoint, or needs none. *)
LEMMA SoundErases ==
    ASSUME Sound, Idle, NEW p \in 1 .. size, NEW x \in Occupied(m_buckets),
           m_buckets.slot[x].idx = p, Erases(x, p), kind' = kind, kind # "unusable"
    PROVE  Sound'
<1> DEFINE freed == erase_group_slot(m_buckets, m_shifts, m_values[p].key, x)
           last  == m_values[size].key
<1>1. /\ p = size \/ PointsAt(freed, last, size) # {}
      /\ do_erase(x, p)
  BY DEF Erases
<1>2. /\ m_values' = CloseHole(m_values, p)
      /\ m_buckets' = IF p = size THEN freed
                      ELSE repoint_value(freed, m_shifts, last, size, p)
      /\ indexed' = size - 1
      /\ m_max_bucket_capacity' = m_max_bucket_capacity
      /\ m_max_load_factor' = m_max_load_factor
      /\ m_shifts' = m_shifts /\ dedup' = dedup
  BY <1>1 DEF do_erase
<1>3. /\ m_values \in Seq(Element) /\ size \in Nat \ {0} /\ indexed = size
      /\ size <= calc_num_buckets(m_shifts) /\ calc_num_buckets(m_shifts) \in Nat
      /\ size = Len(m_values)
  BY SoundSizes DEF Idle, size
<1>4. m_values' \in Seq(Element) /\ size' = size - 1
  BY <1>2, <1>3, HoleFilled DEF size
<1>5. m_buckets.size # 0
  BY <1>3 DEF Sound, SizedOK, size
<1>6. WritableBlocks = m_buckets /\ WritableCapacity = m_max_bucket_capacity
  BY <1>5 DEF WritableBlocks, WritableCapacity, Data
<1>7. last \in Key
  <2>1. m_values[size] \in Element
    BY <1>3
  <2> QED
    BY <2>1 DEF Element
<1>8. /\ OnceFor(freed, m_shifts, (1 .. size) \ {p})
      /\ freed.size = m_buckets.size
  <2>1. OnceFor(m_buckets, m_shifts, 1 .. size)
    BY <1>3, <1>6, SoundSizes
  <2> DEFINE P == 1 .. size
             k == m_values[p].key
  <2>2. OnceFor(m_buckets, m_shifts, P)
    BY <2>1
  <2> HIDE DEF P, k
  <2>3. /\ OnceFor(erase_group_slot(m_buckets, m_shifts, k, x), m_shifts, P \ {p})
        /\ erase_group_slot(m_buckets, m_shifts, k, x).size = m_buckets.size
    BY <2>2, OnceErased
  <2> QED
    BY <2>3 DEF P, k
<1> HIDE DEF freed, last
<1>9. /\ OnceFor(m_buckets', m_shifts, 1 .. size - 1)
      /\ m_buckets'.size = m_buckets.size
  <2>1. CASE p = size
    <3>1. (1 .. size) \ {p} = 1 .. size - 1
      BY <1>3, <2>1
    <3> QED
      BY <1>2, <1>8, <2>1, <3>1
  <2>2. CASE p # size
    <3> DEFINE P == (1 .. size) \ {p}
               n == size
    <3>1. n \in P /\ p \in Nat \ P /\ (P \ {n}) \cup {p} = 1 .. size - 1
      BY <1>3, <2>2
    <3>2. PointsAt(freed, last, n) # {} /\ OnceFor(freed, m_shifts, P)
      BY <1>1, <1>8, <2>2 DEF freed, last
    <3> HIDE DEF P, n
    <3>3. /\ OnceFor(repoint_value(freed, m_shifts, last, n, p), m_shifts,
                     (P \ {n}) \cup {p})
          /\ repoint_value(freed, m_shifts, last, n, p).size = freed.size
      BY <1>7, <3>1, <3>2, OnceRepointed
    <3> QED
      BY <1>2, <1>8, <2>2, <3>1, <3>3 DEF n
  <2> QED
    BY <2>1, <2>2
<1>10. size' <= calc_num_buckets(m_shifts) /\ indexed' \in 0 .. size'
  BY <1>2, <1>3, <1>4
<1>11. OnceFor(m_buckets', m_shifts, 1 .. indexed')
  BY <1>2, <1>9
<1> QED
  BY <1>2, <1>4, <1>6, <1>9, <1>10, <1>11, SoundWrites

LEMMA SoundErase ==
    ASSUME Sound, Erase, kind' = kind, kind = "table"
    PROVE  Sound'
<1>1. Idle
  BY DEF Erase
<1>2. ASSUME NEW k \in Key, FindsKey(k), Erases(SlotOfKey(k), IndexOfKey(k))
      PROVE  Sound'
  <2>1. /\ SlotOfKey(k) \in Occupied(m_buckets)
        /\ IndexOfKey(k) \in 1 .. size
        /\ m_buckets.slot[SlotOfKey(k)].idx = IndexOfKey(k)
    BY <1>1, <1>2, SoundLookup DEF Idle, IndexOfKey
  <2> QED
    BY <1>1, <1>2, <2>1, SoundErases
<1>3. ASSUME NEW p \in 1 .. size, PointsAt(m_buckets, m_values[p].key, p) # {},
             Erases(slot_of_value(m_buckets, m_shifts, m_values[p].key, p), p)
      PROVE  Sound'
  BY <1>1, <1>3, SoundFindsSlot, SoundErases
<1> QED
  BY <1>2, <1>3 DEF Erase

(* Whatever is done to it, the table stays one whose index points at every *)
(* value once. *)
LEMMA SoundOther ==
    ASSUME Sound, OtherOperation
    PROVE  Sound'
<1>1. ASSUME NEW n \in Sizes, rehash(n) \/ reserve(n)
      PROVE  Sound'
  BY <1>1, TableAssumption, SoundRehash
<1> QED
  BY <1>1, SoundInsertPlaces, SoundInsertGrows, SoundInsertThrows, SoundInsertFinds,
     SoundReplaceKey, SoundClear, SoundMaxLoadFactor, SoundFillStep
  DEF OtherOperation

---------------------------------------------------------------------------
(* What verify() proves, whatever the bytes                                *)

(* Between operations. *)
Still == /\ Readable
         /\ m_values \in Seq(Element) /\ IndexType(m_buckets)
         /\ Idle /\ dedup = FALSE

LEMMA StillKeys ==
    ASSUME Still
    PROVE  /\ size \in Nat /\ indexed = size
           /\ \A p \in 1 .. size : m_values[p].key \in Key /\ KeyAt[p] = m_values[p].key
<1>1. size \in Nat /\ indexed = size /\ size = Len(m_values)
  BY DEF Still, size, Idle
<1>2. \A p \in 1 .. size : m_values[p] \in Element
  BY <1>1 DEF Still
<1>3. \A e \in Element : e.key \in Key
  BY DEF Element
<1> QED
  BY <1>1, <1>2, <1>3 DEF KeyAt

(* If every key finds its own value, no key is there twice and every other *)
(* lookup is right too. *)
LEMMA FullVerifyAnswers ==
    ASSUME Still, InRange, verify("full")
    PROVE  KeysUnique /\ LookupsAgree
<1>1. \A p \in 1 .. size : FindsKey(m_values[p].key) /\ IndexOfKey(m_values[p].key) = p
  BY DEF verify, Consistent
<1>2. indexed = size /\ dedup = FALSE
  BY StillKeys DEF Still
<1>3. KeysUnique
  <2> SUFFICES ASSUME NEW p \in 1 .. size, NEW q \in 1 .. size,
                      m_values[p].key = m_values[q].key
               PROVE  p = q
    BY <1>2 DEF KeysUnique
  <2> QED
    BY <1>1
<1>4. ASSUME NEW k \in Key, FindsKey(k)
      PROVE  IndexOfKey(k) \in 1 .. size /\ m_values[IndexOfKey(k)].key = k
  <2>1. SlotOfKey(k) \in Occupied(m_buckets) /\ m_values[IndexOfKey(k)].key = k
    BY <1>4, ReadableLookup DEF Still
  <2> QED
    BY <2>1 DEF InRange, IndexOfKey
<1>5. LookupsAgree
  BY <1>1, <1>2, <1>4 DEF LookupsAgree
<1> QED
  BY <1>3, <1>5

(* With as many full slots as there are values, each is one that a key     *)
(* finds: it points at the value, with the fingerprint of its key. *)
LEMMA FullVerifyIndex ==
    ASSUME Still, verify("full"), check_index(m_buckets, size)
    PROVE  IndexExact
<1> DEFINE f == [p \in 1 .. size |-> SlotOfKey(m_values[p].key)]
<1>1. /\ size \in Nat /\ indexed = size
      /\ \A p \in 1 .. size : m_values[p].key \in Key /\ KeyAt[p] = m_values[p].key
  BY StillKeys
<1>2. \A p \in 1 .. size : /\ f[p] \in Occupied(m_buckets)
                           /\ m_buckets.slot[f[p]].fp = Fingerprint(KeyAt[p])
                           /\ m_buckets.slot[f[p]].idx = p
  <2> TAKE p \in 1 .. size
  <2>1. FindsKey(m_values[p].key) /\ IndexOfKey(m_values[p].key) = p
    BY DEF verify, Consistent
  <2>2. /\ SlotOfKey(m_values[p].key) \in Occupied(m_buckets)
        /\ m_buckets.slot[SlotOfKey(m_values[p].key)].fp = Fingerprint(m_values[p].key)
    BY <1>1, <2>1, ReadableLookup DEF Still
  <2> QED
    BY <1>1, <2>1, <2>2 DEF IndexOfKey
<1>3. f \in [1 .. size -> Occupied(m_buckets)]
  BY <1>2
<1> HIDE DEF f
<1>4. f \in Injection(1 .. size, Occupied(m_buckets))
  BY <1>2, <1>3, Fun_IsInj
<1>5. IsFiniteSet(1 .. size) /\ Cardinality(1 .. size) = size
  BY <1>1, FS_Interval
<1>6. IsFiniteSet(Occupied(m_buckets)) /\ Cardinality(Occupied(m_buckets)) = size
  BY SlotsFinite DEF Still, IndexType, check_index
<1>7. f \in Surjection(1 .. size, Occupied(m_buckets))
  BY <1>4, <1>5, <1>6, FS_Injection
<1>8. \A x \in Occupied(m_buckets) : \E p \in 1 .. size : x = f[p]
  BY <1>7 DEF Surjection
<1> QED
  BY <1>1, <1>2, <1>8 DEF IndexExact, PointsExactly

(* The values a spot check looks at are values, *)
LEMMA SpotsAreValues ==
    ASSUME size \in Nat
    PROVE  SpotPositions \subseteq 1 .. size
<1> DEFINE q == size \div Spots
           r == size % Spots
<1>1. Spots \in Nat \ {0}
  BY LoadAssumption
<1>2. q \in Nat /\ r \in 0 .. Spots - 1 /\ size = q * Spots + r
  BY <1>1
<1> HIDE DEF q, r
<1>3. ASSUME NEW j \in 0 .. Spots - 1, size # 0
      PROVE  1 + j * q + (j * r) \div Spots \in 1 .. size
  <2> DEFINE d == (j * r) \div Spots
  <2>1. j * q \in Nat /\ j * r \in Nat
    BY <1>1, <1>2
  <2>2. d \in Nat /\ d * Spots <= j * r
    <3> DEFINE m == j * r
    <3>1. m \in Nat
      BY <2>1
    <3> HIDE DEF m
    <3>2. m \div Spots \in Nat /\ (m \div Spots) * Spots <= m
      BY <1>1, <3>1
    <3> QED
      BY <3>2 DEF m
  <2> HIDE DEF d
  <2>3. CASE r = 0
    <3>1. d = 0
      <4>1. j * r = 0
        BY <1>1, <2>3
      <4>2. 0 \div Spots = 0
        BY <1>1
      <4> QED
        BY <4>1, <4>2 DEF d
    <3>2. q \in Nat \ {0}
      <4>1. q = 0 => q * Spots = 0
        BY <1>1
      <4> QED
        BY <1>2, <1>3, <2>3, <4>1
    <3>3. j * q <= (Spots - 1) * q /\ (Spots - 1) * q = q * Spots - q
      BY <1>1, <1>2
    <3>4. 1 + j * q + d <= size
      BY <1>1, <1>2, <2>1, <2>3, <3>1, <3>2, <3>3
    <3> QED
      BY <1>2, <2>1, <2>2, <3>4 DEF d
  <2>4. CASE r # 0
    <3>1. j * r < Spots * r
      BY <1>1, <1>2, <2>4
    <3>2. d < r
      <4> SUFFICES ASSUME d >= r
                   PROVE  FALSE
        BY <1>2, <2>2
      <4>1. d * Spots >= r * Spots
        BY <1>1, <1>2, <2>2
      <4> QED
        BY <1>1, <1>2, <2>1, <2>2, <3>1, <4>1
    <3>3. j * q <= Spots * q
      BY <1>1, <1>2
    <3>4. 1 + j * q + d <= size
      BY <1>1, <1>2, <2>1, <2>2, <3>2, <3>3
    <3> QED
      BY <1>2, <2>1, <2>2, <3>4 DEF d
  <2> QED
    BY <2>3, <2>4
<1> QED
  BY <1>3 DEF SpotPositions, q, r

(* ... and all of them if there are no more than it looks at: position p   *)
(* is that of the first j with j * size at least (p - 1) * Spots. *)
LEMMA SpotsAreAll ==
    ASSUME size \in Nat, size <= Spots
    PROVE  1 .. size \subseteq SpotPositions
<1>1. Spots \in Nat \ {0}
  BY LoadAssumption
<1> SUFFICES ASSUME NEW p \in 1 .. size
             PROVE  \E j \in 0 .. Spots - 1 :
                      p = 1 + j * (size \div Spots) + (j * (size % Spots)) \div Spots
  BY DEF SpotPositions
<1> DEFINE n == size
<1>2. n \in 1 .. Spots /\ p \in 1 .. n /\ n \in Nat
  BY <1>1
<1>3. CASE n = Spots
  <2>1. n \div Spots = 1 /\ n % Spots = 0
    BY <1>1, <1>3
  <2>2. (p - 1) * 1 = p - 1 /\ (p - 1) * 0 = 0 /\ 0 \div Spots = 0
    BY <1>1, <1>2
  <2>3. p - 1 \in 0 .. Spots - 1 /\ p = 1 + (p - 1) + 0
    BY <1>2, <1>3
  <2> QED
    BY <2>1, <2>2, <2>3
<1>4. CASE n < Spots
  <2> HIDE DEF n
  <2>1. n \div Spots = 0 /\ n % Spots = n
    BY <1>1, <1>2, <1>4
  <2> DEFINE a == (p - 1) * Spots
             j == (a + n - 1) \div n
  <2>2. a \in Nat /\ a <= (n - 1) * Spots
    BY <1>1, <1>2
  <2> HIDE DEF a
  <2>3. j \in Nat /\ j * n >= a /\ j * n <= a + n - 1
    <3> DEFINE b == a + n - 1
    <3>1. b \in Nat /\ n \in Nat \ {0}
      BY <1>2, <2>2
    <3> HIDE DEF b
    <3>2. /\ b \div n \in Nat /\ b % n \in 0 .. n - 1
          /\ b = n * (b \div n) + (b % n)
      BY <3>1
    <3> DEFINE c == b \div n
    <3>3. c \in Nat /\ n * c = c * n
      BY <1>2, <3>2
    <3>4. c * n \in Int
      BY <1>2, <3>3
    <3> HIDE DEF c
    <3>5. c * n >= b - (n - 1) /\ c * n <= b
      BY <1>2, <3>1, <3>2, <3>3, <3>4 DEF c
    <3> QED
      BY <1>2, <2>2, <3>3, <3>5 DEF b, c
  <2> HIDE DEF j
  <2>4. j \in 0 .. Spots - 1
    <3> SUFFICES ASSUME j >= Spots
                 PROVE  FALSE
      BY <1>1, <2>3
    <3>1. j * n >= Spots * n
      BY <1>1, <1>2, <2>3
    <3>2. (n - 1) * Spots = Spots * n - Spots
      BY <1>1, <1>2
    <3>3. j * n \in Int /\ Spots * n \in Int
      BY <1>1, <1>2, <2>3
    <3> QED
      BY <1>1, <1>2, <1>4, <2>2, <2>3, <3>1, <3>2, <3>3
  <2>5. (j * n) \div Spots = p - 1
    <3> DEFINE m == j * n
    <3>1. m \in Nat /\ m >= (p - 1) * Spots /\ m < (p - 1) * Spots + Spots
      BY <1>1, <1>2, <1>4, <2>2, <2>3 DEF a
    <3> HIDE DEF m
    <3> DEFINE e == m \div Spots
    <3>2. e \in Nat /\ e * Spots <= m /\ m < e * Spots + Spots
      BY <1>1, <3>1
    <3> HIDE DEF e
    <3>3. ~(e < p - 1)
      <4> SUFFICES ASSUME e + 1 <= p - 1
                   PROVE  FALSE
        BY <1>2, <3>2
      <4>1. (e + 1) * Spots <= (p - 1) * Spots
        BY <1>1, <1>2, <3>2
      <4>2. (e + 1) * Spots = e * Spots + Spots
        BY <1>1, <3>2
      <4> QED
        BY <1>1, <1>2, <3>1, <3>2, <4>1, <4>2
    <3>4. ~(e > p - 1)
      <4> SUFFICES ASSUME p <= e
                   PROVE  FALSE
        BY <1>2, <3>2
      <4>1. p * Spots <= e * Spots
        BY <1>1, <1>2, <3>2
      <4>2. (p - 1) * Spots + Spots = p * Spots
        BY <1>1, <1>2
      <4> QED
        BY <1>1, <1>2, <3>1, <3>2, <4>1, <4>2
    <3>5. e = p - 1
      BY <1>2, <3>2, <3>3, <3>4
    <3> QED
      BY <3>5 DEF e, m
  <2>6. j * 0 = 0
    BY <2>3
  <2>7. p = 1 + 0 + (p - 1)
    BY <1>2
  <2> QED
    BY <2>1, <2>4, <2>5, <2>6, <2>7 DEF n
<1> QED
  BY <1>1, <1>2, <1>3, <1>4

---------------------------------------------------------------------------
(* What a view or a table has when it is made                              *)

(* Values and blocks from outside, of the right shape, with the shift and  *)
(* the capacity that go with so many blocks. *)
ViewOK ==
    /\ ScalarsOK /\ dedup = FALSE /\ Idle
    /\ IndexType(m_buckets)
    /\ m_max_load_factor = DefaultLoadFactor
    /\ IF m_buckets.size = 0
       THEN /\ m_buckets = NoBlocks
            /\ m_values = <<>>
            /\ m_shifts = InitialShifts
            /\ m_max_bucket_capacity = 0
       ELSE /\ m_shifts \in ArrayShifts
            /\ m_shifts = ShiftsOf(m_buckets.size)
            /\ m_buckets.size = calc_num_groups(m_shifts)
            /\ m_max_bucket_capacity =
                 capacity_for(m_buckets.size * SlotsPerGroup, DefaultLoadFactor)

(* There is only one array of no groups. *)
LEMMA ZeroBlocks ==
    ASSUME NEW ix, IndexType(ix), ix.size = 0
    PROVE  ix = NoBlocks
<1>1. Slots(ix) = {} /\ Groups(ix) \X Counter = {}
  BY DEF Slots, Groups
<1>2. /\ ix.slot \in [{} -> [fp : Nat, idx : Nat]]
      /\ ix.overflow \in [{} -> 0 .. MaxCounter]
      /\ ix = [size |-> 0, slot |-> ix.slot, overflow |-> ix.overflow]
  BY <1>1 DEF IndexType
<1>3. /\ (0 .. 0 - 1) \X Lane = {}
      /\ (0 .. 0 - 1) \X Counter = {}
  OBVIOUS
<1>4. /\ ix.slot = [x \in {} |-> FreeSlot]
      /\ ix.overflow = [y \in {} |-> 0]
  BY <1>2
<1> QED
  BY <1>2, <1>3, <1>4 DEF NoBlocks, EmptyBlocks

LEMMA Taking ==
    ASSUME NEW values \in Seq(Element), NEW ix, IndexType(ix),
           \/ ix.size = 0 /\ values = <<>>
           \/ \E s \in ArrayShifts : calc_num_groups(s) = ix.size,
           Takes(values, ix)
    PROVE  ViewOK'
<1>1. /\ m_values' = values /\ m_buckets' = ix /\ indexed' = Len(values)
      /\ m_max_load_factor' = DefaultLoadFactor /\ dedup' = FALSE
  BY DEF Takes
<1>2. /\ Idle' /\ size' = Len(values) /\ Len(values) \in Nat
  BY <1>1 DEF Idle, size
<1>3. ScalarsOK'
  <2>1. m_values' \in Seq(Element) /\ m_max_load_factor' \in 0 .. 100
    BY <1>1, TableAssumption
  <2>2. indexed' \in 0 .. size'
    BY <1>1, <1>2
  <2> QED
    BY <1>1, <2>1, <2>2 DEF ScalarsOK
<1>4. CASE ix.size = 0
  <2>1. values = <<>>
    BY <1>4, GroupsAssumption
  <2>2. m_shifts' = InitialShifts /\ m_max_bucket_capacity' = 0
    BY <1>4 DEF Takes
  <2>3. ix = NoBlocks
    BY <1>4, ZeroBlocks
  <2> QED
    BY <1>1, <1>2, <1>3, <1>4, <2>1, <2>2, <2>3 DEF ViewOK
<1>5. CASE ix.size # 0
  <2>1. /\ m_shifts' = ShiftsOf(ix.size)
        /\ m_max_bucket_capacity' =
             capacity_for(ix.size * SlotsPerGroup, DefaultLoadFactor)
    BY <1>5 DEF Takes
  <2>2. \E s \in ArrayShifts : calc_num_groups(s) = ix.size
    BY <1>5
  <2>3. ShiftsOf(ix.size) \in ArrayShifts /\ calc_num_groups(ShiftsOf(ix.size)) = ix.size
    BY <2>2 DEF ShiftsOf
  <2> QED
    BY <1>1, <1>2, <1>3, <1>5, <2>1, <2>3 DEF ViewOK
<1> QED
  BY <1>4, <1>5

(* A table takes from a view what the view took. *)
LEMMA TakingAgain ==
    ASSUME ViewOK, Takes(m_values, m_buckets)
    PROVE  UNCHANGED vars
BY DEF ViewOK, Takes, Idle, size, vars

(* It can be looked into, whatever it holds. *)
LEMMA ViewIsStill ==
    ASSUME ViewOK
    PROVE  Still
<1>1. m_values \in Seq(Element) /\ IndexType(m_buckets) /\ Idle /\ dedup = FALSE
  BY DEF ViewOK, ScalarsOK
<1>2. CASE m_buckets.size = 0
  <2>1. m_shifts = InitialShifts
    BY <1>2 DEF ViewOK
  <2>2. Data(m_buckets).size = calc_num_groups(InitialShifts)
    BY <1>2, GroupsAssumption, EmptyBlocksType DEF Data
  <2> QED
    BY <1>1, <2>1, <2>2, GroupsAssumption DEF Still, Readable
<1>3. CASE m_buckets.size # 0
  BY <1>1, <1>3 DEF ViewOK, Still, Readable, Data
<1> QED
  BY <1>2, <1>3

(* With the check of an owning table passed, the index points at every     *)
(* value once. *)
LEMMA ViewIsSound ==
    ViewOK /\ check_index_unique(m_buckets, size) => Sound
<1> SUFFICES ASSUME ViewOK, check_index_unique(m_buckets, size)
             PROVE  Sound
  OBVIOUS
<1>1. /\ ScalarsOK /\ dedup = FALSE /\ IndexType(m_buckets)
      /\ indexed = size /\ size \in Nat
  BY DEF ViewOK, ScalarsOK, Idle, size
<1>2. CASE m_buckets.size = 0
  <2>1. /\ m_buckets = NoBlocks /\ m_values = <<>> /\ m_shifts = InitialShifts
        /\ m_max_bucket_capacity = 0
    BY <1>2 DEF ViewOK
  <2>2. 1 .. indexed = {}
    BY <1>1, <2>1 DEF size
  <2>3. IndexFor(Data(m_buckets), m_shifts, KeyAt, {}, {0})
    BY <1>2, <2>1, GroupsAssumption, EmptyIndex DEF Data
  <2>4. OnceFor(Data(m_buckets), m_shifts, 1 .. indexed)
    BY <2>2, <2>3, ExactIsOnce
  <2> QED
    BY <1>1, <1>2, <2>1, <2>4 DEF Sound, SizedOK
<1>3. CASE m_buckets.size # 0
  <2>1. /\ m_shifts \in ArrayShifts
        /\ m_buckets.size = calc_num_groups(m_shifts)
        /\ m_max_bucket_capacity =
             capacity_for(m_buckets.size * SlotsPerGroup, DefaultLoadFactor)
    BY <1>3 DEF ViewOK
  <2>2. OnceFor(m_buckets, m_shifts, 1 .. size) /\ size <= bucket_count
    BY <1>1, <2>1, CheckedIsOnce DEF bucket_count
  <2>3. bucket_count \in Nat
    BY <2>1, ArraySizes DEF bucket_count
  <2>4. /\ m_max_bucket_capacity \in 0 .. bucket_count
        /\ bucket_count = MaxBucketCount => m_max_bucket_capacity = MaxBucketCount
    BY <2>1, <2>3, TableAssumption, CapacityFits DEF bucket_count
  <2> QED
    BY <1>1, <1>3, <2>2, <2>4 DEF Sound, SizedOK, Data
<1> QED
  BY <1>2, <1>3

(* Between its operations, a table whose index points at every value once  *)
(* can be looked into too. *)
LEMMA SoundIsStill ==
    ASSUME Sound, Idle
    PROVE  /\ Still
           /\ check_index(m_buckets, size)
           /\ InRange
<1>1. /\ m_values \in Seq(Element) /\ dedup = FALSE /\ indexed = size /\ size \in Nat
  BY DEF Sound, ScalarsOK, Idle, size
<1>2. /\ OnceFor(Data(m_buckets), m_shifts, 1 .. size)
      /\ Readable
  BY <1>1 DEF Sound, OnceFor, Readable
<1>3. CASE m_buckets.size = 0
  <2>1. m_buckets = NoBlocks /\ m_values = <<>>
    BY <1>3 DEF Sound, SizedOK
  <2>2. IndexType(m_buckets) /\ Occupied(m_buckets) = {} /\ size = 0
    BY <2>1, EmptyBlocksType DEF NoBlocks, size
  <2> QED
    BY <1>1, <1>2, <2>2, FS_EmptySet DEF Still, check_index, InRange
<1>4. CASE m_buckets.size # 0
  <2>1. OnceFor(m_buckets, m_shifts, 1 .. size)
    BY <1>2, <1>4 DEF Data
  <2>2. /\ IndexType(m_buckets)
        /\ \A x \in Occupied(m_buckets) : m_buckets.slot[x].idx \in 1 .. size
    BY <2>1 DEF OnceFor
  <2>3. Cardinality(Occupied(m_buckets)) = size
    BY <1>1, <2>1, OnceCounts
  <2> QED
    BY <1>1, <1>2, <2>2, <2>3 DEF Still, check_index, InRange
<1> QED
  BY <1>3, <1>4

(* What verify(full) and counters that are high enough make of it: the     *)
(* whole invariant, but for counters that are too high. *)
LEMMA VerifiedIsTable ==
    ASSUME Sound, Idle, verify("full"), CountersSuffice
    PROVE  TableInv(Nat)
<1>1. Still /\ check_index(m_buckets, size) /\ InRange
  BY SoundIsStill
<1>2. KeysUnique /\ IndexExact
  BY <1>1, FullVerifyAnswers, FullVerifyIndex
<1>3. IndexOK(Nat)
  <2>1. CASE m_buckets.size = 0
    <3>1. m_shifts = InitialShifts /\ 1 .. indexed = {}
      BY <2>1 DEF Sound, SizedOK, Idle, size
    <3>2. IndexFor(Data(m_buckets), InitialShifts, KeyAt, {}, Nat)
      BY <2>1, GroupsAssumption, EmptyIndex DEF Data
    <3> QED
      BY <3>1, <3>2 DEF IndexOK
  <2>2. CASE m_buckets.size # 0
    <3>1. /\ Data(m_buckets) = m_buckets
          /\ m_shifts \in ArrayShifts /\ m_buckets.size = calc_num_groups(m_shifts)
          /\ IndexType(m_buckets)
      BY <1>1, <2>2 DEF Still, Readable, Data
    <3>2. CountsWithin(m_buckets, m_shifts, KeyAt, Nat)
      <4> SUFFICES ASSUME NEW g \in Groups(m_buckets), NEW class \in Counter
                   PROVE  CountIs(m_buckets.overflow[<<g, class>>],
                                  Cardinality(PassedBy(m_buckets, m_shifts, KeyAt, g, class)),
                                  Nat)
        BY DEF CountsWithin
      <4> DEFINE n == Cardinality(PassedBy(m_buckets, m_shifts, KeyAt, g, class))
                 c == m_buckets.overflow[<<g, class>>]
      <4>1. n \in Nat
        <5>1. PassedBy(m_buckets, m_shifts, KeyAt, g, class) \subseteq Occupied(m_buckets)
          BY DEF PassedBy
        <5>2. IsFiniteSet(Occupied(m_buckets))
          BY <3>1, SlotsFinite DEF IndexType
        <5> QED
          BY <5>1, <5>2, FS_Subset, FS_CardinalityType
      <4>2. c \in Nat
        BY <3>1, SizesAssumption DEF IndexType
      <4>3. c = MaxCounter \/ c >= n
        BY DEF CountersSuffice
      <4> HIDE DEF n, c
      <4>4. CountIs(c, n, Nat)
        BY <4>1, <4>2, <4>3 DEF CountIs
      <4> QED
        BY <4>4 DEF n, c
    <3>3. \A p \in 1 .. indexed : p \in Nat /\ KeyAt[p] \in Key
      BY <1>1, StillKeys
    <3> QED
      BY <1>2, <3>1, <3>2, <3>3 DEF IndexOK, IndexFor, IndexExact
  <2> QED
    BY <2>1, <2>2
<1> QED
  BY <1>2, <1>3 DEF Sound, TableInv

---------------------------------------------------------------------------
(* Steps that change nothing of the table                                  *)

Confirmed == InRange /\ verify("full") /\ CountersSuffice

LEMMA SoundStays ==
    Sound /\ UNCHANGED vars => Sound'
BY DEF Sound, ScalarsOK, SizedOK, Idle, size, bucket_count, vars

LEMMA ViewStays ==
    ViewOK /\ UNCHANGED vars => ViewOK'
BY DEF ViewOK, ScalarsOK, Idle, size, vars

LEMMA InRangeStays ==
    InRange /\ UNCHANGED vars => InRange'
BY DEF InRange, size, vars

LEMMA ConfirmedStays ==
    Confirmed /\ UNCHANGED vars => Confirmed'
<1> SUFFICES ASSUME Confirmed, UNCHANGED vars
             PROVE  Confirmed'
  OBVIOUS
<1>1. InRange'
  BY InRangeStays DEF Confirmed
<1>2. verify("full")'
  <2>1. \A p \in 1 .. size : Consistent(p)
    BY DEF Confirmed, verify
  <2>2. \A p : Consistent(p) => Consistent(p)'
    BY DEF Consistent, FindsKey, IndexOfKey, SlotOfKey, vars
  <2>3. \A p \in 1 .. size' : Consistent(p)'
    BY <2>1, <2>2 DEF size, vars
  <2> QED
    BY <2>3 DEF verify
<1>3. CountersSuffice'
  BY DEF Confirmed, CountersSuffice, KeyAt, size, vars
<1> QED
  BY <1>1, <1>2, <1>3 DEF Confirmed

LEMMA TableStays ==
    TableInv(Nat) /\ UNCHANGED vars => TableInv(Nat)'
BY NextInv

(* An erase from a table with the whole invariant finds the slot of the    *)
(* value that fills the hole. *)
LEMMA ErasesGoesOn ==
    ASSUME TableInv(Nat), Idle, NEW p \in 1 .. size, NEW x \in Occupied(m_buckets),
           m_buckets.slot[x].idx = p, m_buckets.size # 0, Erases(x, p)
    PROVE  do_erase(x, p) /\ kind' = kind
<1> DEFINE freed == erase_group_slot(m_buckets, m_shifts, m_values[p].key, x)
           n     == size
           P     == 1 .. n
<1>1. /\ size \in Nat
      /\ \A q \in 1 .. size : KeyAt[q] = m_values[q].key
  BY Elements
<1>2. IndexFor(m_buckets, m_shifts, KeyAt, P, Nat)
  BY DEF TableInv, IndexOK, Data, Idle
<1>3. p = size \/ PointsAt(freed, m_values[size].key, size) # {}
  <2> SUFFICES ASSUME p # size
               PROVE  PointsAt(freed, m_values[size].key, size) # {}
    OBVIOUS
  <2>1. n \in P \ {p} /\ p \in P
    BY <1>1
  <2> HIDE DEF P, n
  <2>2. IndexFor(erase_group_slot(m_buckets, m_shifts, KeyAt[p], x), m_shifts, KeyAt,
                 P \ {p}, Nat)
    BY <1>2, EraseKeepsIndex
  <2>3. PointsAt(erase_group_slot(m_buckets, m_shifts, KeyAt[p], x), KeyAt[n], n) # {}
    BY <2>1, <2>2, SlotOfValueIs
  <2> QED
    BY <1>1, <2>1, <2>3 DEF n, P
<1> QED
  BY <1>3 DEF Erases

LEMMA EraseGoesOn ==
    ASSUME Sound, TableInv(Nat), Erase
    PROVE  Next /\ kind' = kind
<1>1. Idle
  BY DEF Erase
<1>2. ASSUME NEW k \in Key, FindsKey(k), Erases(SlotOfKey(k), IndexOfKey(k))
      PROVE  EraseKey(k) /\ kind' = kind
  <2>1. /\ SlotOfKey(k) \in Occupied(m_buckets)
        /\ IndexOfKey(k) \in 1 .. size
        /\ m_buckets.slot[SlotOfKey(k)].idx = IndexOfKey(k)
        /\ m_buckets.size # 0
    BY <1>1, <1>2, SoundLookup DEF Idle, IndexOfKey
  <2>2. do_erase(SlotOfKey(k), IndexOfKey(k)) /\ kind' = kind
    BY <1>1, <1>2, <2>1, ErasesGoesOn
  <2> QED
    BY <1>1, <1>2, <2>2 DEF EraseKey
<1>3. ASSUME NEW p \in 1 .. size, PointsAt(m_buckets, m_values[p].key, p) # {},
             Erases(slot_of_value(m_buckets, m_shifts, m_values[p].key, p), p)
      PROVE  EraseAt(p) /\ kind' = kind
  <2> DEFINE x == slot_of_value(m_buckets, m_shifts, m_values[p].key, p)
  <2>1. x \in Occupied(m_buckets) /\ m_buckets.slot[x].idx = p
    BY <1>1, <1>3, SoundFindsSlot
  <2>2. m_buckets.size # 0
    <3>1. size # 0
      BY DEF Sound, ScalarsOK, size
    <3> QED
      BY <3>1 DEF Sound, SizedOK, size
  <2>3. do_erase(x, p) /\ kind' = kind
    BY <1>1, <1>3, <2>1, <2>2, ErasesGoesOn
  <2> QED
    BY <1>1, <1>3, <2>3 DEF EraseAt
<1> QED
  BY <1>2, <1>3 DEF Erase, Next

LEMMA OtherIsNext ==
    ASSUME OtherOperation
    PROVE  Next
BY DEF OtherOperation, Next, Loop

---------------------------------------------------------------------------
(* The inductive invariant                                                 *)

LoadInv ==
    /\ kind \in {"nothing", "view", "table", "unusable"}
    /\ kind = "nothing" => offered \in Bytes /\ confirmed = "no"
    /\ kind = "view" => ViewOK /\ (~trusted => InRange)
    /\ kind = "table" => Sound
    /\ confirmed = "index" => \/ kind = "view" /\ Confirmed
                              \/ kind = "table" /\ TableInv(Nat)

LEMMA LoadInvInit ==
    LoadInit => LoadInv
BY DEF LoadInit, LoadInv

(* Of what was offered, a check lets through what has the right shape.     *)
LEMMA OfferedTaken ==
    ASSUME offered \in Bytes, check_index_shape(offered),
           Takes(offered.values, offered.index)
    PROVE  ViewOK'
<1>1. offered.values \in Seq(Element) /\ IndexType(offered.index)
  BY LoadAssumption
<1> DEFINE vs == offered.values
           ix == offered.index
<1>2. /\ vs \in Seq(Element) /\ IndexType(ix) /\ Takes(vs, ix)
      /\ \/ ix.size = 0 /\ vs = <<>>
         \/ \E s \in ArrayShifts : calc_num_groups(s) = ix.size
  BY <1>1 DEF check_index_shape
<1> HIDE DEF vs, ix
<1> QED
  BY <1>2, Taking

LEMMA ViewIsSoundNext ==
    ViewOK' /\ check_index_unique(m_buckets, size)' => Sound'
BY ViewIsSound, PTL

LEMMA LoadTableInv ==
    ASSUME LoadInv, LoadTable
    PROVE  LoadInv'
<1>1. /\ kind = "nothing" /\ kind' = "table" /\ confirmed' = confirmed
      /\ check_index_shape(offered)
      /\ check_index_unique(offered.index, Len(offered.values))
      /\ Takes(offered.values, offered.index)
  BY DEF LoadTable
<1>2. offered \in Bytes /\ confirmed = "no"
  BY <1>1 DEF LoadInv
<1>3. ViewOK'
  BY <1>1, <1>2, OfferedTaken
<1>4. check_index_unique(m_buckets, size)'
  BY <1>1 DEF Takes, size, check_index_unique, check_index
<1>5. Sound'
  BY <1>3, <1>4, ViewIsSoundNext
<1> QED
  BY <1>1, <1>2, <1>5 DEF LoadInv

LEMMA LoadViewInv ==
    ASSUME LoadInv, NEW unchecked \in BOOLEAN, LoadView(unchecked)
    PROVE  LoadInv'
<1>1. /\ kind = "nothing" /\ kind' = "view" /\ confirmed' = confirmed
      /\ trusted' = unchecked
      /\ check_index_shape(offered)
      /\ unchecked \/ check_index(offered.index, Len(offered.values))
      /\ Takes(offered.values, offered.index)
  BY DEF LoadView
<1>2. offered \in Bytes /\ confirmed = "no"
  BY <1>1 DEF LoadInv
<1>3. ViewOK'
  BY <1>1, <1>2, OfferedTaken
<1>4. ~trusted' => InRange'
  BY <1>1 DEF Takes, size, check_index, InRange
<1> QED
  BY <1>1, <1>2, <1>3, <1>4 DEF LoadInv

LEMMA FromViewInv ==
    ASSUME LoadInv, FromView
    PROVE  LoadInv'
<1>1. /\ kind = "view" /\ kind' = "table" /\ confirmed' = confirmed
      /\ check_index_unique(m_buckets, size)
      /\ Takes(m_values, m_buckets)
  BY DEF FromView
<1>2. ViewOK
  BY <1>1 DEF LoadInv
<1>3. UNCHANGED vars
  BY <1>1, <1>2, TakingAgain
<1>4. Sound
  BY <1>1, <1>2, ViewIsSound
<1>5. Sound'
  BY <1>3, <1>4, SoundStays
<1>6. confirmed = "index" => TableInv(Nat)'
  <2> SUFFICES ASSUME confirmed = "index"
               PROVE  TableInv(Nat)'
    OBVIOUS
  <2>1. Confirmed /\ Idle
    BY <1>1, <1>2 DEF LoadInv, ViewOK
  <2>2. TableInv(Nat)
    BY <1>4, <2>1, VerifiedIsTable DEF Confirmed
  <2> QED
    BY <1>3, <2>2, TableStays
<1> QED
  BY <1>1, <1>5, <1>6 DEF LoadInv

LEMMA VerifyInv ==
    ASSUME LoadInv, Verify
    PROVE  LoadInv'
<1>1. /\ kind \in {"view", "table"} /\ Idle /\ InRange /\ verify("full")
      /\ confirmed' = IF CountersSuffice THEN "index" ELSE "answers"
      /\ UNCHANGED <<vars, offered, kind, trusted>>
  BY DEF Verify
<1>2. CASE kind = "view"
  <2>1. ViewOK' /\ (~trusted' => InRange')
    BY <1>1, <1>2, ViewStays, InRangeStays DEF LoadInv
  <2>2. confirmed' = "index" => Confirmed'
    BY <1>1, ConfirmedStays DEF Confirmed
  <2> QED
    BY <1>1, <1>2, <2>1, <2>2 DEF LoadInv
<1>3. CASE kind = "table"
  <2>1. Sound /\ Sound'
    BY <1>1, <1>3, SoundStays DEF LoadInv
  <2>2. confirmed' = "index" => TableInv(Nat)'
    BY <1>1, <2>1, VerifiedIsTable, TableStays
  <2> QED
    BY <1>1, <1>3, <2>1, <2>2 DEF LoadInv
<1> QED
  BY <1>1, <1>2, <1>3

LEMMA EraseInv ==
    ASSUME LoadInv, kind = "table", Erase, UNCHANGED <<offered, trusted, confirmed>>
    PROVE  LoadInv'
<1>1. Sound /\ (confirmed = "index" => TableInv(Nat))
  BY DEF LoadInv
<1>2. kind' = kind \/ kind' = "unusable"
  BY DEF Erase, Erases
<1>3. kind' = kind => Sound'
  BY <1>1, SoundErase
<1>4. confirmed = "index" => kind' = kind /\ TableInv(Nat)'
  BY <1>1, EraseGoesOn, NextInv
<1> QED
  BY <1>2, <1>3, <1>4 DEF LoadInv

LEMMA OtherInv ==
    ASSUME LoadInv, kind = "table", OtherOperation,
           UNCHANGED <<offered, kind, trusted, confirmed>>
    PROVE  LoadInv'
<1>1. Sound /\ (confirmed = "index" => TableInv(Nat))
  BY DEF LoadInv
<1>2. Sound'
  BY <1>1, SoundOther
<1>3. confirmed = "index" => TableInv(Nat)'
  BY <1>1, OtherIsNext, NextInv
<1> QED
  BY <1>2, <1>3 DEF LoadInv

LEMMA StutterInv ==
    ASSUME LoadInv, UNCHANGED load_vars
    PROVE  LoadInv'
<1>1. UNCHANGED vars /\ UNCHANGED <<offered, kind, trusted, confirmed>>
  BY DEF load_vars
<1>2. kind = "view" => ViewOK' /\ (~trusted' => InRange')
  BY <1>1, ViewStays, InRangeStays DEF LoadInv
<1>3. kind = "table" => Sound'
  BY <1>1, SoundStays DEF LoadInv
<1>4. confirmed = "index" => \/ kind = "view" /\ Confirmed'
                             \/ kind = "table" /\ TableInv(Nat)'
  BY <1>1, ConfirmedStays, TableStays DEF LoadInv
<1> QED
  BY <1>1, <1>2, <1>3, <1>4 DEF LoadInv

LEMMA LoadInvNext ==
    LoadInv /\ [LoadNext]_load_vars => LoadInv'
<1> SUFFICES ASSUME LoadInv, [LoadNext]_load_vars
             PROVE  LoadInv'
  OBVIOUS
<1> QED
  BY LoadTableInv, LoadViewInv, FromViewInv, VerifyInv, EraseInv, OtherInv, StutterInv
  DEF LoadNext

LEMMA LoadInvariant == LoadSpec => []LoadInv
BY LoadInvInit, LoadInvNext, PTL DEF LoadSpec

---------------------------------------------------------------------------
(* What it means for a caller                                              *)

LEMMA InvSafe ==
    LoadInv => CheckedStaysSafe
<1> SUFFICES ASSUME LoadInv
             PROVE  CheckedStaysSafe
  OBVIOUS
<1>1. kind = "view" /\ ~trusted => InRange
  BY DEF LoadInv
<1>2. ASSUME kind = "table"
      PROVE  /\ {m_buckets.slot[x].idx : x \in Occupied(m_buckets)} = 1 .. indexed
             /\ Cardinality(Occupied(m_buckets)) = indexed
             /\ RoomToPlace
             /\ \A k \in Key : Home(k, m_shifts) \in Groups(Data(m_buckets))
  <2>1. Sound
    BY <1>2 DEF LoadInv
  <2>2. /\ indexed \in Nat /\ size \in Nat /\ indexed <= size
        /\ calc_num_buckets(m_shifts) \in Nat /\ size <= calc_num_buckets(m_shifts)
        /\ WritableCapacity \in 0 .. calc_num_buckets(m_shifts)
    BY <2>1, SoundSizes
  <2>3. /\ {m_buckets.slot[x].idx : x \in Occupied(m_buckets)} = 1 .. indexed
        /\ Cardinality(Occupied(m_buckets)) = indexed
    <3>1. CASE m_buckets.size = 0
      <4>1. m_buckets = NoBlocks /\ m_values = <<>>
        BY <2>1, <3>1 DEF Sound, SizedOK
      <4>2. Occupied(m_buckets) = {}
        BY <4>1, EmptyBlocksType DEF NoBlocks
      <4>3. indexed = 0
        BY <2>2, <4>1 DEF size
      <4> QED
        BY <4>2, <4>3, FS_EmptySet
    <3>2. CASE m_buckets.size # 0
      <4>1. OnceFor(m_buckets, m_shifts, 1 .. indexed)
        BY <2>1, <3>2 DEF Sound, Data
      <4>2. Cardinality(Occupied(m_buckets)) = indexed
        BY <2>2, <4>1, OnceCounts
      <4> QED
        BY <4>1, <4>2 DEF OnceFor
    <3> QED
      BY <3>1, <3>2
  <2>4. RoomToPlace
    <3> SUFFICES ASSUME ~Idle \/ size + 1 <= WritableCapacity
                 PROVE  HasRoom(WritableBlocks)
      BY DEF RoomToPlace
    <3>1. indexed < calc_num_buckets(m_shifts)
      BY <2>2 DEF Idle
    <3> QED
      BY <2>1, <3>1, SoundHasRoom
  <2>5. \A k \in Key : Home(k, m_shifts) \in Groups(Data(m_buckets))
    BY <2>1, HomeAssumption DEF Sound, OnceFor, Groups
  <2> QED
    BY <2>3, <2>4, <2>5
<1> QED
  BY <1>1, <1>2 DEF CheckedStaysSafe

LEMMA InvProves ==
    LoadInv => VerifyProves
<1> SUFFICES ASSUME LoadInv, kind \in {"view", "table"}, Idle, InRange
             PROVE  /\ verify("full") =>
                         /\ KeysUnique /\ LookupsAgree
                         /\ check_index(m_buckets, size) => IndexExact
                    /\ verify("full") => verify("spot")
                    /\ size <= Spots => (verify("spot") => verify("full"))
  BY DEF VerifyProves
<1>1. Still
  BY ViewIsStill, SoundIsStill DEF LoadInv
<1>2. size \in Nat
  BY <1>1, StillKeys
<1>3. /\ verify("full") <=> \A p \in 1 .. size : Consistent(p)
      /\ verify("spot") <=> \A p \in SpotPositions : Consistent(p)
  BY DEF verify
<1>4. verify("full") => verify("spot")
  BY <1>2, <1>3, SpotsAreValues
<1>5. size <= Spots => (verify("spot") => verify("full"))
  BY <1>2, <1>3, SpotsAreAll
<1> QED
  BY <1>1, <1>4, <1>5, FullVerifyAnswers, FullVerifyIndex

LEMMA InvHarmless ==
    LoadInv => HighCountersAreHarmless
<1> SUFFICES ASSUME LoadInv, confirmed = "index"
             PROVE  CountersSuffice /\ KeysUnique /\ LookupsAgree
  BY DEF HighCountersAreHarmless
<1>1. CASE kind = "view" /\ Confirmed
  <2>1. Still
    BY <1>1, ViewIsStill DEF LoadInv
  <2> QED
    BY <1>1, <2>1, FullVerifyAnswers DEF Confirmed
<1>2. CASE kind = "table" /\ TableInv(Nat)
  <2>1. KeysUnique /\ LookupsAgree
    BY <1>2, InvKeys, InvLookups
  <2>2. CountersSuffice
    <3> SUFFICES ASSUME NEW g \in Groups(m_buckets), NEW class \in Counter,
                        m_buckets.overflow[<<g, class>>] # MaxCounter
                 PROVE  m_buckets.overflow[<<g, class>>] >=
                          Cardinality(PassedBy(m_buckets, m_shifts, KeyAt, g, class))
      BY DEF CountersSuffice
    <3>1. m_buckets.size # 0
      BY DEF Groups
    <3>2. IndexType(m_buckets) /\ CountsWithin(m_buckets, m_shifts, KeyAt, Nat)
      BY <1>2, <3>1 DEF TableInv, IndexOK, IndexFor, Data
    <3> DEFINE n == Cardinality(PassedBy(m_buckets, m_shifts, KeyAt, g, class))
               c == m_buckets.overflow[<<g, class>>]
    <3>3. c - n \in Nat
      BY <3>2 DEF CountsWithin, CountIs
    <3>4. n \in Nat
      <4>1. PassedBy(m_buckets, m_shifts, KeyAt, g, class) \subseteq Occupied(m_buckets)
        BY DEF PassedBy
      <4>2. IsFiniteSet(Occupied(m_buckets))
        BY <3>2, SlotsFinite DEF IndexType
      <4> QED
        BY <4>1, <4>2, FS_Subset, FS_CardinalityType
    <3>5. c \in Nat
      BY <3>2, SizesAssumption DEF IndexType
    <3> HIDE DEF n, c
    <3>6. c >= n
      BY <3>3, <3>4, <3>5
    <3> QED
      BY <3>6 DEF n, c
  <2> QED
    BY <2>1, <2>2
<1> QED
  BY <1>1, <1>2 DEF LoadInv

(* A table whose bytes passed the check stays safe, right or wrong as they *)
(* were: its index points at each value exactly once through every         *)
(* operation, a walk that has to place a value always finds a free slot,   *)
(* and no hash names a group past the array; a view that was checked reads *)
(* nothing past its values.  (check_index, check_index_block_unique.) *)
THEOREM LoadedStaysSafe == LoadSpec => []CheckedStaysSafe
BY LoadInvariant, InvSafe, PTL

(* Whatever the bytes hold, verify(full) that is true proves that no key   *)
(* is twice and every lookup is right, and with the counts of check_index  *)
(* that the index is exact; it is never less strict than a spot check, and *)
(* not stricter for no more values than one looks at.  (verify.) *)
THEOREM VerifyIsAProof == LoadSpec => []VerifyProves
BY LoadInvariant, InvProves, PTL

(* Once verify(full) was true with no counter too low, no operation ever   *)
(* makes one too low, and every answer stays right: a counter that is too  *)
(* high does no harm.  (verify, uncount.) *)
THEOREM HighCountersStayHarmless == LoadSpec => []HighCountersAreHarmless
BY LoadInvariant, InvHarmless, PTL
=============================================================================
