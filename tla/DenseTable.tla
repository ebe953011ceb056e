----------------------------- MODULE DenseTable -----------------------------
(***************************************************************************)
(* One owning map (detail::table): the values, densely stored without      *)
(* holes, the index that finds them, and the scalars that describe the     *)
(* index.  One action per operation of the public interface.               *)
(*                                                                         *)
(* A single thread runs an operation from its start to its end.  The two   *)
(* loops that index the values one after the other -- filling an array     *)
(* that a growth, a rehash or a reserve has just emptied, and the loop of  *)
(* replace() that also drops duplicates -- are one step per value: while   *)
(* indexed < Len(m_values) the operation that started the loop has not     *)
(* returned, and nothing but the next step of that loop is enabled.        *)
(*                                                                         *)
(* Hash and key comparison do not throw here, and nothing is shared        *)
(* between threads.                                                        *)
(***************************************************************************)
EXTENDS GroupIndex, Sequences

CONSTANTS
    Value,              \* the mapped values
    DefaultLoadFactor,  \* default_max_load_factor, in percent     (80)
    LoadFactors,        \* what max_load_factor(float) is called with, percent
    Sizes,              \* what rehash and reserve are called with
    Containers          \* what replace is called with: sequences of elements

VARIABLES
    m_values,
    m_buckets,
    m_max_bucket_capacity,
    m_max_load_factor,      \* in percent
    m_shifts,
    indexed,                \* the values at positions 1 .. indexed have a slot
    dedup                   \* the loop that is running is that of replace()

vars == <<m_values, m_buckets, m_max_bucket_capacity, m_max_load_factor,
          m_shifts, indexed, dedup>>

Element == [key : Key, val : Value]

ASSUME TableAssumption ==
    /\ DefaultLoadFactor \in 0 .. 100
    /\ LoadFactors \subseteq Nat
    /\ Sizes \subseteq Nat
    /\ Containers \subseteq Seq(Element)
    /\ \A c \in Containers : Len(c) <= MaxBucketCount

size  == Len(m_values)
Idle  == indexed = size

(* The keys of the values, by position. *)
KeyAt == [p \in 1 .. size |-> m_values[p].key]

bucket_count == m_buckets.size * SlotsPerGroup

---------------------------------------------------------------------------
(* The size of the index *)

(* The loop counts the shift down from InitialShifts until one of these. *)
large_enough(shifts, n) ==
    \/ shifts = 0
    \/ calc_num_buckets(shifts) >= MaxBucketCount
    \/ (calc_num_buckets(shifts) * m_max_load_factor) \div 100 >= n

calc_shifts_for_size(n) ==
    CHOOSE s \in 0 .. InitialShifts :
      /\ large_enough(s, n)
      /\ \A t \in 0 .. InitialShifts : large_enough(t, n) => t <= s

(* A new, empty array: the shift and the capacity change with it. *)
allocate_buckets_from_shift(shifts) ==
    /\ m_buckets' = EmptyBlocks(calc_num_groups(shifts))
    /\ m_shifts' = shifts
    /\ m_max_bucket_capacity' = capacity_for(calc_num_buckets(shifts),
                                             m_max_load_factor)

clear_buckets ==
    /\ m_buckets' = EmptyBlocks(m_buckets.size)
    /\ UNCHANGED <<m_shifts, m_max_bucket_capacity>>

(* allocate_buckets_if_none(): the array and its capacity as an operation  *)
(* that writes the index sees them. *)
WritableBlocks   == Data(m_buckets)
WritableCapacity == IF m_buckets.size = 0
                    THEN capacity_for(calc_num_buckets(m_shifts),
                                      m_max_load_factor)
                    ELSE m_max_bucket_capacity

FindsKey(key)  == Found(Data(m_buckets), m_shifts, m_values, key)
SlotOfKey(key) == probe(Data(m_buckets), m_shifts, m_values, key)
IndexOfKey(key) == m_buckets.slot[SlotOfKey(key)].idx

---------------------------------------------------------------------------
Init ==
    /\ m_values = <<>>
    /\ m_buckets = NoBlocks
    /\ m_max_bucket_capacity = 0
    /\ m_max_load_factor = DefaultLoadFactor
    /\ m_shifts = InitialShifts
    /\ indexed = 0
    /\ dedup = FALSE

(* insert, emplace, try_emplace, insert_or_assign and operator[] of a key  *)
(* that is absent, with room for it: appended, then given a slot.          *)
InsertPlaces(key, val) ==
    /\ Idle
    /\ ~FindsKey(key)
    /\ size + 1 <= WritableCapacity
    /\ m_values' = Append(m_values, [key |-> key, val |-> val])
    /\ m_buckets' = place_group(WritableBlocks, m_shifts, key, size + 1)
    /\ m_max_bucket_capacity' = WritableCapacity
    /\ indexed' = size + 1
    /\ UNCHANGED <<m_max_load_factor, m_shifts, dedup>>

(* The same with the table full: an array of twice the size, into which    *)
(* every value is placed, the new one with the rest.                       *)
InsertGrows(key, val) ==
    /\ Idle
    /\ ~FindsKey(key)
    /\ size + 1 > WritableCapacity
    /\ WritableCapacity # MaxBucketCount
    /\ m_values' = Append(m_values, [key |-> key, val |-> val])
    /\ allocate_buckets_from_shift(m_shifts - 1)
    /\ indexed' = 0
    /\ UNCHANGED <<m_max_load_factor, dedup>>

(* A slip: the shift runs ahead of an array that is not allocated. *)
InsertThrowsShiftAhead(key) ==
    /\ Idle
    /\ ~FindsKey(key)
    /\ m_buckets' = WritableBlocks
    /\ m_max_bucket_capacity' = WritableCapacity
    /\ m_shifts' = IF size + 1 > WritableCapacity THEN m_shifts - 1 ELSE m_shifts
    /\ UNCHANGED <<m_values, m_max_load_factor, indexed, dedup>>

(* The same, failing after the first array was allocated: the append, or   *)
(* the allocation of the larger array threw, or there is no larger array   *)
(* (on_error_bucket_overflow).  The appended value is taken out again.     *)
InsertThrows(key) ==
    /\ Idle
    /\ ~FindsKey(key)
    /\ m_buckets' = WritableBlocks
    /\ m_max_bucket_capacity' = WritableCapacity
    /\ UNCHANGED <<m_values, m_max_load_factor, m_shifts, indexed, dedup>>

(* The same operations of a key that is present. *)
InsertFinds(key) ==
    /\ Idle
    /\ FindsKey(key)
    /\ m_buckets' = move_home(m_buckets, m_shifts, key, SlotOfKey(key))
    /\ UNCHANGED <<m_values, m_max_bucket_capacity, m_max_load_factor,
                   m_shifts, indexed, dedup>>

(* insert_or_assign of a key that is present, or an assignment through the *)
(* reference operator[] returned. *)
AssignFinds(key, val) ==
    /\ Idle
    /\ FindsKey(key)
    /\ m_buckets' = move_home(m_buckets, m_shifts, key, SlotOfKey(key))
    /\ m_values' = [m_values EXCEPT ![IndexOfKey(key)].val = val]
    /\ UNCHANGED <<m_max_bucket_capacity, m_max_load_factor, m_shifts,
                   indexed, dedup>>

(* The hole an erased value leaves is filled with the last value. *)
CloseHole(values, p) ==
    SubSeq([values EXCEPT ![p] = values[Len(values)]], 1, Len(values) - 1)

(* A slip: the slot of the value that moved is not repointed. *)
do_erase_only(at, p) ==
    /\ m_values' = CloseHole(m_values, p)
    /\ m_buckets' = erase_group_slot(m_buckets, m_shifts, m_values[p].key, at)
    /\ indexed' = size - 1
    /\ UNCHANGED <<m_max_bucket_capacity, m_max_load_factor, m_shifts, dedup>>

(* do_erase: the slot is freed and its counters taken back, then the last  *)
(* value moves into the hole and its slot is repointed.                    *)
do_erase(at, p) ==
    LET freed == erase_group_slot(m_buckets, m_shifts, m_values[p].key, at)
        last  == m_values[size]
    IN  /\ m_values' = CloseHole(m_values, p)
        /\ m_buckets' = IF p = size THEN freed
                        ELSE repoint_value(freed, m_shifts, last.key, size, p)
        /\ indexed' = size - 1
        /\ UNCHANGED <<m_max_bucket_capacity, m_max_load_factor, m_shifts, dedup>>

(* erase(key), extract(key) *)
EraseKey(key) ==
    /\ Idle
    /\ FindsKey(key)
    /\ do_erase(SlotOfKey(key), IndexOfKey(key))

(* erase(it), extract(it), and each step of erase(first, last) and erase_if *)
EraseAt(p) ==
    /\ Idle
    /\ PointsAt(m_buckets, m_values[p].key, p) # {}
    /\ do_erase(slot_of_value(m_buckets, m_shifts, m_values[p].key, p), p)

(* replace_key(it, new_key) with a key that is absent *)
replace_key(p, new_key) ==
    LET old == m_values[p].key
        at  == slot_of_value(m_buckets, m_shifts, old, p)
    IN  /\ Idle
        /\ ~FindsKey(new_key)
        /\ PointsAt(m_buckets, old, p) # {}
        /\ m_values' = [m_values EXCEPT ![p].key = new_key]
        /\ m_buckets' = place_group(erase_group_slot(m_buckets, m_shifts, old, at),
                                    m_shifts, new_key, p)
        /\ UNCHANGED <<m_max_bucket_capacity, m_max_load_factor, m_shifts,
                       indexed, dedup>>

(* clear() leaves an empty table as it is. *)
Clear ==
    /\ Idle
    /\ m_values # <<>>
    /\ m_values' = <<>>
    /\ clear_buckets
    /\ indexed' = 0
    /\ UNCHANGED <<m_max_load_factor, dedup>>

(* extract() && hands the values out and empties the index, always. *)
ExtractAll ==
    /\ Idle
    /\ m_values' = <<>>
    /\ clear_buckets
    /\ indexed' = 0
    /\ UNCHANGED <<m_max_load_factor, dedup>>

(* A slip: a load factor above 1 is taken as it comes. *)
max_load_factor_uncapped(ml) ==
    /\ Idle
    /\ m_max_load_factor' = ml
    /\ m_max_bucket_capacity' =
         IF bucket_count = MaxBucketCount THEN m_max_bucket_capacity
         ELSE (bucket_count * ml) \div 100
    /\ UNCHANGED <<m_values, m_buckets, m_shifts, indexed, dedup>>

max_load_factor(ml) ==
    LET capped == IF ml < 100 THEN ml ELSE 100
    IN  /\ Idle
        /\ m_max_load_factor' = capped
        /\ m_max_bucket_capacity' =
             IF bucket_count = MaxBucketCount THEN m_max_bucket_capacity
             ELSE (bucket_count * capped) \div 100
        /\ UNCHANGED <<m_values, m_buckets, m_shifts, indexed, dedup>>

AtLeastSize(count) ==
    LET capped == IF count < MaxBucketCount THEN count ELSE MaxBucketCount
    IN  IF capped < size THEN size ELSE capped

(* rehash(count) always rebuilds the index of a table that has one,        *)
(* growing or shrinking it.  A table without an array gets one if its      *)
(* shift changes, and is left as it is otherwise. *)
rehash(count) ==
    LET shifts == calc_shifts_for_size(AtLeastSize(count))
    IN  /\ Idle
        /\ IF shifts # m_shifts
           THEN allocate_buckets_from_shift(shifts)
           ELSE clear_buckets
        /\ indexed' = 0
        /\ UNCHANGED <<m_values, m_max_load_factor, dedup>>

(* reserve(capa) only ever grows it. *)
reserve(capa) ==
    LET shifts == calc_shifts_for_size(AtLeastSize(capa))
    IN  /\ Idle
        /\ bucket_count = 0 \/ shifts < m_shifts
        /\ allocate_buckets_from_shift(shifts)
        /\ indexed' = 0
        /\ UNCHANGED <<m_values, m_max_load_factor, dedup>>

(* replace(container), up to its loop.  A container with another allocator *)
(* gets an array of its own size even where the present one is larger.     *)
replace(container, other_allocator) ==
    LET shifts == calc_shifts_for_size(Len(container))
    IN  /\ Idle
        /\ IF bucket_count = 0 \/ shifts < m_shifts \/ other_allocator
           THEN allocate_buckets_from_shift(shifts)
           ELSE clear_buckets
        /\ m_values' = container
        /\ indexed' = 0
        /\ dedup' = (container # <<>>)
        /\ UNCHANGED m_max_load_factor

---------------------------------------------------------------------------
(* The two loops.  NextValue is the value they have come to. *)
NextValue == m_values[indexed + 1]

PlaceNext ==
    /\ m_buckets' = place_group(m_buckets, m_shifts, NextValue.key, indexed + 1)
    /\ indexed' = indexed + 1
    /\ UNCHANGED <<m_values, m_max_bucket_capacity, m_max_load_factor, m_shifts>>

(* fill_buckets_from_values: every key is known to be absent. *)
FillStep ==
    /\ ~Idle
    /\ ~dedup
    /\ PlaceNext
    /\ UNCHANGED dedup

(* replace(): a key that is new is placed ... *)
ReplaceKeeps ==
    /\ ~Idle
    /\ dedup
    /\ ~FindsKey(NextValue.key)
    /\ PlaceNext
    /\ dedup' = (indexed + 1 # size)

(* Two slips: the last value leaves without taking the duplicate's place,  *)
(* and it takes that place without leaving its own. *)
ReplaceDropsLast ==
    /\ ~Idle
    /\ dedup
    /\ FindsKey(NextValue.key)
    /\ m_values' = SubSeq(m_values, 1, size - 1)
    /\ dedup' = (indexed # size - 1)
    /\ UNCHANGED <<m_buckets, m_max_bucket_capacity, m_max_load_factor,
                   m_shifts, indexed>>

ReplaceDropsNothing ==
    /\ ~Idle
    /\ dedup
    /\ FindsKey(NextValue.key)
    /\ m_values' = [m_values EXCEPT ![indexed + 1] = m_values[size]]
    /\ UNCHANGED <<m_buckets, m_max_bucket_capacity, m_max_load_factor,
                   m_shifts, indexed, dedup>>

(* ... and a duplicate is overwritten with the last value, which is looked *)
(* at next. *)
ReplaceDrops ==
    /\ ~Idle
    /\ dedup
    /\ FindsKey(NextValue.key)
    /\ m_values' = CloseHole(m_values, indexed + 1)
    /\ dedup' = (indexed # size - 1)
    /\ UNCHANGED <<m_buckets, m_max_bucket_capacity, m_max_load_factor,
                   m_shifts, indexed>>

Loop == FillStep \/ ReplaceKeeps \/ ReplaceDrops

Next ==
    \/ \E key \in Key, val \in Value : \/ InsertPlaces(key, val)
                                       \/ InsertGrows(key, val)
                                       \/ AssignFinds(key, val)
    \/ \E key \in Key : InsertThrows(key) \/ InsertFinds(key) \/ EraseKey(key)
    \/ \E p \in 1 .. size : \/ EraseAt(p)
                            \/ \E key \in Key : replace_key(p, key)
    \/ Clear
    \/ ExtractAll
    \/ \E ml \in LoadFactors : max_load_factor(ml)
    \/ \E n \in Sizes : rehash(n) \/ reserve(n)
    \/ \E c \in Containers, b \in BOOLEAN : replace(c, b)
    \/ Loop

Spec     == Init /\ [][Next]_vars
FairSpec == Spec /\ WF_vars(Loop)
---------------------------------------------------------------------------
(* Properties *)

(* Every variable has its type, and the capacity of an index is never more *)
(* than its slots. *)
TypeOK ==
    /\ m_values \in Seq(Element)
    /\ IndexType(m_buckets)
    /\ m_max_bucket_capacity \in 0 .. bucket_count
    /\ m_max_load_factor \in 0 .. 100
    /\ m_shifts \in 0 .. InitialShifts
    /\ indexed \in 0 .. size
    /\ dedup \in BOOLEAN

(* The shift always is that of the array there is, so that hash >> m_shifts *)
(* never names a group past its end (allocate_buckets_from_shift commits    *)
(* both together); a table without an array has no values and reads the     *)
(* sentinel with the smallest array's shift. *)
ShiftMatchesArray ==
    /\ \A k \in Key : Home(k, m_shifts) \in Groups(Data(m_buckets))
    /\ IF m_buckets.size = 0
       THEN m_shifts = InitialShifts /\ size = 0 /\ m_max_bucket_capacity = 0
       ELSE m_buckets.size = calc_num_groups(m_shifts)

(* The index points at each of the values it has been given exactly once,  *)
(* through growth, the value an erase moves into the hole, and every other *)
(* operation. *)
IndexExact == PointsExactly(m_buckets, KeyAt, 1 .. indexed)

(* "the counters are exact": each is the number of live entries of its     *)
(* class that passed its group, so an erase has undone exactly what its    *)
(* insert did, also when the entry moved home or a key was replaced. *)
CountersExact == CountsExactly(m_buckets, m_shifts, KeyAt)

(* No key is twice among the values that are indexed, nor among all of     *)
(* them unless replace() is still dropping duplicates. *)
KeysUnique ==
    \A p, q \in 1 .. (IF dedup THEN indexed ELSE size) :
      m_values[p].key = m_values[q].key => p = q

(* A probe, which stops at the first counter that is zero, finds a key if  *)
(* and only if one of the indexed values has it, and finds that value. *)
LookupsAgree ==
    \A k \in Key :
      LET holders == {p \in 1 .. indexed : m_values[p].key = k}
      IN  /\ FindsKey(k) <=> holders # {}
          /\ FindsKey(k) => IndexOfKey(k) \in holders

(* The walk of place_group has no bound of its own: whenever a value is    *)
(* about to be placed some group has a free slot, at every load factor. *)
RoomToPlace ==
    (~Idle \/ size + 1 <= WritableCapacity) => HasRoom(WritableBlocks)

IndexedKeys == {m_values[p].key : p \in 1 .. indexed}
Holds(x, k) == /\ x \in Occupied(m_buckets)
               /\ m_values[m_buckets.slot[x].idx].key = k

(* An entry stays where it was placed until the array is rebuilt, or moves *)
(* to its home group: no operation displaces the entry of another key. *)
EntriesOnlyMoveHome ==
    [][\A k \in Key, x \in Occupied(m_buckets) :
         Holds(x, k) /\ (k \in IndexedKeys)' =>
           \/ Holds(x, k)'
           \/ \E lane \in Lane : Holds(<<Home(k, m_shifts), lane>>, k)']_vars

(* "A counter saturates at 255 and is then never decremented" until the    *)
(* array is cleared or replaced. *)
SaturatedStays ==
    [][indexed' > 0 =>
         \A y \in DOMAIN m_buckets.overflow :
           m_buckets.overflow[y] = MaxCounter => m_buckets'.overflow[y] = MaxCounter]_vars

(* What a caller can find, which is the map this table is; while a loop    *)
(* runs nobody can look. *)
LookupContents ==
    IF Idle THEN {m_values[IndexOfKey(k)] : k \in {j \in Key : FindsKey(j)}}
            ELSE {m_values[p] : p \in 1 .. size}

Map == INSTANCE AbstractMap WITH contents <- LookupContents, settling <- dedup

(* The table is a map: every operation changes what lookups find the way   *)
(* its contract says, and one that throws changes nothing. *)
ImplementsMap == Map!Spec

(* The loops that index values come to their end, replace() with every     *)
(* duplicate gone. *)
LoopsEnd == ~Idle ~> (Idle /\ ~dedup)
=============================================================================
