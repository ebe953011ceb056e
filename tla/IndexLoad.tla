------------------------------ MODULE IndexLoad ------------------------------
(***************************************************************************)
(* An index from outside: a table constructed from values and the blocks   *)
(* of an index that were written elsewhere, a read only view of such       *)
(* bytes, a table made from a view, and verify().                          *)
(*                                                                         *)
(* The bytes may be anything.  What a check lets through is then used as   *)
(* any other table is, by the operations of DenseTable; only an erase has  *)
(* one more outcome, on_error_key_changed(), when no slot with the right   *)
(* fingerprint points at the value that has to fill the hole.              *)
(*                                                                         *)
(* A caller who passes trust::unchecked to an owning table vouches for the *)
(* bytes, which is the table of a check that passes; with bytes that would *)
(* not pass, the header promises nothing.                                  *)
(***************************************************************************)
EXTENDS DenseTable

CONSTANTS Bytes,   \* what may be offered: [values, index, aligned]
          Spots    \* the values a spot check looks at        (16)

VARIABLES
    offered,     \* the caller's bytes; Taken once a table or a view has them
    kind,        \* what there is: "nothing", "view", "table", "unusable"
    trusted,     \* the view was made with trust::unchecked
    confirmed    \* "no"; "answers" and "index": verify(full) was true, and
                 \* with "index" no counter was too low when it was

load_vars == <<vars, offered, kind, trusted, confirmed>>

Taken == "taken"

ASSUME LoadAssumption ==
    /\ Spots \in Nat \ {0}
    /\ \A b \in Bytes : b.values \in Seq(Element) /\ IndexType(b.index)

---------------------------------------------------------------------------
(* The checks *)

(* O(1): no blocks for no values, or as many as an array may have.         *)
check_index_shape(b) ==
    \/ b.index.size = 0 /\ b.values = <<>>
    \/ /\ \E s \in ArrayShifts : calc_num_groups(s) = b.index.size
       /\ b.aligned

(* Every full slot points at a value, and there are as many of them. *)
check_index(ix, num_values) ==
    /\ \A x \in Occupied(ix) : ix.slot[x].idx \in 1 .. num_values
    /\ Cardinality(Occupied(ix)) = num_values

(* ... and no two slots at the same one: check_index_block_unique. *)
check_index_unique(ix, num_values) ==
    /\ check_index(ix, num_values)
    /\ \A x, y \in Occupied(ix) : ix.slot[x].idx = ix.slot[y].idx => x = y

ShiftsOf(n) == CHOOSE s \in ArrayShifts : calc_num_groups(s) = n

(* Values and blocks become those of the table or the view; a table of no  *)
(* blocks stays without an array.  (describe_loaded_index) *)
Takes(values, ix) ==
    /\ m_values' = values
    /\ m_buckets' = ix
    /\ indexed' = Len(values)
    /\ IF ix.size = 0
       THEN m_shifts' = InitialShifts /\ m_max_bucket_capacity' = 0
       ELSE /\ m_shifts' = ShiftsOf(ix.size)
            /\ m_max_bucket_capacity' =
                 capacity_for(ix.size * SlotsPerGroup, DefaultLoadFactor)
    /\ m_max_load_factor' = DefaultLoadFactor
    /\ dedup' = FALSE
    /\ offered' = Taken

(* table(values, index, trust): rejected bytes stay with the caller, which *)
(* is no step. *)
LoadTable ==
    /\ kind = "nothing"
    /\ check_index_shape(offered)
    /\ check_index_unique(offered.index, Len(offered.values))
    /\ Takes(offered.values, offered.index)
    /\ kind' = "table"
    /\ UNCHANGED <<trusted, confirmed>>

(* map_view(values, index, trust): misaligned values are rejected too.     *)
LoadView(unchecked) ==
    /\ kind = "nothing"
    /\ check_index_shape(offered)
    /\ offered.values = <<>> \/ offered.aligned
    /\ unchecked \/ check_index(offered.index, Len(offered.values))
    /\ Takes(offered.values, offered.index)
    /\ kind' = "view"
    /\ trusted' = unchecked
    /\ UNCHANGED confirmed

(* table(view): checked, whatever trust the view was made with. *)
FromView ==
    /\ kind = "view"
    /\ check_index_unique(m_buckets, size)
    /\ Takes(m_values, m_buckets)
    /\ kind' = "table"
    /\ trusted' = FALSE
    /\ UNCHANGED confirmed

---------------------------------------------------------------------------
(* verify *)

InRange == \A x \in Occupied(m_buckets) : m_buckets.slot[x].idx \in 1 .. size

(* find() of the key of the value at p returns p. *)
Consistent(p) == FindsKey(m_values[p].key) /\ IndexOfKey(m_values[p].key) = p

SpotPositions == {1 + j * (size \div Spots) + (j * (size % Spots)) \div Spots :
                    j \in IF size = 0 THEN {} ELSE 0 .. Spots - 1}

verify(level) ==
    \A p \in IF level = "full" THEN 1 .. size ELSE SpotPositions : Consistent(p)

(* No counter is lower than what it counts, unless it has saturated. *)
CountersSuffice ==
    \A g \in Groups(m_buckets), class \in Counter :
      \/ m_buckets.overflow[<<g, class>>] = MaxCounter
      \/ m_buckets.overflow[<<g, class>>] >=
           Cardinality(PassedBy(m_buckets, m_shifts, KeyAt, g, class))

(* A caller asks verify(full), and hears that all is well. *)
Verify ==
    /\ kind \in {"view", "table"} /\ Idle /\ InRange
    /\ confirmed = "no"
    /\ verify("full")
    /\ confirmed' = IF CountersSuffice THEN "index" ELSE "answers"
    /\ UNCHANGED <<vars, offered, kind, trusted>>

---------------------------------------------------------------------------
(* The operations of a table that was loaded *)

(* finish_erase finds the slot to repoint, or throws: the entry is gone,   *)
(* and the last value is in the hole and still at the end. *)
Erases(at, p) ==
    LET freed == erase_group_slot(m_buckets, m_shifts, m_values[p].key, at)
    IN  IF p = size \/ PointsAt(freed, m_values[size].key, size) # {}
        THEN do_erase(at, p) /\ UNCHANGED kind
        ELSE /\ kind' = "unusable"
             /\ m_buckets' = freed
             /\ m_values' = [m_values EXCEPT ![p] = m_values[size]]
             /\ UNCHANGED <<m_max_bucket_capacity, m_max_load_factor, m_shifts,
                            indexed, dedup>>

(* erase(key) and erase(it).  Without a slot that points at the value of   *)
(* the iterator, on_error_key_changed() comes before anything has changed. *)
Erase ==
    /\ Idle
    /\ \/ \E key \in Key : FindsKey(key) /\ Erases(SlotOfKey(key), IndexOfKey(key))
       \/ \E p \in 1 .. size :
            /\ PointsAt(m_buckets, m_values[p].key, p) # {}
            /\ Erases(slot_of_value(m_buckets, m_shifts, m_values[p].key, p), p)

(* Those that cannot tell a wrong index from a right one, or build a new   *)
(* one from the values. *)
OtherOperation ==
    \/ \E key \in Key, val \in Value : InsertPlaces(key, val) \/ InsertGrows(key, val)
    \/ \E key \in Key : InsertThrows(key) \/ InsertFinds(key)
    \/ \E p \in 1 .. size, key \in Key : replace_key(p, key)
    \/ Clear
    \/ \E ml \in LoadFactors : max_load_factor(ml)
    \/ \E n \in Sizes : rehash(n) \/ reserve(n)
    \/ FillStep

LoadInit ==
    /\ Init
    /\ offered \in Bytes
    /\ kind = "nothing" /\ trusted = FALSE /\ confirmed = "no"

LoadNext ==
    \/ LoadTable
    \/ \E unchecked \in BOOLEAN : LoadView(unchecked)
    \/ FromView
    \/ Verify
    \/ kind = "table" /\ Erase /\ UNCHANGED <<offered, trusted, confirmed>>
    \/ kind = "table" /\ OtherOperation /\ UNCHANGED <<offered, kind, trusted, confirmed>>

LoadSpec == LoadInit /\ [][LoadNext]_load_vars

---------------------------------------------------------------------------
(* Properties *)

(* "With every value pointed at exactly once, every operation keeps it so" *)
(* (unordered_dense.h:1592): in a table whose bytes passed the check,      *)
(* right or wrong, no slot ever points past the values, no two point at    *)
(* one, and a walk that has to place a value finds a free slot; a view     *)
(* that was checked reads nothing past its values. *)
CheckedStaysSafe ==
    /\ kind = "table" =>
         /\ {m_buckets.slot[x].idx : x \in Occupied(m_buckets)} = 1 .. indexed
         /\ Cardinality(Occupied(m_buckets)) = indexed
         /\ RoomToPlace
         /\ \A k \in Key : Home(k, m_shifts) \in Groups(Data(m_buckets))
    /\ kind = "view" /\ ~trusted => InRange

(* verify(full) of bytes that passed a check "also makes the index a       *)
(* bijection onto the values" with the right fingerprints, no key twice    *)
(* and every lookup right (unordered_dense.h:4990); a spot check of no     *)
(* more values than it looks at is a full one. *)
VerifyProves ==
    kind \in {"view", "table"} /\ Idle /\ InRange =>
      /\ verify("full") =>
           /\ KeysUnique /\ LookupsAgree
           /\ check_index(m_buckets, size) => IndexExact
      /\ verify("full") => verify("spot")
      /\ size <= Spots => (verify("spot") => verify("full"))

(* A counter that is too high "lengthens a miss and changes no answer"     *)
(* (unordered_dense.h:4994), whatever is done to the table later: it is    *)
(* never taken down to where a probe would stop too early. *)
HighCountersAreHarmless ==
    confirmed = "index" => CountersSuffice /\ KeysUnique /\ LookupsAgree

(* "only verify(verify_level::full) makes them correct"                    *)
(* (unordered_dense.h:3998): a table that verify(full) has confirmed gives *)
(* right answers from then on. *)
VerifiedStaysCorrect == confirmed # "no" => LookupsAgree
=============================================================================
