-------------------------- MODULE TableBatchProofs --------------------------
(***************************************************************************)
(* The operations that take many elements at a time, for every set of      *)
(* keys, every two hashes, every depth of the look-ahead, every range and  *)
(* container, and tables of every number of elements.                      *)
(*                                                                         *)
(* BatchInv is inductive.  It says of each loop how far it has come and    *)
(* what it has done by then, in terms of what it was called on; that the   *)
(* slots of the look-ahead hold the hashes of the elements they are read   *)
(* for; and that the two tables are tables in order, as DenseTableProofs   *)
(* has it of one table.  That holds of the one table throughout, as each   *)
(* step of a batch is a step of DenseTable or none.  The source of a merge *)
(* is no such table while its elements are moved; it is put in order by    *)
(* the index that is built when the loop is over.                          *)
(*                                                                         *)
(* First comes all that is about the loops and the one table (LoopInv),    *)
(* and then what the source adds (SourceOK): it is a table like the other, *)
(* for the theorems about which it has an instance of its own.             *)
(***************************************************************************)
EXTENDS TableBatch, DenseTableProofs, SequenceTheorems

---------------------------------------------------------------------------
(* The inductive invariant of a batch *)

Ops == {"fill", "insert", "replace", "replace_ahead", "erase_forward", "erase_back",
        "erase_if", "merge", "merge_ahead", "reindex", "done"}

Merging == loop.op \in {"merge", "merge_ahead"}

OneEach(values) ==
    \A p, q \in 1 .. Len(values) : values[p].key = values[q].key => p = q

(* The loop, and what the batch was called on. *)
CalledOK ==
    /\ loop \in [op : Ops, read : Nat, write : Nat, look : Nat, threw : SUBSET Element]
    /\ DOMAIN call = {"kind", "values", "source", "arg"} /\ call.kind \in Kinds
    /\ DOMAIN ring = 0 .. Depth - 1
    /\ call.values \in Seq(Element) /\ OneEach(call.values)
    /\ call.source \in Seq(Element) /\ OneEach(call.source)
    /\ \A p \in 1 .. Len(call.values) : call.values[p].val = 1
    /\ \A p \in 1 .. Len(call.source) : call.source[p].val = 2

FillOK ==
    /\ loop.read = 1 /\ loop.write = 1 /\ loop.look = 1 /\ loop.threw = {} /\ asked = <<>>
    /\ \A p \in 1 .. size : m_values[p].val = 1
    /\ s_values \in Seq(Element) /\ OneEach(s_values)
    /\ \A p \in 1 .. Len(s_values) : s_values[p].val = 2

(* The one table. *)
TableOK ==
    /\ TableInv({0})
    /\ loop.op \notin {"replace", "replace_ahead"} => ~dedup

(* The elements a table has now, if it had those before and has come by    *)
(* the first n of a range: those of each key that was absent, once. *)
NewAmong(range, n, before) ==
    {j \in 1 .. n : /\ range[j].key \notin KeysOf(before)
                    /\ \A l \in 1 .. j - 1 : range[l].key # range[j].key}

HasTaken(now, before, range, n) ==
    /\ KeysOf(now) = KeysOf(before) \cup {range[j].key : j \in 1 .. n}
    /\ Holding(now) = Holding(before) \cup {range[j] : j \in NewAmong(range, n, before)}

(* The slots hold the keys of the elements from the one at hand on, as far *)
(* as they reach. *)
Ahead(elements, read, look, slots) ==
    /\ look = IF read + Depth <= Len(elements) + 1 THEN read + Depth ELSE Len(elements) + 1
    /\ \A p \in read .. look - 1 : slots[SlotOf(p)] = elements[p].key

InsertOK ==
    /\ call.kind = "insert" /\ loop.threw = {}
    /\ call.arg \in Seq(Element)
    /\ loop.read \in 1 .. Len(call.arg) + 1
    /\ HasTaken(m_values, call.values, call.arg, loop.read - 1)
    /\ Ahead(call.arg, loop.read, loop.look, ring)

ReplaceOK ==
    /\ call.kind = "replace"
    /\ call.arg \in Seq(Element)
    /\ KeysOf(m_values) = KeysOf(call.arg)
    /\ Holding(m_values) \subseteq Holding(call.arg)
    /\ loop.op = "replace_ahead" =>
         /\ loop.look = indexed + Depth + 1
         /\ indexed + Depth <= size
         /\ \A p \in indexed + 1 .. indexed + Depth : ring[SlotOf(p)] = m_values[p].key

(* The values of a table whose positions first + 1 .. to were filled from  *)
(* behind, one after the other. *)
FilledTo(values, before, first, to) ==
    \A p \in 1 .. Len(values) :
      values[p] = before[IF first < p /\ p <= to THEN Len(before) - (p - first) + 1 ELSE p]

EraseRangeOK ==
    LET first  == call.arg[1]
        last   == call.arg[2]
        n      == Len(call.values)
    IN  /\ call.kind = "erase_range"
        /\ last \in 0 .. n /\ first \in 0 .. last
        /\ loop.write = IF last - first < n - last THEN last ELSE first + (n - last)
        /\ IF loop.op = "erase_forward"
           THEN /\ loop.read \in first .. loop.write
                /\ size = n - (loop.read - first)
                /\ FilledTo(m_values, call.values, first, loop.read)
           ELSE /\ loop.read \in loop.write .. last
                /\ size = n - (loop.write - first) - (last - loop.read)
                /\ FilledTo(m_values, call.values, first, loop.write)

(* The elements behind the first r are those the predicate was not true    *)
(* of, in some order. *)
Remains(now, before, keys, r) ==
    /\ \A p \in 1 .. r : now[p] = before[p]
    /\ {now[p] : p \in r + 1 .. Len(now)}
         = {before[p] : p \in {q \in r + 1 .. Len(before) : before[q].key \notin keys}}

EraseIfOK ==
    LET n == Len(call.values)
    IN  /\ call.kind = "erase_if"
        /\ loop.read <= size /\ loop.read <= n
        /\ Remains(m_values, call.values, call.arg, loop.read)
        /\ asked \in Seq(Element) /\ Len(asked) = n - loop.read
        /\ \A i \in 1 .. n - loop.read : asked[i] = call.values[n + 1 - i]

(* Of the elements merge has come by, those whose key was there are moved  *)
(* up in their order. *)
StayedInOrder ==
    /\ \A p \in 1 .. loop.write - 1 : \E i \in 1 .. loop.read - 1 :
         s_values[p] = call.source[i] /\ call.source[i].key \in KeysOf(call.values)
    /\ \A i \in 1 .. loop.read - 1 : call.source[i].key \in KeysOf(call.values) =>
         \E p \in 1 .. loop.write - 1 : s_values[p] = call.source[i]
    /\ \A p, q \in 1 .. loop.write - 1, i, j \in 1 .. Len(call.source) :
         p < q /\ s_values[p] = call.source[i] /\ s_values[q] = call.source[j] => i < j

MergeOK ==
    /\ call.kind = "merge" /\ loop.threw = {}
    /\ s_values \in Seq(Element) /\ Len(s_values) = Len(call.source)
    /\ loop.read \in 1 .. Len(call.source) + 1 /\ loop.write \in 1 .. loop.read
    /\ \A p \in loop.read .. Len(call.source) : s_values[p] = call.source[p]
    /\ HasTaken(m_values, call.values, call.source, loop.read - 1)
    /\ StayedInOrder
    /\ loop.op = "merge_ahead" => Ahead(call.source, loop.read, loop.look, ring)

PhaseOK ==
    /\ loop.op = "fill" => FillOK
    /\ loop.op = "insert" => InsertOK
    /\ loop.op \in {"replace", "replace_ahead"} => ReplaceOK
    /\ loop.op \in {"erase_forward", "erase_back"} => EraseRangeOK
    /\ loop.op = "erase_if" => EraseIfOK
    /\ Merging => MergeOK
    /\ loop.op = "reindex" => call.kind = "merge" /\ EachInOneTable /\ InTheirOrder

(* The loop and the one table: all but what the index of the source says.  *)
LoopInv == CalledOK /\ TableOK /\ PhaseOK /\ BatchesAreExact

---------------------------------------------------------------------------
(* A table, seen by its values *)

LEMMA HeldIs ==
    ASSUME NEW values \in Seq(Element)
    PROVE  /\ Holding(values) = {values[p] : p \in 1 .. Len(values)}
           /\ KeysOf(values) = {values[p].key : p \in 1 .. Len(values)}
           /\ Holding(values) \subseteq Element
           /\ KeysOf(values) = {e.key : e \in Holding(values)}
BY DEF Holding, KeysOf

(* One that appends an element has it, too. *)
LEMMA HeldAfterOneMore ==
    ASSUME NEW values \in Seq(Element), NEW e \in Element,
           NEW more, more = Append(values, e)
    PROVE  /\ Holding(more) = Holding(values) \cup {e}
           /\ KeysOf(more) = KeysOf(values) \cup {e.key}
<1>1. /\ more \in Seq(Element)
      /\ Len(more) = Len(values) + 1
      /\ more[Len(values) + 1] = e
      /\ \A p \in 1 .. Len(values) : more[p] = values[p]
  BY Appended
<1>2. Len(values) \in Nat
  OBVIOUS
<1>3. {more[p] : p \in 1 .. Len(more)} = {values[p] : p \in 1 .. Len(values)} \cup {e}
  BY <1>1, <1>2
<1>4. Holding(more) = Holding(values) \cup {e}
  BY <1>1, <1>3, HeldIs
<1> QED
  BY <1>1, <1>4, HeldIs

(* Between operations a probe finds a key if the table has it. *)
LEMMA FindsWhatIsThere ==
    ASSUME TableInv({0}), Idle, NEW k \in Key
    PROVE  FindsKey(k) <=> k \in KeysOf(m_values)
<1>1. m_values \in Seq(Element) /\ indexed = Len(m_values)
  BY WhenIdle DEF size
<1>2. FindsKey(k) <=> \E p \in 1 .. Len(m_values) : m_values[p].key = k
  BY <1>1, Lookup
<1> QED
  BY <1>1, <1>2, HeldIs

(* An insert of a key that is absent appends its element. *)
LEMMA Inserting ==
    ASSUME TableInv({0}), NEW e \in Element,
           InsertPlaces(e.key, e.val) \/ InsertGrows(e.key, e.val)
    PROVE  /\ Next
           /\ e.key \notin KeysOf(m_values)
           /\ m_values' = Append(m_values, e)
           /\ dedup' = dedup
           /\ ~dedup
<1>1. e.key \in Key /\ e.val \in Value /\ e = [key |-> e.key, val |-> e.val]
  BY DEF Element
<1>2. Idle /\ ~FindsKey(e.key)
  BY DEF InsertPlaces, InsertGrows
<1>3. m_values' = Append(m_values, [key |-> e.key, val |-> e.val]) /\ dedup' = dedup
  BY DEF InsertPlaces, InsertGrows
<1>4. ~dedup
  BY <1>2, WhenIdle
<1> QED
  BY <1>1, <1>2, <1>3, <1>4, FindsWhatIsThere DEF Next

(* One that finds its key, or throws, leaves the values. *)
LEMMA InsertLeaves ==
    ASSUME TableInv({0}), NEW k \in Key, InsertFinds(k) \/ InsertThrows(k)
    PROVE  /\ Next
           /\ m_values' = m_values /\ indexed' = indexed /\ dedup' = dedup
           /\ Idle /\ ~dedup
           /\ InsertFinds(k) => k \in KeysOf(m_values)
           /\ InsertThrows(k) => k \notin KeysOf(m_values)
<1>1. Idle
  BY DEF InsertFinds, InsertThrows
<1>2. m_values' = m_values /\ indexed' = indexed /\ dedup' = dedup
  BY DEF InsertFinds, InsertThrows
<1>3. /\ InsertFinds(k) => FindsKey(k)
      /\ InsertThrows(k) => ~FindsKey(k)
  BY DEF InsertFinds, InsertThrows
<1> QED
  BY <1>1, <1>2, <1>3, WhenIdle, FindsWhatIsThere DEF Next

(* An array that grew is filled again: the values are those they were. *)
LEMMA Filling ==
    ASSUME FillStep
    PROVE  Next /\ m_values' = m_values /\ dedup' = dedup /\ ~dedup
BY DEF FillStep, PlaceNext, Next, Loop

(* An array is allocated, if there is none, as by an insert that fails     *)
(* after it. *)
LEMMA Allocating ==
    ASSUME TableInv({0}), Idle, NEW k \in Key, allocate_buckets_if_none
    PROVE  [Next]_vars /\ m_values' = m_values /\ indexed' = indexed /\ dedup' = dedup
<1>1. /\ m_buckets' = WritableBlocks /\ m_max_bucket_capacity' = WritableCapacity
      /\ m_values' = m_values /\ m_max_load_factor' = m_max_load_factor
      /\ m_shifts' = m_shifts /\ indexed' = indexed /\ dedup' = dedup
  BY DEF allocate_buckets_if_none
<1>2. CASE m_buckets.size = 0
  <2>1. size = 0 /\ indexed = 0
    BY <1>2, WhenIdle DEF TableInv, SizedOK, size
  <2>2. ~FindsKey(k)
    BY <2>1, Lookup
  <2>3. InsertThrows(k)
    BY <1>1, <2>2 DEF InsertThrows
  <2> QED
    BY <1>1, <2>3 DEF Next
<1>3. CASE m_buckets.size # 0
  <2>1. WritableBlocks = m_buckets /\ WritableCapacity = m_max_bucket_capacity
    BY <1>3 DEF WritableBlocks, WritableCapacity, Data
  <2> QED
    BY <1>1, <2>1 DEF vars
<1> QED
  BY <1>2, <1>3

(* An erase closes the hole with the last value. *)
LEMMA Erasing ==
    ASSUME TableInv({0}), NEW p \in 1 .. size, EraseAt(p)
    PROVE  /\ Next
           /\ m_values' \in Seq(Element) /\ size' = size - 1
           /\ \A q \in 1 .. size - 1 : m_values'[q] = IF q = p THEN m_values[size] ELSE m_values[q]
           /\ Idle /\ dedup' = dedup /\ ~dedup
<1>1. Idle /\ m_values' = CloseHole(m_values, p) /\ dedup' = dedup
  BY DEF EraseAt, do_erase
<1>2. m_values \in Seq(Element) /\ ~dedup
  BY <1>1, WhenIdle
<1> QED
  BY <1>1, <1>2, HoleFilled DEF size, Next

(* ... and so does an erase of a key. *)
LEMMA ErasingKey ==
    ASSUME TableInv({0}), NEW k \in Key, EraseKey(k)
    PROVE  /\ Next
           /\ m_values' \in Seq(Element) /\ size' = size - 1
           /\ \E p \in 1 .. size : \A q \in 1 .. size - 1 :
                m_values'[q] = IF q = p THEN m_values[size] ELSE m_values[q]
           /\ dedup' = dedup /\ ~dedup
<1>1. Idle /\ FindsKey(k) /\ m_values' = CloseHole(m_values, IndexOfKey(k)) /\ dedup' = dedup
  BY DEF EraseKey, do_erase
<1>2. m_values \in Seq(Element) /\ ~dedup /\ indexed = size
  BY <1>1, WhenIdle
<1>3. IndexOfKey(k) \in 1 .. Len(m_values)
  BY <1>1, <1>2, Lookup DEF size
<1> QED
  BY <1>1, <1>2, <1>3, HoleFilled DEF size, Next

---------------------------------------------------------------------------
(* The ring *)

(* Positions that are less than the depth of the ring apart have slots of  *)
(* their own, and those that are as far apart as that share one. *)
LEMMA RingSlots ==
    ASSUME NEW a \in Nat \ {0}, NEW b \in Nat \ {0}
    PROVE  /\ SlotOf(a) \in 0 .. Depth - 1
           /\ b = a + Depth => SlotOf(b) = SlotOf(a)
           /\ a < b /\ b < a + Depth => SlotOf(b) # SlotOf(a)
<1> DEFINE D == Depth
           x == a - 1
           y == b - 1
           q == x \div D
           r == x % D
           s == y \div D
           t == y % D
<1>1. D \in Nat \ {0} /\ x \in Nat /\ y \in Nat
  BY BatchAssumption
<1> HIDE DEF D, x, y
<1>2. /\ q \in Int /\ r \in 0 .. D - 1 /\ x = (D * q) + r
      /\ s \in Int /\ t \in 0 .. D - 1 /\ y = (D * s) + t
  BY <1>1
<1> HIDE DEF q, r, s, t
<1>3. SlotOf(a) = r /\ SlotOf(b) = t
  BY DEF SlotOf, r, t, D, x, y
<1>4. y - x = b - a
  BY DEF x, y
<1>5. /\ s - q \in Int
      /\ D * (s - q) = (D * s) - (D * q)
      /\ D * s \in Int /\ D * q \in Int
  BY <1>1, <1>2
<1> DEFINE k == s - q
           m == D * k
<1>6. k \in Int /\ m \in Int /\ y - x = m + (t - r)
  BY <1>1, <1>2, <1>5
<1> HIDE DEF k
<1>7. /\ k <= 0 => m <= 0
      /\ k >= 1 => m >= D
      /\ k = 0 => m = 0
      /\ k >= 2 => m >= D + D
      /\ k <= 0 - 1 => m <= 0 - D
  BY <1>1, <1>6
<1> HIDE DEF m
<1>8. CASE b = a + D
  <2>1. m + (t - r) = D
    BY <1>4, <1>6, <1>8, <1>1, <1>2
  <2>2. k = 1 /\ m = D
    <3>1. t - r < D /\ r - t < D
      BY <1>1, <1>2
    <3>2. m > 0 /\ m < D + D
      BY <2>1, <3>1, <1>1, <1>2, <1>6
    <3>3. k = 1
      BY <3>2, <1>6, <1>7, <1>1
    <3>4. m = D
      BY <3>3, <1>1 DEF m
    <3> QED
      BY <3>3, <3>4
  <2>3. t = r
    BY <2>1, <2>2, <1>1, <1>2
  <2> QED
    BY <1>1, <1>2, <1>3, <1>8, <2>3 DEF D
<1>9. CASE a < b /\ b < a + D
  <2>1. m + (t - r) > 0 /\ m + (t - r) < D
    BY <1>1, <1>2, <1>4, <1>6, <1>9
  <2>2. t = r => m > 0 /\ m < D
    BY <2>1, <1>1, <1>2, <1>6
  <2>3. t # r
    BY <2>2, <1>1, <1>6, <1>7
  <2> QED
    BY <1>1, <1>2, <1>3, <1>9, <2>3 DEF D
<1> QED
  BY <1>1, <1>2, <1>3, <1>8, <1>9 DEF D

(* The ring is primed with the elements it reaches from the first. *)
LEMMA AheadStarts ==
    ASSUME NEW elements \in Seq(Element), ring' = Primed(elements),
           loop'.read = 1, loop'.look = PastPrimed(elements)
    PROVE  Ahead(elements, loop'.read, loop'.look, ring') /\ DOMAIN ring' = 0 .. Depth - 1
<1>1. Depth \in Nat \ {0} /\ Len(elements) \in Nat
  BY BatchAssumption
<1>2. /\ loop'.look = IF 1 + Depth <= Len(elements) + 1 THEN 1 + Depth ELSE Len(elements) + 1
      /\ loop'.look \in Nat
  BY <1>1 DEF PastPrimed
<1>3. DOMAIN ring' = 0 .. Depth - 1
  BY DEF Primed
<1>4. ASSUME NEW p \in 1 .. loop'.look - 1
      PROVE  ring'[SlotOf(p)] = elements[p].key
  <2>1. p \in Nat /\ 1 <= p /\ p <= Depth /\ p <= Len(elements)
    BY <1>1, <1>2
  <2> DEFINE x == p - 1
  <2>2. x \in 0 .. Depth - 1 /\ x < Len(elements) /\ x + 1 = p
    BY <1>1, <2>1
  <2> HIDE DEF x
  <2>3. x % Depth = x
    BY <1>1, <2>2
  <2>4. SlotOf(p) = x
    BY <2>3 DEF SlotOf, x
  <2> QED
    BY <2>2, <2>4 DEF Primed
<1> QED
  BY <1>2, <1>3, <1>4 DEF Ahead

(* The slot of the element that is read is that of the one the ring        *)
(* reaches next. *)
LEMMA AheadGoesOn ==
    ASSUME NEW elements \in Seq(Element), DOMAIN ring = 0 .. Depth - 1,
           loop.read \in 1 .. Len(elements), Ahead(elements, loop.read, loop.look, ring),
           Refills(elements),
           NEW same, \A p \in loop.read .. Len(elements) : same[p] = elements[p],
           Len(same) = Len(elements),
           loop'.read = loop.read + 1, loop'.look = Looked(elements)
    PROVE  Ahead(same, loop'.read, loop'.look, ring') /\ DOMAIN ring' = 0 .. Depth - 1
<1> DEFINE n == Len(elements)
           r == loop.read
           k == loop.look
           l == loop'.look
<1>1. Depth \in Nat \ {0} /\ n \in Nat /\ r \in 1 .. n
  BY BatchAssumption
<1>2. k = IF r + Depth <= n + 1 THEN r + Depth ELSE n + 1
  BY DEF Ahead
<1>3. \A p \in r .. k - 1 : ring[SlotOf(p)] = elements[p].key
  BY DEF Ahead
<1>4. l = IF k <= n THEN k + 1 ELSE k
  BY DEF Looked
<1>5. ring' = IF k <= n THEN [ring EXCEPT ![SlotOf(r)] = elements[k].key] ELSE ring
  BY DEF Refills
<1>6. DOMAIN ring' = 0 .. Depth - 1
  BY <1>5
<1> HIDE DEF n, r, k, l
<1>7. k \in r + 1 .. n + 1 /\ k \in Int /\ r \in Int /\ l \in Int /\ Depth \in Int
  BY <1>1, <1>2, <1>4
<1>8. l = IF (r + 1) + Depth <= n + 1 THEN (r + 1) + Depth ELSE n + 1
  BY <1>1, <1>2, <1>4
<1>9. ASSUME NEW p \in Int, r + 1 <= p, p <= l - 1
      PROVE  ring'[SlotOf(p)] = same[p].key
  <2>1. /\ p \in Nat \ {0} /\ p \in Int /\ r \in Nat \ {0} /\ r < p /\ p <= n
        /\ p <= k /\ p <= r + Depth
    BY <1>1, <1>2, <1>4, <1>7, <1>9
  <2>2. same[p] = elements[p]
    BY <1>1, <2>1 DEF n, r
  <2>3. CASE p < r + Depth
    <3>1. SlotOf(p) # SlotOf(r) /\ SlotOf(p) \in 0 .. Depth - 1
      BY <2>1, <2>3, RingSlots
    <3>2. p < k
      BY <1>1, <1>2, <1>4, <1>7, <2>1, <2>3
    <3>3. p \in r .. k - 1
      BY <1>7, <1>9, <3>2
    <3>4. ring[SlotOf(p)] = elements[p].key
      BY <1>3, <3>3
    <3>5. ring'[SlotOf(p)] = ring[SlotOf(p)]
      BY <1>5, <3>1
    <3> QED
      BY <2>2, <3>4, <3>5
  <2>4. CASE p = r + Depth
    <3>1. SlotOf(p) = SlotOf(r) /\ SlotOf(r) \in 0 .. Depth - 1
      BY <2>1, <2>4, RingSlots
    <3>2. k = p /\ k <= n
      BY <1>1, <1>2, <1>4, <1>7, <2>1, <2>4
    <3>3. ring'[SlotOf(r)] = elements[k].key
      BY <1>5, <3>1, <3>2
    <3> QED
      BY <2>2, <3>1, <3>2, <3>3
  <2>5. p < r + Depth \/ p = r + Depth
    BY <1>7, <2>1
  <2> QED
    BY <2>3, <2>4, <2>5
<1>10. loop'.look = IF loop'.read + Depth <= Len(same) + 1 THEN loop'.read + Depth
                                                         ELSE Len(same) + 1
  BY <1>8 DEF n, r, l
<1>11. \A p \in loop'.read .. loop'.look - 1 : ring'[SlotOf(p)] = same[p].key
  <2> SUFFICES ASSUME NEW p \in loop'.read .. loop'.look - 1
               PROVE  ring'[SlotOf(p)] = same[p].key
    OBVIOUS
  <2>1. p \in Int /\ r + 1 <= p /\ p <= l - 1
    BY <1>7 DEF r, l
  <2> QED
    BY <1>9, <2>1
<1> QED
  BY <1>6, <1>10, <1>11 DEF Ahead

(* What the look-ahead gives out is the hash of the element at hand. *)
LEMMA AheadIsAtHand ==
    ASSUME NEW elements \in Seq(Element), loop.read \in 1 .. Len(elements),
           Ahead(elements, loop.read, loop.look, ring)
    PROVE  ring[SlotOf(loop.read)] = elements[loop.read].key
<1>1. Depth \in Nat \ {0} /\ Len(elements) \in Nat
  BY BatchAssumption
<1>2. loop.read \in loop.read .. loop.look - 1
  BY <1>1 DEF Ahead
<1> QED
  BY <1>2 DEF Ahead

---------------------------------------------------------------------------
(* What a range adds *)

LEMMA TakesNone ==
    ASSUME NEW before \in Seq(Element), NEW range
    PROVE  HasTaken(before, before, range, 0)
BY DEF HasTaken, NewAmong

(* An element whose key is absent is the first of its key. *)
LEMMA TakesNew ==
    ASSUME NEW before \in Seq(Element), NEW now \in Seq(Element), NEW range \in Seq(Element),
           NEW n \in Nat, n + 1 <= Len(range), HasTaken(now, before, range, n),
           range[n + 1].key \notin KeysOf(now),
           NEW next, next = Append(now, range[n + 1])
    PROVE  HasTaken(next, before, range, n + 1)
<1> DEFINE e == range[n + 1]
<1>1. e \in Element
  OBVIOUS
<1>2. /\ Holding(next) = Holding(now) \cup {e}
      /\ KeysOf(next) = KeysOf(now) \cup {e.key}
  BY <1>1, HeldAfterOneMore
<1>3. 1 .. n + 1 = (1 .. n) \cup {n + 1}
  OBVIOUS
<1>4. e.key \notin KeysOf(before) /\ \A l \in 1 .. n : range[l].key # e.key
  BY DEF HasTaken
<1>5. NewAmong(range, n + 1, before) = NewAmong(range, n, before) \cup {n + 1}
  BY <1>3, <1>4 DEF NewAmong
<1>6. {range[j] : j \in NewAmong(range, n + 1, before)}
        = {range[j] : j \in NewAmong(range, n, before)} \cup {e}
  BY <1>5
<1>7. {range[j].key : j \in 1 .. n + 1} = {range[j].key : j \in 1 .. n} \cup {e.key}
  BY <1>3
<1> HIDE DEF e
<1> QED
  BY <1>2, <1>6, <1>7 DEF HasTaken

(* One whose key is there adds nothing. *)
LEMMA TakesOld ==
    ASSUME NEW before \in Seq(Element), NEW now \in Seq(Element), NEW range \in Seq(Element),
           NEW n \in Nat, n + 1 <= Len(range), HasTaken(now, before, range, n),
           range[n + 1].key \in KeysOf(now)
    PROVE  HasTaken(now, before, range, n + 1)
<1>1. 1 .. n + 1 = (1 .. n) \cup {n + 1}
  OBVIOUS
<1>2. \/ range[n + 1].key \in KeysOf(before)
      \/ \E l \in 1 .. n : range[l].key = range[n + 1].key
  BY DEF HasTaken
<1>3. NewAmong(range, n + 1, before) = NewAmong(range, n, before)
  BY <1>1, <1>2 DEF NewAmong
<1>4. {range[j].key : j \in 1 .. n + 1} = {range[j].key : j \in 1 .. n} \cup {range[n + 1].key}
  BY <1>1
<1> QED
  BY <1>3, <1>4 DEF HasTaken

(* What a table comes to have by a range, in the words of RangesAreTaken. *)
Added(range, before) == {e \in FirstOfEachKey(range) : e.key \notin KeysOf(before)}

(* What has been added up to the end of a range, or up to a throw. *)
LEMMA TakenPart ==
    ASSUME NEW before \in Seq(Element), NEW now \in Seq(Element), NEW range \in Seq(Element),
           NEW n \in 0 .. Len(range), HasTaken(now, before, range, n)
    PROVE  /\ Holding(now) = Holding(before) \cup Added(SubSeq(range, 1, n), before)
           /\ n = Len(range) => SubSeq(range, 1, n) = range
<1> DEFINE part  == SubSeq(range, 1, n)
           first == FirstOfEachKey(part)
<1>1. part \in Seq(Element) /\ Len(part) = n /\ \A i \in 1 .. n : part[i] = range[i]
  BY SubSeqProperties
<1>2. n = Len(range) => part = range
  BY <1>1, SeqEqual
<1> HIDE DEF part
<1>3. DOMAIN part = 1 .. n
  BY <1>1
<1>4. ASSUME NEW j \in 1 .. n
      PROVE  KeysOf(SubSeq(part, 1, j - 1)) = {range[l].key : l \in 1 .. j - 1}
  <2> DEFINE sub == SubSeq(part, 1, j - 1)
  <2>1. /\ sub \in Seq(Element)
        /\ Len(sub) = j - 1
        /\ \A l \in 1 .. j - 1 : sub[l] = part[l]
    BY <1>1, SubSeqProperties
  <2>2. \A l \in 1 .. j - 1 : part[l] = range[l]
    BY <1>1
  <2> HIDE DEF sub
  <2>3. KeysOf(sub) = {sub[l].key : l \in 1 .. j - 1}
    BY <2>1, HeldIs
  <2>4. KeysOf(sub) = {range[l].key : l \in 1 .. j - 1}
    BY <2>1, <2>2, <2>3
  <2> QED
    BY <2>4 DEF sub
<1> DEFINE firsts == {j \in DOMAIN part : part[j].key \notin KeysOf(SubSeq(part, 1, j - 1))}
<1>5. ASSUME NEW j \in 1 .. n
      PROVE  j \in firsts <=> \A l \in 1 .. j - 1 : range[l].key # range[j].key
  <2>1. j \in firsts <=> part[j].key \notin {range[l].key : l \in 1 .. j - 1}
    BY <1>3, <1>4
  <2>2. part[j] = range[j]
    BY <1>1
  <2> HIDE DEF firsts
  <2> QED
    BY <2>1, <2>2
<1>6. first = {range[i] : i \in {j \in 1 .. n : \A l \in 1 .. j - 1 : range[l].key # range[j].key}}
  <2>1. first = {part[i] : i \in firsts} /\ firsts \subseteq 1 .. n
    BY <1>3 DEF FirstOfEachKey
  <2> HIDE DEF first, firsts
  <2>2. firsts = {j \in 1 .. n : \A l \in 1 .. j - 1 : range[l].key # range[j].key}
    BY <1>5, <2>1
  <2>3. \A i \in 1 .. n : part[i] = range[i]
    BY <1>1
  <2> QED
    BY <2>1, <2>2, <2>3
<1> HIDE DEF first
<1>7. {e \in first : e.key \notin KeysOf(before)} = {range[j] : j \in NewAmong(range, n, before)}
  BY <1>6 DEF NewAmong
<1>8. Holding(now) = Holding(before) \cup Added(part, before)
  BY <1>7 DEF HasTaken, Added, first
<1>9. part = SubSeq(range, 1, n)
  BY DEF part
<1> QED
  BY <1>2, <1>8, <1>9, Zenon

(* Of a range that has each key once. *)
LEMMA TakenOfUnique ==
    ASSUME NEW before \in Seq(Element), NEW now, NEW range \in Seq(Element), OneEach(range),
           NEW n \in 0 .. Len(range), HasTaken(now, before, range, n)
    PROVE  Holding(now) = Holding(before)
             \cup {range[i] : i \in {j \in 1 .. n : range[j].key \notin KeysOf(before)}}
<1>1. \A j \in 1 .. n : \A l \in 1 .. j - 1 : range[l].key # range[j].key
  BY DEF OneEach
<1>2. NewAmong(range, n, before) = {j \in 1 .. n : range[j].key \notin KeysOf(before)}
  BY <1>1 DEF NewAmong
<1> QED
  BY <1>2 DEF HasTaken

---------------------------------------------------------------------------
(* What the steps share *)

(* Until the batch is done nothing is claimed of what it has done. *)
LEMMA NotDone == loop'.op # "done" => BatchesAreExact'
BY DEF BatchesAreExact, ErasesAreExact, RangesAreTaken, MergeKeepsElements, Finished

(* What the batch was called on stays what it was. *)
LEMMA SameCall ==
    ASSUME CalledOK, call' = call, DOMAIN ring' = 0 .. Depth - 1,
           loop' \in [op : Ops, read : Nat, write : Nat, look : Nat, threw : SUBSET Element]
    PROVE  CalledOK'
BY DEF CalledOK, OneEach

(* A step of the one table. *)
LEMMA TableStays ==
    ASSUME TableOK, [Next]_vars, loop'.op \notin {"replace", "replace_ahead"} => ~dedup'
    PROVE  TableOK'
<1>1. TableInv({0}) /\ [Next]_vars => TableInv({0})'
  BY NextInv
<1> QED
  BY <1>1 DEF TableOK

(* What a batch is called on. *)
LEMMA Begun ==
    ASSUME LoopInv, NEW kind \in Kinds, NEW arg, Begins(kind, arg)
    PROVE  /\ loop = [op |-> "fill", read |-> 1, write |-> 1, look |-> 1, threw |-> {}]
           /\ DOMAIN ring = 0 .. Depth - 1
           /\ FillOK
           /\ DOMAIN call' = {"kind", "values", "source", "arg"}
           /\ call'.kind = kind /\ call'.arg = arg
           /\ call'.values = m_values /\ call'.source = s_values
           /\ asked' = <<>>
           /\ m_values \in Seq(Element) /\ OneEach(m_values)
           /\ s_values \in Seq(Element) /\ OneEach(s_values)
           /\ TableInv({0}) /\ ~dedup /\ Idle /\ Source!Idle
<1>1. /\ loop.op = "fill" /\ Idle /\ Source!Idle /\ asked' = asked
      /\ call' = [call EXCEPT !.values = m_values, !.source = s_values, !.arg = arg]
      /\ call.kind = kind
  BY DEF Begins
<1>2. FillOK /\ TableInv({0}) /\ ~dedup
  BY <1>1 DEF LoopInv, PhaseOK, TableOK, Merging
<1>3. loop \in [op : Ops, read : Nat, write : Nat, look : Nat, threw : SUBSET Element]
  BY DEF LoopInv, CalledOK
<1>4. loop = [op |-> "fill", read |-> 1, write |-> 1, look |-> 1, threw |-> {}]
  BY <1>1, <1>2, <1>3 DEF FillOK
<1>5. DOMAIN ring = 0 .. Depth - 1 /\ DOMAIN call = {"kind", "values", "source", "arg"}
  BY DEF LoopInv, CalledOK
<1>6. /\ DOMAIN call' = {"kind", "values", "source", "arg"}
      /\ call'.kind = kind /\ call'.arg = arg
      /\ call'.values = m_values /\ call'.source = s_values
  BY <1>1, <1>5
<1>7. s_values \in Seq(Element) /\ OneEach(s_values)
  BY <1>2 DEF FillOK
<1>8. m_values \in Seq(Element) /\ OneEach(m_values)
  BY <1>2 DEF TableInv, ScalarsOK, KeysUnique, OneEach, size
<1> QED
  BY <1>1, <1>2, <1>4, <1>5, <1>6, <1>7, <1>8 DEF FillOK

(* ... and how the invariant goes on from there. *)
LEMMA BegunCall ==
    ASSUME LoopInv, NEW kind \in Kinds, NEW arg, Begins(kind, arg),
           DOMAIN ring' = 0 .. Depth - 1,
           loop' \in [op : Ops, read : Nat, write : Nat, look : Nat, threw : SUBSET Element]
    PROVE  CalledOK'
<1>1. /\ DOMAIN call' = {"kind", "values", "source", "arg"}
      /\ call'.kind = kind /\ call'.values = m_values /\ call'.source = s_values
      /\ m_values \in Seq(Element) /\ OneEach(m_values)
      /\ s_values \in Seq(Element) /\ OneEach(s_values) /\ FillOK
  BY Begun
<1>2. OneEach(call'.values) /\ OneEach(call'.source)
  BY <1>1
<1>3. /\ \A p \in 1 .. Len(call'.values) : call'.values[p].val = 1
      /\ \A p \in 1 .. Len(call'.source) : call'.source[p].val = 2
  BY <1>1 DEF FillOK, size
<1> QED
  BY <1>1, <1>2, <1>3 DEF CalledOK, OneEach

(* A table in order has elements, and between operations each key once. *)
LEMMA TheValues ==
    ASSUME TableInv({0})
    PROVE  /\ m_values \in Seq(Element) /\ Len(m_values) \in Nat
           /\ ~dedup => OneEach(m_values)
<1>1. m_values \in Seq(Element)
  BY DEF TableInv, ScalarsOK
<1> QED
  BY <1>1 DEF TableInv, KeysUnique, OneEach, size

---------------------------------------------------------------------------
(* Before the batch *)

(* A table that is filled before its batch has elements of its own value. *)
LEMMA FillsTable ==
    ASSUME LoopInv, Fill, UNCHANGED source_vars,
           \/ \E k \in Key : InsertPlaces(k, 1) \/ InsertGrows(k, 1)
           \/ \E k \in Key : EraseKey(k)
           \/ FillStep
    PROVE  Next /\ ~dedup' /\ \A p \in 1 .. size' : m_values'[p].val = 1
<1>1. TableInv({0}) /\ FillOK
  BY DEF Fill, LoopInv, TableOK, PhaseOK
<1>2. m_values \in Seq(Element) /\ Len(m_values) \in Nat
  BY <1>1, TheValues
<1>3. \A p \in 1 .. Len(m_values) : m_values[p].val = 1
  BY <1>1 DEF FillOK, size
<1>4. ASSUME NEW k \in Key, InsertPlaces(k, 1) \/ InsertGrows(k, 1)
      PROVE  Next /\ ~dedup' /\ \A p \in 1 .. size' : m_values'[p].val = 1
  <2> DEFINE e == [key |-> k, val |-> 1]
  <2>1. e \in Element /\ e.key = k /\ e.val = 1
    BY BatchAssumption DEF Element
  <2> HIDE DEF e
  <2>2. Next /\ m_values' = Append(m_values, e) /\ ~dedup'
    BY <1>1, <1>4, <2>1, Inserting
  <2>3. /\ Len(m_values') = Len(m_values) + 1
        /\ m_values'[Len(m_values) + 1] = e
        /\ \A p \in 1 .. Len(m_values) : m_values'[p] = m_values[p]
    BY <1>2, <2>1, <2>2, Appended
  <2> QED
    BY <1>2, <1>3, <2>1, <2>2, <2>3 DEF size
<1>5. ASSUME NEW k \in Key, EraseKey(k)
      PROVE  Next /\ ~dedup' /\ \A p \in 1 .. size' : m_values'[p].val = 1
  <2>1. /\ Next /\ ~dedup' /\ size' = size - 1
        /\ \E p \in 1 .. size : \A q \in 1 .. size - 1 :
             m_values'[q] = IF q = p THEN m_values[size] ELSE m_values[q]
    BY <1>1, <1>5, ErasingKey
  <2> QED
    BY <1>2, <1>3, <2>1 DEF size
<1>6. ASSUME FillStep
      PROVE  Next /\ ~dedup' /\ \A p \in 1 .. size' : m_values'[p].val = 1
  BY <1>3, <1>6, Filling DEF size
<1> QED
  BY <1>4, <1>5, <1>6

(* An array that grew in the middle of a batch. *)
LEMMA GrowKeeps ==
    ASSUME LoopInv, Grow
    PROVE  LoopInv' /\ [Next]_vars
<1>1. /\ loop.op \in {"insert", "merge", "merge_ahead"} /\ FillStep /\ UNCHANGED source_vars
      /\ loop' = loop /\ ring' = ring /\ call' = call /\ asked' = asked
  BY DEF Grow
<1>2. CalledOK /\ TableOK /\ PhaseOK
  BY DEF LoopInv
<1>3. Next /\ m_values' = m_values /\ ~dedup'
  BY <1>1, Filling
<1>4. s_values' = s_values
  BY <1>1 DEF source_vars
<1>5. CalledOK'
  BY <1>1, <1>2, SameCall DEF CalledOK
<1>6. Merging' = Merging
  BY <1>1 DEF Merging
<1>7. TableOK'
  BY <1>1, <1>2, <1>3, <1>6, TableStays DEF PhaseOK, MergeOK
<1>8. PhaseOK'
  <2>1. loop.op = "insert" => InsertOK'
    BY <1>1, <1>2, <1>3 DEF PhaseOK, InsertOK
  <2>2. Merging => MergeOK'
    BY <1>1, <1>2, <1>3, <1>4 DEF PhaseOK, MergeOK, StayedInOrder
  <2> QED
    BY <1>1, <1>6, <2>1, <2>2 DEF PhaseOK
<1>9. BatchesAreExact'
  BY <1>1, NotDone
<1> QED
  BY <1>3, <1>5, <1>7, <1>8, <1>9 DEF LoopInv

(* Nothing changes. *)
LEMMA StutterKeeps ==
    ASSUME LoopInv, UNCHANGED batch_vars
    PROVE  LoopInv'
<1>1. /\ UNCHANGED vars /\ UNCHANGED source_vars
      /\ loop' = loop /\ ring' = ring /\ call' = call /\ asked' = asked
  BY DEF batch_vars
<1>2. m_values' = m_values /\ indexed' = indexed /\ dedup' = dedup /\ s_values' = s_values
  BY <1>1 DEF vars, source_vars
<1>3. CalledOK /\ TableOK /\ PhaseOK /\ BatchesAreExact
  BY DEF LoopInv
<1>4. CalledOK'
  BY <1>1, <1>3, SameCall DEF CalledOK
<1>5. TableOK'
  BY <1>1, <1>2, <1>3, TableStays DEF TableOK, PhaseOK, Merging, MergeOK
<1>6. PhaseOK'
  <2>1. FillOK' = FillOK
    BY <1>1, <1>2 DEF FillOK, size
  <2>2. InsertOK' = InsertOK
    BY <1>1, <1>2 DEF InsertOK
  <2>3. ReplaceOK' = ReplaceOK
    BY <1>1, <1>2 DEF ReplaceOK, size
  <2>4. EraseRangeOK' = EraseRangeOK
    BY <1>1, <1>2 DEF EraseRangeOK, size
  <2>5. EraseIfOK' = EraseIfOK
    BY <1>1, <1>2 DEF EraseIfOK, size
  <2>6. MergeOK' = MergeOK
    BY <1>1, <1>2 DEF MergeOK, StayedInOrder
  <2>7. EachInOneTable' = EachInOneTable
    BY <1>1, <1>2 DEF EachInOneTable
  <2>8. InTheirOrder' = InTheirOrder
    BY <1>1, <1>2 DEF InTheirOrder
  <2> QED
    BY <1>1, <1>3, <2>1, <2>2, <2>3, <2>4, <2>5, <2>6, <2>7, <2>8 DEF PhaseOK, Merging
<1>7. BatchesAreExact'
  <2>1. ErasesAreExact'
    BY <1>1, <1>2, <1>3 DEF BatchesAreExact, ErasesAreExact, Finished, size
  <2>2. RangesAreTaken'
    BY <1>1, <1>2, <1>3 DEF BatchesAreExact, RangesAreTaken, Finished, size
  <2>3. MergeKeepsElements'
    BY <1>1, <1>2, <1>3
       DEF BatchesAreExact, MergeKeepsElements, Finished, EachInOneTable, InTheirOrder
  <2> QED
    BY <2>1, <2>2, <2>3 DEF BatchesAreExact
<1> QED
  BY <1>4, <1>5, <1>6, <1>7 DEF LoopInv

---------------------------------------------------------------------------
(* insert(first, last) *)

LEMMA InsertIsDone ==
    ASSUME loop'.op = "done", call'.kind = "insert",
           m_values' \in Seq(Element), call'.values \in Seq(Element),
           call'.arg \in Seq(Element), NEW n \in 0 .. Len(call'.arg),
           HasTaken(m_values', call'.values, call'.arg, n),
           IF loop'.threw = {} THEN n = Len(call'.arg) ELSE n = loop'.read - 1
    PROVE  BatchesAreExact'
<1>1. /\ Holding(m_values')
           = Holding(call'.values) \cup Added(SubSeq(call'.arg, 1, n), call'.values)
      /\ n = Len(call'.arg) => SubSeq(call'.arg, 1, n) = call'.arg
  BY TakenPart
<1>2. Holding(m_values') = Holding(call'.values)
        \cup Added(IF loop'.threw = {} THEN call'.arg ELSE SubSeq(call'.arg, 1, loop'.read - 1),
                   call'.values)
  BY <1>1
<1>3. RangesAreTaken'
  BY <1>2 DEF RangesAreTaken, Finished, Added
<1> QED
  BY <1>3 DEF BatchesAreExact, ErasesAreExact, MergeKeepsElements, Finished

(* insert(first, last) allocates an array if there is none, and hashes the *)
(* first keys. *)
LEMMA InsertRangeKeeps ==
    ASSUME LoopInv, NEW range \in Ranges, InsertRange(range)
    PROVE  LoopInv' /\ [Next]_vars
<1>1. range \in Seq(Element) /\ Len(range) \in Nat
  BY BatchAssumption
<1>2. Begins("insert", range) /\ UNCHANGED source_vars
  BY DEF InsertRange
<1>3. "insert" \in Kinds
  BY DEF Kinds
<1>4. /\ loop = [op |-> "fill", read |-> 1, write |-> 1, look |-> 1, threw |-> {}]
      /\ DOMAIN ring = 0 .. Depth - 1
      /\ call'.kind = "insert" /\ call'.arg = range /\ call'.values = m_values
      /\ m_values \in Seq(Element) /\ TableInv({0}) /\ ~dedup /\ Idle
  BY <1>2, <1>3, Begun
<1>5. TableOK /\ ~Merging
  BY <1>4 DEF LoopInv, Merging
<1>6. HasTaken(m_values, m_values, range, 0)
  BY <1>4, TakesNone
<1>7. CASE range = <<>>
  <2>1. UNCHANGED vars /\ ring' = ring /\ loop' = [loop EXCEPT !.op = "done"]
    BY <1>7 DEF InsertRange, Done
  <2>2. /\ loop' \in [op : Ops, read : Nat, write : Nat, look : Nat, threw : SUBSET Element]
        /\ loop'.op = "done" /\ loop'.threw = {} /\ ~Merging' /\ Merging' = Merging
    BY <1>4, <2>1 DEF Ops, Merging
  <2>3. CalledOK'
    BY <1>2, <1>3, <1>4, <2>1, <2>2, BegunCall
  <2>4. m_values' = m_values /\ dedup' = dedup
    BY <2>1 DEF vars
  <2>5. TableOK'
    BY <1>2, <1>4, <1>5, <2>1, <2>2, <2>4, TableStays
  <2>6. BatchesAreExact'
    <3>1. Len(range) = 0 /\ 0 \in 0 .. Len(range)
      BY <1>7
    <3> QED
      BY <1>1, <1>4, <1>6, <2>2, <2>4, <3>1, InsertIsDone
  <2>7. PhaseOK'
    BY <2>2 DEF PhaseOK
  <2> QED
    BY <2>1, <2>3, <2>5, <2>6, <2>7 DEF LoopInv
<1>8. CASE range # <<>>
  <2>1. /\ allocate_buckets_if_none /\ ring' = Primed(range)
        /\ loop' = [loop EXCEPT !.op = "insert", !.look = PastPrimed(range)]
    BY <1>8 DEF InsertRange
  <2>2. Len(range) >= 1 /\ range[1] \in Element /\ range[1].key \in Key
    <3>1. Len(range) >= 1
      BY <1>1, <1>8
    <3>2. range[1] \in Element
      BY <1>1, <3>1
    <3> QED
      BY <3>1, <3>2 DEF Element
  <2>3. [Next]_vars /\ m_values' = m_values /\ dedup' = dedup
    BY <1>4, <2>1, <2>2, Allocating
  <2>4. PastPrimed(range) \in Nat
    BY <1>1, BatchAssumption DEF PastPrimed
  <2>5. loop' = [op |-> "insert", read |-> 1, write |-> 1, look |-> PastPrimed(range),
                 threw |-> {}]
    BY <1>4, <2>1
  <2>6. Ahead(range, loop'.read, loop'.look, ring') /\ DOMAIN ring' = 0 .. Depth - 1
    <3>1. loop'.read = 1 /\ loop'.look = PastPrimed(range)
      BY <2>5
    <3> QED
      BY <1>1, <2>1, <3>1, AheadStarts
  <2>7. loop' \in [op : Ops, read : Nat, write : Nat, look : Nat, threw : SUBSET Element]
    BY <2>4, <2>5 DEF Ops
  <2>8. CalledOK'
    BY <1>2, <1>3, <2>6, <2>7, BegunCall
  <2>9. loop'.op = "insert" /\ ~Merging' /\ Merging' = Merging
    BY <1>5, <2>5 DEF Merging
  <2>10. TableOK'
    BY <1>2, <1>4, <1>5, <2>3, <2>9, TableStays
  <2>11. InsertOK'
    BY <1>1, <1>4, <1>6, <2>2, <2>3, <2>5, <2>6 DEF InsertOK
  <2>12. PhaseOK'
    BY <2>9, <2>11 DEF PhaseOK
  <2>13. BatchesAreExact'
    BY <2>9, NotDone
  <2> QED
    BY <2>3, <2>8, <2>10, <2>12, <2>13 DEF LoopInv
<1> QED
  BY <1>7, <1>8

(* One more element of the range has been placed, found or has thrown. *)
LEMMA InsertRangeStepKeeps ==
    ASSUME LoopInv, InsertRangeStep
    PROVE  LoopInv' /\ [Next]_vars
<1> DEFINE e == call.arg[loop.read]
           n == loop.read - 1
<1>1. /\ loop.op = "insert" /\ Refills(call.arg) /\ loop.read <= Len(call.arg)
      /\ UNCHANGED source_vars /\ call' = call /\ asked' = asked
  BY DEF InsertRangeStep
<1>2. \/ /\ InsertPlaces(e.key, e.val) \/ InsertGrows(e.key, e.val) \/ InsertFinds(e.key)
         /\ loop' = [loop EXCEPT !.read = @ + 1, !.look = Looked(call.arg)]
      \/ /\ InsertThrows(e.key)
         /\ loop' = [loop EXCEPT !.op = "done", !.threw = {e}]
  BY DEF InsertRangeStep
<1>3. /\ TableOK /\ CalledOK /\ InsertOK /\ TableInv({0}) /\ ~Merging
      /\ DOMAIN ring = 0 .. Depth - 1 /\ call.values \in Seq(Element)
      /\ loop \in [op : Ops, read : Nat, write : Nat, look : Nat, threw : SUBSET Element]
  BY <1>1 DEF LoopInv, PhaseOK, TableOK, CalledOK, Merging
<1>4. /\ call.kind = "insert" /\ loop.threw = {} /\ call.arg \in Seq(Element)
      /\ loop.read \in 1 .. Len(call.arg) /\ Len(call.arg) \in Nat
      /\ HasTaken(m_values, call.values, call.arg, n)
      /\ Ahead(call.arg, loop.read, loop.look, ring)
  BY <1>1, <1>3 DEF InsertOK
<1>5. /\ e \in Element /\ e.key \in Key /\ n \in Nat /\ n + 1 <= Len(call.arg)
      /\ call.arg[n + 1] = e /\ n + 1 = loop.read /\ n \in 0 .. Len(call.arg)
  <2>1. e \in Element
    BY <1>4
  <2>2. e.key \in Key
    BY <2>1 DEF Element
  <2>3. loop.read \in Int /\ Len(call.arg) \in Int
    BY <1>4
  <2> QED
    BY <1>4, <2>1, <2>2, <2>3
<1>6. m_values \in Seq(Element)
  BY <1>3, TheValues
<1> HIDE DEF e, n
<1>7. CASE /\ InsertPlaces(e.key, e.val) \/ InsertGrows(e.key, e.val) \/ InsertFinds(e.key)
           /\ loop' = [loop EXCEPT !.read = @ + 1, !.look = Looked(call.arg)]
  <2>1. /\ Next /\ ~dedup' /\ m_values' \in Seq(Element)
        /\ HasTaken(m_values', call.values, call.arg, n + 1)
    <3>1. CASE InsertPlaces(e.key, e.val) \/ InsertGrows(e.key, e.val)
      <4>1. Next /\ e.key \notin KeysOf(m_values) /\ m_values' = Append(m_values, e) /\ ~dedup'
        BY <1>3, <1>5, <3>1, Inserting
      <4>2. m_values' \in Seq(Element)
        BY <1>5, <1>6, <4>1, Appended
      <4>3. HasTaken(m_values', call.values, call.arg, n + 1)
        BY <1>3, <1>4, <1>5, <1>6, <4>1, TakesNew
      <4> QED
        BY <4>1, <4>2, <4>3
    <3>2. CASE InsertFinds(e.key)
      <4>1. Next /\ e.key \in KeysOf(m_values) /\ m_values' = m_values /\ ~dedup'
        BY <1>3, <1>5, <3>2, InsertLeaves
      <4> QED
        BY <1>3, <1>4, <1>5, <1>6, <4>1, TakesOld
    <3> QED
      BY <1>7, <3>1, <3>2
  <2>2. /\ loop'.op = "insert" /\ loop'.read = loop.read + 1 /\ loop'.threw = {}
        /\ loop'.look = Looked(call.arg)
    BY <1>1, <1>3, <1>4, <1>7
  <2>3. loop' \in [op : Ops, read : Nat, write : Nat, look : Nat, threw : SUBSET Element]
    <3>1. loop.read + 1 \in Nat /\ Looked(call.arg) \in Nat
      BY <1>3 DEF Looked
    <3> QED
      BY <1>3, <1>7, <3>1
  <2>4. Ahead(call.arg, loop'.read, loop'.look, ring') /\ DOMAIN ring' = 0 .. Depth - 1
    BY <1>1, <1>3, <1>4, <2>2, AheadGoesOn
  <2>5. CalledOK'
    BY <1>1, <1>3, <2>3, <2>4, SameCall
  <2>6. Merging' = Merging /\ ~Merging'
    BY <1>3, <2>2 DEF Merging
  <2>7. TableOK'
    BY <1>1, <1>3, <2>1, <2>2, <2>6, TableStays
  <2>8. loop'.read - 1 = n + 1 /\ loop'.read \in 1 .. Len(call.arg) + 1
    BY <1>4, <1>5, <2>2
  <2>9. InsertOK'
    BY <1>1, <1>4, <2>1, <2>2, <2>4, <2>8 DEF InsertOK
  <2>10. PhaseOK'
    BY <2>2, <2>6, <2>9 DEF PhaseOK
  <2>11. BatchesAreExact'
    BY <2>2, NotDone
  <2> QED
    BY <2>1, <2>5, <2>7, <2>10, <2>11 DEF LoopInv
<1>8. CASE InsertThrows(e.key) /\ loop' = [loop EXCEPT !.op = "done", !.threw = {e}]
  <2>1. Next /\ m_values' = m_values /\ ~dedup'
    BY <1>3, <1>5, <1>8, InsertLeaves
  <2>2. loop'.op = "done" /\ loop'.threw = {e} /\ loop'.read = loop.read
    BY <1>3, <1>8
  <2>3. loop' \in [op : Ops, read : Nat, write : Nat, look : Nat, threw : SUBSET Element]
    BY <1>3, <1>5, <1>8 DEF Ops
  <2>4. DOMAIN ring' = 0 .. Depth - 1
    BY <1>1, <1>3 DEF Refills
  <2>5. CalledOK'
    BY <1>1, <1>3, <2>3, <2>4, SameCall
  <2>6. Merging' = Merging /\ ~Merging'
    BY <1>3, <2>2 DEF Merging
  <2>7. TableOK'
    BY <1>1, <1>3, <2>1, <2>2, <2>6, TableStays
  <2>8. PhaseOK'
    BY <2>2, <2>6 DEF PhaseOK
  <2>9. BatchesAreExact'
    <3>1. loop'.threw # {} /\ n = loop'.read - 1
      BY <1>4, <1>5, <2>2
    <3> QED
      BY <1>1, <1>3, <1>4, <1>5, <1>6, <2>1, <2>2, <3>1, InsertIsDone
  <2> QED
    BY <2>1, <2>5, <2>7, <2>8, <2>9 DEF LoopInv
<1> QED
  BY <1>2, <1>7, <1>8

(* All of the range has been taken. *)
LEMMA InsertRangeEndKeeps ==
    ASSUME LoopInv, InsertRangeEnd
    PROVE  LoopInv' /\ [Next]_vars
<1>1. /\ loop.op = "insert" /\ loop.read > Len(call.arg) /\ Idle
      /\ loop' = [loop EXCEPT !.op = "done"]
      /\ UNCHANGED vars /\ UNCHANGED source_vars /\ ring' = ring /\ call' = call
  BY DEF InsertRangeEnd, Done
<1>2. /\ TableOK /\ CalledOK /\ InsertOK /\ TableInv({0}) /\ ~Merging /\ ~dedup
      /\ DOMAIN ring = 0 .. Depth - 1 /\ call.values \in Seq(Element)
      /\ loop \in [op : Ops, read : Nat, write : Nat, look : Nat, threw : SUBSET Element]
  BY <1>1 DEF LoopInv, PhaseOK, TableOK, CalledOK, Merging
<1>3. /\ loop' \in [op : Ops, read : Nat, write : Nat, look : Nat, threw : SUBSET Element]
      /\ loop'.op = "done" /\ loop'.threw = {}
  BY <1>1, <1>2 DEF Ops, InsertOK
<1>4. CalledOK'
  BY <1>1, <1>2, <1>3, SameCall
<1>5. Merging' = Merging /\ ~Merging'
  BY <1>2, <1>3 DEF Merging
<1>6. m_values' = m_values /\ dedup' = dedup /\ m_values \in Seq(Element)
  BY <1>1, <1>2, TheValues DEF vars
<1>7. TableOK'
  BY <1>1, <1>2, <1>3, <1>5, <1>6, TableStays
<1>8. PhaseOK'
  BY <1>3, <1>5 DEF PhaseOK
<1>9. BatchesAreExact'
  <2>1. /\ call.kind = "insert" /\ call.arg \in Seq(Element) /\ Len(call.arg) \in Nat
        /\ loop.read = Len(call.arg) + 1
        /\ HasTaken(m_values, call.values, call.arg, loop.read - 1)
    BY <1>1, <1>2 DEF InsertOK
  <2>2. loop.read - 1 = Len(call.arg) /\ Len(call.arg) \in 0 .. Len(call.arg)
    BY <2>1
  <2> QED
    BY <1>1, <1>2, <1>3, <1>6, <2>1, <2>2, InsertIsDone
<1> QED
  BY <1>1, <1>4, <1>7, <1>8, <1>9 DEF LoopInv

---------------------------------------------------------------------------
(* replace(container) *)

LEMMA CountsKeys ==
    ASSUME NEW values \in Seq(Element), OneEach(values)
    PROVE  Cardinality(KeysOf(values)) = Len(values)
<1> DEFINE n == Len(values)
           f == [p \in 1 .. n |-> values[p].key]
           K == KeysOf(values)
<1>1. n \in Nat /\ 1 \in Int /\ n \in Int
  OBVIOUS
<1>2. K = {values[p].key : p \in 1 .. n}
  BY HeldIs
<1>3. f \in Surjection(1 .. n, K)
  <2> HIDE DEF K
  <2>1. f \in [1 .. n -> K] /\ \A t \in K : \E s \in 1 .. n : f[s] = t
    BY <1>2
  <2> QED
    BY <2>1 DEF Surjection
<1>4. f \in Injection(1 .. n, K)
  <2>1. \A a, b \in 1 .. n : f[a] = f[b] => a = b
    BY DEF OneEach
  <2>2. f \in [1 .. n -> K]
    BY <1>3 DEF Surjection
  <2> HIDE DEF f, K
  <2> QED
    BY <2>1, <2>2 DEF Injection, IsInjective
<1>5. IsFiniteSet(1 .. n) /\ Cardinality(1 .. n) = IF 1 > n THEN 0 ELSE n - 1 + 1
  BY <1>1, FS_Interval
<1>6. Cardinality(1 .. n) = n
  BY <1>1, <1>5
<1> HIDE DEF f, K, n
<1>7. Cardinality(K) = Cardinality(1 .. n)
  BY <1>3, <1>4, <1>5, FS_Surjection
<1> QED
  BY <1>6, <1>7 DEF K, n

(* replace(container) has nothing indexed yet, and all of the container. *)
LEMMA ReplaceStarts ==
    ASSUME LoopInv, NEW c \in Containers, Replace(c)
    PROVE  LoopInv' /\ [Next]_vars
<1>1. c \in Seq(Element) /\ Len(c) \in Nat /\ Depth \in Nat \ {0}
  BY TableAssumption, BatchAssumption
<1>2. /\ Begins("replace", c) /\ UNCHANGED source_vars /\ replace(c, FALSE)
      /\ \/ /\ Len(c) > Depth + 1
            /\ ring' = Primed(c)
            /\ loop' = [loop EXCEPT !.op = "replace_ahead", !.look = Depth + 1]
         \/ /\ loop' = [loop EXCEPT !.op = "replace"]
            /\ ring' = ring
  BY DEF Replace
<1>3. "replace" \in Kinds
  BY DEF Kinds
<1>4. /\ loop = [op |-> "fill", read |-> 1, write |-> 1, look |-> 1, threw |-> {}]
      /\ DOMAIN ring = 0 .. Depth - 1
      /\ call'.kind = "replace" /\ call'.arg = c
  BY <1>2, <1>3, Begun
<1>5. TableOK /\ ~Merging
  BY <1>4 DEF LoopInv, Merging
<1>6. Next
  BY <1>2 DEF Next
<1>7. m_values' = c /\ indexed' = 0
  BY <1>2 DEF replace
<1>8. /\ loop' \in [op : Ops, read : Nat, write : Nat, look : Nat, threw : SUBSET Element]
      /\ loop'.op \in {"replace", "replace_ahead"} /\ loop'.read = 1
      /\ loop'.op = "replace_ahead" =>
           loop'.look = Depth + 1 /\ Len(c) > Depth + 1 /\ ring' = Primed(c)
      /\ loop'.op = "replace" => ring' = ring
  <2>1. CASE /\ Len(c) > Depth + 1 /\ ring' = Primed(c)
             /\ loop' = [loop EXCEPT !.op = "replace_ahead", !.look = Depth + 1]
    <3>1. loop' = [op |-> "replace_ahead", read |-> 1, write |-> 1, look |-> Depth + 1,
                   threw |-> {}]
      BY <1>4, <2>1
    <3>2. Depth + 1 \in Nat /\ "replace_ahead" \in Ops
      BY <1>1 DEF Ops
    <3>3. /\ loop'.op = "replace_ahead" /\ loop'.read = 1 /\ loop'.look = Depth + 1
          /\ loop' \in [op : Ops, read : Nat, write : Nat, look : Nat, threw : SUBSET Element]
      BY <3>1, <3>2
    <3> QED
      BY <2>1, <3>3
  <2>2. CASE loop' = [loop EXCEPT !.op = "replace"] /\ ring' = ring
    <3>1. loop' = [op |-> "replace", read |-> 1, write |-> 1, look |-> 1, threw |-> {}]
      BY <1>4, <2>2
    <3>2. "replace" \in Ops
      BY DEF Ops
    <3>3. /\ loop'.op = "replace" /\ loop'.read = 1
          /\ loop' \in [op : Ops, read : Nat, write : Nat, look : Nat, threw : SUBSET Element]
      BY <3>1, <3>2
    <3> QED
      BY <2>2, <3>3
  <2> QED
    BY <1>2, <2>1, <2>2
<1>9. loop'.op = "replace_ahead" =>
        /\ loop'.look = indexed' + Depth + 1
        /\ indexed' + Depth <= size'
        /\ \A p \in indexed' + 1 .. indexed' + Depth : ring'[SlotOf(p)] = m_values'[p].key
        /\ DOMAIN ring' = 0 .. Depth - 1
  <2> SUFFICES ASSUME loop'.op = "replace_ahead"
               PROVE  /\ loop'.look = indexed' + Depth + 1
                      /\ indexed' + Depth <= size'
                      /\ \A p \in indexed' + 1 .. indexed' + Depth :
                           ring'[SlotOf(p)] = m_values'[p].key
                      /\ DOMAIN ring' = 0 .. Depth - 1
    OBVIOUS
  <2>1. loop'.look = PastPrimed(c)
    BY <1>1, <1>8 DEF PastPrimed
  <2>2. Ahead(c, loop'.read, loop'.look, ring') /\ DOMAIN ring' = 0 .. Depth - 1
    BY <1>1, <1>8, <2>1, AheadStarts
  <2>3. \A p \in 1 .. Depth : ring'[SlotOf(p)] = c[p].key
    BY <1>1, <1>8, <2>2 DEF Ahead
  <2>4. indexed' + 1 = 1 /\ indexed' + Depth = Depth /\ indexed' + Depth + 1 = Depth + 1
    BY <1>1, <1>7
  <2> QED
    BY <1>1, <1>7, <1>8, <2>2, <2>3, <2>4 DEF size
<1>10. CalledOK'
  BY <1>2, <1>3, <1>4, <1>8, <1>9, BegunCall
<1>11. Merging' = Merging /\ ~Merging'
  BY <1>5, <1>8 DEF Merging
<1>12. TableOK'
  BY <1>2, <1>5, <1>6, <1>8, <1>11, TableStays
<1>13. ReplaceOK'
  BY <1>1, <1>4, <1>7, <1>9 DEF ReplaceOK
<1>14. PhaseOK'
  BY <1>8, <1>11, <1>13 DEF PhaseOK
<1>15. BatchesAreExact'
  BY <1>8, NotDone
<1> QED
  BY <1>6, <1>10, <1>12, <1>14, <1>15 DEF LoopInv

(* What goes on in the loop of replace() changes no key and brings no      *)
(* element. *)
LEMMA ReplaceGoesOn ==
    ASSUME TableInv({0}), ReplaceKeeps \/ ReplaceDrops
    PROVE  /\ Next
           /\ KeysOf(m_values') = KeysOf(m_values)
           /\ Holding(m_values') \subseteq Holding(m_values)
           /\ indexed \in Nat /\ indexed < size /\ size \in Nat
           /\ ReplaceKeeps => m_values' = m_values /\ indexed' = indexed + 1
           /\ ReplaceDrops =>
                /\ indexed' = indexed /\ size' = size - 1
                /\ \A p \in 1 .. size - 1 :
                     m_values'[p] = IF p = indexed + 1 THEN m_values[size] ELSE m_values[p]
<1>1. m_values \in Seq(Element) /\ indexed \in 0 .. size /\ size \in Nat
  BY DEF TableInv, ScalarsOK, size
<1>2. indexed # size /\ indexed < size
  BY <1>1 DEF ReplaceKeeps, ReplaceDrops, Idle
<1>3. Next
  BY DEF Next, Loop
<1>4. CASE ReplaceKeeps
  <2>1. m_values' = m_values /\ indexed' = indexed + 1
    BY <1>4 DEF ReplaceKeeps, PlaceNext
  <2>2. ~ReplaceDrops
    BY <1>4 DEF ReplaceKeeps, ReplaceDrops
  <2> QED
    BY <1>1, <1>2, <1>3, <2>1, <2>2
<1>5. CASE ReplaceDrops
  <2> DEFINE h == indexed + 1
             n == size
  <2>1. h \in 1 .. Len(m_values) /\ n = Len(m_values) /\ n \in Nat \ {0} /\ h \in Int
    BY <1>1, <1>2 DEF size
  <2>2. m_values' = CloseHole(m_values, h) /\ indexed' = indexed /\ FindsKey(m_values[h].key)
    BY <1>5 DEF ReplaceDrops, NextValue
  <2>3. m_values[h].key \in Key
    <3>1. m_values[h] \in Element
      BY <1>1, <2>1
    <3> QED
      BY <3>1 DEF Element
  <2>4. PICK q \in 1 .. indexed : m_values[q].key = m_values[h].key
    BY <2>2, <2>3, Lookup
  <2> HIDE DEF h, n
  <2>5. /\ m_values' \in Seq(Element) /\ Len(m_values') = n - 1
        /\ \A p \in 1 .. n - 1 : m_values'[p] = IF p = h THEN m_values[n] ELSE m_values[p]
    <3>1. m_values \in Seq(Element) /\ h \in 1 .. Len(m_values)
      BY <1>1, <2>1
    <3>2. /\ CloseHole(m_values, h) \in Seq(Element)
          /\ Len(CloseHole(m_values, h)) = Len(m_values) - 1
          /\ \A r \in 1 .. Len(m_values) - 1 :
               CloseHole(m_values, h)[r] = IF r = h THEN m_values[Len(m_values)] ELSE m_values[r]
      BY <3>1, HoleFilled
    <3> QED
      BY <2>1, <2>2, <3>2
  <2>6. q \in 1 .. n - 1 /\ q # h
    BY <1>1, <1>2, <2>1 DEF h, n
  <2>7. /\ Holding(m_values') = {m_values'[p] : p \in 1 .. n - 1}
        /\ Holding(m_values) = {m_values[p] : p \in 1 .. n}
        /\ KeysOf(m_values') = {m_values'[p].key : p \in 1 .. n - 1}
        /\ KeysOf(m_values) = {m_values[p].key : p \in 1 .. n}
    BY <1>1, <2>1, <2>5, HeldIs
  <2>8. \A p \in 1 .. n - 1 : \E r \in 1 .. n : m_values'[p] = m_values[r]
    <3> TAKE p \in 1 .. n - 1
    <3>1. p \in 1 .. n /\ n \in 1 .. n
      BY <2>1
    <3> QED
      BY <2>5, <3>1
  <2>9. \A r \in 1 .. n : \E p \in 1 .. n - 1 : m_values'[p].key = m_values[r].key
    <3> TAKE r \in 1 .. n
    <3>1. CASE r = h
      BY <2>5, <2>4, <2>6, <3>1
    <3>2. CASE r # h /\ r = n
      <4>1. h \in 1 .. n - 1
        BY <2>1, <3>2
      <4> QED
        BY <2>5, <3>2, <4>1
    <3>3. CASE r # h /\ r # n
      <4>1. r \in 1 .. n - 1
        BY <2>1, <3>3
      <4> QED
        BY <2>5, <3>3, <4>1
    <3> QED
      BY <3>1, <3>2, <3>3
  <2>10. Holding(m_values') \subseteq Holding(m_values)
    BY <2>7, <2>8
  <2>11. KeysOf(m_values') = KeysOf(m_values)
    BY <2>7, <2>8, <2>9
  <2>12. ~ReplaceKeeps
    BY <1>5 DEF ReplaceKeeps, ReplaceDrops
  <2> QED
    BY <1>1, <1>2, <1>3, <2>1, <2>2, <2>5, <2>10, <2>11, <2>12 DEF size, h, n
<1> QED
  BY <1>4, <1>5

(* The window of the look-ahead lies within what is left to look at. *)
LEMMA WindowMoves ==
    ASSUME LoopInv, loop.op = "replace_ahead", size > indexed + Depth + 1
    PROVE  /\ ReplaceOK /\ TableOK /\ CalledOK /\ TableInv({0})
           /\ loop \in [op : Ops, read : Nat, write : Nat, look : Nat, threw : SUBSET Element]
           /\ indexed \in Nat /\ Depth \in Nat \ {0} /\ size \in Nat
           /\ DOMAIN ring = 0 .. Depth - 1
           /\ SlotOf(indexed + 1) \in 0 .. Depth - 1
           /\ SlotOf(indexed + 1 + Depth) = SlotOf(indexed + 1)
           /\ \A p \in indexed + 2 .. indexed + Depth :
                SlotOf(p) # SlotOf(indexed + 1) /\ ring[SlotOf(p)] = m_values[p].key
<1>1. ReplaceOK /\ TableOK /\ CalledOK /\ TableInv({0})
  BY DEF LoopInv, PhaseOK, TableOK
<1>2. indexed \in Nat /\ Depth \in Nat \ {0} /\ size \in Nat
  BY <1>1, BatchAssumption DEF TableInv, ScalarsOK, size
<1>3. DOMAIN ring = 0 .. Depth - 1
  BY <1>1 DEF CalledOK
<1>4. \A p \in indexed + 1 .. indexed + Depth : ring[SlotOf(p)] = m_values[p].key
  BY <1>1 DEF ReplaceOK
<1> DEFINE a == indexed + 1
<1>5. a \in Nat \ {0} /\ a + Depth \in Nat \ {0} /\ a \in Int
  BY <1>2
<1>6. SlotOf(a) \in 0 .. Depth - 1 /\ SlotOf(a + Depth) = SlotOf(a)
  BY <1>5, RingSlots
<1>7. ASSUME NEW p \in indexed + 2 .. indexed + Depth
      PROVE  SlotOf(p) # SlotOf(a) /\ SlotOf(p) \in 0 .. Depth - 1
             /\ ring[SlotOf(p)] = m_values[p].key
  <2>1. p \in Nat \ {0} /\ a < p /\ p < a + Depth /\ p \in indexed + 1 .. indexed + Depth
    BY <1>2
  <2> HIDE DEF a
  <2>2. SlotOf(p) # SlotOf(a) /\ SlotOf(p) \in 0 .. Depth - 1
    BY <1>5, <2>1, RingSlots
  <2> QED
    BY <1>4, <2>1, <2>2
<1>8. loop \in [op : Ops, read : Nat, write : Nat, look : Nat, threw : SUBSET Element]
  BY <1>1 DEF CalledOK

<1> QED
  BY <1>1, <1>2, <1>3, <1>6, <1>7, <1>8 DEF a

(* A key that is new is indexed where it is, and the window moves on. *)
LEMMA KeepsAheadKeeps ==
    ASSUME LoopInv, KeepsAhead
    PROVE  LoopInv' /\ [Next]_vars
<1> DEFINE v == m_values[loop.look].key
           slots == [ring EXCEPT ![SlotOf(indexed + 1)] = v]
<1>1. /\ loop.op = "replace_ahead" /\ size > indexed + Depth + 1 /\ ReplaceKeeps
      /\ ring' = slots
      /\ loop' = [loop EXCEPT !.look = @ + 1]
      /\ UNCHANGED source_vars /\ call' = call /\ asked' = asked
  BY DEF KeepsAhead
<1>0. slots = [ring EXCEPT ![SlotOf(indexed + 1)] = v] /\ v = m_values[loop.look].key
  OBVIOUS
<1> HIDE DEF slots, v
<1>2. /\ ReplaceOK /\ TableOK /\ CalledOK /\ TableInv({0})
      /\ loop \in [op : Ops, read : Nat, write : Nat, look : Nat, threw : SUBSET Element]
      /\ indexed \in Nat /\ Depth \in Nat \ {0} /\ size \in Nat
      /\ DOMAIN slots = 0 .. Depth - 1
      /\ slots[SlotOf(indexed + 1)] = v
      /\ SlotOf(indexed + 1 + Depth) = SlotOf(indexed + 1)
      /\ \A p \in indexed + 2 .. indexed + Depth : slots[SlotOf(p)] = m_values[p].key
  <2>1. /\ DOMAIN ring = 0 .. Depth - 1
        /\ SlotOf(indexed + 1) \in 0 .. Depth - 1
        /\ SlotOf(indexed + 1 + Depth) = SlotOf(indexed + 1)
        /\ \A p \in indexed + 2 .. indexed + Depth :
             SlotOf(p) # SlotOf(indexed + 1) /\ ring[SlotOf(p)] = m_values[p].key
    BY <1>1, WindowMoves
  <2>2. \A p \in indexed + 2 .. indexed + Depth : slots[SlotOf(p)] = ring[SlotOf(p)]
    BY <1>0, <2>1
  <2>3. DOMAIN slots = 0 .. Depth - 1 /\ slots[SlotOf(indexed + 1)] = v
    BY <1>0, <2>1
  <2> QED
    BY <1>1, <2>1, <2>2, <2>3, WindowMoves
<1>3. Next /\ m_values' = m_values /\ indexed' = indexed + 1 /\ size' = size
  BY <1>1, <1>2, ReplaceGoesOn DEF size
<1>4. /\ loop'.op = "replace_ahead" /\ loop'.look = loop.look + 1
      /\ loop' \in [op : Ops, read : Nat, write : Nat, look : Nat, threw : SUBSET Element]
  <2>1. loop.look + 1 \in Nat
    BY <1>2
  <2> QED
    BY <1>1, <1>2, <2>1
<1>5. loop.look = indexed + Depth + 1
  BY <1>1, <1>2 DEF ReplaceOK
<1>6. \A p \in indexed' + 1 .. indexed' + Depth : ring'[SlotOf(p)] = m_values'[p].key
  <2> SUFFICES ASSUME NEW p \in indexed' + 1 .. indexed' + Depth
               PROVE  slots[SlotOf(p)] = m_values[p].key
    BY <1>1, <1>3
  <2>1. p \in indexed + 2 .. indexed + Depth \/ p = indexed + 1 + Depth
    BY <1>2, <1>3
  <2>2. indexed + 1 + Depth = loop.look
    BY <1>2, <1>5
  <2> QED
    BY <1>0, <1>2, <2>1, <2>2
<1>7. loop'.look = indexed' + Depth + 1 /\ indexed' + Depth <= size'
  BY <1>1, <1>2, <1>3, <1>4, <1>5
<1>8. ReplaceOK'
  BY <1>1, <1>2, <1>3, <1>6, <1>7 DEF ReplaceOK
<1>9. CalledOK'
  BY <1>1, <1>2, <1>4, SameCall
<1>10. Merging' = Merging /\ ~Merging'
  BY <1>1, <1>4 DEF Merging
<1>11. TableOK'
  BY <1>1, <1>2, <1>3, <1>4, <1>10, TableStays
<1>12. PhaseOK'
  BY <1>4, <1>8, <1>10 DEF PhaseOK
<1>13. BatchesAreExact'
  BY <1>4, NotDone
<1> QED
  BY <1>3, <1>9, <1>11, <1>12, <1>13 DEF LoopInv

(* One that is not makes room for the last value, which the window has not *)
(* reached: its slot is filled again. *)
LEMMA DropsAheadKeepsIt ==
    ASSUME LoopInv, DropsAhead
    PROVE  LoopInv' /\ [Next]_vars
<1> DEFINE v == m_values'[indexed + 1].key
           slots == [ring EXCEPT ![SlotOf(indexed + 1)] = v]
<1>1. /\ loop.op = "replace_ahead" /\ size > indexed + Depth + 1 /\ ReplaceDrops
      /\ ring' = slots
      /\ loop' = loop
      /\ UNCHANGED source_vars /\ call' = call /\ asked' = asked
  BY DEF DropsAhead
<1>0. slots = [ring EXCEPT ![SlotOf(indexed + 1)] = v] /\ v = m_values'[indexed + 1].key
  OBVIOUS
<1> HIDE DEF slots, v
<1>2. /\ ReplaceOK /\ TableOK /\ CalledOK /\ TableInv({0})
      /\ loop \in [op : Ops, read : Nat, write : Nat, look : Nat, threw : SUBSET Element]
      /\ indexed \in Nat /\ Depth \in Nat \ {0} /\ size \in Nat
      /\ DOMAIN slots = 0 .. Depth - 1
      /\ slots[SlotOf(indexed + 1)] = v
      /\ \A p \in indexed + 2 .. indexed + Depth : slots[SlotOf(p)] = m_values[p].key
  <2>1. /\ DOMAIN ring = 0 .. Depth - 1
        /\ SlotOf(indexed + 1) \in 0 .. Depth - 1
        /\ SlotOf(indexed + 1 + Depth) = SlotOf(indexed + 1)
        /\ \A p \in indexed + 2 .. indexed + Depth :
             SlotOf(p) # SlotOf(indexed + 1) /\ ring[SlotOf(p)] = m_values[p].key
    BY <1>1, WindowMoves
  <2>2. \A p \in indexed + 2 .. indexed + Depth : slots[SlotOf(p)] = ring[SlotOf(p)]
    BY <1>0, <2>1
  <2>3. DOMAIN slots = 0 .. Depth - 1 /\ slots[SlotOf(indexed + 1)] = v
    BY <1>0, <2>1
  <2> QED
    BY <1>1, <2>1, <2>2, <2>3, WindowMoves
<1>3. /\ Next
      /\ KeysOf(m_values') = KeysOf(m_values)
      /\ Holding(m_values') \subseteq Holding(m_values)
      /\ indexed' = indexed /\ size' = size - 1
      /\ \A p \in 1 .. size - 1 :
           m_values'[p] = IF p = indexed + 1 THEN m_values[size] ELSE m_values[p]
  BY <1>1, <1>2, ReplaceGoesOn
<1>4. \A p \in indexed' + 1 .. indexed' + Depth : ring'[SlotOf(p)] = m_values'[p].key
  <2> SUFFICES ASSUME NEW p \in indexed + 1 .. indexed + Depth
               PROVE  slots[SlotOf(p)] = m_values'[p].key
    BY <1>1, <1>3
  <2>1. CASE p = indexed + 1
    BY <1>0, <1>2, <2>1
  <2>2. CASE p # indexed + 1
    <3>1. p \in indexed + 2 .. indexed + Depth /\ p \in 1 .. size - 1
      BY <1>1, <1>2, <2>2
    <3> QED
      BY <1>2, <1>3, <2>2, <3>1
  <2> QED
    BY <2>1, <2>2
<1>5. loop'.look = indexed' + Depth + 1 /\ indexed' + Depth <= size'
  BY <1>1, <1>2, <1>3 DEF ReplaceOK
<1>6. ReplaceOK'
  BY <1>1, <1>2, <1>3, <1>4, <1>5 DEF ReplaceOK
<1>7. CalledOK'
  BY <1>1, <1>2, SameCall
<1>8. Merging' = Merging /\ ~Merging'
  BY <1>1 DEF Merging
<1>9. TableOK'
  BY <1>1, <1>2, <1>3, <1>8, TableStays
<1>10. PhaseOK'
  BY <1>1, <1>6, <1>8 DEF PhaseOK
<1>11. BatchesAreExact'
  BY <1>1, NotDone
<1> QED
  BY <1>3, <1>7, <1>9, <1>10, <1>11 DEF LoopInv

(* The last of the container, and all of one that is not looked ahead in. *)
LEMMA ReplaceTailKeeps ==
    ASSUME LoopInv, ReplaceTail
    PROVE  LoopInv' /\ [Next]_vars
<1>1. /\ loop.op \in {"replace", "replace_ahead"}
      /\ UNCHANGED source_vars /\ ring' = ring /\ call' = call /\ asked' = asked
      /\ \/ /\ ReplaceKeeps \/ ReplaceDrops
            /\ loop' = [loop EXCEPT !.op = "replace"]
         \/ /\ Idle /\ loop' = [loop EXCEPT !.op = "done"] /\ UNCHANGED vars
  BY DEF ReplaceTail, Done
<1>2. /\ ReplaceOK /\ TableOK /\ CalledOK /\ TableInv({0}) /\ DOMAIN ring = 0 .. Depth - 1
      /\ loop \in [op : Ops, read : Nat, write : Nat, look : Nat, threw : SUBSET Element]
  BY <1>1 DEF LoopInv, PhaseOK, TableOK, CalledOK
<1>3. CASE (ReplaceKeeps \/ ReplaceDrops) /\ loop' = [loop EXCEPT !.op = "replace"]
  <2>1. /\ Next
        /\ KeysOf(m_values') = KeysOf(m_values)
        /\ Holding(m_values') \subseteq Holding(m_values)
    BY <1>2, <1>3, ReplaceGoesOn
  <2>2. /\ loop'.op = "replace"
        /\ loop' \in [op : Ops, read : Nat, write : Nat, look : Nat, threw : SUBSET Element]
    BY <1>2, <1>3 DEF Ops
  <2>3. ReplaceOK'
    BY <1>1, <1>2, <2>1, <2>2 DEF ReplaceOK
  <2>4. CalledOK'
    BY <1>1, <1>2, <2>2, SameCall
  <2>5. Merging' = Merging /\ ~Merging'
    BY <1>1, <2>2 DEF Merging
  <2>6. TableOK'
    BY <1>1, <1>2, <2>1, <2>2, <2>5, TableStays
  <2>7. PhaseOK'
    BY <2>2, <2>3, <2>5 DEF PhaseOK
  <2>8. BatchesAreExact'
    BY <2>2, NotDone
  <2> QED
    BY <2>1, <2>4, <2>6, <2>7, <2>8 DEF LoopInv
<1>4. CASE Idle /\ loop' = [loop EXCEPT !.op = "done"] /\ UNCHANGED vars
  <2>1. m_values' = m_values /\ dedup' = dedup /\ ~dedup
    BY <1>2, <1>4, WhenIdle DEF vars
  <2>2. /\ loop'.op = "done"
        /\ loop' \in [op : Ops, read : Nat, write : Nat, look : Nat, threw : SUBSET Element]
    BY <1>2, <1>4 DEF Ops
  <2>3. CalledOK'
    BY <1>1, <1>2, <2>2, SameCall
  <2>4. Merging' = Merging /\ ~Merging'
    BY <1>1, <2>2 DEF Merging
  <2>5. TableOK'
    BY <1>1, <1>2, <1>4, <2>1, <2>4, TableStays
  <2>6. PhaseOK'
    BY <2>2, <2>4 DEF PhaseOK
  <2>7. BatchesAreExact'
    <3>1. Cardinality(KeysOf(m_values)) = size
      BY <1>2, <2>1, TheValues, CountsKeys DEF size
    <3>2. /\ call.kind = "replace" /\ KeysOf(m_values) = KeysOf(call.arg)
          /\ Holding(m_values) \subseteq Holding(call.arg)
      BY <1>2 DEF ReplaceOK
    <3>3. RangesAreTaken'
      BY <1>1, <2>1, <3>1, <3>2 DEF RangesAreTaken, Finished, size
    <3> QED
      BY <1>1, <3>2, <3>3 DEF BatchesAreExact, ErasesAreExact, MergeKeepsElements, Finished
  <2> QED
    BY <1>4, <2>3, <2>5, <2>6, <2>7 DEF LoopInv
<1> QED
  BY <1>1, <1>3, <1>4

---------------------------------------------------------------------------
(* erase(first, last) *)

LEMMA HeldOfPart ==
    ASSUME NEW values \in Seq(Element), NEW a \in 1 .. Len(values) + 1, NEW b \in 0 .. Len(values),
           a <= b + 1
    PROVE  Holding(SubSeq(values, a, b)) = {values[p] : p \in a .. b}
<1> DEFINE part == SubSeq(values, a, b)
<1>1. /\ part \in Seq(Element)
      /\ Len(part) = b - a + 1
      /\ \A i \in 1 .. b - a + 1 : part[i] = values[a + i - 1]
  BY SubSeqProperties
<1>2. a \in Int /\ b \in Int
  OBVIOUS
<1> HIDE DEF part
<1>3. Holding(part) = {part[i] : i \in 1 .. b - a + 1}
  BY <1>1, HeldIs
<1>4. \A i \in 1 .. b - a + 1 : a + i - 1 \in a .. b
  BY <1>2
<1>5. \A p \in a .. b : p - a + 1 \in 1 .. b - a + 1 /\ a + (p - a + 1) - 1 = p
  BY <1>2
<1>6. \A p \in a .. b : part[p - a + 1] = values[p]
  BY <1>1, <1>5
<1>7. Holding(part) \subseteq {values[p] : p \in a .. b}
  BY <1>1, <1>3, <1>4
<1>8. {values[p] : p \in a .. b} \subseteq Holding(part)
  BY <1>3, <1>5, <1>6
<1> QED
  BY <1>7, <1>8 DEF part

(* erase(first, last) knows how many values there are to move in from      *)
(* behind. *)
LEMMA EraseRangeStarts ==
    ASSUME LoopInv, NEW last \in 0 .. size, NEW first \in 0 .. last, EraseRange(first, last)
    PROVE  LoopInv' /\ [Next]_vars
<1> DEFINE write == first + (IF last - first < size - last THEN last - first ELSE size - last)
<1>1. /\ Begins("erase_range", <<first, last>>)
      /\ loop' = [loop EXCEPT !.op = "erase_forward", !.read = first, !.write = write]
      /\ UNCHANGED vars /\ UNCHANGED source_vars /\ ring' = ring
  BY DEF EraseRange
<1>2. "erase_range" \in Kinds
  BY DEF Kinds
<1>3. /\ loop = [op |-> "fill", read |-> 1, write |-> 1, look |-> 1, threw |-> {}]
      /\ DOMAIN ring = 0 .. Depth - 1
      /\ call'.kind = "erase_range" /\ call'.arg = <<first, last>> /\ call'.values = m_values
      /\ m_values \in Seq(Element) /\ TableInv({0}) /\ ~dedup
  BY <1>1, <1>2, Begun
<1>4. TableOK /\ ~Merging
  BY <1>3 DEF LoopInv, Merging
<1>5. /\ size \in Nat /\ first \in Nat /\ last \in Nat /\ write \in Nat
      /\ write = IF last - first < size - last THEN last ELSE first + (size - last)
      /\ first <= write /\ write <= last
  BY <1>3 DEF size
<1> HIDE DEF write
<1>6. loop' = [op |-> "erase_forward", read |-> first, write |-> write, look |-> 1, threw |-> {}]
  BY <1>1, <1>3
<1>7. "erase_forward" \in Ops
  BY DEF Ops
<1>8. /\ loop' \in [op : Ops, read : Nat, write : Nat, look : Nat, threw : SUBSET Element]
      /\ loop'.op = "erase_forward" /\ loop'.read = first /\ loop'.write = write
  BY <1>5, <1>6, <1>7
<1>9. CalledOK'
  BY <1>1, <1>2, <1>3, <1>8, BegunCall
<1>10. m_values' = m_values /\ dedup' = dedup /\ size' = size
  BY <1>1 DEF vars, size
<1>11. Merging' = Merging /\ ~Merging'
  BY <1>4, <1>8 DEF Merging
<1>12. TableOK'
  BY <1>1, <1>3, <1>4, <1>10, <1>11, TableStays
<1>13. EraseRangeOK'
  <2>1. FilledTo(m_values', call'.values, first, first)
    BY <1>3, <1>5, <1>10 DEF FilledTo, size
  <2>2. call'.arg[1] = first /\ call'.arg[2] = last /\ Len(call'.values) = size
    BY <1>3 DEF size
  <2>3. first \in first .. write /\ size = size - (first - first)
    BY <1>5
  <2> QED
    BY <1>3, <1>5, <1>8, <1>10, <2>1, <2>2, <2>3 DEF EraseRangeOK
<1>14. PhaseOK'
  BY <1>8, <1>11, <1>13 DEF PhaseOK
<1>15. BatchesAreExact'
  BY <1>8, NotDone
<1> QED
  BY <1>1, <1>9, <1>12, <1>14, <1>15 DEF LoopInv

(* What the steps of the two loops have to do with. *)
LEMMA ErasingRange ==
    ASSUME LoopInv, loop.op \in {"erase_forward", "erase_back"}
    PROVE  /\ TableOK /\ CalledOK /\ EraseRangeOK /\ TableInv({0}) /\ ~Merging
           /\ DOMAIN ring = 0 .. Depth - 1 /\ ~dedup
           /\ loop \in [op : Ops, read : Nat, write : Nat, look : Nat, threw : SUBSET Element]
           /\ m_values \in Seq(Element) /\ size \in Nat
           /\ call.values \in Seq(Element) /\ Len(call.values) \in Nat
           /\ call.arg[1] \in Nat /\ call.arg[2] \in Nat
           /\ loop.read \in Nat /\ loop.write \in Nat
<1>1. TableOK /\ CalledOK /\ EraseRangeOK
  BY DEF LoopInv, PhaseOK
<1>2. /\ TableInv({0}) /\ ~Merging /\ DOMAIN ring = 0 .. Depth - 1 /\ ~dedup
      /\ loop \in [op : Ops, read : Nat, write : Nat, look : Nat, threw : SUBSET Element]
      /\ call.values \in Seq(Element) /\ Len(call.values) \in Nat
  BY <1>1 DEF TableOK, CalledOK, Merging
<1>3. m_values \in Seq(Element) /\ size \in Nat
  BY <1>2, TheValues DEF size
<1>4. call.arg[1] \in Nat /\ call.arg[2] \in Nat
  BY <1>1, <1>2 DEF EraseRangeOK
<1> QED
  BY <1>1, <1>2, <1>3, <1>4

(* The last value moves into the range, from the left ... *)
LEMMA EraseForwardKeeps ==
    ASSUME LoopInv, EraseForward
    PROVE  LoopInv' /\ [Next]_vars
<1> DEFINE f == call.arg[1]
           l == call.arg[2]
           n == Len(call.values)
           r == loop.read
           w == loop.write
           s == size
<1>1. /\ loop.op = "erase_forward" /\ r # w /\ EraseAt(r + 1)
      /\ loop' = [loop EXCEPT !.read = @ + 1]
      /\ UNCHANGED source_vars /\ ring' = ring /\ call' = call /\ asked' = asked
  BY DEF EraseForward
<1>2. /\ TableOK /\ CalledOK /\ EraseRangeOK /\ TableInv({0}) /\ ~Merging
      /\ DOMAIN ring = 0 .. Depth - 1 /\ ~dedup
      /\ loop \in [op : Ops, read : Nat, write : Nat, look : Nat, threw : SUBSET Element]
      /\ m_values \in Seq(Element) /\ s \in Nat
      /\ n \in Nat /\ f \in Nat /\ l \in Nat /\ r \in Nat /\ w \in Nat
  BY <1>1, ErasingRange
<1>3. /\ call.kind = "erase_range" /\ l \in 0 .. n /\ f \in 0 .. l
      /\ w = IF l - f < n - l THEN l ELSE f + (n - l)
      /\ r \in f .. w /\ s = n - (r - f) /\ FilledTo(m_values, call.values, f, r)
  BY <1>1, <1>2 DEF EraseRangeOK
<1>4. \A p \in 1 .. s : m_values[p] = call.values[IF f < p /\ p <= r THEN n - (p - f) + 1 ELSE p]
  BY <1>3 DEF FilledTo, size
<1>5. /\ loop'.op = "erase_forward" /\ loop'.read = r + 1 /\ loop'.write = w
      /\ loop' \in [op : Ops, read : Nat, write : Nat, look : Nat, threw : SUBSET Element]
  <2>1. r + 1 \in Nat
    BY <1>2
  <2> QED
    BY <1>1, <1>2, <2>1
<1> HIDE DEF f, l, n, r, w, s
<1>6. r + 1 <= w /\ s > r + 1 - 1 /\ r + 1 \in 1 .. s /\ s \in 1 .. s
  <2>1. r + 1 <= w /\ f <= r
    BY <1>1, <1>2, <1>3
  <2>2. w <= l /\ w - f <= n - l
    BY <1>2, <1>3
  <2>3. s > r
    BY <1>2, <1>3, <2>1, <2>2
  <2> QED
    BY <1>2, <2>1, <2>3
<1>7. /\ Next /\ size' = s - 1 /\ ~dedup'
      /\ \A q \in 1 .. s - 1 : m_values'[q] = IF q = r + 1 THEN m_values[s] ELSE m_values[q]
  BY <1>1, <1>2, <1>6, Erasing DEF s
<1>8. m_values[s] = call.values[n - ((r + 1) - f) + 1]
  <2>1. ~(s <= r) /\ s = n - ((r + 1) - f) + 1
    BY <1>2, <1>3, <1>6
  <2> QED
    BY <1>4, <1>6, <2>1
<1>9. \A p \in 1 .. size' :
        m_values'[p] = call.values[IF f < p /\ p <= r + 1 THEN n - (p - f) + 1 ELSE p]
  <2> SUFFICES ASSUME NEW p \in 1 .. s - 1
               PROVE  m_values'[p]
                        = call.values[IF f < p /\ p <= r + 1 THEN n - (p - f) + 1 ELSE p]
    BY <1>7
  <2>1. p \in 1 .. s /\ p \in Int
    BY <1>2
  <2>2. CASE p = r + 1
    BY <1>2, <1>3, <1>7, <1>8, <2>2
  <2>3. CASE p # r + 1
    <3>1. m_values'[p] = m_values[p]
      BY <1>7, <2>3
    <3>2. p <= r + 1 <=> p <= r
      BY <1>2, <2>1, <2>3
    <3> QED
      BY <1>4, <2>1, <3>1, <3>2
  <2> QED
    BY <2>2, <2>3
<1>10. FilledTo(m_values', call'.values, f, r + 1)
  BY <1>1, <1>9 DEF FilledTo, n, size
<1>11. r + 1 \in f .. w /\ s - 1 = n - ((r + 1) - f)
  BY <1>2, <1>3, <1>6
<1>12. EraseRangeOK'
  <2>1. call'.arg[1] = f /\ call'.arg[2] = l /\ Len(call'.values) = n
    BY <1>1 DEF f, l, n
  <2> QED
    BY <1>1, <1>3, <1>5, <1>7, <1>10, <1>11, <2>1 DEF EraseRangeOK
<1>13. CalledOK'
  BY <1>1, <1>2, <1>5, SameCall
<1>14. Merging' = Merging /\ ~Merging'
  BY <1>2, <1>5 DEF Merging
<1>15. TableOK'
  BY <1>1, <1>2, <1>5, <1>7, <1>14, TableStays
<1>16. PhaseOK'
  BY <1>5, <1>12, <1>14 DEF PhaseOK
<1>17. BatchesAreExact'
  BY <1>5, NotDone
<1> QED
  BY <1>7, <1>13, <1>15, <1>16, <1>17 DEF LoopInv

(* ... until what is left of the range is the end of the values ... *)
LEMMA EraseTurnsKeeps ==
    ASSUME LoopInv, EraseTurns
    PROVE  LoopInv' /\ [Next]_vars
<1>1. /\ loop.op = "erase_forward" /\ loop.read = loop.write
      /\ loop' = [loop EXCEPT !.op = "erase_back", !.read = call.arg[2]]
      /\ UNCHANGED vars /\ UNCHANGED source_vars /\ ring' = ring /\ call' = call
  BY DEF EraseTurns
<1>2. /\ TableOK /\ CalledOK /\ EraseRangeOK /\ TableInv({0}) /\ ~Merging
      /\ DOMAIN ring = 0 .. Depth - 1 /\ ~dedup
      /\ loop \in [op : Ops, read : Nat, write : Nat, look : Nat, threw : SUBSET Element]
      /\ size \in Nat /\ Len(call.values) \in Nat
      /\ call.arg[1] \in Nat /\ call.arg[2] \in Nat /\ loop.read \in Nat /\ loop.write \in Nat
  BY <1>1, ErasingRange
<1>3. m_values' = m_values /\ dedup' = dedup /\ size' = size
  BY <1>1 DEF vars, size
<1>4. "erase_back" \in Ops
  BY DEF Ops
<1>5. /\ loop'.op = "erase_back" /\ loop'.read = call.arg[2] /\ loop'.write = loop.write
      /\ loop' \in [op : Ops, read : Nat, write : Nat, look : Nat, threw : SUBSET Element]
  BY <1>1, <1>2, <1>4
<1>6. EraseRangeOK'
  <2> DEFINE f == call.arg[1]
             l == call.arg[2]
             n == Len(call.values)
             w == loop.write
  <2>1. /\ call.kind = "erase_range" /\ l \in 0 .. n /\ f \in 0 .. l
        /\ w = IF l - f < n - l THEN l ELSE f + (n - l)
        /\ size = n - (w - f) /\ FilledTo(m_values, call.values, f, w)
    BY <1>1, <1>2 DEF EraseRangeOK
  <2>2. call'.arg[1] = f /\ call'.arg[2] = l /\ Len(call'.values) = n
    BY <1>1
  <2>3. FilledTo(m_values', call'.values, f, w)
    BY <1>1, <1>3, <2>1 DEF FilledTo
  <2>4. loop'.op = "erase_back" /\ loop'.read = l /\ loop'.write = w
    BY <1>5
  <2>5. n \in Nat /\ f \in Nat /\ l \in Nat /\ w \in Nat
    BY <1>2
  <2> HIDE DEF f, l, n, w
  <2>6. l \in w .. l /\ size = n - (w - f) - (l - l)
    BY <1>2, <2>1, <2>5
  <2> QED
    BY <1>1, <1>3, <2>1, <2>2, <2>3, <2>4, <2>6 DEF EraseRangeOK
<1>7. CalledOK'
  BY <1>1, <1>2, <1>5, SameCall
<1>8. Merging' = Merging /\ ~Merging'
  BY <1>2, <1>5 DEF Merging
<1>9. TableOK'
  BY <1>1, <1>2, <1>3, <1>8, TableStays
<1>10. PhaseOK'
  BY <1>5, <1>6, <1>8 DEF PhaseOK
<1>11. BatchesAreExact'
  BY <1>5, NotDone
<1> QED
  BY <1>1, <1>7, <1>9, <1>10, <1>11 DEF LoopInv

(* The range has gone, and what was behind it has not. *)
LEMMA RangeIsGone ==
    ASSUME NEW now \in Seq(Element), NEW before \in Seq(Element),
           NEW l \in 0 .. Len(before), NEW f \in 0 .. l, NEW w \in Int,
           w = IF l - f < Len(before) - l THEN l ELSE f + (Len(before) - l),
           Len(now) = Len(before) - (l - f), FilledTo(now, before, f, w)
    PROVE  /\ SubSeq(now, 1, f) = SubSeq(before, 1, f)
           /\ Holding(SubSeq(now, f + 1, Len(now)))
                = Holding(SubSeq(before, l + 1, Len(before)))
<1> DEFINE n == Len(before)
           m == Len(now)
<1>1. n \in Nat /\ m \in Nat /\ l \in Int /\ f \in Int /\ w \in Int
  OBVIOUS
<1>2. /\ m = n - (l - f) /\ l <= n /\ 0 <= f /\ f <= l
      /\ w = IF l - f < n - l THEN l ELSE f + (n - l)
  OBVIOUS
<1>3. \A p \in 1 .. m : now[p] = before[IF f < p /\ p <= w THEN n - (p - f) + 1 ELSE p]
  BY DEF FilledTo
<1> HIDE DEF n, m
<1>4. f <= m /\ w <= m /\ f <= w /\ w <= l
  BY <1>1, <1>2
<1>5. SubSeq(now, 1, f) = SubSeq(before, 1, f)
  <2> DEFINE a == SubSeq(now, 1, f)
             b == SubSeq(before, 1, f)
  <2>1. f \in 0 .. m /\ f \in 0 .. n
    BY <1>1, <1>2, <1>4
  <2>2. a \in Seq(Element) /\ Len(a) = f /\ \A i \in 1 .. f : a[i] = now[i]
    BY <2>1, SubSeqProperties DEF m
  <2>3. b \in Seq(Element) /\ Len(b) = f /\ \A i \in 1 .. f : b[i] = before[i]
    BY <2>1, SubSeqProperties DEF n
  <2> HIDE DEF a, b
  <2>4. \A i \in 1 .. f : now[i] = before[i]
    <3> TAKE i \in 1 .. f
    <3>1. i \in 1 .. m /\ ~(f < i)
      BY <1>1, <1>4
    <3> QED
      BY <1>3, <3>1
  <2>5. \A i \in 1 .. Len(a) : a[i] = b[i]
    BY <2>2, <2>3, <2>4
  <2>6. a = b
    BY <2>2, <2>3, <2>5, SeqEqual
  <2> QED
    BY <2>6 DEF a, b
<1>6. Holding(SubSeq(now, f + 1, m)) = {now[p] : p \in f + 1 .. m}
  <2>1. f + 1 \in 1 .. m + 1 /\ m \in 0 .. m /\ f + 1 <= m + 1
    BY <1>1, <1>2, <1>4
  <2> QED
    BY <2>1, HeldOfPart DEF m
<1>7. Holding(SubSeq(before, l + 1, n)) = {before[p] : p \in l + 1 .. n}
  <2>1. l + 1 \in 1 .. n + 1 /\ n \in 0 .. n /\ l + 1 <= n + 1
    BY <1>1, <1>2
  <2> QED
    BY <2>1, HeldOfPart DEF n
<1>8. ASSUME NEW p \in f + 1 .. m
      PROVE  \E q \in l + 1 .. n : now[p] = before[q]
  <2>1. p \in Int /\ p \in 1 .. m /\ f < p
    BY <1>1, <1>2
  <2>2. CASE p <= w
    <3>1. n - (p - f) + 1 \in l + 1 .. n
      BY <1>1, <1>2, <1>4, <2>1, <2>2
    <3> QED
      BY <1>3, <2>1, <2>2, <3>1
  <2>3. CASE ~(p <= w)
    <3>1. w = l
      BY <1>1, <1>2, <2>1, <2>3
    <3>2. p \in l + 1 .. n
      BY <1>1, <1>2, <2>1, <2>3, <3>1
    <3> QED
      BY <1>3, <2>1, <2>3, <3>2
  <2> QED
    BY <2>2, <2>3
<1>9. ASSUME NEW q \in l + 1 .. n
      PROVE  \E p \in f + 1 .. m : now[p] = before[q]
  <2> DEFINE p == n - q + 1 + f
  <2>1. q \in Int /\ p \in Int /\ p = n - q + 1 + f
    BY <1>1
  <2>2. CASE p <= w
    <3>1. p \in f + 1 .. m /\ p \in 1 .. m /\ f < p /\ n - (p - f) + 1 = q
      BY <1>1, <1>2, <1>4, <2>1, <2>2
    <3> HIDE DEF p
    <3> QED
      BY <1>3, <2>2, <3>1
  <2>3. CASE ~(p <= w)
    <3>1. w = l /\ q <= m
      BY <1>1, <1>2, <2>1, <2>3
    <3>2. q \in f + 1 .. m /\ q \in 1 .. m /\ ~(q <= w)
      BY <1>1, <1>2, <2>1, <3>1
    <3> QED
      BY <1>3, <3>2
  <2> QED
    BY <2>2, <2>3
<1>10. {now[p] : p \in f + 1 .. m} = {before[p] : p \in l + 1 .. n}
  <2>1. {now[p] : p \in f + 1 .. m} \subseteq {before[p] : p \in l + 1 .. n}
    BY <1>8
  <2>2. {before[p] : p \in l + 1 .. n} \subseteq {now[p] : p \in f + 1 .. m}
    BY <1>9
  <2> QED
    BY <2>1, <2>2
<1> QED
  BY <1>5, <1>6, <1>7, <1>10 DEF m, n

(* ... which goes from the right. *)
LEMMA EraseBackKeeps ==
    ASSUME LoopInv, EraseBack
    PROVE  LoopInv' /\ [Next]_vars
<1> DEFINE f == call.arg[1]
           l == call.arg[2]
           n == Len(call.values)
           r == loop.read
           w == loop.write
           s == size
<1>1. /\ loop.op = "erase_back"
      /\ \/ r # w /\ EraseAt(r) /\ loop' = [loop EXCEPT !.read = @ - 1]
         \/ r = w /\ UNCHANGED vars /\ loop' = [loop EXCEPT !.op = "done"]
      /\ UNCHANGED source_vars /\ ring' = ring /\ call' = call /\ asked' = asked
  BY DEF EraseBack, Done
<1>2. /\ TableOK /\ CalledOK /\ EraseRangeOK /\ TableInv({0}) /\ ~Merging
      /\ DOMAIN ring = 0 .. Depth - 1 /\ ~dedup
      /\ loop \in [op : Ops, read : Nat, write : Nat, look : Nat, threw : SUBSET Element]
      /\ m_values \in Seq(Element) /\ s \in Nat /\ call.values \in Seq(Element)
      /\ n \in Nat /\ f \in Nat /\ l \in Nat /\ r \in Nat /\ w \in Nat
  BY <1>1, ErasingRange
<1>3. /\ call.kind = "erase_range" /\ l \in 0 .. n /\ f \in 0 .. l
      /\ w = IF l - f < n - l THEN l ELSE f + (n - l)
      /\ r \in w .. l /\ s = n - (w - f) - (l - r) /\ FilledTo(m_values, call.values, f, w)
  BY <1>1, <1>2 DEF EraseRangeOK
<1>4. \A p \in 1 .. s : m_values[p] = call.values[IF f < p /\ p <= w THEN n - (p - f) + 1 ELSE p]
  BY <1>3 DEF FilledTo, size
<1>7. /\ r # w => r - 1 \in Nat /\ r - 1 \in w .. l /\ r = s /\ r \in 1 .. s
      /\ r = w => s = n - (l - f)
  <2> HIDE DEF f, l, n, r, w, s
  <2>1. r # w => w < r /\ w < l
    BY <1>2, <1>3
  <2>2. r # w => w = f + (n - l)
    BY <1>2, <1>3, <2>1
  <2>3. r # w => r = s
    BY <1>2, <1>3, <2>2
  <2> QED
    BY <1>2, <1>3, <2>1, <2>3
<1>5. CASE r # w /\ EraseAt(r) /\ loop' = [loop EXCEPT !.read = @ - 1]
  <2>1. r - 1 \in Nat /\ r - 1 \in w .. l /\ r = s /\ r \in 1 .. s
    BY <1>5, <1>7
  <2>2. /\ loop'.op = "erase_back" /\ loop'.read = r - 1 /\ loop'.write = w
        /\ loop' \in [op : Ops, read : Nat, write : Nat, look : Nat, threw : SUBSET Element]
    BY <1>1, <1>2, <1>5, <2>1
  <2> HIDE DEF f, l, n, r, w, s
  <2>3. /\ Next /\ size' = s - 1 /\ ~dedup'
        /\ \A q \in 1 .. s - 1 : m_values'[q] = IF q = r THEN m_values[s] ELSE m_values[q]
    BY <1>2, <1>5, <2>1, Erasing DEF s
  <2>4. \A p \in 1 .. size' :
          m_values'[p] = call.values[IF f < p /\ p <= w THEN n - (p - f) + 1 ELSE p]
    <3> SUFFICES ASSUME NEW p \in 1 .. s - 1
                 PROVE  m_values'[p]
                          = call.values[IF f < p /\ p <= w THEN n - (p - f) + 1 ELSE p]
      BY <2>3
    <3>1. p \in 1 .. s /\ p # r
      BY <1>2, <2>1
    <3> QED
      BY <1>4, <2>3, <3>1
  <2>5. FilledTo(m_values', call'.values, f, w)
    BY <1>1, <2>4 DEF FilledTo, n, size
  <2>6. s - 1 = n - (w - f) - (l - (r - 1))
    BY <1>2, <1>3, <2>1
  <2>7. EraseRangeOK'
    <3>1. call'.arg[1] = f /\ call'.arg[2] = l /\ Len(call'.values) = n
      BY <1>1 DEF f, l, n
    <3> QED
      BY <1>1, <1>3, <2>1, <2>2, <2>3, <2>5, <2>6, <3>1 DEF EraseRangeOK
  <2>8. CalledOK'
    BY <1>1, <1>2, <2>2, SameCall
  <2>9. Merging' = Merging /\ ~Merging'
    BY <1>2, <2>2 DEF Merging
  <2>10. TableOK'
    BY <1>1, <1>2, <2>2, <2>3, <2>9, TableStays
  <2>11. PhaseOK'
    BY <2>2, <2>7, <2>9 DEF PhaseOK
  <2>12. BatchesAreExact'
    BY <2>2, NotDone
  <2> QED
    BY <2>3, <2>8, <2>10, <2>11, <2>12 DEF LoopInv
<1>6. CASE r = w /\ UNCHANGED vars /\ loop' = [loop EXCEPT !.op = "done"]
  <2>1. m_values' = m_values /\ dedup' = dedup /\ size' = size
    BY <1>6 DEF vars, size
  <2>2. "done" \in Ops
    BY DEF Ops
  <2>3. /\ loop'.op = "done"
        /\ loop' \in [op : Ops, read : Nat, write : Nat, look : Nat, threw : SUBSET Element]
    BY <1>2, <1>6, <2>2
  <2>4. CalledOK'
    BY <1>1, <1>2, <2>3, SameCall
  <2>5. Merging' = Merging /\ ~Merging'
    BY <1>2, <2>3 DEF Merging
  <2>6. TableOK'
    BY <1>1, <1>2, <1>6, <2>1, <2>5, TableStays
  <2>7. PhaseOK'
    BY <2>3, <2>5 DEF PhaseOK
  <2>8. BatchesAreExact'
    <3>1. s = n - (l - f) /\ w \in Int
      BY <1>2, <1>6, <1>7
    <3>2. /\ SubSeq(m_values, 1, f) = SubSeq(call.values, 1, f)
          /\ Holding(SubSeq(m_values, f + 1, s)) = Holding(SubSeq(call.values, l + 1, n))
      <4> HIDE DEF f, l, w
      <4> QED
        BY <1>2, <1>3, <3>1, RangeIsGone DEF n, s, size
    <3>3. ErasesAreExact'
      BY <1>1, <1>3, <2>1, <3>2 DEF ErasesAreExact, Finished
    <3> QED
      BY <1>1, <1>3, <3>3 DEF BatchesAreExact, RangesAreTaken, MergeKeepsElements, Finished
  <2> QED
    BY <1>6, <2>4, <2>6, <2>7, <2>8 DEF LoopInv
<1> QED
  BY <1>1, <1>5, <1>6

---------------------------------------------------------------------------
(* std::erase_if *)

LEMMA EraseIfStarts ==
    ASSUME LoopInv, NEW keys \in SUBSET Key, EraseIf(keys)
    PROVE  LoopInv' /\ [Next]_vars
<1>1. /\ Begins("erase_if", keys)
      /\ loop' = [loop EXCEPT !.op = "erase_if", !.read = size]
      /\ UNCHANGED vars /\ UNCHANGED source_vars /\ ring' = ring
  BY DEF EraseIf
<1>2. "erase_if" \in Kinds
  BY DEF Kinds
<1>3. /\ loop = [op |-> "fill", read |-> 1, write |-> 1, look |-> 1, threw |-> {}]
      /\ DOMAIN ring = 0 .. Depth - 1
      /\ call'.kind = "erase_if" /\ call'.arg = keys /\ call'.values = m_values
      /\ asked' = <<>>
      /\ m_values \in Seq(Element) /\ TableInv({0}) /\ ~dedup
  BY <1>1, <1>2, Begun
<1>4. TableOK /\ ~Merging
  BY <1>3 DEF LoopInv, Merging
<1>5. loop' = [op |-> "erase_if", read |-> size, write |-> 1, look |-> 1, threw |-> {}]
  BY <1>1, <1>3
<1>6. "erase_if" \in Ops /\ size \in Nat
  BY <1>3 DEF Ops, size
<1>7. /\ loop' \in [op : Ops, read : Nat, write : Nat, look : Nat, threw : SUBSET Element]
      /\ loop'.op = "erase_if" /\ loop'.read = size
  BY <1>5, <1>6
<1>8. CalledOK'
  BY <1>1, <1>2, <1>3, <1>7, BegunCall
<1>9. m_values' = m_values /\ dedup' = dedup /\ size' = size /\ size = Len(m_values)
  BY <1>1 DEF vars, size
<1>10. Merging' = Merging /\ ~Merging'
  BY <1>4, <1>7 DEF Merging
<1>11. TableOK'
  BY <1>1, <1>3, <1>4, <1>9, <1>10, TableStays
<1>12. EraseIfOK'
  <2>1. asked' \in Seq(Element) /\ Len(asked') = size - size
    BY <1>3, <1>6
  <2>2. /\ {m_values[p] : p \in size + 1 .. size} = {}
        /\ {m_values[p] : p \in {q \in size + 1 .. size : m_values[q].key \notin keys}} = {}
        /\ 1 .. size - size = {}
    BY <1>6
  <2> QED
    BY <1>3, <1>6, <1>7, <1>9, <2>1, <2>2 DEF EraseIfOK, Remains
<1>13. PhaseOK'
  BY <1>7, <1>10, <1>12 DEF PhaseOK
<1>14. BatchesAreExact'
  BY <1>7, NotDone
<1> QED
  BY <1>1, <1>8, <1>11, <1>13, <1>14 DEF LoopInv

(* An element that is asked about stays where it is, or goes. *)
LEMMA RemainsStep ==
    ASSUME NEW now \in Seq(Element), NEW before \in Seq(Element), NEW keys,
           NEW r \in Nat \ {0}, r <= Len(now), r <= Len(before),
           Remains(now, before, keys, r), NEW next \in Seq(Element),
           \/ now[r].key \notin keys /\ next = now
           \/ /\ now[r].key \in keys
              /\ Len(next) = Len(now) - 1
              /\ \A q \in 1 .. Len(now) - 1 : next[q] = IF q = r THEN now[Len(now)] ELSE now[q]
    PROVE  Remains(next, before, keys, r - 1) /\ r - 1 <= Len(next) /\ r - 1 <= Len(before)
<1> DEFINE n == Len(now)
           b == Len(before)
           N == {now[p] : p \in r + 1 .. n}
           B == {before[p] : p \in {q \in r + 1 .. b : before[q].key \notin keys}}
           C == {before[p] : p \in {q \in r - 1 + 1 .. b : before[q].key \notin keys}}
<1>1. n \in Nat /\ b \in Nat /\ r \in Int /\ r >= 1 /\ r <= n /\ r <= b /\ now[r] = before[r]
  BY DEF Remains
<1>2. N = B /\ \A p \in 1 .. r : now[p] = before[p]
  BY DEF Remains
<1>3. r - 1 + 1 = r /\ r .. b = {r} \cup (r + 1 .. b) /\ r .. n = {r} \cup (r + 1 .. n)
  BY <1>1
<1>4. CASE now[r].key \notin keys /\ next = now
  <2>1. C = {before[r]} \cup B
    BY <1>1, <1>3, <1>4
  <2>2. {now[p] : p \in r - 1 + 1 .. n} = {now[r]} \cup N
    BY <1>3
  <2>3. \A p \in 1 .. r - 1 : next[p] = before[p]
    BY <1>1, <1>2, <1>4
  <2>4. {next[p] : p \in r - 1 + 1 .. Len(next)} = C
    BY <1>1, <1>2, <1>4, <2>1, <2>2
  <2>5. r - 1 <= Len(next) /\ r - 1 <= b
    BY <1>1, <1>4
  <2> QED
    BY <2>3, <2>4, <2>5 DEF Remains
<1>5. CASE /\ now[r].key \in keys
           /\ Len(next) = n - 1
           /\ \A q \in 1 .. n - 1 : next[q] = IF q = r THEN now[n] ELSE now[q]
  <2>1. C = B
    BY <1>1, <1>3, <1>5
  <2>2. {next[p] : p \in r - 1 + 1 .. n - 1} \subseteq N
    <3> SUFFICES ASSUME NEW p \in r .. n - 1
                 PROVE  next[p] \in N
      BY <1>3
    <3>1. p \in 1 .. n - 1 /\ (p # r => p \in r + 1 .. n) /\ (p = r => n \in r + 1 .. n)
      BY <1>1
    <3> QED
      BY <1>5, <3>1
  <2>3. N \subseteq {next[p] : p \in r - 1 + 1 .. n - 1}
    <3> SUFFICES ASSUME NEW p \in r + 1 .. n
                 PROVE  \E q \in r .. n - 1 : next[q] = now[p]
      BY <1>3
    <3>1. CASE p = n
      <4>1. r \in r .. n - 1 /\ r \in 1 .. n - 1
        BY <1>1, <3>1
      <4> QED
        BY <1>5, <3>1, <4>1
    <3>2. CASE p # n
      <4>1. p \in r .. n - 1 /\ p \in 1 .. n - 1 /\ p # r
        BY <1>1, <3>2
      <4> QED
        BY <1>5, <4>1
    <3> QED
      BY <3>1, <3>2
  <2>4. \A p \in 1 .. r - 1 : next[p] = before[p]
    <3> TAKE p \in 1 .. r - 1
    <3>1. p \in 1 .. n - 1 /\ p # r /\ p \in 1 .. r
      BY <1>1
    <3> QED
      BY <1>2, <1>5, <3>1
  <2>5. r - 1 <= Len(next) /\ r - 1 <= b
    BY <1>1, <1>5
  <2>6. {next[p] : p \in r - 1 + 1 .. Len(next)} = C
    BY <1>2, <1>5, <2>1, <2>2, <2>3
  <2> QED
    BY <2>4, <2>5, <2>6 DEF Remains
<1> QED
  BY <1>4, <1>5

(* The predicate is asked about one more element, the one in front of      *)
(* those it was asked about. *)
LEMMA EraseIfStepKeeps ==
    ASSUME LoopInv, EraseIfStep
    PROVE  LoopInv' /\ [Next]_vars
<1> DEFINE n == Len(call.values)
           r == loop.read
<1>1. /\ loop.op = "erase_if"
      /\ \/ /\ r # 0
            /\ IF m_values[r].key \in call.arg THEN EraseAt(r) ELSE UNCHANGED vars
            /\ asked' = Append(asked, m_values[r])
            /\ loop' = [loop EXCEPT !.read = @ - 1]
         \/ r = 0 /\ UNCHANGED vars /\ asked' = asked /\ loop' = [loop EXCEPT !.op = "done"]
      /\ UNCHANGED source_vars /\ ring' = ring /\ call' = call
  BY DEF EraseIfStep, Done
<1>2. /\ TableOK /\ CalledOK /\ EraseIfOK /\ TableInv({0}) /\ ~Merging
      /\ DOMAIN ring = 0 .. Depth - 1 /\ ~dedup
      /\ loop \in [op : Ops, read : Nat, write : Nat, look : Nat, threw : SUBSET Element]
      /\ call.values \in Seq(Element) /\ n \in Nat /\ r \in Nat
  BY <1>1 DEF LoopInv, PhaseOK, TableOK, CalledOK, Merging
<1>3. m_values \in Seq(Element) /\ size \in Nat /\ size = Len(m_values)
  BY <1>2, TheValues DEF size
<1>4. /\ call.kind = "erase_if" /\ r <= size /\ r <= n
      /\ Remains(m_values, call.values, call.arg, r)
      /\ asked \in Seq(Element) /\ Len(asked) = n - r
      /\ \A i \in 1 .. n - r : asked[i] = call.values[n + 1 - i]
  BY <1>2 DEF EraseIfOK
<1>5. CASE /\ r # 0
           /\ IF m_values[r].key \in call.arg THEN EraseAt(r) ELSE UNCHANGED vars
           /\ asked' = Append(asked, m_values[r])
           /\ loop' = [loop EXCEPT !.read = @ - 1]
  <2>1. r \in Nat \ {0} /\ r \in 1 .. size /\ r - 1 \in Nat
    BY <1>2, <1>3, <1>4, <1>5
  <2>2. /\ loop'.op = "erase_if" /\ loop'.read = r - 1
        /\ loop' \in [op : Ops, read : Nat, write : Nat, look : Nat, threw : SUBSET Element]
    BY <1>1, <1>2, <1>5, <2>1
  <2> HIDE DEF n, r
  <2>3. /\ [Next]_vars /\ ~dedup' /\ m_values' \in Seq(Element)
        /\ \/ m_values[r].key \notin call.arg /\ m_values' = m_values
           \/ /\ m_values[r].key \in call.arg
              /\ Len(m_values') = Len(m_values) - 1
              /\ \A q \in 1 .. Len(m_values) - 1 :
                   m_values'[q] = IF q = r THEN m_values[Len(m_values)] ELSE m_values[q]
    <3>1. CASE m_values[r].key \in call.arg
      <4>1. EraseAt(r)
        BY <1>5, <3>1
      <4> QED
        BY <1>2, <1>3, <2>1, <3>1, <4>1, Erasing DEF size
    <3>2. CASE m_values[r].key \notin call.arg
      <4>1. UNCHANGED vars
        BY <1>5, <3>2
      <4> QED
        BY <1>2, <1>3, <3>2, <4>1 DEF vars
    <3> QED
      BY <3>1, <3>2
  <2>4. /\ Remains(m_values', call.values, call.arg, r - 1)
        /\ r - 1 <= Len(m_values') /\ r - 1 <= n
    <3> DEFINE now == m_values
               before == call.values
               keys == call.arg
               next == m_values'
    <3>1. /\ now \in Seq(Element) /\ before \in Seq(Element) /\ next \in Seq(Element)
          /\ r <= Len(now) /\ r <= Len(before) /\ Remains(now, before, keys, r)
          /\ \/ now[r].key \notin keys /\ next = now
             \/ /\ now[r].key \in keys
                /\ Len(next) = Len(now) - 1
                /\ \A q \in 1 .. Len(now) - 1 : next[q] = IF q = r THEN now[Len(now)] ELSE now[q]
      BY <1>2, <1>3, <1>4, <2>3 DEF n
    <3> HIDE DEF now, before, keys, next
    <3>2. Remains(next, before, keys, r - 1) /\ r - 1 <= Len(next) /\ r - 1 <= Len(before)
      BY <2>1, <3>1, RemainsStep
    <3> QED
      BY <3>2 DEF n, now, before, keys, next
  <2>5. m_values[r] \in Element /\ m_values[r] = call.values[r]
    <3>1. m_values[r] \in Element
      BY <1>3, <2>1
    <3>2. r \in 1 .. r
      BY <2>1
    <3> QED
      BY <1>4, <3>1, <3>2 DEF Remains
  <2>6. /\ asked' \in Seq(Element) /\ Len(asked') = n - (r - 1)
        /\ \A i \in 1 .. n - (r - 1) : asked'[i] = call.values[n + 1 - i]
    <3>1. /\ asked' \in Seq(Element) /\ Len(asked') = Len(asked) + 1
          /\ asked'[Len(asked) + 1] = m_values[r]
          /\ \A i \in 1 .. Len(asked) : asked'[i] = asked[i]
      BY <1>4, <1>5, <2>5, Appended
    <3>2. Len(asked) + 1 = n - (r - 1) /\ n - r \in Int
      BY <1>2, <1>4, <2>1
    <3>3. ASSUME NEW i \in 1 .. n - (r - 1)
          PROVE  asked'[i] = call.values[n + 1 - i]
      <4>1. CASE i = n - r + 1
        <5>1. n + 1 - i = r /\ i = Len(asked) + 1
          BY <1>2, <1>4, <2>1, <4>1
        <5> QED
          BY <2>5, <3>1, <5>1
      <4>2. CASE i # n - r + 1
        <5>1. i \in 1 .. n - r /\ i \in 1 .. Len(asked)
          BY <1>2, <1>4, <2>1, <4>2
        <5> QED
          BY <1>4, <3>1, <5>1
      <4> QED
        BY <4>1, <4>2
    <3> QED
      BY <3>1, <3>2, <3>3
  <2>7. EraseIfOK'
    <3>1. Len(call'.values) = n
      BY <1>1 DEF n
    <3> QED
      BY <1>1, <1>4, <2>2, <2>4, <2>6, <3>1 DEF EraseIfOK, size
  <2>8. CalledOK'
    BY <1>1, <1>2, <2>2, SameCall
  <2>9. Merging' = Merging /\ ~Merging'
    BY <1>2, <2>2 DEF Merging
  <2>10. TableOK'
    BY <1>1, <1>2, <2>2, <2>3, <2>9, TableStays
  <2>11. PhaseOK'
    BY <2>2, <2>7, <2>9 DEF PhaseOK
  <2>12. BatchesAreExact'
    BY <2>2, NotDone
  <2> QED
    BY <2>3, <2>8, <2>10, <2>11, <2>12 DEF LoopInv
<1>6. CASE r = 0 /\ UNCHANGED vars /\ asked' = asked /\ loop' = [loop EXCEPT !.op = "done"]
  <2>1. m_values' = m_values /\ dedup' = dedup /\ size' = size
    BY <1>6 DEF vars, size
  <2>2. "done" \in Ops
    BY DEF Ops
  <2>3. /\ loop'.op = "done"
        /\ loop' \in [op : Ops, read : Nat, write : Nat, look : Nat, threw : SUBSET Element]
    BY <1>2, <1>6, <2>2
  <2>4. CalledOK'
    BY <1>1, <1>2, <2>3, SameCall
  <2>5. Merging' = Merging /\ ~Merging'
    BY <1>2, <2>3 DEF Merging
  <2>6. TableOK'
    BY <1>1, <1>2, <1>6, <2>1, <2>5, TableStays
  <2>7. PhaseOK'
    BY <2>3, <2>5 DEF PhaseOK
  <2>8. BatchesAreExact'
    <3>1. /\ Holding(m_values) = {m_values[p] : p \in 1 .. size}
          /\ Holding(call.values) = {call.values[p] : p \in 1 .. n}
          /\ Holding(asked) = {asked[i] : i \in 1 .. n}
      <4>1. Len(asked) = n
        BY <1>2, <1>4, <1>6
      <4> QED
        BY <1>2, <1>3, <1>4, <4>1, HeldIs
    <3>2. Holding(m_values) = {e \in Holding(call.values) : e.key \notin call.arg}
      <4>1. r + 1 = 1
        BY <1>6
      <4>2. {m_values[p] : p \in 1 .. size}
              = {call.values[p] : p \in {q \in 1 .. n : call.values[q].key \notin call.arg}}
        BY <1>3, <1>4, <4>1 DEF Remains
      <4> QED
        BY <3>1, <4>2
    <3>3. Len(asked) = n /\ Holding(asked) = Holding(call.values)
      <4>1. n - r = n
        BY <1>2, <1>6
      <4>2. \A i \in 1 .. n : asked[i] = call.values[n + 1 - i]
        BY <1>4, <4>1
      <4> HIDE DEF n
      <4>3. \A i \in 1 .. n : n + 1 - i \in 1 .. n /\ n + 1 - (n + 1 - i) = i
        BY <1>2
      <4>4. {asked[i] : i \in 1 .. n} \subseteq {call.values[p] : p \in 1 .. n}
        BY <4>2, <4>3
      <4>5. \A i \in 1 .. n : asked[n + 1 - i] = call.values[i]
        BY <4>2, <4>3
      <4>6. {call.values[p] : p \in 1 .. n} \subseteq {asked[i] : i \in 1 .. n}
        BY <4>3, <4>5
      <4> QED
        BY <1>4, <3>1, <4>1, <4>4, <4>6
    <3>4. ErasesAreExact'
      BY <1>1, <1>4, <1>6, <2>1, <3>2, <3>3 DEF ErasesAreExact, Finished
    <3> QED
      BY <1>1, <1>4, <3>4 DEF BatchesAreExact, RangesAreTaken, MergeKeepsElements, Finished
  <2> QED
    BY <1>6, <2>4, <2>6, <2>7, <2>8 DEF LoopInv
<1> QED
  BY <1>1, <1>5, <1>6

---------------------------------------------------------------------------
(* merge(source) *)

(* The element of a source that another place shows is the same one. *)
LEMMA OneElement ==
    ASSUME NEW source \in Seq(Element), OneEach(source),
           NEW i \in 1 .. Len(source), NEW j \in 1 .. Len(source),
           source[i] = source[j]
    PROVE  i = j
BY DEF OneEach

(* What is left to the source when it has come by its first n elements:    *)
(* those that stayed, and those from another one on. *)
LeftOf(left, source, before, n, from) ==
    /\ \A p \in 1 .. Len(left) : \E i \in 1 .. Len(source) :
         /\ left[p] = source[i]
         /\ i >= from \/ (i <= n /\ source[i].key \in KeysOf(before))
    /\ \A i \in 1 .. Len(source) :
         i >= from \/ (i <= n /\ source[i].key \in KeysOf(before)) =>
           \E p \in 1 .. Len(left) : left[p] = source[i]
    /\ \A p, q \in 1 .. Len(left), i, j \in 1 .. Len(source) :
         p < q /\ left[p] = source[i] /\ left[q] = source[j] => i < j

(* The source has each key once after it, too. *)
LEMMA LeftIsUnique ==
    ASSUME NEW source \in Seq(Element), OneEach(source), NEW left, NEW before, NEW n, NEW from,
           LeftOf(left, source, before, n, from), Len(left) \in Nat
    PROVE  OneEach(left)
<1> SUFFICES ASSUME NEW p \in 1 .. Len(left), NEW q \in 1 .. Len(left),
                    left[p].key = left[q].key
             PROVE  p = q
  BY DEF OneEach
<1>1. PICK i \in 1 .. Len(source) : left[p] = source[i]
  BY DEF LeftOf
<1>2. PICK j \in 1 .. Len(source) : left[q] = source[j]
  BY DEF LeftOf
<1>3. i = j
  BY <1>1, <1>2 DEF OneEach
<1>4. ~(p < q) /\ ~(q < p)
  BY <1>1, <1>2, <1>3 DEF LeftOf
<1> QED
  BY <1>4

(* What merge is to move. *)
AbsentOf(source, before) == {e \in Holding(source) : e.key \notin KeysOf(before)}

(* A merge that has come by n elements of the source, and placed the next, *)
(* thrown it away or left it and those behind it where they are: what the  *)
(* two tables have then. *)
MergedTo(now, left, threw, before, source, n, from) ==
    /\ source \in Seq(Element) /\ OneEach(source)
    /\ before \in Seq(Element) /\ now \in Seq(Element) /\ left \in Seq(Element)
    /\ \A p \in 1 .. Len(before) : before[p].val = 1
    /\ \A p \in 1 .. Len(source) : source[p].val = 2
    /\ n \in 0 .. Len(source) /\ HasTaken(now, before, source, n)
    /\ from \in n + 1 .. Len(source) + 1 /\ LeftOf(left, source, before, n, from)
    /\ \/ from = n + 1 /\ threw = {}
       \/ from = n + 2 /\ threw = {source[n + 1]} /\ source[n + 1].key \notin KeysOf(now)

(* By then each element is in one of the tables, and in one only. *)
LEMMA EachInOne ==
    ASSUME NEW now, NEW left, NEW threw, NEW before, NEW source, NEW n, NEW from,
           MergedTo(now, left, threw, before, source, n, from)
    PROVE  /\ Holding(before) \subseteq Holding(now)
           /\ Holding(now) \cup Holding(left) \cup threw = Holding(before) \cup Holding(source)
           /\ Holding(now) \cap Holding(left) = {}
           /\ threw \cap (Holding(now) \cup Holding(left)) = {}
           /\ threw = {} /\ n + 1 > Len(source) =>
                Holding(left) = Holding(source) \ AbsentOf(source, before)
<1> DEFINE K == KeysOf(before)
           m == Len(source)
           NewOnes == {source[i] : i \in {j \in 1 .. n : source[j].key \notin K}}
<1> USE DEF MergedTo
<1>1. Holding(now) = Holding(before) \cup NewOnes
  BY TakenOfUnique
<1>2. /\ Holding(before) = {before[p] : p \in 1 .. Len(before)}
      /\ Holding(source) = {source[p] : p \in 1 .. m}
      /\ Holding(left) = {left[p] : p \in 1 .. Len(left)}
      /\ KeysOf(now) = {e.key : e \in Holding(now)}
  BY HeldIs
<1>3. m \in Nat /\ n \in Int /\ from \in Int /\ 0 <= n /\ n <= m /\ n + 1 <= from /\ from <= m + 1
  OBVIOUS
<1> HIDE DEF K, m
<1>4. \A e : e \in Holding(left) <=>
               \E i \in 1 .. m : e = source[i] /\ (i >= from \/ (i <= n /\ source[i].key \in K))
  <2> SUFFICES ASSUME NEW e
               PROVE  e \in Holding(left) <=>
                        \E i \in 1 .. m : /\ e = source[i]
                                          /\ i >= from \/ (i <= n /\ source[i].key \in K)
    OBVIOUS
  <2>1. e \in Holding(left) <=> \E p \in 1 .. Len(left) : e = left[p]
    BY <1>2
  <2>2. ASSUME NEW p \in 1 .. Len(left)
        PROVE  \E i \in 1 .. m : /\ left[p] = source[i]
                                 /\ i >= from \/ (i <= n /\ source[i].key \in K)
    BY DEF LeftOf, K, m
  <2>3. ASSUME NEW i \in 1 .. m, i >= from \/ (i <= n /\ source[i].key \in K)
        PROVE  \E p \in 1 .. Len(left) : left[p] = source[i]
    BY <2>3 DEF LeftOf, K, m
  <2>4. ASSUME e \in Holding(left)
        PROVE  \E i \in 1 .. m : /\ e = source[i]
                                 /\ i >= from \/ (i <= n /\ source[i].key \in K)
    <3>1. PICK p \in 1 .. Len(left) : e = left[p]
      BY <2>1, <2>4
    <3> QED
      BY <2>2, <3>1
  <2>5. ASSUME NEW i \in 1 .. m, e = source[i], i >= from \/ (i <= n /\ source[i].key \in K)
        PROVE  e \in Holding(left)
    <3>1. PICK p \in 1 .. Len(left) : left[p] = source[i]
      BY <2>3, <2>5
    <3> QED
      BY <2>1, <2>5, <3>1
  <2> QED
    BY <2>4, <2>5
<1>5. \A e \in Holding(before) : e.val = 1
  BY <1>2
<1>6. \A i \in 1 .. m : source[i].val = 2
  BY DEF m
<1>7. \A i, j \in 1 .. m : source[i] = source[j] => i = j
  BY OneElement DEF m
<1>8. Holding(now) \cap Holding(left) = {}
  <2> SUFFICES ASSUME NEW e, e \in Holding(now), e \in Holding(left)
               PROVE  FALSE
    OBVIOUS
  <2>1. PICK i \in 1 .. m : e = source[i] /\ (i >= from \/ (i <= n /\ source[i].key \in K))
    BY <1>4
  <2>2. e \notin Holding(before)
    BY <1>5, <1>6, <2>1
  <2>3. PICK j \in 1 .. n : e = source[j] /\ source[j].key \notin K
    BY <1>1, <2>2
  <2>4. j \in 1 .. m /\ j < from
    BY <1>3
  <2>5. i = j
    BY <1>7, <2>1, <2>3, <2>4
  <2> QED
    BY <1>3, <2>1, <2>3, <2>4, <2>5
<1>9. Holding(now) \cup Holding(left) \cup threw \subseteq Holding(before) \cup Holding(source)
  <2>1. NewOnes \subseteq Holding(source)
    <3>1. \A j \in 1 .. n : j \in 1 .. m
      BY <1>3
    <3> QED
      BY <1>2, <3>1
  <2>2. Holding(left) \subseteq Holding(source)
    <3> SUFFICES ASSUME NEW e \in Holding(left)
                 PROVE  e \in Holding(source)
      OBVIOUS
    <3>1. PICK i \in 1 .. m : e = source[i]
      BY <1>4
    <3> QED
      BY <1>2, <3>1
  <2>3. threw \subseteq Holding(source)
    <3>1. from = n + 2 => n + 1 \in 1 .. m
      BY <1>3
    <3> QED
      BY <1>2, <3>1
  <2> QED
    BY <1>1, <2>1, <2>2, <2>3
<1>10. ASSUME NEW i \in 1 .. m
       PROVE  source[i] \in Holding(now) \cup Holding(left) \cup threw
  <2>1. CASE i <= n /\ source[i].key \notin K
    <3>1. i \in 1 .. n
      BY <1>3, <2>1
    <3> QED
      BY <1>1, <2>1, <3>1
  <2>2. CASE (i <= n /\ source[i].key \in K) \/ i >= from
    BY <1>4, <2>2
  <2>3. CASE i > n /\ ~(i >= from)
    <3>1. from = n + 2 /\ i = n + 1
      BY <1>3, <2>3
    <3> QED
      BY <3>1
  <2> QED
    BY <1>3, <2>1, <2>2, <2>3
<1>11. Holding(before) \cup Holding(source) \subseteq Holding(now) \cup Holding(left) \cup threw
  <2> SUFFICES ASSUME NEW e \in Holding(source)
               PROVE  e \in Holding(now) \cup Holding(left) \cup threw
    BY <1>1
  <2>1. PICK i \in 1 .. m : e = source[i]
    BY <1>2
  <2> QED
    BY <1>10, <2>1
<1>12. threw \cap (Holding(now) \cup Holding(left)) = {}
  <2> SUFFICES ASSUME from = n + 2, threw = {source[n + 1]}, source[n + 1].key \notin KeysOf(now)
               PROVE  source[n + 1] \notin Holding(now) /\ source[n + 1] \notin Holding(left)
    OBVIOUS
  <2> DEFINE e == source[n + 1]
  <2>1. source[n + 1] \notin Holding(now)
    <3>1. e \in Holding(now) => e.key \in KeysOf(now)
      BY <1>2
    <3> QED
      BY <3>1
  <2>2. n + 1 \in 1 .. m /\ ~(n + 1 >= from) /\ ~(n + 1 <= n)
    BY <1>3
  <2>3. source[n + 1] \notin Holding(left)
    <3> SUFFICES ASSUME e \in Holding(left)
                 PROVE  FALSE
      OBVIOUS
    <3>1. PICK i \in 1 .. m : e = source[i] /\ (i >= from \/ (i <= n /\ source[i].key \in K))
      BY <1>4
    <3>2. i = n + 1
      BY <1>7, <2>2, <3>1
    <3> QED
      BY <2>2, <3>1, <3>2
  <2> QED
    BY <2>1, <2>3
<1>13. ASSUME threw = {}, n + 1 > m
       PROVE  Holding(left) = Holding(source) \ AbsentOf(source, before)
  <2>1. \A i \in 1 .. m : i <= n /\ ~(i >= from)
    BY <1>3, <1>13
  <2>2. \A e : e \in Holding(left) <=> \E i \in 1 .. m : e = source[i] /\ source[i].key \in K
    BY <1>4, <2>1
  <2>3. \A e : e \in Holding(source) <=> \E i \in 1 .. m : e = source[i]
    BY <1>2
  <2> QED
    BY <2>2, <2>3 DEF AbsentOf, K
<1>14. Holding(before) \subseteq Holding(now)
  BY <1>1
<1>15. Holding(now) \cup Holding(left) \cup threw = Holding(before) \cup Holding(source)
  BY <1>9, <1>11
<1> QED
  BY <1>8, <1>12, <1>13, <1>14, <1>15 DEF K, m

(* In the words of MergeKeepsElements. *)
LEMMA MergeHolds ==
    ASSUME CalledOK', m_values' \in Seq(Element), s_values' \in Seq(Element),
           NEW n \in 0 .. Len(call'.source),
           HasTaken(m_values', call'.values, call'.source, n),
           NEW from \in n + 1 .. Len(call'.source) + 1,
           LeftOf(s_values', call'.source, call'.values, n, from),
           loop'.read = n + 1,
           \/ from = n + 1 /\ loop'.threw = {}
           \/ /\ from = n + 2 /\ loop'.threw = {call'.source[n + 1]}
              /\ call'.source[n + 1].key \notin KeysOf(m_values')
    PROVE  EachInOneTable' /\ InTheirOrder'
<1> DEFINE before == call'.values
           source == call'.source
           now    == m_values'
           left   == s_values'
           threw  == loop'.threw
<1>1. /\ before \in Seq(Element) /\ source \in Seq(Element) /\ OneEach(source)
      /\ \A p \in 1 .. Len(before) : before[p].val = 1
      /\ \A p \in 1 .. Len(source) : source[p].val = 2
  BY DEF CalledOK, OneEach
<1>2. MergedTo(now, left, threw, before, source, n, from) /\ LeftOf(left, source, before, n, from)
  BY <1>1 DEF MergedTo
<1> HIDE DEF before, source, now, left, threw
<1>3. /\ Holding(before) \subseteq Holding(now)
      /\ Holding(now) \cup Holding(left) \cup threw = Holding(before) \cup Holding(source)
      /\ Holding(now) \cap Holding(left) = {}
      /\ threw \cap (Holding(now) \cup Holding(left)) = {}
      /\ threw = {} /\ n + 1 > Len(source) =>
           Holding(left) = Holding(source) \ AbsentOf(source, before)
  BY <1>2, EachInOne
<1>4. EachInOneTable'
  BY <1>3 DEF EachInOneTable, AbsentOf, before, source, now, left, threw
<1>5. DOMAIN left = 1 .. Len(left) /\ DOMAIN source = 1 .. Len(source)
  BY <1>1 DEF left
<1>6. InTheirOrder'
  BY <1>2, <1>5 DEF InTheirOrder, LeftOf, source, left
<1> QED
  BY <1>4, <1>6

(* Before the first element everything is still there. *)
LEMMA AllIsLeft ==
    ASSUME NEW source \in Seq(Element), OneEach(source), NEW before
    PROVE  LeftOf(source, source, before, 0, 1)
<1>1. \A i, j \in 1 .. Len(source) : source[i] = source[j] => i = j
  BY OneElement
<1>2. \A i \in 1 .. Len(source) : i >= 1
  OBVIOUS
<1> QED
  BY <1>1, <1>2 DEF LeftOf

(* merge(source) has moved nothing yet, or has nothing to move. *)
LEMMA MergeStarts ==
    ASSUME LoopInv, Merge
    PROVE  LoopInv' /\ [Next]_vars
<1>1. Begins("merge", {}) /\ UNCHANGED source_vars
  BY DEF Merge
<1>2. "merge" \in Kinds
  BY DEF Kinds
<1>3. /\ loop = [op |-> "fill", read |-> 1, write |-> 1, look |-> 1, threw |-> {}]
      /\ DOMAIN ring = 0 .. Depth - 1
      /\ call'.kind = "merge" /\ call'.values = m_values /\ call'.source = s_values
      /\ m_values \in Seq(Element) /\ s_values \in Seq(Element) /\ OneEach(s_values)
      /\ TableInv({0}) /\ ~dedup /\ Idle
  BY <1>1, <1>2, Begun
<1>4. TableOK /\ ~Merging /\ s_values' = s_values
  BY <1>1, <1>3 DEF LoopInv, Merging, TableOK, source_vars
<1>5. HasTaken(m_values, m_values, s_values, 0) /\ Len(s_values) \in Nat
  BY <1>3, TakesNone
<1>6. [Next]_vars /\ m_values' = m_values /\ dedup' = dedup
  <2>1. CASE s_values = <<>> /\ UNCHANGED vars
    BY <2>1 DEF vars
  <2>2. CASE s_values # <<>> /\ allocate_buckets_if_none
    <3>1. Len(s_values) >= 1
      BY <1>3, <2>2
    <3>2. s_values[1] \in Element
      BY <1>3, <3>1
    <3>3. s_values[1].key \in Key
      BY <3>2 DEF Element
    <3> QED
      BY <1>3, <2>2, <3>3, Allocating
  <2> QED
    BY <2>1, <2>2 DEF Merge
<1>7. \/ ring' = ring /\ loop' = [loop EXCEPT !.op = "done"]
      \/ /\ s_values # <<>> /\ ring' = Primed(s_values)
         /\ loop' = [loop EXCEPT !.op = "merge_ahead", !.look = PastPrimed(s_values)]
      \/ s_values # <<>> /\ ring' = ring /\ loop' = [loop EXCEPT !.op = "merge"]
  BY DEF Merge, Done
<1>8. CASE ring' = ring /\ loop' = [loop EXCEPT !.op = "done"]
  <2>1. /\ loop' \in [op : Ops, read : Nat, write : Nat, look : Nat, threw : SUBSET Element]
        /\ loop'.op = "done" /\ loop'.read = 1 /\ loop'.threw = {}
        /\ ~Merging' /\ Merging' = Merging
    BY <1>3, <1>8 DEF Ops, Merging
  <2>2. CalledOK'
    BY <1>1, <1>2, <1>3, <1>8, <2>1, BegunCall
  <2>3. TableOK'
    BY <1>1, <1>3, <1>4, <1>6, <2>1, TableStays
  <2>4. EachInOneTable' /\ InTheirOrder'
    <3>1. LeftOf(s_values, s_values, m_values, 0, 1)
      BY <1>3, AllIsLeft
    <3>2. /\ m_values' \in Seq(Element) /\ s_values' \in Seq(Element)
          /\ 0 \in 0 .. Len(call'.source) /\ 1 \in 0 + 1 .. Len(call'.source) + 1
          /\ HasTaken(m_values', call'.values, call'.source, 0)
          /\ LeftOf(s_values', call'.source, call'.values, 0, 1)
          /\ loop'.read = 0 + 1 /\ 1 = 0 + 1 /\ loop'.threw = {}
      BY <1>3, <1>4, <1>5, <1>6, <2>1, <3>1
    <3> QED
      BY <2>2, <3>2, MergeHolds
  <2>5. BatchesAreExact'
    BY <1>3, <2>4 DEF BatchesAreExact, ErasesAreExact, RangesAreTaken, MergeKeepsElements,
                      Finished
  <2>6. PhaseOK'
    BY <2>1 DEF PhaseOK
  <2> QED
    BY <1>6, <2>2, <2>3, <2>5, <2>6 DEF LoopInv
<1>9. CASE /\ s_values # <<>>
           /\ \/ /\ ring' = Primed(s_values)
                 /\ loop' = [loop EXCEPT !.op = "merge_ahead", !.look = PastPrimed(s_values)]
              \/ ring' = ring /\ loop' = [loop EXCEPT !.op = "merge"]
  <2>1. PastPrimed(s_values) \in Nat
    BY <1>5, BatchAssumption DEF PastPrimed
  <2>2. /\ loop'.op \in {"merge", "merge_ahead"} /\ loop'.read = 1 /\ loop'.write = 1
        /\ loop'.threw = {}
        /\ loop'.op = "merge_ahead" =>
             ring' = Primed(s_values) /\ loop'.look = PastPrimed(s_values)
        /\ loop'.op = "merge" => ring' = ring
    BY <1>3, <1>9
  <2>3. loop' \in [op : Ops, read : Nat, write : Nat, look : Nat, threw : SUBSET Element]
    <3>1. CASE loop' = [loop EXCEPT !.op = "merge_ahead", !.look = PastPrimed(s_values)]
      <4>1. loop' = [op |-> "merge_ahead", read |-> 1, write |-> 1,
                     look |-> PastPrimed(s_values), threw |-> {}]
        BY <1>3, <3>1
      <4> QED
        BY <2>1, <4>1 DEF Ops
    <3>2. CASE loop' = [loop EXCEPT !.op = "merge"]
      BY <1>3, <3>2 DEF Ops
    <3> QED
      BY <1>9, <3>1, <3>2
  <2>4. /\ DOMAIN ring' = 0 .. Depth - 1
        /\ loop'.op = "merge_ahead" => Ahead(s_values, loop'.read, loop'.look, ring')
    BY <1>3, <2>2, AheadStarts
  <2>5. CalledOK'
    BY <1>1, <1>2, <2>3, <2>4, BegunCall
  <2>6. Merging' /\ loop'.op \notin {"replace", "replace_ahead"}
    BY <2>2 DEF Merging
  <2>7. TableOK'
    BY <1>3, <1>4, <1>6, TableStays
  <2>8. StayedInOrder'
    <3>1. 1 .. loop'.write - 1 = {} /\ 1 .. loop'.read - 1 = {}
      BY <2>2
    <3> QED
      BY <3>1 DEF StayedInOrder
  <2>9. MergeOK'
    BY <1>3, <1>4, <1>5, <1>6, <2>2, <2>4, <2>8 DEF MergeOK
  <2>10. PhaseOK'
    BY <2>2, <2>6, <2>9 DEF PhaseOK
  <2>11. BatchesAreExact'
    BY <2>2, NotDone
  <2> QED
    BY <1>6, <2>5, <2>7, <2>10, <2>11 DEF LoopInv
<1> QED
  BY <1>7, <1>8, <1>9

(* The elements that stay, as StayedInOrder tells them. *)
InOrder(now, source, before, w, r) ==
    /\ \A p \in 1 .. w - 1 : \E i \in 1 .. r - 1 :
         now[p] = source[i] /\ source[i].key \in KeysOf(before)
    /\ \A i \in 1 .. r - 1 : source[i].key \in KeysOf(before) =>
         \E p \in 1 .. w - 1 : now[p] = source[i]
    /\ \A p, q \in 1 .. w - 1, i, j \in 1 .. Len(source) :
         p < q /\ now[p] = source[i] /\ now[q] = source[j] => i < j

(* One more moves up. *)
LEMMA OneMoreStays ==
    ASSUME NEW source \in Seq(Element), OneEach(source), NEW before,
           NEW now, NEW r \in 1 .. Len(source), NEW w \in 1 .. r,
           InOrder(now, source, before, w, r), source[r].key \in KeysOf(before),
           NEW next, next[w] = source[r], \A p \in 1 .. w - 1 : next[p] = now[p]
    PROVE  InOrder(next, source, before, w + 1, r + 1)
<1>1. /\ Len(source) \in Int /\ r \in Int /\ w \in Int /\ 1 <= w /\ w <= r /\ r <= Len(source)
      /\ (w + 1) - 1 = w /\ (r + 1) - 1 = r
  OBVIOUS
<1>2. \A p \in 1 .. w : p = w \/ p \in 1 .. w - 1
  BY <1>1
<1>3. \A i \in 1 .. r : i = r \/ i \in 1 .. r - 1
  BY <1>1
<1>4. /\ \A p \in 1 .. w - 1 : p \in 1 .. w
      /\ \A i \in 1 .. r - 1 : i \in 1 .. r /\ i \in 1 .. Len(source) /\ i < r
      /\ w \in 1 .. w /\ r \in 1 .. r
  BY <1>1
<1>5. ASSUME NEW p \in 1 .. w
      PROVE  \E i \in 1 .. r : next[p] = source[i] /\ source[i].key \in KeysOf(before)
  BY <1>2, <1>4 DEF InOrder
<1>6. ASSUME NEW i \in 1 .. r, source[i].key \in KeysOf(before)
      PROVE  \E p \in 1 .. w : next[p] = source[i]
  <2>1. CASE i = r
    BY <1>4, <2>1
  <2>2. CASE i \in 1 .. r - 1
    <3>1. PICK p \in 1 .. w - 1 : now[p] = source[i]
      BY <1>6, <2>2 DEF InOrder
    <3> QED
      BY <1>4, <3>1
  <2> QED
    BY <1>3, <2>1, <2>2
<1>7. ASSUME NEW p \in 1 .. w, NEW q \in 1 .. w, NEW i \in 1 .. Len(source),
             NEW j \in 1 .. Len(source), p < q, next[p] = source[i], next[q] = source[j]
      PROVE  i < j
  <2>1. p \in 1 .. w - 1 /\ next[p] = now[p]
    BY <1>1, <1>7
  <2>2. CASE q = w
    <3>1. PICK l \in 1 .. r - 1 : now[p] = source[l]
      BY <2>1 DEF InOrder
    <3>2. l = i
      BY <1>4, <1>7, <2>1, <3>1, OneElement
    <3>3. r = j
      BY <1>1, <1>7, <2>2, OneElement
    <3> QED
      BY <1>4, <3>2, <3>3
  <2>3. CASE q \in 1 .. w - 1
    BY <1>7, <2>1, <2>3 DEF InOrder
  <2> QED
    BY <1>2, <2>2, <2>3
<1> QED
  BY <1>1, <1>5, <1>6, <1>7 DEF InOrder

(* One that is taken leaves the order of the others. *)
LEMMA OneIsTaken ==
    ASSUME NEW source, NEW before, NEW now, NEW r \in Nat \ {0}, NEW w \in Nat,
           InOrder(now, source, before, w, r), source[r].key \notin KeysOf(before)
    PROVE  InOrder(now, source, before, w, r + 1)
<1>1. /\ \A i \in 1 .. (r + 1) - 1 : i = r \/ i \in 1 .. r - 1
      /\ \A i \in 1 .. r - 1 : i \in 1 .. (r + 1) - 1
  OBVIOUS
<1> QED
  BY <1>1 DEF InOrder

(* The gap between those that have stayed and those from another one on is *)
(* closed. *)
Closes(left, now, source, before, w, r, from) ==
    /\ source \in Seq(Element) /\ OneEach(source)
    /\ now \in Seq(Element) /\ Len(now) = Len(source)
    /\ r \in 1 .. Len(source) + 1 /\ w \in 1 .. r
    /\ InOrder(now, source, before, w, r)
    /\ \A p \in r .. Len(source) : now[p] = source[p]
    /\ from \in r .. Len(source) + 1
    /\ left \in Seq(Element) /\ Len(left) = (w - 1) + ((Len(source) - from) + 1)
    /\ \A p \in 1 .. w - 1 : left[p] = now[p]
    /\ \A p \in from .. Len(source) : left[(p - from) + w] = now[p]

(* They are the ones that are left to the source, in their order. *)
LEMMA LeftThen ==
    ASSUME NEW left, NEW now, NEW source, NEW before, NEW w, NEW r, NEW from,
           Closes(left, now, source, before, w, r, from)
    PROVE  /\ LeftOf(left, source, before, r - 1, from)
           /\ Len(left) <= Len(now)
           /\ Len(left) = Len(now) => left = now /\ w = r
<1> USE DEF Closes
<1> DEFINE m == Len(source)
           n == Len(left)
<1>1. /\ m \in Int /\ n \in Int /\ r \in Int /\ w \in Int /\ from \in Int
      /\ 1 <= w /\ w <= r /\ r <= from /\ from <= m + 1
      /\ n = (w - 1) + ((m - from) + 1)
  OBVIOUS
<1>2. \A p \in from .. m : left[(p - from) + w] = source[p]
  OBVIOUS
<1>3. \A p \in 1 .. w - 1 : left[p] = now[p]
  OBVIOUS
<1>4. \A i, j \in 1 .. m : source[i] = source[j] => i = j
  BY OneElement
<1> HIDE DEF m, n
<1>5. \A p \in 1 .. n : p \in 1 .. w - 1 \/ \E i \in from .. m : p = (i - from) + w
  <2> SUFFICES ASSUME NEW p \in 1 .. n, p \notin 1 .. w - 1
               PROVE  \E i \in from .. m : p = (i - from) + w
    OBVIOUS
  <2>1. (p - w) + from \in from .. m /\ p = (((p - w) + from) - from) + w
    BY <1>1
  <2> QED
    BY <2>1
<1>6. /\ \A i \in from .. m : i \in 1 .. m /\ i >= from /\ (i - from) + w \in 1 .. n
      /\ \A i \in 1 .. r - 1 : i \in 1 .. m /\ i < from /\ i <= r - 1
      /\ \A p \in 1 .. w - 1 : p \in 1 .. n
      /\ \A i \in 1 .. m : i >= from => i \in from .. m
      /\ \A i \in 1 .. m : i <= r - 1 => i \in 1 .. r - 1
  BY <1>1
<1>7. ASSUME NEW p \in 1 .. n
      PROVE  \E i \in 1 .. m : /\ left[p] = source[i]
                               /\ i >= from \/ (i <= r - 1 /\ source[i].key \in KeysOf(before))
  <2>1. CASE p \in 1 .. w - 1
    <3>1. PICK i \in 1 .. r - 1 : now[p] = source[i] /\ source[i].key \in KeysOf(before)
      BY <2>1 DEF InOrder
    <3> QED
      BY <1>3, <1>6, <2>1, <3>1
  <2>2. CASE \E i \in from .. m : p = (i - from) + w
    BY <1>2, <1>6, <2>2
  <2> QED
    BY <1>5, <2>1, <2>2
<1>8. ASSUME NEW i \in 1 .. m, i >= from \/ (i <= r - 1 /\ source[i].key \in KeysOf(before))
      PROVE  \E p \in 1 .. n : left[p] = source[i]
  <2>1. CASE i >= from
    BY <1>2, <1>6, <2>1
  <2>2. CASE i <= r - 1 /\ source[i].key \in KeysOf(before)
    <3>1. i \in 1 .. r - 1
      BY <1>6, <2>2
    <3>2. PICK p \in 1 .. w - 1 : now[p] = source[i]
      BY <2>2, <3>1 DEF InOrder
    <3> QED
      BY <1>3, <1>6, <3>2
  <2> QED
    BY <1>8, <2>1, <2>2
<1>9. ASSUME NEW p \in 1 .. n, NEW q \in 1 .. n, NEW i \in 1 .. m, NEW j \in 1 .. m,
             p < q, left[p] = source[i], left[q] = source[j]
      PROVE  i < j
  <2>1. CASE q \in 1 .. w - 1
    <3>1. p \in 1 .. w - 1
      BY <1>1, <1>9, <2>1
    <3>2. now[p] = source[i] /\ now[q] = source[j]
      BY <1>3, <1>9, <2>1, <3>1
    <3> QED
      BY <1>9, <2>1, <3>1, <3>2 DEF InOrder, m
  <2>2. CASE \E l \in from .. m : q = (l - from) + w
    <3>1. PICK l \in from .. m : q = (l - from) + w
      BY <2>2
    <3>2. left[q] = source[l] /\ l \in 1 .. m
      BY <1>2, <1>6, <3>1
    <3>3. j = l
      BY <1>4, <1>9, <3>2
    <3>4. CASE p \in 1 .. w - 1
      <4>1. PICK k \in 1 .. r - 1 : now[p] = source[k]
        BY <3>4 DEF InOrder
      <4>2. k = i
        BY <1>3, <1>4, <1>6, <1>9, <3>4, <4>1
      <4> QED
        BY <1>1, <1>6, <3>1, <3>3, <4>1, <4>2
    <3>5. CASE \E k \in from .. m : p = (k - from) + w
      <4>1. PICK k \in from .. m : p = (k - from) + w
        BY <3>5
      <4>2. left[p] = source[k] /\ k \in 1 .. m
        BY <1>2, <1>6, <4>1
      <4>3. k = i
        BY <1>4, <1>9, <4>2
      <4>4. k \in Int /\ l \in Int /\ p \in Int /\ q \in Int /\ p < q
        BY <1>1, <1>9, <3>1, <4>1
      <4>5. k < l
        BY <1>1, <3>1, <4>1, <4>4
      <4> QED
        BY <3>3, <4>3, <4>5
    <3> QED
      BY <1>5, <3>4, <3>5
  <2> QED
    BY <1>5, <2>1, <2>2
<1>10. LeftOf(left, source, before, r - 1, from)
  BY <1>7, <1>8, <1>9 DEF LeftOf, m, n
<1>11. n <= m /\ (n = m => w = r /\ from = r)
  BY <1>1
<1>12. ASSUME n = m
       PROVE  left = now
  <2>1. w = r /\ from = r
    BY <1>11, <1>12
  <2>2. ASSUME NEW p \in 1 .. m
        PROVE  left[p] = now[p]
    <3>1. CASE p \in 1 .. w - 1
      BY <1>3, <3>1
    <3>2. CASE p \in from .. m
      <4>1. (p - from) + w = p
        BY <1>1, <2>1
      <4> QED
        BY <3>2, <4>1 DEF m
    <3> QED
      BY <1>1, <2>1, <3>1, <3>2
  <2>3. Len(left) = Len(now) /\ Len(now) = m
    BY <1>12 DEF m, n
  <2> QED
    BY <2>2, <2>3, SeqEqual
<1> QED
  BY <1>10, <1>11, <1>12 DEF m, n

(* The ring goes on with the walk over the source. *)
LEMMA RingGoesOn ==
    ASSUME CalledOK, MergeOK, Merging, loop.read <= Len(s_values),
           NEW fields \in [op : Ops, read : Nat, write : Nat, look : Nat, threw : SUBSET Element],
           fields.op = loop.op, fields.read = loop.read + 1, Steps(fields)
    PROVE  /\ loop'.op = loop.op /\ loop'.read = loop.read + 1
           /\ loop'.write = fields.write /\ loop'.threw = fields.threw
           /\ loop' \in [op : Ops, read : Nat, write : Nat, look : Nat, threw : SUBSET Element]
           /\ DOMAIN ring' = 0 .. Depth - 1
           /\ loop'.op = "merge_ahead" => Ahead(call.source, loop'.read, loop'.look, ring')
<1>1. /\ loop \in [op : Ops, read : Nat, write : Nat, look : Nat, threw : SUBSET Element]
      /\ DOMAIN ring = 0 .. Depth - 1 /\ call.source \in Seq(Element)
  BY DEF CalledOK
<1>2. /\ s_values \in Seq(Element) /\ Len(s_values) = Len(call.source)
      /\ \A p \in loop.read .. Len(call.source) : s_values[p] = call.source[p]
      /\ loop.read \in 1 .. Len(s_values)
      /\ loop.op = "merge_ahead" => Ahead(call.source, loop.read, loop.look, ring)
  BY DEF MergeOK
<1>3. CASE loop.op = "merge"
  BY <1>1, <1>3 DEF Steps
<1>4. CASE loop.op = "merge_ahead"
  <2>1. loop' = [fields EXCEPT !.look = Looked(s_values)] /\ Refills(s_values)
    BY <1>4 DEF Steps
  <2>2. Looked(s_values) \in Nat
    BY <1>1 DEF Looked
  <2>3. /\ loop' \in [op : Ops, read : Nat, write : Nat, look : Nat, threw : SUBSET Element]
        /\ loop'.op = loop.op /\ loop'.read = loop.read + 1 /\ loop'.write = fields.write
        /\ loop'.threw = fields.threw /\ loop'.look = Looked(s_values)
    BY <2>1, <2>2
  <2>4. Ahead(s_values, loop.read, loop.look, ring)
    <3>1. Ahead(call.source, loop.read, loop.look, ring)
      BY <1>2, <1>4
    <3>2. loop.read \in Int /\ Len(call.source) \in Int /\ Depth \in Int
      BY <1>1, <1>2, BatchAssumption
    <3>3. \A p \in loop.read .. loop.look - 1 : p \in loop.read .. Len(call.source)
      BY <3>1, <3>2 DEF Ahead
    <3> QED
      BY <1>2, <3>1, <3>3 DEF Ahead
  <2>5. Ahead(call.source, loop'.read, loop'.look, ring') /\ DOMAIN ring' = 0 .. Depth - 1
    BY <1>1, <1>2, <2>1, <2>3, <2>4, AheadGoesOn
  <2> QED
    BY <2>3, <2>5
<1> QED
  BY <1>3, <1>4 DEF Merging

(* What a merge that walks is about. *)
LEMMA AtWalk ==
    ASSUME LoopInv, Walking, loop.read <= Source!size
    PROVE  /\ CalledOK /\ TableOK /\ MergeOK /\ Merging
           /\ loop \in [op : Ops, read : Nat, write : Nat, look : Nat, threw : SUBSET Element]
           /\ TableInv({0}) /\ m_values \in Seq(Element)
           /\ call.values \in Seq(Element) /\ call.source \in Seq(Element) /\ OneEach(call.source)
           /\ s_values \in Seq(Element) /\ Len(s_values) = Len(call.source)
           /\ loop.read \in 1 .. Len(call.source) /\ loop.write \in 1 .. loop.read
           /\ AtHand = call.source[loop.read] /\ AtHand \in Element /\ AtHand.key \in Key
           /\ loop.read - 1 \in Nat /\ (loop.read - 1) + 1 = loop.read
           /\ HasTaken(m_values, call.values, call.source, loop.read - 1)
           /\ InOrder(s_values, call.source, call.values, loop.write, loop.read)
<1>1. Merging
  BY DEF Walking, Merging
<1>2. CalledOK /\ TableOK /\ MergeOK /\ TableInv({0})
  BY <1>1 DEF LoopInv, PhaseOK, TableOK
<1>3. /\ call.values \in Seq(Element) /\ call.source \in Seq(Element) /\ OneEach(call.source)
      /\ loop \in [op : Ops, read : Nat, write : Nat, look : Nat, threw : SUBSET Element]
  BY <1>2 DEF CalledOK
<1>4. m_values \in Seq(Element)
  BY <1>2, TheValues
<1>5. /\ s_values \in Seq(Element) /\ Len(s_values) = Len(call.source)
      /\ loop.read \in 1 .. Len(call.source) + 1 /\ loop.write \in 1 .. loop.read
      /\ \A p \in loop.read .. Len(call.source) : s_values[p] = call.source[p]
      /\ HasTaken(m_values, call.values, call.source, loop.read - 1)
      /\ StayedInOrder
  BY <1>2 DEF MergeOK
<1>6. loop.read <= Len(s_values)
  BY DEF Source!size
<1>7. loop.read \in 1 .. Len(call.source) /\ loop.read \in loop.read .. Len(call.source)
  BY <1>3, <1>5, <1>6
<1>8. AtHand = call.source[loop.read] /\ AtHand \in Element
  BY <1>3, <1>5, <1>7 DEF AtHand
<1>9. AtHand.key \in Key
  BY <1>8 DEF Element
<1>10. InOrder(s_values, call.source, call.values, loop.write, loop.read)
  BY <1>5 DEF StayedInOrder, InOrder
<1>11. loop.read - 1 \in Nat /\ (loop.read - 1) + 1 = loop.read
  BY <1>7
<1> QED
  BY <1>1, <1>2, <1>3, <1>4, <1>5, <1>7, <1>8, <1>9, <1>10, <1>11

(* What the walk does to the source: an element moves up, or none does. *)
SourceWalks ==
    /\ UNCHANGED <<s_buckets, s_capacity, s_load, s_shifts, s_indexed, s_dedup>>
    /\ s_values' \in Seq(Element) /\ Len(s_values') = Len(s_values)
    /\ loop'.write = loop'.read => s_values' = s_values /\ loop.write = loop.read

(* A merge that has come by one more element. *)
LEMMA WalksOn ==
    ASSUME LoopInv, Walking, loop.read <= Source!size, [Next]_vars, ~dedup', call' = call,
           UNCHANGED <<s_buckets, s_capacity, s_load, s_shifts, s_indexed, s_dedup>>,
           NEW fields \in [op : Ops, read : Nat, write : Nat, look : Nat, threw : SUBSET Element],
           fields.op = loop.op, fields.read = loop.read + 1, fields.threw = loop.threw,
           Steps(fields),
           fields.write \in 1 .. loop.read + 1,
           fields.write = loop.read + 1 => s_values' = s_values /\ loop.write = loop.read,
           s_values' \in Seq(Element), Len(s_values') = Len(s_values),
           \A p \in loop.read + 1 .. Len(s_values) : s_values'[p] = s_values[p],
           HasTaken(m_values', call.values, call.source, loop.read),
           InOrder(s_values', call.source, call.values, fields.write, loop.read + 1)
    PROVE  LoopInv' /\ SourceWalks /\ Merging /\ Merging'
<1>1. /\ CalledOK /\ TableOK /\ MergeOK /\ Merging /\ TableInv({0})
      /\ s_values \in Seq(Element) /\ Len(s_values) = Len(call.source)
      /\ loop.read \in 1 .. Len(call.source)
  BY AtWalk
<1>2. loop.read <= Len(s_values)
  BY DEF Source!size
<1>3. /\ loop'.op = loop.op /\ loop'.read = loop.read + 1
      /\ loop'.write = fields.write /\ loop'.threw = fields.threw
      /\ loop' \in [op : Ops, read : Nat, write : Nat, look : Nat, threw : SUBSET Element]
      /\ DOMAIN ring' = 0 .. Depth - 1
      /\ loop'.op = "merge_ahead" => Ahead(call.source, loop'.read, loop'.look, ring')
  BY <1>1, <1>2, RingGoesOn
<1>4. CalledOK'
  BY <1>1, <1>3, SameCall
<1>5. SourceWalks
  BY <1>3 DEF SourceWalks
<1>6. Merging' /\ loop'.op \in {"merge", "merge_ahead"}
  BY <1>1, <1>3 DEF Merging
<1>7. TableOK'
  BY <1>1, TableStays
<1>8. StayedInOrder'
  BY <1>3 DEF StayedInOrder, InOrder
<1>9. MergeOK'
  <2>1. /\ loop.read \in Int /\ Len(call.source) \in Int
        /\ loop'.read - 1 = loop.read /\ loop'.read \in 1 .. Len(call.source) + 1
        /\ loop'.write \in 1 .. loop'.read
    <3>1. loop'.write \in 1 .. loop'.read
      BY <1>3
    <3>2. loop.read \in Int /\ Len(call.source) \in Nat /\ loop.read \in 1 .. Len(call.source)
      BY <1>1
    <3> QED
      BY <1>3, <3>1, <3>2
  <2>2. \A p \in loop'.read .. Len(call.source) : s_values'[p] = call.source[p]
    <3>1. \A p \in loop'.read .. Len(call.source) :
            p \in loop.read + 1 .. Len(s_values) /\ p \in loop.read .. Len(call.source)
      BY <1>1, <1>3, <2>1
    <3> QED
      BY <1>1, <3>1 DEF MergeOK
  <2>3. call.kind = "merge" /\ loop.threw = {}
    BY <1>1 DEF MergeOK
  <2> QED
    BY <1>1, <1>3, <1>8, <2>1, <2>2, <2>3 DEF MergeOK
<1>10. PhaseOK'
  BY <1>6, <1>9 DEF PhaseOK
<1>11. BatchesAreExact'
  BY <1>6, NotDone
<1> QED
  BY <1>1, <1>4, <1>5, <1>6, <1>7, <1>10, <1>11 DEF LoopInv

(* An element whose key is there stays with the source. *)
LEMMA MergeStaysKeeps ==
    ASSUME LoopInv, MergeStays
    PROVE  LoopInv' /\ [Next]_vars /\ SourceWalks /\ Merging /\ Merging'
<1> DEFINE fields == [loop EXCEPT !.read = @ + 1, !.write = @ + 1]
<1>1. /\ Walking /\ loop.read <= Source!size /\ InsertFinds(AtHand.key)
      /\ s_values' = IF loop.write = loop.read THEN s_values
                     ELSE [s_values EXCEPT ![loop.write] = AtHand]
      /\ Steps(fields)
      /\ UNCHANGED <<s_buckets, s_capacity, s_load, s_shifts, s_indexed, s_dedup>>
      /\ call' = call
  BY DEF MergeStays
<1>2. /\ loop \in [op : Ops, read : Nat, write : Nat, look : Nat, threw : SUBSET Element]
      /\ TableInv({0}) /\ m_values \in Seq(Element)
      /\ call.values \in Seq(Element) /\ call.source \in Seq(Element) /\ OneEach(call.source)
      /\ s_values \in Seq(Element) /\ Len(s_values) = Len(call.source)
      /\ loop.read \in 1 .. Len(call.source) /\ loop.write \in 1 .. loop.read
      /\ AtHand = call.source[loop.read] /\ AtHand \in Element /\ AtHand.key \in Key
      /\ loop.read - 1 \in Nat /\ (loop.read - 1) + 1 = loop.read
      /\ HasTaken(m_values, call.values, call.source, loop.read - 1)
      /\ InOrder(s_values, call.source, call.values, loop.write, loop.read)
  BY <1>1, AtWalk
<1>3. Next /\ m_values' = m_values /\ ~dedup' /\ AtHand.key \in KeysOf(m_values)
  BY <1>1, <1>2, InsertLeaves
<1>4. /\ fields \in [op : Ops, read : Nat, write : Nat, look : Nat, threw : SUBSET Element]
      /\ fields.op = loop.op /\ fields.read = loop.read + 1 /\ fields.threw = loop.threw
      /\ fields.write = loop.write + 1
  <2>1. loop.read + 1 \in Nat /\ loop.write + 1 \in Nat
    BY <1>2
  <2> QED
    BY <1>2, <2>1
<1> HIDE DEF fields
<1>5. AtHand.key \in KeysOf(call.values)
  <2>1. KeysOf(m_values)
          = KeysOf(call.values) \cup {call.source[j].key : j \in 1 .. loop.read - 1}
    BY <1>2 DEF HasTaken
  <2>2. \A j \in 1 .. loop.read - 1 : j \in 1 .. Len(call.source) /\ j # loop.read
    BY <1>2
  <2>3. \A j \in 1 .. loop.read - 1 : call.source[j].key # AtHand.key
    BY <1>2, <2>2 DEF OneEach
  <2> QED
    BY <1>3, <2>1, <2>3
<1>6. HasTaken(m_values', call.values, call.source, loop.read)
  <2>1. loop.read <= Len(call.source)
    BY <1>2
  <2>2. HasTaken(m_values, call.values, call.source, (loop.read - 1) + 1)
    BY <1>2, <1>3, <2>1, TakesOld
  <2> QED
    BY <1>2, <1>3, <2>2
<1>7. /\ loop.write \in 1 .. Len(s_values) /\ loop.read \in Int /\ loop.write \in Int
      /\ Len(s_values) \in Int
  BY <1>2
<1>8. /\ s_values' \in Seq(Element) /\ Len(s_values') = Len(s_values)
      /\ s_values'[loop.write] = AtHand
      /\ \A p \in 1 .. Len(s_values) : p # loop.write => s_values'[p] = s_values[p]
  <2>1. CASE loop.write = loop.read
    BY <1>1, <1>2, <1>7, <2>1 DEF AtHand
  <2>2. CASE loop.write # loop.read
    BY <1>1, <1>2, <1>7, <2>2
  <2> QED
    BY <2>1, <2>2
<1>9. /\ \A p \in 1 .. loop.write - 1 : s_values'[p] = s_values[p]
      /\ \A p \in loop.read + 1 .. Len(s_values) : s_values'[p] = s_values[p]
  <2> DEFINE w == loop.write
             r == loop.read
             n == Len(s_values)
  <2>1. w \in Int /\ r \in Int /\ n \in Int /\ 1 <= w /\ w <= r /\ r <= n
    BY <1>2, <1>7
  <2> HIDE DEF w, r, n
  <2>2. /\ \A p \in 1 .. w - 1 : p \in 1 .. n /\ p # w
        /\ \A p \in r + 1 .. n : p \in 1 .. n /\ p # w
    BY <2>1
  <2> USE DEF w, r, n
  <2> QED
    BY <1>8, <2>2
<1>10. InOrder(s_values', call.source, call.values, loop.write + 1, loop.read + 1)
  BY <1>2, <1>5, <1>8, <1>9, OneMoreStays
<1>11. /\ fields.write \in 1 .. loop.read + 1
       /\ fields.write = loop.read + 1 => s_values' = s_values /\ loop.write = loop.read
  BY <1>1, <1>2, <1>4, <1>7
<1>12. LoopInv' /\ SourceWalks /\ Merging /\ Merging'
  BY <1>1, <1>3, <1>4, <1>6, <1>8, <1>9, <1>10, <1>11, WalksOn
<1> QED
  BY <1>3, <1>12

(* One whose key is absent is moved. *)
LEMMA MergeTakesKeeps ==
    ASSUME LoopInv, MergeTakes
    PROVE  LoopInv' /\ [Next]_vars /\ SourceWalks /\ Merging /\ Merging'
<1> DEFINE fields == [loop EXCEPT !.read = @ + 1]
<1>1. /\ Walking /\ loop.read <= Source!size
      /\ InsertPlaces(AtHand.key, AtHand.val) \/ InsertGrows(AtHand.key, AtHand.val)
      /\ Steps(fields) /\ call' = call
      /\ UNCHANGED <<s_buckets, s_capacity, s_load, s_shifts, s_indexed, s_dedup>>
      /\ s_values' = s_values
  BY DEF MergeTakes, source_vars
<1>2. /\ loop \in [op : Ops, read : Nat, write : Nat, look : Nat, threw : SUBSET Element]
      /\ TableInv({0}) /\ m_values \in Seq(Element)
      /\ call.values \in Seq(Element) /\ call.source \in Seq(Element) /\ OneEach(call.source)
      /\ s_values \in Seq(Element) /\ Len(s_values) = Len(call.source)
      /\ loop.read \in 1 .. Len(call.source) /\ loop.write \in 1 .. loop.read
      /\ AtHand = call.source[loop.read] /\ AtHand \in Element /\ AtHand.key \in Key
      /\ loop.read - 1 \in Nat /\ (loop.read - 1) + 1 = loop.read
      /\ HasTaken(m_values, call.values, call.source, loop.read - 1)
      /\ InOrder(s_values, call.source, call.values, loop.write, loop.read)
  BY <1>1, AtWalk
<1>3. /\ Next /\ AtHand.key \notin KeysOf(m_values)
      /\ m_values' = Append(m_values, AtHand) /\ ~dedup'
  BY <1>1, <1>2, Inserting
<1>4. /\ fields \in [op : Ops, read : Nat, write : Nat, look : Nat, threw : SUBSET Element]
      /\ fields.op = loop.op /\ fields.read = loop.read + 1 /\ fields.threw = loop.threw
      /\ fields.write = loop.write
  <2>1. loop.read + 1 \in Nat
    BY <1>2
  <2> QED
    BY <1>2, <2>1
<1> HIDE DEF fields
<1>5. AtHand.key \notin KeysOf(call.values)
  BY <1>2, <1>3 DEF HasTaken
<1>6. HasTaken(m_values', call.values, call.source, loop.read)
  <2>1. loop.read <= Len(call.source)
    BY <1>2
  <2>2. HasTaken(m_values', call.values, call.source, (loop.read - 1) + 1)
    BY <1>2, <1>3, <2>1, TakesNew
  <2> QED
    BY <1>2, <2>2
<1>7. InOrder(s_values', call.source, call.values, loop.write, loop.read + 1)
  <2>1. loop.read \in Nat \ {0} /\ loop.write \in Nat
    BY <1>2
  <2> QED
    BY <1>1, <1>2, <1>5, <2>1, OneIsTaken
<1>8. fields.write \in 1 .. loop.read + 1 /\ fields.write # loop.read + 1
  BY <1>2, <1>4
<1>9. LoopInv' /\ SourceWalks /\ Merging /\ Merging'
  BY <1>1, <1>2, <1>3, <1>4, <1>6, <1>7, <1>8, WalksOn
<1> QED
  BY <1>3, <1>9

(* What the source is left with, element by element. *)
LEMMA PutTogether ==
    ASSUME NEW values \in Seq(Element), NEW w \in 1 .. Len(values) + 1,
           NEW from \in w .. Len(values) + 1
    PROVE  LET stayed == SubSeq(values, 1, w - 1)
               left   == stayed \o SubSeq(values, from, Len(values))
           IN  /\ stayed \in Seq(Element) /\ Len(stayed) = w - 1
               /\ \A p \in 1 .. w - 1 : stayed[p] = values[p]
               /\ left \in Seq(Element)
               /\ Len(left) = (w - 1) + ((Len(values) - from) + 1)
               /\ \A p \in 1 .. w - 1 : left[p] = values[p]
               /\ \A p \in from .. Len(values) : left[(p - from) + w] = values[p]
<1> DEFINE n == Len(values)
           a == SubSeq(values, 1, w - 1)
           b == SubSeq(values, from, n)
           k == (n - from) + 1
<1>1. n \in Nat /\ w \in Int /\ from \in Int /\ 1 <= w /\ w <= from /\ from <= n + 1
  OBVIOUS
<1>2. a \in Seq(Element) /\ Len(a) = w - 1 /\ \A p \in 1 .. w - 1 : a[p] = values[p]
  BY SubSeqProperties
<1>3. b \in Seq(Element) /\ Len(b) = k /\ \A p \in 1 .. k : b[p] = values[(from + p) - 1]
  <2>1. CASE from = n + 1
    <3>1. b \in Seq(Element) /\ Len(b) = 0
      BY <1>1, <2>1, SubSeqProperties
    <3>2. k = 0 /\ 1 .. k = {}
      BY <1>1, <2>1
    <3> QED
      BY <3>1, <3>2
  <2>2. CASE from <= n
    BY <1>1, <2>2, SubSeqProperties
  <2> QED
    BY <1>1, <2>1, <2>2
<1> HIDE DEF a, b
<1>4. k \in Nat
  BY <1>1
<1>5. /\ a \o b \in Seq(Element) /\ Len(a \o b) = (w - 1) + k
      /\ \A p \in 1 .. w - 1 : (a \o b)[p] = a[p]
      /\ \A p \in 1 .. k : (a \o b)[(w - 1) + p] = b[p]
  <2> DEFINE l == w - 1
             c == a \o b
  <2>1. l \in Nat /\ Len(a) = l /\ Len(b) = k
    BY <1>1, <1>2, <1>3
  <2>2. /\ c \in Seq(Element) /\ Len(c) = Len(a) + Len(b)
        /\ \A i \in 1 .. Len(a) + Len(b) : c[i] = IF i <= Len(a) THEN a[i] ELSE b[i - Len(a)]
    BY <1>2, <1>3, ConcatProperties
  <2> HIDE DEF k, l, c
  <2>3. \A i \in 1 .. l + k : c[i] = IF i <= l THEN a[i] ELSE b[i - l]
    BY <2>1, <2>2
  <2>4. \A p \in 1 .. l : c[p] = a[p]
    <3>1. \A p \in 1 .. l : p \in 1 .. l + k /\ p <= l
      BY <1>4, <2>1
    <3> QED
      BY <2>3, <3>1
  <2>5. \A p \in 1 .. k : c[l + p] = b[p]
    <3>1. \A p \in 1 .. k : l + p \in 1 .. l + k /\ ~(l + p <= l) /\ (l + p) - l = p
      BY <1>4, <2>1
    <3> QED
      BY <2>3, <3>1
  <2> QED
    BY <2>1, <2>2, <2>4, <2>5 DEF l, c
<1>6. ASSUME NEW p \in from .. n
      PROVE  (a \o b)[(p - from) + w] = values[p]
  <2> DEFINE q == (p - from) + 1
  <2>1. q \in 1 .. k /\ (w - 1) + q = (p - from) + w /\ (from + q) - 1 = p
    BY <1>1
  <2> HIDE DEF q, k
  <2>2. (a \o b)[(w - 1) + q] = b[q] /\ b[q] = values[(from + q) - 1]
    BY <1>3, <1>5, <2>1
  <2> QED
    BY <2>1, <2>2
<1> QED
  BY <1>2, <1>5, <1>6 DEF a, b

(* What the end of a merge does to the source: one that has all it had is  *)
(* as it was, and another one is to be indexed again. *)
SourceShrinks ==
    /\ s_values' \in Seq(Element) /\ OneEach(s_values')
    /\ Len(s_values') <= Len(s_values)
    /\ UNCHANGED <<s_load, s_dedup>>
    /\ \/ UNCHANGED source_vars /\ loop.write = loop.read
       \/ Source!clear_buckets /\ s_indexed' = 0

(* drop_tail_and_reindex, of what the source is left with. *)
LEMMA SourceLeaves ==
    ASSUME NEW left \in Seq(Element), Leaves(left), OneEach(left), Len(left) <= Len(s_values),
           Len(left) = Len(s_values) => left = s_values /\ loop.write = loop.read
    PROVE  SourceShrinks /\ s_values' = left /\ ring' = ring /\ call' = call
<1>1. /\ s_values' = left /\ s_load' = s_load /\ s_dedup' = s_dedup
      /\ ring' = ring /\ call' = call
      /\ IF Len(left) = Len(s_values)
         THEN UNCHANGED <<s_buckets, s_capacity, s_shifts, s_indexed>>
         ELSE Source!clear_buckets /\ s_indexed' = 0
  BY DEF Leaves, Source!size
<1>2. \/ UNCHANGED source_vars /\ loop.write = loop.read
      \/ Source!clear_buckets /\ s_indexed' = 0
  BY <1>1 DEF source_vars
<1> QED
  BY <1>1, <1>2 DEF SourceShrinks

(* The loop is over, at its end or by a throw. *)
LEMMA MergeIsOver ==
    ASSUME LoopInv, Merging, [Next]_vars, m_values' = m_values, ~dedup',
           NEW from \in loop.read .. Len(call.source) + 1,
           NEW left \in Seq(Element), Leaves(left),
           Len(left) = (loop.write - 1) + ((Len(call.source) - from) + 1),
           \A p \in 1 .. loop.write - 1 : left[p] = s_values[p],
           \A p \in from .. Len(call.source) : left[(p - from) + loop.write] = s_values[p],
           loop' \in [op : Ops, read : Nat, write : Nat, look : Nat, threw : SUBSET Element],
           loop'.op = "reindex", loop'.read = loop.read,
           \/ from = loop.read /\ loop'.threw = {}
           \/ /\ from = loop.read + 1 /\ loop'.threw = {call.source[loop.read]}
              /\ call.source[loop.read].key \notin KeysOf(m_values)
    PROVE  LoopInv' /\ SourceShrinks /\ ~Merging'
<1>1. CalledOK /\ TableOK /\ MergeOK /\ TableInv({0})
  BY DEF LoopInv, PhaseOK, TableOK
<1>2. /\ call.values \in Seq(Element) /\ call.source \in Seq(Element) /\ OneEach(call.source)
      /\ DOMAIN ring = 0 .. Depth - 1
  BY <1>1 DEF CalledOK
<1>3. /\ s_values \in Seq(Element) /\ Len(s_values) = Len(call.source)
      /\ loop.read \in 1 .. Len(call.source) + 1 /\ loop.write \in 1 .. loop.read
      /\ \A p \in loop.read .. Len(call.source) : s_values[p] = call.source[p]
      /\ HasTaken(m_values, call.values, call.source, loop.read - 1)
      /\ call.kind = "merge"
  BY <1>1 DEF MergeOK
<1>4. InOrder(s_values, call.source, call.values, loop.write, loop.read)
  BY <1>1 DEF MergeOK, StayedInOrder, InOrder
<1>5. /\ LeftOf(left, call.source, call.values, loop.read - 1, from)
      /\ Len(left) <= Len(s_values)
      /\ Len(left) = Len(s_values) => left = s_values /\ loop.write = loop.read
  <2> DEFINE source == call.source
             before == call.values
             now    == s_values
             r      == loop.read
             w      == loop.write
  <2>1. Closes(left, now, source, before, w, r, from)
    BY <1>2, <1>3, <1>4 DEF Closes
  <2> HIDE DEF source, before, now, r, w
  <2>2. /\ LeftOf(left, source, before, r - 1, from)
        /\ Len(left) <= Len(now)
        /\ Len(left) = Len(now) => left = now /\ w = r
    BY <2>1, LeftThen
  <2> QED
    BY <2>2 DEF source, before, now, r, w
<1>6. OneEach(left)
  BY <1>2, <1>5, LeftIsUnique
<1>7. SourceShrinks /\ s_values' = left /\ ring' = ring /\ call' = call
  BY <1>5, <1>6, SourceLeaves
<1>8. CalledOK'
  BY <1>1, <1>2, <1>7, SameCall
<1>9. ~Merging'
  BY DEF Merging
<1>10. TableOK'
  BY <1>1, TableStays
<1>11. EachInOneTable' /\ InTheirOrder'
  <2> DEFINE n == loop.read - 1
  <2>1. /\ n \in 0 .. Len(call.source) /\ n + 1 = loop.read /\ n + 2 = loop.read + 1
        /\ n \in Int
    <3>1. loop.read \in 1 .. Len(call.source) + 1 /\ Len(call.source) \in Nat
      BY <1>2, <1>3
    <3>2. loop.read \in Int /\ 1 <= loop.read /\ loop.read <= Len(call.source) + 1
      BY <3>1
    <3> QED
      BY <3>1, <3>2
  <2>2. LeftOf(left, call.source, call.values, n, from)
        /\ HasTaken(m_values, call.values, call.source, n)
    BY <1>3, <1>5
  <2> HIDE DEF n
  <2>3. m_values \in Seq(Element)
    BY <1>1, TheValues
  <2>4. from \in n + 1 .. Len(call.source) + 1 /\ loop'.read = n + 1
    BY <2>1
  <2>5. \/ from = n + 1 /\ loop'.threw = {}
        \/ /\ from = n + 2 /\ loop'.threw = {call.source[n + 1]}
           /\ call.source[n + 1].key \notin KeysOf(m_values)
    BY <2>1
  <2>6. /\ m_values' \in Seq(Element) /\ s_values' \in Seq(Element)
        /\ n \in 0 .. Len(call'.source) /\ from \in n + 1 .. Len(call'.source) + 1
        /\ HasTaken(m_values', call'.values, call'.source, n)
        /\ LeftOf(s_values', call'.source, call'.values, n, from)
        /\ \/ from = n + 1 /\ loop'.threw = {}
           \/ /\ from = n + 2 /\ loop'.threw = {call'.source[n + 1]}
              /\ call'.source[n + 1].key \notin KeysOf(m_values')
    BY <1>7, <2>1, <2>2, <2>3, <2>4, <2>5
  <2> QED
    BY <1>8, <2>4, <2>6, MergeHolds
<1>12. PhaseOK'
  BY <1>3, <1>7, <1>9, <1>11 DEF PhaseOK
<1>13. BatchesAreExact'
  BY NotDone
<1> QED
  BY <1>7, <1>8, <1>9, <1>10, <1>12, <1>13 DEF LoopInv

(* The source keeps what has stayed. *)
LEMMA MergeEndsKeeps ==
    ASSUME LoopInv, MergeEnds
    PROVE  LoopInv' /\ [Next]_vars /\ SourceShrinks /\ Merging /\ ~Merging'
<1>1. /\ Walking /\ loop.read > Len(s_values) /\ Leaves(Stayed) /\ UNCHANGED vars
      /\ loop' = [loop EXCEPT !.op = "reindex"]
  BY DEF MergeEnds, Source!size
<1>2. Merging /\ Idle
  BY <1>1 DEF Walking, Merging
<1>3. CalledOK /\ MergeOK /\ TableInv({0})
  BY <1>2 DEF LoopInv, PhaseOK, TableOK
<1>4. /\ loop \in [op : Ops, read : Nat, write : Nat, look : Nat, threw : SUBSET Element]
      /\ call.source \in Seq(Element)
  BY <1>3 DEF CalledOK
<1>5. /\ s_values \in Seq(Element) /\ Len(s_values) = Len(call.source)
      /\ loop.read \in 1 .. Len(call.source) + 1 /\ loop.write \in 1 .. loop.read
      /\ loop.threw = {}
  BY <1>3 DEF MergeOK
<1>6. m_values' = m_values /\ ~dedup'
  <2>1. ~dedup
    BY <1>2, <1>3, WhenIdle
  <2> QED
    BY <1>1, <2>1 DEF vars
<1>7. /\ loop.read = Len(s_values) + 1 /\ Len(s_values) \in Nat
      /\ loop.read \in loop.read .. Len(call.source) + 1
      /\ loop.write \in 1 .. Len(s_values) + 1
      /\ loop.read \in loop.write .. Len(s_values) + 1
  BY <1>1, <1>4, <1>5
<1> DEFINE left == Stayed
<1>8. /\ left \in Seq(Element) /\ Len(left) = loop.write - 1
      /\ \A p \in 1 .. loop.write - 1 : left[p] = s_values[p]
  BY <1>5, <1>7, PutTogether DEF Stayed
<1> HIDE DEF left
<1>9. Len(left) = (loop.write - 1) + ((Len(call.source) - loop.read) + 1)
  BY <1>5, <1>7, <1>8
<1>10. loop.read .. Len(call.source) = {}
  BY <1>5, <1>7
<1>11. /\ loop' \in [op : Ops, read : Nat, write : Nat, look : Nat, threw : SUBSET Element]
       /\ loop'.op = "reindex" /\ loop'.read = loop.read /\ loop'.threw = {}
  <2>1. "reindex" \in Ops
    BY DEF Ops
  <2> QED
    BY <1>1, <1>4, <1>5, <2>1
<1>12. Leaves(left)
  BY <1>1 DEF left
<1>13. LoopInv' /\ SourceShrinks /\ ~Merging'
  BY <1>1, <1>2, <1>6, <1>7, <1>8, <1>9, <1>10, <1>11, <1>12, MergeIsOver
<1> QED
  BY <1>1, <1>2, <1>13

(* A throw leaves it what has not been come by as well, but for a husk. *)
LEMMA MergeThrowIsKept ==
    ASSUME LoopInv, MergeThrows
    PROVE  LoopInv' /\ [Next]_vars /\ SourceShrinks /\ Merging /\ ~Merging'
<1>1. Walking /\ loop.read <= Source!size /\ Source!size = Len(s_values) /\ Merging
  BY DEF MergeThrows, Walking, Merging, Source!size
<1>2. PICK from \in {loop.read, loop.read + 1} :
        /\ Leaves(Stayed \o Rest(from))
        /\ \/ /\ from = loop.read /\ UNCHANGED vars
              /\ loop' = [loop EXCEPT !.op = "reindex"]
           \/ /\ from = loop.read + 1 /\ InsertThrows(AtHand.key)
              /\ loop' = [loop EXCEPT !.op = "reindex", !.threw = {AtHand}]
  BY DEF MergeThrows
<1>3. /\ loop \in [op : Ops, read : Nat, write : Nat, look : Nat, threw : SUBSET Element]
      /\ TableInv({0}) /\ s_values \in Seq(Element) /\ Len(s_values) = Len(call.source)
      /\ loop.read \in 1 .. Len(call.source) /\ loop.write \in 1 .. loop.read
      /\ AtHand = call.source[loop.read] /\ AtHand \in Element /\ AtHand.key \in Key
      /\ MergeOK
  BY <1>1, AtWalk
<1>4. /\ [Next]_vars /\ m_values' = m_values /\ ~dedup'
      /\ from = loop.read + 1 => AtHand.key \notin KeysOf(m_values)
  <2>1. Idle
    BY <1>1 DEF Walking
  <2>2. ~dedup
    BY <1>3, <2>1, WhenIdle
  <2>3. CASE from = loop.read /\ UNCHANGED vars
    <3>1. from # loop.read + 1
      BY <1>3, <2>3
    <3> QED
      BY <2>2, <2>3, <3>1 DEF vars
  <2>4. CASE InsertThrows(AtHand.key)
    BY <1>3, <2>4, InsertLeaves
  <2> QED
    BY <1>2, <2>3, <2>4
<1>5. /\ loop' \in [op : Ops, read : Nat, write : Nat, look : Nat, threw : SUBSET Element]
      /\ loop'.op = "reindex" /\ loop'.read = loop.read
      /\ \/ from = loop.read /\ loop'.threw = {}
         \/ from = loop.read + 1 /\ loop'.threw = {AtHand}
  <2>1. "reindex" \in Ops /\ loop.threw = {} /\ {AtHand} \in SUBSET Element
    BY <1>3 DEF Ops, MergeOK
  <2>2. CASE from = loop.read /\ loop' = [loop EXCEPT !.op = "reindex"]
    <3>1. loop' = [op |-> "reindex", read |-> loop.read, write |-> loop.write,
                   look |-> loop.look, threw |-> {}]
      BY <1>3, <2>1, <2>2
    <3> QED
      BY <1>3, <2>1, <2>2, <3>1
  <2>3. CASE from = loop.read + 1 /\ loop' = [loop EXCEPT !.op = "reindex", !.threw = {AtHand}]
    <3>1. loop' = [op |-> "reindex", read |-> loop.read, write |-> loop.write,
                   look |-> loop.look, threw |-> {AtHand}]
      BY <1>3, <2>3
    <3> QED
      BY <1>3, <2>1, <2>3, <3>1
  <2> QED
    BY <1>2, <2>2, <2>3
<1>6. /\ Len(s_values) \in Nat
      /\ from \in loop.read .. Len(call.source) + 1
      /\ loop.write \in 1 .. Len(s_values) + 1
      /\ from \in loop.write .. Len(s_values) + 1
  BY <1>3
<1> DEFINE left == Stayed \o Rest(from)
<1>7. /\ left \in Seq(Element)
      /\ Len(left) = (loop.write - 1) + ((Len(call.source) - from) + 1)
      /\ \A p \in 1 .. loop.write - 1 : left[p] = s_values[p]
      /\ \A p \in from .. Len(call.source) : left[(p - from) + loop.write] = s_values[p]
  <2>1. left = SubSeq(s_values, 1, loop.write - 1) \o SubSeq(s_values, from, Len(s_values))
    BY <1>1 DEF Stayed, Rest
  <2> HIDE DEF left
  <2>2. LET stayed == SubSeq(s_values, 1, loop.write - 1)
            rest   == stayed \o SubSeq(s_values, from, Len(s_values))
        IN  /\ rest \in Seq(Element)
            /\ Len(rest) = (loop.write - 1) + ((Len(s_values) - from) + 1)
            /\ \A p \in 1 .. loop.write - 1 : rest[p] = s_values[p]
            /\ \A p \in from .. Len(s_values) : rest[(p - from) + loop.write] = s_values[p]
    BY <1>3, <1>6, PutTogether
  <2> QED
    BY <1>3, <2>1, <2>2
<1> HIDE DEF left
<1>8. Leaves(left)
  BY <1>2 DEF left
<1>9. \/ from = loop.read /\ loop'.threw = {}
      \/ /\ from = loop.read + 1 /\ loop'.threw = {call.source[loop.read]}
         /\ call.source[loop.read].key \notin KeysOf(m_values)
  BY <1>3, <1>4, <1>5
<1>10. LoopInv' /\ SourceShrinks /\ ~Merging'
  BY <1>1, <1>4, <1>5, <1>6, <1>7, <1>8, <1>9, MergeIsOver
<1> QED
  BY <1>1, <1>4, <1>10

(* The source is indexed again. *)
LEMMA ReindexKeeps ==
    ASSUME LoopInv, Reindex
    PROVE  LoopInv' /\ [Next]_vars
<1>1. /\ loop.op = "reindex" /\ UNCHANGED vars /\ ring' = ring /\ call' = call
      /\ \/ loop' = [loop EXCEPT !.op = "done"] /\ UNCHANGED source_vars
         \/ Source!FillStep /\ loop' = loop
  BY DEF Reindex, Done
<1>2. /\ CalledOK /\ TableOK /\ TableInv({0}) /\ ~dedup
      /\ call.kind = "merge" /\ EachInOneTable /\ InTheirOrder
  BY <1>1 DEF LoopInv, TableOK, PhaseOK, Merging
<1>3. loop \in [op : Ops, read : Nat, write : Nat, look : Nat, threw : SUBSET Element]
      /\ DOMAIN ring = 0 .. Depth - 1
  BY <1>2 DEF CalledOK
<1>4. s_values' = s_values
  BY <1>1 DEF source_vars, Source!FillStep, Source!PlaceNext
<1>5. /\ loop' \in [op : Ops, read : Nat, write : Nat, look : Nat, threw : SUBSET Element]
      /\ loop'.op \in {"done", "reindex"} /\ loop'.read = loop.read /\ loop'.threw = loop.threw
  BY <1>1, <1>3 DEF Ops
<1>6. CalledOK'
  BY <1>1, <1>2, <1>3, <1>5, SameCall
<1>7. ~Merging'
  BY <1>5 DEF Merging
<1>8. m_values' = m_values /\ dedup' = dedup
  BY <1>1 DEF vars
<1>9. TableOK'
  BY <1>1, <1>2, <1>8, TableStays
<1>10. EachInOneTable' /\ InTheirOrder'
  BY <1>1, <1>2, <1>4, <1>5, <1>8 DEF EachInOneTable, InTheirOrder
<1>11. PhaseOK'
  BY <1>1, <1>2, <1>5, <1>7, <1>10 DEF PhaseOK
<1>12. BatchesAreExact'
  BY <1>1, <1>2, <1>10
     DEF BatchesAreExact, ErasesAreExact, RangesAreTaken, MergeKeepsElements, Finished
<1> QED
  BY <1>1, <1>6, <1>9, <1>11, <1>12 DEF LoopInv

(* The slot of the element at hand holds its hash. *)
LEMMA InvHashes == LoopInv => HashIsItsElements
<1> SUFFICES ASSUME LoopInv
             PROVE  HashIsItsElements
  OBVIOUS
<1>1. CalledOK /\ PhaseOK /\ TableInv({0})
  BY DEF LoopInv, TableOK
<1>2. ASSUME loop.op = "insert", loop.read <= Len(call.arg)
      PROVE  ring[SlotOf(loop.read)] = call.arg[loop.read].key
  <2>1. /\ call.arg \in Seq(Element) /\ loop.read \in 1 .. Len(call.arg) + 1
        /\ Ahead(call.arg, loop.read, loop.look, ring)
    BY <1>1, <1>2 DEF PhaseOK, InsertOK
  <2>2. loop.read \in 1 .. Len(call.arg)
    BY <1>2, <2>1
  <2> QED
    BY <2>1, <2>2, AheadIsAtHand
<1>3. ASSUME loop.op = "replace_ahead", size > indexed + Depth + 1
      PROVE  ring[SlotOf(indexed + 1)] = NextValue.key
  <2>1. \A p \in indexed + 1 .. indexed + Depth : ring[SlotOf(p)] = m_values[p].key
    BY <1>1, <1>3 DEF PhaseOK, ReplaceOK
  <2>2. indexed \in Nat /\ Depth \in Nat \ {0}
    BY <1>1, BatchAssumption DEF TableInv, ScalarsOK
  <2>3. indexed + 1 \in indexed + 1 .. indexed + Depth
    BY <2>2
  <2> QED
    BY <2>1, <2>3 DEF NextValue
<1>4. ASSUME loop.op = "merge_ahead", loop.read <= Source!size
      PROVE  ring[SlotOf(loop.read)] = AtHand.key
  <2>1. MergeOK
    BY <1>1, <1>4 DEF PhaseOK, Merging
  <2>2. call.source \in Seq(Element)
    BY <1>1 DEF CalledOK
  <2>3. /\ Len(s_values) = Len(call.source) /\ loop.read \in 1 .. Len(call.source) + 1
        /\ \A p \in loop.read .. Len(call.source) : s_values[p] = call.source[p]
        /\ Ahead(call.source, loop.read, loop.look, ring)
    BY <1>4, <2>1 DEF MergeOK
  <2>4. loop.read \in 1 .. Len(call.source) /\ loop.read \in loop.read .. Len(call.source)
    BY <1>4, <2>2, <2>3 DEF Source!size
  <2>5. ring[SlotOf(loop.read)] = call.source[loop.read].key
    BY <2>2, <2>3, <2>4, AheadIsAtHand
  <2> QED
    BY <2>3, <2>4, <2>5 DEF AtHand
<1> QED
  BY <1>2, <1>3, <1>4 DEF HashIsItsElements

---------------------------------------------------------------------------
SourceTable == INSTANCE DenseTableProofs WITH
            Hash <- SourceHash, m_values <- s_values, m_buckets <- s_buckets,
            m_max_bucket_capacity <- s_capacity, m_max_load_factor <- s_load,
            m_shifts <- s_shifts, indexed <- s_indexed, dedup <- s_dedup

---------------------------------------------------------------------------
(* The source is a table like the other *)

(* What the theorems on one table assume of its numbers. *)
Fits == /\ SourceTable!SizesAssumption /\ SourceTable!GroupsAssumption
        /\ SourceTable!HomeAssumption /\ SourceTable!ProbeAssumption
        /\ SourceTable!FingerprintAssumption /\ SourceTable!TableAssumption

(* The source has the arrays of the other table, and a hash that fits them. *)
LEMMA SourceFits == Fits
<1>1. SourceTable!SizesAssumption
  BY SizesAssumption, BatchAssumption DEF SourceTable!SizesAssumption
<1>2. SourceTable!GroupsAssumption
  BY GroupsAssumption
     DEF SourceTable!GroupsAssumption, SourceTable!calc_num_groups, calc_num_groups,
         SourceTable!MaxGroups, MaxGroups, SourceTable!ArrayShifts, ArrayShifts
<1>3. SourceTable!HomeAssumption
  BY BatchAssumption
     DEF SourceTable!HomeAssumption, SourceTable!Home, SourceTable!group_idx_from_hash,
         group_idx_from_hash, SourceTable!calc_num_groups, calc_num_groups,
         SourceTable!MaxGroups, MaxGroups, SourceTable!ArrayShifts, ArrayShifts
<1>4. SourceTable!ProbeAssumption
  BY ProbeAssumption
     DEF SourceTable!ProbeAssumption, SourceTable!VisitsEveryGroupOnce, VisitsEveryGroupOnce,
         SourceTable!Visit, Visit, SourceTable!calc_num_groups, calc_num_groups,
         SourceTable!MaxGroups, MaxGroups, SourceTable!ArrayShifts, ArrayShifts
<1>5. SourceTable!FingerprintAssumption
  BY BatchAssumption
     DEF SourceTable!FingerprintAssumption, SourceTable!Fingerprint,
         SourceTable!fingerprint_word, fingerprint_word, SourceTable!CounterOf, CounterOf,
         SourceTable!Counter, Counter
<1>6. SourceTable!TableAssumption
  BY TableAssumption DEF SourceTable!TableAssumption, SourceTable!Element, Element
<1> QED
  BY <1>1, <1>2, <1>3, <1>4, <1>5, <1>6 DEF Fits

(* TableBatch and the theorems name the source's operators each in their   *)
(* own instance; they are the same. *)
LEMMA SameIdle ==
    /\ Source!size = SourceTable!size
    /\ Source!Idle <=> SourceTable!Idle
    /\ Source!clear_buckets <=> SourceTable!clear_buckets
BY DEF Source!Idle, SourceTable!Idle, Source!size, SourceTable!size, Source!clear_buckets,
       SourceTable!clear_buckets, Source!EmptyBlocks, SourceTable!EmptyBlocks, Source!FreeSlot,
       SourceTable!FreeSlot, Source!Lane, SourceTable!Lane, Source!Counter, SourceTable!Counter

(* An empty table. *)
LEMMA SameInit == Source!Init <=> SourceTable!Init
BY DEF Source!Init, SourceTable!Init, Source!NoBlocks, SourceTable!NoBlocks,
       Source!EmptyBlocks, SourceTable!EmptyBlocks, Source!FreeSlot, SourceTable!FreeSlot,
       Source!Lane, SourceTable!Lane, Source!Counter, SourceTable!Counter

(* A step that indexes a value. *)
LEMMA SameFillStep == Source!FillStep <=> SourceTable!FillStep
BY DEF Source!FillStep, SourceTable!FillStep, Source!Idle, SourceTable!Idle, Source!size,
       SourceTable!size, Source!PlaceNext, SourceTable!PlaceNext, Source!NextValue,
       SourceTable!NextValue, Source!place_group, SourceTable!place_group, Source!FirstRoom,
       SourceTable!FirstRoom, Source!first_lane, SourceTable!first_lane, Source!match_empty,
       SourceTable!match_empty, Source!match_fingerprint, SourceTable!match_fingerprint,
       Source!Home, SourceTable!Home, Source!group_idx_from_hash,
       SourceTable!group_idx_from_hash, Source!Fingerprint, SourceTable!Fingerprint,
       Source!fingerprint_word, SourceTable!fingerprint_word, Source!CounterOf,
       SourceTable!CounterOf, Source!Counted, SourceTable!Counted, Source!Passes,
       SourceTable!Passes, Source!Distance, SourceTable!Distance, Source!Visit,
       SourceTable!Visit, Source!Incremented, SourceTable!Incremented, Source!Groups,
       SourceTable!Groups, Source!Lane, SourceTable!Lane

(* A probe. *)
LEMMA SameFinds ==
    ASSUME NEW k
    PROVE  /\ Source!FindsKey(k) <=> SourceTable!FindsKey(k)
           /\ Source!IndexOfKey(k) = SourceTable!IndexOfKey(k)
<1>1. \A ix, s, d : Source!Hits(ix, s, s_values, k, d) = SourceTable!Hits(ix, s, s_values, k, d)
  BY DEF Source!Hits, SourceTable!Hits, Source!match_fingerprint,
         SourceTable!match_fingerprint, Source!Home, SourceTable!Home,
         Source!group_idx_from_hash, SourceTable!group_idx_from_hash, Source!Fingerprint,
         SourceTable!Fingerprint, Source!fingerprint_word, SourceTable!fingerprint_word,
         Source!Visit, SourceTable!Visit, Source!Lane, SourceTable!Lane
<1>2. \A ix, s, d : Source!StopsAt(ix, s, k, d) <=> SourceTable!StopsAt(ix, s, k, d)
  BY DEF Source!StopsAt, SourceTable!StopsAt, Source!Home, SourceTable!Home,
         Source!group_idx_from_hash, SourceTable!group_idx_from_hash, Source!Fingerprint,
         SourceTable!Fingerprint, Source!fingerprint_word, SourceTable!fingerprint_word,
         Source!CounterOf, SourceTable!CounterOf, Source!Visit, SourceTable!Visit
<1>3. Source!Data(s_buckets) = SourceTable!Data(s_buckets)
  BY DEF Source!Data, SourceTable!Data, Source!EmptyBlocks, SourceTable!EmptyBlocks,
         Source!FreeSlot, SourceTable!FreeSlot, Source!Lane, SourceTable!Lane,
         Source!Counter, SourceTable!Counter, Source!calc_num_groups,
         SourceTable!calc_num_groups, Source!MaxGroups, SourceTable!MaxGroups
<1>4. \A ix, s : Source!FoundAt(ix, s, s_values, k) = SourceTable!FoundAt(ix, s, s_values, k)
  BY <1>1, <1>2 DEF Source!FoundAt, SourceTable!FoundAt, Source!Groups, SourceTable!Groups
<1>5. Source!FindsKey(k) <=> SourceTable!FindsKey(k)
  BY <1>3, <1>4 DEF Source!FindsKey, SourceTable!FindsKey, Source!Found, SourceTable!Found
<1>6. \A ix, s : Source!probe(ix, s, s_values, k) = SourceTable!probe(ix, s, s_values, k)
  BY <1>1, <1>4
     DEF Source!probe, SourceTable!probe, Source!Home, SourceTable!Home,
         Source!group_idx_from_hash, SourceTable!group_idx_from_hash, Source!Visit,
         SourceTable!Visit, Source!first_lane, SourceTable!first_lane
<1>7. Source!SlotOfKey(k) = SourceTable!SlotOfKey(k)
  BY <1>3, <1>6 DEF Source!SlotOfKey, SourceTable!SlotOfKey
<1> QED
  BY <1>5, <1>7 DEF Source!IndexOfKey, SourceTable!IndexOfKey

(* What the probes find. *)
LEMMA SameLookups == Source!LookupsAgree <=> SourceTable!LookupsAgree
BY SameFinds DEF Source!LookupsAgree, SourceTable!LookupsAgree

(* The types. *)
LEMMA SameTypeOK == Source!TypeOK <=> SourceTable!TypeOK
BY DEF Source!TypeOK, SourceTable!TypeOK, Source!Element, SourceTable!Element,
       Source!IndexType, SourceTable!IndexType, Source!Slots, SourceTable!Slots,
       Source!Groups, SourceTable!Groups, Source!Lane, SourceTable!Lane, Source!Counter,
       SourceTable!Counter, Source!bucket_count, SourceTable!bucket_count, Source!size,
       SourceTable!size

(* An index of just the values. *)
LEMMA SameIndexExact == Source!IndexExact <=> SourceTable!IndexExact
BY DEF Source!IndexExact, SourceTable!IndexExact, Source!PointsExactly,
       SourceTable!PointsExactly, Source!Occupied, SourceTable!Occupied, Source!Slots,
       SourceTable!Slots, Source!Groups, SourceTable!Groups, Source!Lane, SourceTable!Lane,
       Source!KeyAt, SourceTable!KeyAt, Source!size, SourceTable!size, Source!Fingerprint,
       SourceTable!Fingerprint, Source!fingerprint_word, SourceTable!fingerprint_word

(* Counters of those who passed. *)
LEMMA SameCountersExact == Source!CountersExact <=> SourceTable!CountersExact
<1>1. \A S : Source!Cardinality(S) = SourceTable!Cardinality(S)
  BY DEF Source!Cardinality, SourceTable!Cardinality
<1>2. \A ix, s, key, g, class :
        Source!PassedBy(ix, s, key, g, class) = SourceTable!PassedBy(ix, s, key, g, class)
  BY DEF Source!PassedBy, SourceTable!PassedBy, Source!Occupied, SourceTable!Occupied,
         Source!Slots, SourceTable!Slots, Source!Groups, SourceTable!Groups, Source!Lane,
         SourceTable!Lane, Source!Home, SourceTable!Home, Source!group_idx_from_hash,
         SourceTable!group_idx_from_hash, Source!CounterOf, SourceTable!CounterOf,
         Source!Passes, SourceTable!Passes, Source!Distance, SourceTable!Distance,
         Source!Visit, SourceTable!Visit
<1>3. Source!KeyAt = SourceTable!KeyAt
  BY DEF Source!KeyAt, SourceTable!KeyAt, Source!size, SourceTable!size
<1> QED
  BY <1>1, <1>2, <1>3
     DEF Source!CountersExact, SourceTable!CountersExact, Source!CountsExactly,
         SourceTable!CountsExactly, Source!Groups, SourceTable!Groups, Source!Counter,
         SourceTable!Counter

(* An insert of an absent key. *)
LEMMA SameInserts ==
    ASSUME NEW k, NEW v
    PROVE  /\ Source!InsertPlaces(k, v) <=> SourceTable!InsertPlaces(k, v)
           /\ Source!InsertGrows(k, v) <=> SourceTable!InsertGrows(k, v)
<1>1. Source!WritableBlocks = SourceTable!WritableBlocks
  BY DEF Source!WritableBlocks, SourceTable!WritableBlocks, Source!Data, SourceTable!Data,
         Source!EmptyBlocks, SourceTable!EmptyBlocks, Source!FreeSlot, SourceTable!FreeSlot,
         Source!Lane, SourceTable!Lane, Source!Counter, SourceTable!Counter,
         Source!calc_num_groups, SourceTable!calc_num_groups, Source!MaxGroups,
         SourceTable!MaxGroups
<1>2. Source!WritableCapacity = SourceTable!WritableCapacity
  BY DEF Source!WritableCapacity, SourceTable!WritableCapacity, Source!capacity_for,
         SourceTable!capacity_for, Source!calc_num_buckets, SourceTable!calc_num_buckets,
         Source!calc_num_groups, SourceTable!calc_num_groups, Source!MaxGroups,
         SourceTable!MaxGroups
<1>3. \A ix, s, key, p : Source!place_group(ix, s, key, p) = SourceTable!place_group(ix, s, key, p)
  BY DEF Source!place_group, SourceTable!place_group, Source!FirstRoom,
       SourceTable!FirstRoom, Source!first_lane, SourceTable!first_lane, Source!match_empty,
       SourceTable!match_empty, Source!match_fingerprint, SourceTable!match_fingerprint,
       Source!Home, SourceTable!Home, Source!group_idx_from_hash,
       SourceTable!group_idx_from_hash, Source!Fingerprint, SourceTable!Fingerprint,
       Source!fingerprint_word, SourceTable!fingerprint_word, Source!CounterOf,
       SourceTable!CounterOf, Source!Counted, SourceTable!Counted, Source!Passes,
       SourceTable!Passes, Source!Distance, SourceTable!Distance, Source!Visit,
       SourceTable!Visit, Source!Incremented, SourceTable!Incremented, Source!Groups,
       SourceTable!Groups, Source!Lane, SourceTable!Lane
<1>4. \A s : Source!allocate_buckets_from_shift(s) <=> SourceTable!allocate_buckets_from_shift(s)
  BY DEF Source!allocate_buckets_from_shift, SourceTable!allocate_buckets_from_shift,
         Source!EmptyBlocks, SourceTable!EmptyBlocks, Source!FreeSlot, SourceTable!FreeSlot,
         Source!Lane, SourceTable!Lane, Source!Counter, SourceTable!Counter,
         Source!capacity_for, SourceTable!capacity_for, Source!calc_num_buckets,
         SourceTable!calc_num_buckets, Source!calc_num_groups, SourceTable!calc_num_groups,
         Source!MaxGroups, SourceTable!MaxGroups
<1>5. Source!size = SourceTable!size /\ (Source!Idle <=> SourceTable!Idle)
  BY SameIdle
<1>6. Source!FindsKey(k) <=> SourceTable!FindsKey(k)
  BY SameFinds
<1>7. Source!InsertPlaces(k, v) <=> SourceTable!InsertPlaces(k, v)
  BY <1>1, <1>2, <1>3, <1>5, <1>6 DEF Source!InsertPlaces, SourceTable!InsertPlaces
<1>8. Source!InsertGrows(k, v) <=> SourceTable!InsertGrows(k, v)
  BY <1>1, <1>2, <1>4, <1>5, <1>6 DEF Source!InsertGrows, SourceTable!InsertGrows
<1> QED
  BY <1>7, <1>8

---------------------------------------------------------------------------
(* The source keeps the invariant of a table, as the other one does. *)

SourceInv == SourceTable!TableInv({0})

(* An empty source is in order. *)
LEMMA SourceStarts == Source!Init => SourceInv
<1>1. Fits /\ SourceTable!Init => SourceTable!TableInv({0})
  BY SourceTable!InitInv DEF Fits
<1> QED
  BY <1>1, SourceFits, SameInit DEF SourceInv

(* So is one that gets an element more ... *)
LEMMA SourceInserts ==
    ASSUME SourceInv, NEW k \in Key, NEW v \in Value,
           Source!InsertPlaces(k, v) \/ Source!InsertGrows(k, v)
    PROVE  SourceInv'
<1>1. Fits /\ SourceTable!TableInv({0}) /\ SourceTable!InsertPlaces(k, v)
        => SourceTable!TableInv({0})'
  BY SourceTable!InsertPlacesInv DEF Fits
<1>2. Fits /\ SourceTable!TableInv({0}) /\ SourceTable!InsertGrows(k, v)
        => SourceTable!TableInv({0})'
  BY SourceTable!InsertGrowsInv DEF Fits
<1> QED
  BY <1>1, <1>2, SourceFits, SameInserts DEF SourceInv

(* ... one that is being indexed ... *)
LEMMA SourceFills ==
    ASSUME SourceInv, Source!FillStep
    PROVE  SourceInv' /\ s_values' = s_values /\ s_dedup' = s_dedup
<1>1. Fits /\ SourceTable!TableInv({0}) /\ SourceTable!FillStep
        => SourceTable!TableInv({0})'
  BY SourceTable!FillStepInv DEF Fits
<1> QED
  BY <1>1, SourceFits, SameFillStep DEF SourceInv, Source!FillStep, Source!PlaceNext

(* ... and one that nothing happens to. *)
LEMMA SourceStays ==
    ASSUME SourceInv, UNCHANGED source_vars
    PROVE  SourceInv'
<1>1. Fits /\ SourceTable!TableInv({0}) /\ [SourceTable!Next]_SourceTable!vars
        => SourceTable!TableInv({0})'
  BY SourceTable!NextInv DEF Fits
<1> QED
  BY <1>1, SourceFits DEF SourceInv, source_vars, SourceTable!vars

---------------------------------------------------------------------------
(* What the invariant of the source says *)

LEMMA SourceSays ==
    ASSUME SourceInv
    PROVE  /\ Source!TypeOK /\ Source!IndexExact /\ Source!CountersExact
           /\ Source!LookupsAgree
           /\ SourceTable!TypeOK /\ SourceTable!SizedOK
           /\ s_shifts \in SourceTable!ArrayShifts
           /\ SourceTable!Data(s_buckets).size = SourceTable!calc_num_groups(s_shifts)
<1>1. Fits /\ SourceTable!TableInv({0}) => SourceTable!TypeOK
  BY SourceTable!InvTypeOK DEF Fits
<1>2. Fits /\ SourceTable!TableInv({0}) => SourceTable!IndexExact
  BY SourceTable!InvIndex DEF Fits
<1>3. Fits /\ SourceTable!TableInv({0}) => SourceTable!CountersExact
  BY SourceTable!InvCounters DEF Fits
<1>4. Fits /\ SourceTable!TableInv({0}) => SourceTable!LookupsAgree
  BY SourceTable!InvLookups DEF Fits
<1>5. /\ SourceTable!SizedOK
      /\ s_shifts \in SourceTable!ArrayShifts
      /\ SourceTable!Data(s_buckets).size = SourceTable!calc_num_groups(s_shifts)
  BY DEF SourceInv, SourceTable!TableInv, SourceTable!IndexOK, SourceTable!IndexFor
<1> QED
  BY <1>1, <1>2, <1>3, <1>4, <1>5, SourceFits, SameTypeOK, SameIndexExact,
     SameCountersExact, SameLookups DEF SourceInv

(* The values a source has. *)
LEMMA SourceElements ==
    ASSUME SourceInv
    PROVE  /\ s_values \in Seq(Element)
           /\ s_indexed \in 0 .. Len(s_values)
           /\ ~s_dedup => OneEach(s_values)
<1>1. s_values \in Seq(SourceTable!Element) /\ s_indexed \in 0 .. SourceTable!size
  BY DEF SourceInv, SourceTable!TableInv, SourceTable!ScalarsOK
<1>2. SourceTable!KeysUnique
  BY DEF SourceInv, SourceTable!TableInv
<1>3. SourceTable!Element = Element /\ SourceTable!size = Len(s_values)
  BY DEF SourceTable!Element, Element, SourceTable!size
<1>4. ~s_dedup => OneEach(s_values)
  BY <1>2, <1>3 DEF SourceTable!KeysUnique, OneEach
<1> QED
  BY <1>1, <1>3, <1>4

(* A source whose elements are being moved has the array it had, and if    *)
(* all of them have stayed where they were it is a table in order. *)
SourceLent ==
    /\ SourceTable!TypeOK /\ SourceTable!SizedOK
    /\ s_indexed = Len(s_values)
    /\ s_shifts \in SourceTable!ArrayShifts
    /\ SourceTable!Data(s_buckets).size = SourceTable!calc_num_groups(s_shifts)
    /\ loop.write = loop.read => SourceInv

SourceOK ==
    /\ IF Merging THEN SourceLent ELSE SourceInv
    /\ s_dedup = FALSE

(* The inductive invariant. *)
BatchInv == LoopInv /\ SourceOK

(* A source that loses elements and is indexed again from the start. *)
LEMMA SourceEmptied ==
    ASSUME SourceLent, s_dedup = FALSE, Source!clear_buckets,
           s_values \in Seq(Element), s_values' \in Seq(Element), OneEach(s_values'),
           Len(s_values') <= Len(s_values),
           s_indexed' = 0, s_load' = s_load, s_dedup' = s_dedup
    PROVE  SourceInv'
<1>1. SourceTable!clear_buckets
  BY SameIdle
<1>2. SourceTable!Element = Element
  BY DEF SourceTable!Element, Element
<1>3. SourceTable!size = Len(s_values) /\ SourceTable!size' = Len(s_values')
  BY DEF SourceTable!size
<1>4. SourceTable!size' <= SourceTable!bucket_count
  <2>1. CASE s_buckets.size = 0
    <3>1. s_values = <<>> /\ SourceTable!bucket_count = 0
      BY <2>1, SizesAssumption
         DEF SourceLent, SourceTable!SizedOK, SourceTable!bucket_count
    <3> QED
      BY <1>3, <3>1
  <2>2. CASE s_buckets.size # 0
    <3>1. SourceTable!size <= SourceTable!bucket_count
      BY <2>2 DEF SourceLent, SourceTable!SizedOK
    <3>2. SourceTable!bucket_count \in Nat
      <4>1. s_buckets.size \in Nat
        BY DEF SourceLent, SourceTable!TypeOK, SourceTable!IndexType
      <4> QED
        BY <4>1, SizesAssumption DEF SourceTable!bucket_count
    <3> QED
      BY <1>3, <3>1, <3>2
  <2> QED
    BY <2>1, <2>2
<1>5. /\ SourceTable!SizedOK /\ s_shifts \in SourceTable!ArrayShifts
      /\ SourceTable!Data(s_buckets).size = SourceTable!calc_num_groups(s_shifts)
      /\ s_load \in 0 .. 100
  BY DEF SourceLent, SourceTable!TypeOK
<1>6. /\ Fits
      /\ SourceTable!SizedOK /\ s_shifts \in SourceTable!ArrayShifts
      /\ SourceTable!Data(s_buckets).size = SourceTable!calc_num_groups(s_shifts)
      /\ {0} \in SUBSET Nat /\ 0 \in {0}
      /\ SourceTable!clear_buckets
      /\ s_values' \in Seq(SourceTable!Element)
      /\ SourceTable!size' <= SourceTable!bucket_count
      /\ s_indexed' = 0
      => SourceTable!SizedOK' /\ SourceTable!IndexOK({0})'
  BY SourceTable!Cleared DEF Fits
<1>7. SourceTable!SizedOK' /\ SourceTable!IndexOK({0})'
  BY <1>1, <1>2, <1>4, <1>5, <1>6, SourceFits
<1>8. SourceTable!ScalarsOK'
  <2>1. s_values' \in Seq(SourceTable!Element) /\ s_load' \in 0 .. 100
    BY <1>2, <1>5
  <2>2. s_indexed' \in 0 .. SourceTable!size'
    BY <1>3
  <2>3. s_dedup' \in BOOLEAN /\ ~s_dedup'
    OBVIOUS
  <2> QED
    BY <2>1, <2>2, <2>3 DEF SourceTable!ScalarsOK
<1>9. SourceTable!KeysUnique'
  BY <1>3 DEF SourceTable!KeysUnique, OneEach
<1> QED
  BY <1>7, <1>8, <1>9 DEF SourceInv, SourceTable!TableInv

(* The elements of a source move up within it. *)
LEMMA LentStays ==
    ASSUME SourceLent, SourceWalks
    PROVE  SourceLent'
<1>1. /\ UNCHANGED <<s_buckets, s_capacity, s_load, s_shifts, s_indexed, s_dedup>>
      /\ s_values' \in Seq(Element) /\ Len(s_values') = Len(s_values)
      /\ loop'.write = loop'.read => s_values' = s_values /\ loop.write = loop.read
  BY DEF SourceWalks
<1>2. SourceTable!Element = Element
  BY DEF SourceTable!Element, Element
<1>3. SourceTable!size' = SourceTable!size /\ SourceTable!bucket_count' = SourceTable!bucket_count
  BY <1>1 DEF SourceTable!size, SourceTable!bucket_count
<1>4. SourceTable!TypeOK'
  <2>1. SourceTable!IndexType(s_buckets)' <=> SourceTable!IndexType(s_buckets)
    BY <1>1
       DEF SourceTable!IndexType, SourceTable!Slots, SourceTable!Groups, SourceTable!Lane,
           SourceTable!Counter
  <2> QED
    BY <1>1, <1>2, <1>3, <2>1 DEF SourceLent, SourceTable!TypeOK
<1>5. SourceTable!SizedOK'
  <2>1. SourceTable!NoBlocks' = SourceTable!NoBlocks
    BY DEF SourceTable!NoBlocks, SourceTable!EmptyBlocks
  <2>2. s_values = <<>> => s_values' = <<>>
    BY <1>1
  <2> QED
    BY <1>1, <1>3, <2>1, <2>2 DEF SourceLent, SourceTable!SizedOK
<1>6. /\ s_indexed' = Len(s_values') /\ s_shifts' \in SourceTable!ArrayShifts
      /\ SourceTable!Data(s_buckets)'.size = SourceTable!calc_num_groups(s_shifts)'
  <2>1. SourceTable!Data(s_buckets)' = SourceTable!Data(s_buckets)
    BY <1>1 DEF SourceTable!Data, SourceTable!EmptyBlocks
  <2>2. SourceTable!calc_num_groups(s_shifts)' = SourceTable!calc_num_groups(s_shifts)
    BY <1>1 DEF SourceTable!calc_num_groups
  <2> QED
    BY <1>1, <2>1, <2>2 DEF SourceLent
<1>7. loop'.write = loop'.read => SourceInv'
  <2> SUFFICES ASSUME loop'.write = loop'.read
               PROVE  SourceInv'
    OBVIOUS
  <2>1. SourceInv /\ UNCHANGED source_vars
    BY <1>1 DEF SourceLent, source_vars
  <2> QED
    BY <2>1, SourceStays
<1> QED
  BY <1>4, <1>5, <1>6, <1>7 DEF SourceLent

(* A source that is left alone. *)
LEMMA SourceWaits ==
    ASSUME SourceOK, UNCHANGED source_vars, loop' = loop \/ (~Merging /\ ~Merging')
    PROVE  SourceOK'
<1>1. s_dedup' = FALSE
  BY DEF SourceOK, source_vars
<1>2. CASE ~Merging /\ ~Merging'
  <2>1. SourceInv'
    BY <1>2, SourceStays DEF SourceOK
  <2> QED
    BY <1>1, <1>2, <2>1 DEF SourceOK
<1>3. CASE Merging /\ loop' = loop
  <2>1. SourceLent /\ Merging'
    BY <1>3 DEF SourceOK, Merging
  <2>2. SourceTable!Element = Element
    BY DEF SourceTable!Element, Element
  <2>3. s_values \in Seq(Element)
    BY <2>1, <2>2 DEF SourceLent, SourceTable!TypeOK
  <2>4. SourceWalks
    BY <1>3, <2>3 DEF SourceWalks, source_vars
  <2>5. SourceLent'
    BY <2>1, <2>4, LentStays
  <2> QED
    BY <1>1, <2>1, <2>5 DEF SourceOK
<1>4. Merging' = Merging \/ (~Merging /\ ~Merging')
  BY DEF Merging
<1> QED
  BY <1>2, <1>3, <1>4

(* The source of a merge that begins. *)
LEMMA SourceIsLent ==
    ASSUME SourceOK, ~Merging, Source!Idle, UNCHANGED source_vars, loop.write = loop.read
    PROVE  /\ SourceInv' /\ s_dedup' = FALSE
           /\ SourceLent'
<1>1. SourceInv /\ s_dedup = FALSE
  BY DEF SourceOK
<1>2. SourceInv' /\ s_dedup' = FALSE
  BY <1>1, SourceStays DEF source_vars
<1>3. s_indexed = Len(s_values)
  BY DEF Source!Idle, Source!size
<1>4. /\ SourceTable!TypeOK /\ SourceTable!SizedOK
      /\ s_shifts \in SourceTable!ArrayShifts
      /\ SourceTable!Data(s_buckets).size = SourceTable!calc_num_groups(s_shifts)
  BY <1>1, SourceSays
<1>5. SourceLent
  BY <1>1, <1>3, <1>4 DEF SourceLent
<1>6. SourceWalks
  <2>1. s_values \in Seq(Element)
    BY <1>1, SourceElements
  <2> QED
    BY <2>1 DEF SourceWalks, source_vars
<1> QED
  BY <1>2, <1>5, <1>6, LentStays

(* The source of a merge that is over. *)
LEMMA SourceReturns ==
    ASSUME SourceOK, Merging, ~Merging', SourceShrinks, s_values \in Seq(Element)
    PROVE  SourceOK'
<1>1. SourceLent /\ s_dedup = FALSE
  BY DEF SourceOK
<1>2. /\ s_values' \in Seq(Element) /\ OneEach(s_values')
      /\ Len(s_values') <= Len(s_values) /\ s_load' = s_load /\ s_dedup' = s_dedup
  BY DEF SourceShrinks
<1>3. CASE UNCHANGED source_vars /\ loop.write = loop.read
  <2>1. SourceInv
    BY <1>1, <1>3 DEF SourceLent
  <2>2. SourceInv'
    BY <1>3, <2>1, SourceStays
  <2> QED
    BY <1>1, <1>2, <2>2 DEF SourceOK
<1>4. CASE Source!clear_buckets /\ s_indexed' = 0
  BY <1>1, <1>2, <1>4, SourceEmptied DEF SourceOK
<1> QED
  BY <1>3, <1>4 DEF SourceShrinks

---------------------------------------------------------------------------
(* The steps that move the source *)

LEMMA FillsSource ==
    ASSUME BatchInv, Fill,
           \/ \E k \in Key : Source!InsertPlaces(k, 2) \/ Source!InsertGrows(k, 2)
           \/ Source!FillStep
    PROVE  /\ SourceInv' /\ s_dedup' = FALSE
           /\ s_values' \in Seq(Element) /\ OneEach(s_values')
           /\ \A p \in 1 .. Len(s_values') : s_values'[p].val = 2
<1>1. SourceInv /\ s_dedup = FALSE /\ FillOK
  BY DEF Fill, BatchInv, LoopInv, SourceOK, PhaseOK, Merging
<1>2. s_values \in Seq(Element) /\ Len(s_values) \in Nat
  BY <1>1, SourceElements
<1>3. \A p \in 1 .. Len(s_values) : s_values[p].val = 2
  BY <1>1 DEF FillOK
<1>4. ASSUME NEW k \in Key, Source!InsertPlaces(k, 2) \/ Source!InsertGrows(k, 2)
      PROVE  /\ SourceInv' /\ s_dedup' = s_dedup /\ s_values' \in Seq(Element)
             /\ \A p \in 1 .. Len(s_values') : s_values'[p].val = 2
  <2> DEFINE e == [key |-> k, val |-> 2]
  <2>1. e \in Element /\ e.val = 2 /\ 2 \in Value
    BY BatchAssumption DEF Element
  <2>2. s_values' = Append(s_values, e) /\ s_dedup' = s_dedup
    BY <1>4 DEF Source!InsertPlaces, Source!InsertGrows
  <2> HIDE DEF e
  <2>3. SourceInv'
    BY <1>1, <1>4, <2>1, SourceInserts
  <2>4. /\ s_values' \in Seq(Element)
        /\ Len(s_values') = Len(s_values) + 1
        /\ s_values'[Len(s_values) + 1] = e
        /\ \A p \in 1 .. Len(s_values) : s_values'[p] = s_values[p]
    BY <1>2, <2>1, <2>2, Appended
  <2> QED
    BY <1>2, <1>3, <2>1, <2>2, <2>3, <2>4
<1>5. ASSUME Source!FillStep
      PROVE  /\ SourceInv' /\ s_dedup' = s_dedup /\ s_values' \in Seq(Element)
             /\ \A p \in 1 .. Len(s_values') : s_values'[p].val = 2
  BY <1>1, <1>2, <1>3, <1>5, SourceFills
<1>6. /\ SourceInv' /\ s_dedup' = FALSE /\ s_values' \in Seq(Element)
      /\ \A p \in 1 .. Len(s_values') : s_values'[p].val = 2
  BY <1>1, <1>4, <1>5
<1>7. OneEach(s_values')
  <2>1. SourceTable!KeysUnique'
    BY <1>6 DEF SourceInv, SourceTable!TableInv
  <2> QED
    BY <1>6, <2>1 DEF SourceTable!KeysUnique, SourceTable!size, OneEach
<1> QED
  BY <1>6, <1>7

(* Before its batch a table gets elements of its own value, one by one. *)
LEMMA FillKeeps ==
    ASSUME BatchInv, Fill
    PROVE  BatchInv' /\ [Next]_vars
<1>1. loop.op = "fill" /\ loop' = loop /\ ring' = ring /\ call' = call /\ asked' = asked
  BY DEF Fill
<1>2. CalledOK /\ TableOK /\ FillOK /\ TableInv({0}) /\ ~dedup /\ SourceOK
  BY <1>1 DEF BatchInv, LoopInv, TableOK, PhaseOK
<1>3. CalledOK'
  BY <1>1, <1>2, SameCall DEF CalledOK
<1>4. ~Merging /\ ~Merging'
  BY <1>1 DEF Merging
<1>5. ASSUME TableOK', FillOK', SourceOK'
      PROVE  BatchInv'
  <2>1. PhaseOK'
    BY <1>1, <1>4, <1>5 DEF PhaseOK
  <2>2. BatchesAreExact'
    BY <1>1, NotDone
  <2> QED
    BY <1>3, <1>5, <2>1, <2>2 DEF BatchInv, LoopInv
<1>6. CASE /\ UNCHANGED source_vars
           /\ \/ \E k \in Key : InsertPlaces(k, 1) \/ InsertGrows(k, 1)
              \/ \E k \in Key : EraseKey(k)
              \/ FillStep
  <2>1. Next /\ ~dedup' /\ \A p \in 1 .. size' : m_values'[p].val = 1
    BY <1>6, FillsTable DEF BatchInv
  <2>2. TableOK'
    BY <1>2, <2>1, TableStays
  <2>3. FillOK'
    <3>1. s_values' = s_values
      BY <1>6 DEF source_vars
    <3> QED
      BY <1>1, <1>2, <2>1, <3>1 DEF FillOK
  <2>4. SourceOK'
    BY <1>1, <1>2, <1>6, SourceWaits
  <2> QED
    BY <1>5, <2>1, <2>2, <2>3, <2>4
<1>7. CASE /\ UNCHANGED vars
           /\ \/ \E k \in Key : Source!InsertPlaces(k, 2) \/ Source!InsertGrows(k, 2)
              \/ Source!FillStep
  <2>1. /\ SourceInv' /\ s_dedup' = FALSE
        /\ s_values' \in Seq(Element) /\ OneEach(s_values')
        /\ \A p \in 1 .. Len(s_values') : s_values'[p].val = 2
    BY <1>7, FillsSource
  <2>2. m_values' = m_values /\ dedup' = dedup
    BY <1>7 DEF vars
  <2>3. TableOK'
    BY <1>2, <1>7, <2>2, TableStays
  <2>4. FillOK'
    BY <1>1, <1>2, <2>1, <2>2 DEF FillOK, size
  <2>5. SourceOK'
    BY <1>4, <2>1 DEF SourceOK
  <2> QED
    BY <1>5, <1>7, <2>3, <2>4, <2>5
<1> QED
  BY <1>6, <1>7 DEF Fill

(* The first step of a batch, and what it does to the source. *)
LEMMA MergeBegins ==
    ASSUME BatchInv, Merge
    PROVE  SourceOK'
<1>1. loop.op = "fill" /\ Source!Idle /\ UNCHANGED source_vars /\ SourceOK
  BY DEF Merge, Begins, BatchInv
<1>2. ~Merging /\ loop.write = loop.read
  BY <1>1 DEF Merging, BatchInv, LoopInv, PhaseOK, FillOK
<1>3. SourceInv' /\ s_dedup' = FALSE /\ SourceLent'
  BY <1>1, <1>2, SourceIsLent
<1> QED
  BY <1>3 DEF SourceOK

(* A step of a batch that is no merge leaves the source alone. *)
LEMMA SourceIsAside ==
    ASSUME BatchInv, UNCHANGED source_vars,
           loop.op \notin {"merge", "merge_ahead"}, loop'.op \notin {"merge", "merge_ahead"}
    PROVE  SourceOK'
BY SourceWaits DEF BatchInv, Merging

(* A source that has lost elements is indexed again. *)
LEMMA SourceIsIndexed ==
    ASSUME BatchInv, Reindex
    PROVE  SourceOK'
<1>1. /\ loop.op = "reindex" /\ loop'.op \in {"reindex", "done"}
      /\ UNCHANGED source_vars \/ Source!FillStep
  BY DEF Reindex, Done, BatchInv, LoopInv, CalledOK
<1>2. SourceInv /\ s_dedup = FALSE /\ ~Merging /\ ~Merging' /\ SourceOK
  BY <1>1 DEF BatchInv, SourceOK, Merging
<1>3. CASE UNCHANGED source_vars
  BY <1>2, <1>3, SourceWaits
<1>4. CASE Source!FillStep
  <2>1. SourceInv' /\ s_dedup' = s_dedup
    BY <1>2, <1>4, SourceFills
  <2> QED
    BY <1>2, <2>1 DEF SourceOK
<1> QED
  BY <1>1, <1>3, <1>4
---------------------------------------------------------------------------
(* The theorems *)

(* Two empty tables, and nothing begun. *)
LEMMA BatchStarts == BatchInit => BatchInv /\ Init
<1> SUFFICES ASSUME BatchInit
             PROVE  BatchInv /\ Init
  OBVIOUS
<1>1. /\ Init /\ Source!Init /\ asked = <<>>
      /\ ring = [slot \in 0 .. Depth - 1 |-> NoKey]
      /\ call.values = <<>> /\ call.source = <<>> /\ call.kind \in Kinds
      /\ DOMAIN call = {"kind", "values", "source", "arg"}
      /\ loop = [op |-> "fill", read |-> 1, write |-> 1, look |-> 1, threw |-> {}]
  BY DEF BatchInit
<1>2. /\ loop \in [op : Ops, read : Nat, write : Nat, look : Nat, threw : SUBSET Element]
      /\ loop.op = "fill" /\ loop.read = 1 /\ loop.write = 1 /\ loop.look = 1
      /\ loop.threw = {}
  BY <1>1 DEF Ops
<1>3. CalledOK
  <2>1. call.values \in Seq(Element) /\ call.source \in Seq(Element)
    BY <1>1
  <2>2. 1 .. Len(call.values) = {} /\ 1 .. Len(call.source) = {}
    BY <1>1
  <2> QED
    BY <1>1, <1>2, <2>1, <2>2 DEF CalledOK, OneEach
<1>4. TableInv({0})
  BY <1>1, InitInv
<1>5. SourceInv
  BY <1>1, SourceStarts
<1>6. dedup = FALSE /\ m_values = <<>> /\ s_dedup = FALSE /\ s_values = <<>>
  BY <1>1 DEF Init, Source!Init
<1>7. TableOK /\ SourceOK
  BY <1>2, <1>4, <1>5, <1>6 DEF TableOK, SourceOK, Merging
<1>8. FillOK
  <2>1. 1 .. size = {} /\ 1 .. Len(s_values) = {} /\ s_values \in Seq(Element)
    BY <1>6 DEF size
  <2> QED
    BY <1>1, <1>2, <2>1 DEF FillOK, OneEach
<1>9. PhaseOK
  BY <1>2, <1>8 DEF PhaseOK, Merging
<1>10. BatchesAreExact
  BY <1>2 DEF BatchesAreExact, ErasesAreExact, RangesAreTaken, MergeKeepsElements, Finished
<1> QED
  BY <1>1, <1>3, <1>7, <1>9, <1>10 DEF BatchInv, LoopInv

(* A step of a batch keeps the invariant, and is a step of the table or    *)
(* none. *)
LEMMA BatchStep ==
    ASSUME BatchInv, [BatchNext]_batch_vars
    PROVE  BatchInv' /\ [Next]_vars
<1>1. LoopInv /\ SourceOK /\ CalledOK /\ DOMAIN loop = {"op", "read", "write", "look", "threw"}
  BY DEF BatchInv, LoopInv, CalledOK
<1>2. CASE UNCHANGED batch_vars \/ Stop
  <2>1. UNCHANGED batch_vars
    BY <1>2 DEF Stop
  <2>2. LoopInv' /\ UNCHANGED vars
    BY <1>1, <2>1, StutterKeeps DEF batch_vars
  <2>3. SourceOK'
    BY <1>1, <2>1, SourceWaits DEF batch_vars
  <2> QED
    BY <2>2, <2>3 DEF BatchInv
<1>3. CASE Fill
  BY <1>3, FillKeeps
<1>4. CASE Grow
  <2>1. LoopInv' /\ [Next]_vars
    BY <1>1, <1>4, GrowKeeps
  <2>2. SourceOK'
    BY <1>1, <1>4, SourceWaits DEF Grow
  <2> QED
    BY <2>1, <2>2 DEF BatchInv
<1>5. CASE (\E range \in Ranges : InsertRange(range)) \/ InsertRangeStep \/ InsertRangeEnd
  <2>1. LoopInv' /\ [Next]_vars
    BY <1>1, <1>5, InsertRangeKeeps, InsertRangeStepKeeps, InsertRangeEndKeeps
  <2>2. /\ loop.op \in {"fill", "insert"} /\ loop'.op \in {"insert", "done"}
        /\ UNCHANGED source_vars
    BY <1>1, <1>5 DEF InsertRange, Begins, InsertRangeStep, InsertRangeEnd, Done
  <2>3. SourceOK'
    BY <2>2, SourceIsAside
  <2> QED
    BY <2>1, <2>3 DEF BatchInv
<1>6. CASE (\E c \in Containers : Replace(c)) \/ KeepsAhead \/ DropsAhead \/ ReplaceTail
  <2>1. LoopInv' /\ [Next]_vars
    BY <1>1, <1>6, ReplaceStarts, KeepsAheadKeeps, DropsAheadKeepsIt, ReplaceTailKeeps
  <2>2. /\ loop.op \in {"fill", "replace", "replace_ahead"}
        /\ loop'.op \in {"replace", "replace_ahead", "done"}
        /\ UNCHANGED source_vars
    BY <1>1, <1>6 DEF Replace, Begins, KeepsAhead, DropsAhead, ReplaceTail, Done
  <2>3. SourceOK'
    BY <2>2, SourceIsAside
  <2> QED
    BY <2>1, <2>3 DEF BatchInv
<1>7. CASE \/ \E last \in 0 .. size : \E first \in 0 .. last : EraseRange(first, last)
           \/ EraseForward \/ EraseTurns \/ EraseBack
  <2>1. LoopInv' /\ [Next]_vars
    BY <1>1, <1>7, EraseRangeStarts, EraseForwardKeeps, EraseTurnsKeeps, EraseBackKeeps
  <2>2. /\ loop.op \in {"fill", "erase_forward", "erase_back"}
        /\ loop'.op \in {"erase_forward", "erase_back", "done"}
        /\ UNCHANGED source_vars
    BY <1>1, <1>7 DEF EraseRange, Begins, EraseForward, EraseTurns, EraseBack, Done
  <2>3. SourceOK'
    BY <2>2, SourceIsAside
  <2> QED
    BY <2>1, <2>3 DEF BatchInv
<1>8. CASE (\E keys \in SUBSET Key : EraseIf(keys)) \/ EraseIfStep
  <2>1. LoopInv' /\ [Next]_vars
    BY <1>1, <1>8, EraseIfStarts, EraseIfStepKeeps
  <2>2. /\ loop.op \in {"fill", "erase_if"} /\ loop'.op \in {"erase_if", "done"}
        /\ UNCHANGED source_vars
    BY <1>1, <1>8 DEF EraseIf, Begins, EraseIfStep, Done
  <2>3. SourceOK'
    BY <2>2, SourceIsAside
  <2> QED
    BY <2>1, <2>3 DEF BatchInv
<1>9. CASE Merge
  BY <1>1, <1>9, MergeStarts, MergeBegins DEF BatchInv
<1>10. CASE MergeStays \/ MergeTakes
  <2>1. LoopInv' /\ [Next]_vars /\ SourceWalks /\ Merging /\ Merging'
    BY <1>1, <1>10, MergeStaysKeeps, MergeTakesKeeps
  <2>2. SourceLent' /\ s_dedup' = FALSE
    BY <1>1, <2>1, LentStays DEF SourceOK, SourceWalks
  <2> QED
    BY <2>1, <2>2 DEF BatchInv, SourceOK
<1>11. CASE MergeEnds \/ MergeThrows
  <2>1. LoopInv' /\ [Next]_vars /\ SourceShrinks /\ Merging /\ ~Merging'
    BY <1>1, <1>11, MergeEndsKeeps, MergeThrowIsKept
  <2>2. s_values \in Seq(Element)
    BY <1>1, <2>1 DEF LoopInv, PhaseOK, MergeOK
  <2>3. SourceOK'
    BY <1>1, <2>1, <2>2, SourceReturns
  <2> QED
    BY <2>1, <2>3 DEF BatchInv
<1>12. CASE Reindex
  BY <1>1, <1>12, ReindexKeeps, SourceIsIndexed DEF BatchInv
<1> QED
  BY <1>2, <1>3, <1>4, <1>5, <1>6, <1>7, <1>8, <1>9, <1>10, <1>11, <1>12 DEF BatchNext

(* In every state of a batch both tables are tables in order, the source   *)
(* in the middle of a merge excepted, and the loop has done what it has    *)
(* come by.  (insert, replace, erase, erase_if, merge.) *)
THEOREM BatchInvariant == BatchSpec => []BatchInv
<1>1. BatchInit => BatchInv
  BY BatchStarts
<1>2. BatchInv /\ [BatchNext]_batch_vars => BatchInv'
  BY BatchStep
<1> QED
  BY <1>1, <1>2, PTL DEF BatchSpec

(* A batch is nothing but single steps of the table: what a table promises *)
(* of them holds in the middle of a batch, too. *)
THEOREM BatchIsSingleSteps == BatchSpec => Spec
<1>1. BatchInit => Init
  BY BatchStarts
<1>2. BatchInv /\ [BatchNext]_batch_vars => [Next]_vars
  BY BatchStep
<1> QED
  BY <1>1, <1>2, BatchInvariant, PTL DEF BatchSpec, Spec

(* Each of the two tables finds just the values it has. *)
LEMMA InvFinds == BatchInv => BothTablesFind
<1> SUFFICES ASSUME BatchInv
             PROVE  BothTablesFind
  OBVIOUS
<1>1. TableInv({0})
  BY DEF BatchInv, LoopInv, TableOK
<1>2. TypeOK /\ IndexExact /\ CountersExact /\ LookupsAgree
  BY <1>1, InvTypeOK, InvIndex, InvCounters, InvLookups
<1>3. Merging => Source!TypeOK
  BY SameTypeOK DEF BatchInv, SourceOK, SourceLent
<1>4. ~Merging => /\ Source!TypeOK /\ Source!IndexExact /\ Source!CountersExact
                  /\ Source!LookupsAgree
  BY SourceSays DEF BatchInv, SourceOK
<1> QED
  BY <1>2, <1>3, <1>4 DEF BothTablesFind, Merging

(* Each element of a batch is placed by its own hash, whatever slots the   *)
(* look-ahead keeps them in, and in the middle of a batch and after one,   *)
(* also after one that threw, each table finds exactly the values it has.  *)
(* (do_insert_range, do_replace_pipelined, do_merge.) *)
THEOREM BatchesAlwaysIndex == BatchSpec => []BatchesIndex
<1>1. BatchInv => BatchesIndex
  BY InvHashes, InvFinds DEF BatchesIndex, BatchInv
<1> QED
  BY <1>1, BatchInvariant, PTL

(* A batch that is over has done just what it was called for, also one     *)
(* that threw: no element is lost, duplicated or taken by mistake.         *)
(* (insert, replace, erase, erase_if, do_merge.) *)
THEOREM BatchesAlwaysExact == BatchSpec => []BatchesAreExact
<1>1. BatchInv => BatchesAreExact
  BY DEF BatchInv, LoopInv
<1> QED
  BY <1>1, BatchInvariant, PTL
=============================================================================
