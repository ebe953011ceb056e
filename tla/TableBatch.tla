----------------------------- MODULE TableBatch -----------------------------
(***************************************************************************)
(* The operations of detail::table that take many elements at a time:      *)
(* insert(first, last), replace(container) with its look-ahead,            *)
(* erase(first, last), std::erase_if and merge(source).  One step is one   *)
(* element of their loops; the steps are those of DenseTable.  The source  *)
(* of a merge is a table of its own, which hashes differently.             *)
(*                                                                         *)
(* A behaviour fills its tables by single inserts and erases, and ends     *)
(* with one batch.  What may throw is the hash of a merge, the comparison  *)
(* of keys, the append of an element and the allocation of a larger array; *)
(* moving an element and indexing an array again do not.                   *)
(***************************************************************************)
EXTENDS DenseTable

CONSTANTS
    SourceHash,     \* the hash of the source of a merge
    Depth,          \* pipeline_depth                              (16)
    NoKey,
    Ranges,         \* what insert(first, last) is called with
    MaxElements     \* bound: elements in a table before its batch, by its kind,
                    \* and in the source of a merge

(* What the tables and the look-ahead rely on: the source's hash is one    *)
(* for its arrays, too, and the first fill gives the two tables' elements  *)
(* different values. *)
ASSUME BatchAssumption ==
    /\ Depth \in Nat \ {0}
    /\ {1, 2} \subseteq Value
    /\ Ranges \subseteq Seq(Element)
    /\ SourceHash \in [Key -> 0 .. 2^HashBits - 1]
    /\ \A s \in ArrayShifts, k \in Key :
         group_idx_from_hash(SourceHash[k], s) \in 0 .. calc_num_groups(s) - 1
    /\ \A k \in Key : LET fp == fingerprint_word(SourceHash[k])
                       IN  fp \in Nat \ {0} /\ CounterOf(fp) \in Counter

VARIABLES
    s_values, s_buckets, s_capacity, s_load, s_shifts, s_indexed, s_dedup,
    loop,           \* the loop that runs: op, and its cursors
    ring,           \* the key whose hash each slot of the look-ahead holds
    call,           \* what the batch was called on and with, to refer to
    asked           \* what the predicate of erase_if was asked about, so far

source_vars == <<s_values, s_buckets, s_capacity, s_load, s_shifts, s_indexed, s_dedup>>
batch_vars  == <<vars, source_vars, loop, ring, call, asked>>

Source == INSTANCE DenseTable WITH
            Hash <- SourceHash, m_values <- s_values, m_buckets <- s_buckets,
            m_max_bucket_capacity <- s_capacity, m_max_load_factor <- s_load,
            m_shifts <- s_shifts, indexed <- s_indexed, dedup <- s_dedup

Kinds == {"insert", "replace", "erase_range", "erase_if", "merge"}

BatchInit ==
    /\ Init /\ Source!Init
    /\ ring = [slot \in 0 .. Depth - 1 |-> NoKey]
    /\ asked = <<>>
    /\ \E kind \in Kinds :
         /\ call = [kind |-> kind, values |-> <<>>, source |-> <<>>, arg |-> {}]
         /\ loop = [op |-> "fill", read |-> 1, write |-> 1, look |-> 1, threw |-> {}]

---------------------------------------------------------------------------
(* Before the batch *)

Fill ==
    /\ loop.op = "fill"
    /\ \/ /\ \/ \E k \in Key : /\ size < MaxElements[call.kind]
                               /\ InsertPlaces(k, 1) \/ InsertGrows(k, 1)
             \/ \E k \in Key : call.kind \in {"erase_range", "erase_if"} /\ EraseKey(k)
             \/ FillStep
          /\ UNCHANGED source_vars
       \/ /\ call.kind = "merge" /\ Idle
          /\ \/ \E k \in Key : /\ Source!size < MaxElements.source
                               /\ Source!InsertPlaces(k, 2) \/ Source!InsertGrows(k, 2)
             \/ Source!FillStep
          /\ UNCHANGED vars
    /\ UNCHANGED <<loop, ring, call, asked>>

Begins(kind, arg) ==
    /\ loop.op = "fill" /\ call.kind = kind
    /\ Idle /\ Source!Idle
    /\ call' = [call EXCEPT !.values = m_values, !.source = s_values, !.arg = arg]
    /\ UNCHANGED asked

(* allocate_buckets_if_none() *)
allocate_buckets_if_none ==
    /\ m_buckets' = WritableBlocks
    /\ m_max_bucket_capacity' = WritableCapacity
    /\ UNCHANGED <<m_values, m_max_load_factor, m_shifts, indexed, dedup>>

(* The first keys are hashed before the loop starts. *)
Primed(elements) ==
    [slot \in 0 .. Depth - 1 |->
       IF slot < Len(elements) THEN elements[slot + 1].key ELSE NoKey]

PastPrimed(elements) == (IF Depth < Len(elements) THEN Depth ELSE Len(elements)) + 1

SlotOf(position) == (position - 1) % Depth

(* An element's hash is taken out of the ring, and its slot gets the one   *)
(* that many elements on. *)
Refills(elements) ==
    /\ ring' = IF loop.look <= Len(elements)
               THEN [ring EXCEPT ![SlotOf(loop.read)] = elements[loop.look].key]
               ELSE ring

Looked(elements) == IF loop.look <= Len(elements) THEN loop.look + 1 ELSE loop.look

Done == loop' = [loop EXCEPT !.op = "done"]

---------------------------------------------------------------------------
(* insert(first, last) *)

InsertRange(range) ==
    /\ Begins("insert", range)
    /\ IF range = <<>> THEN UNCHANGED <<vars, ring>> /\ Done
       ELSE /\ allocate_buckets_if_none
            /\ ring' = Primed(range)
            /\ loop' = [loop EXCEPT !.op = "insert", !.look = PastPrimed(range)]
    /\ UNCHANGED source_vars

InsertRangeStep ==
    /\ loop.op = "insert" /\ Idle
    /\ loop.read <= Len(call.arg)
    /\ LET e == call.arg[loop.read]
       IN  \/ /\ InsertPlaces(e.key, e.val) \/ InsertGrows(e.key, e.val) \/ InsertFinds(e.key)
              /\ loop' = [loop EXCEPT !.read = @ + 1, !.look = Looked(call.arg)]
           \/ /\ InsertThrows(e.key)
              /\ loop' = [loop EXCEPT !.op = "done", !.threw = {e}]
    /\ Refills(call.arg)
    /\ UNCHANGED <<source_vars, call, asked>>

InsertRangeEnd ==
    /\ loop.op = "insert" /\ Idle
    /\ loop.read > Len(call.arg)
    /\ Done
    /\ UNCHANGED <<vars, source_vars, ring, call, asked>>

---------------------------------------------------------------------------
(* replace(container), with the look-ahead where the container is longer   *)
(* than that and the index is large. *)

Replace(container) ==
    /\ Begins("replace", container)
    /\ replace(container, FALSE)
    /\ \/ /\ Len(container) > Depth + 1
          /\ ring' = Primed(container)
          /\ loop' = [loop EXCEPT !.op = "replace_ahead", !.look = Depth + 1]
       \/ /\ loop' = [loop EXCEPT !.op = "replace"]
          /\ UNCHANGED ring
    /\ UNCHANGED source_vars

(* A slip: the slot of a duplicate keeps the hash of the element that left. *)
DropsAheadKeeps ==
    /\ loop.op = "replace_ahead"
    /\ size > indexed + Depth + 1
    /\ ReplaceDrops
    /\ UNCHANGED <<source_vars, loop, ring, call, asked>>

(* do_replace_pipelined: a duplicate's place is taken by the last value,   *)
(* which the window does not reach, and its slot by that one's hash. *)
DropsAhead ==
    /\ loop.op = "replace_ahead"
    /\ size > indexed + Depth + 1
    /\ ReplaceDrops
    /\ ring' = [ring EXCEPT ![SlotOf(indexed + 1)] = m_values'[indexed + 1].key]
    /\ UNCHANGED <<source_vars, loop, call, asked>>

KeepsAhead ==
    /\ loop.op = "replace_ahead"
    /\ size > indexed + Depth + 1
    /\ ReplaceKeeps
    /\ ring' = [ring EXCEPT ![SlotOf(indexed + 1)] = m_values[loop.look].key]
    /\ loop' = [loop EXCEPT !.look = @ + 1]
    /\ UNCHANGED <<source_vars, call, asked>>

ReplaceTail ==
    /\ loop.op = "replace" \/ (loop.op = "replace_ahead" /\ size <= indexed + Depth + 1)
    /\ \/ /\ ~Idle
          /\ ReplaceKeeps \/ ReplaceDrops
          /\ loop' = [loop EXCEPT !.op = "replace"]
       \/ Idle /\ Done /\ UNCHANGED vars
    /\ UNCHANGED <<source_vars, ring, call, asked>>

---------------------------------------------------------------------------
(* erase(first, last), of the positions first + 1 .. last *)

EraseRange(first, last) ==
    LET behind == size - last
        taken  == last - first
    IN  /\ Begins("erase_range", <<first, last>>)
        /\ loop' = [loop EXCEPT !.op = "erase_forward", !.read = first,
                                !.write = first + (IF taken < behind THEN taken ELSE behind)]
        /\ UNCHANGED <<vars, source_vars, ring>>

(* From the left as long as values from behind the range move in ... *)
EraseForward ==
    /\ loop.op = "erase_forward" /\ loop.read # loop.write
    /\ EraseAt(loop.read + 1)
    /\ loop' = [loop EXCEPT !.read = @ + 1]
    /\ UNCHANGED <<source_vars, ring, call, asked>>

EraseTurns ==
    /\ loop.op = "erase_forward" /\ loop.read = loop.write
    /\ loop' = [loop EXCEPT !.op = "erase_back", !.read = call.arg[2]]
    /\ UNCHANGED <<vars, source_vars, ring, call, asked>>

(* ... and the rest, which is last by now, from the right. *)
EraseBack ==
    /\ loop.op = "erase_back"
    /\ IF loop.read # loop.write
       THEN EraseAt(loop.read) /\ loop' = [loop EXCEPT !.read = @ - 1]
       ELSE UNCHANGED vars /\ Done
    /\ UNCHANGED <<source_vars, ring, call, asked>>

---------------------------------------------------------------------------
(* std::erase_if, with a predicate that is true of these keys *)

EraseIf(keys) ==
    /\ Begins("erase_if", keys)
    /\ loop' = [loop EXCEPT !.op = "erase_if", !.read = size]
    /\ UNCHANGED <<vars, source_vars, ring>>

(* A slip: front to back, past the last value that has just moved in. *)
EraseIfForward ==
    LET at == Len(call.values) + 1 - loop.read IN
    /\ loop.op = "erase_if"
    /\ IF loop.read # 0 /\ at <= size
       THEN /\ IF m_values[at].key \in call.arg THEN EraseAt(at) ELSE UNCHANGED vars
            /\ asked' = Append(asked, m_values[at])
            /\ loop' = [loop EXCEPT !.read = @ - 1]
       ELSE UNCHANGED <<vars, asked>> /\ Done
    /\ UNCHANGED <<source_vars, ring, call>>

EraseIfStep ==
    /\ loop.op = "erase_if"
    /\ IF loop.read # 0
       THEN /\ IF m_values[loop.read].key \in call.arg THEN EraseAt(loop.read)
                                                       ELSE UNCHANGED vars
            /\ asked' = Append(asked, m_values[loop.read])
            /\ loop' = [loop EXCEPT !.read = @ - 1]
       ELSE UNCHANGED <<vars, asked>> /\ Done
    /\ UNCHANGED <<source_vars, ring, call>>

---------------------------------------------------------------------------
(* merge(source).  read is the first element the source still owns, write  *)
(* is where the next one that stays goes. *)

Merge ==
    /\ Begins("merge", {})
    /\ \/ s_values = <<>> /\ UNCHANGED <<vars, ring>> /\ Done
       \/ /\ s_values # <<>>
          /\ allocate_buckets_if_none
          /\ \/ /\ ring' = Primed(s_values)
                /\ loop' = [loop EXCEPT !.op = "merge_ahead", !.look = PastPrimed(s_values)]
             \/ /\ loop' = [loop EXCEPT !.op = "merge"]
                /\ UNCHANGED ring
             \/ Done /\ UNCHANGED ring    \* a hash threw: nothing has moved yet
    /\ UNCHANGED source_vars

Walking == loop.op \in {"merge", "merge_ahead"} /\ Idle
AtHand  == s_values[loop.read]

Steps(fields) ==
    IF loop.op = "merge_ahead"
    THEN loop' = [fields EXCEPT !.look = Looked(s_values)] /\ Refills(s_values)
    ELSE loop' = fields /\ UNCHANGED ring

MergeStays ==
    /\ Walking /\ loop.read <= Source!size
    /\ InsertFinds(AtHand.key)
    /\ s_values' = IF loop.write = loop.read THEN s_values
                   ELSE [s_values EXCEPT ![loop.write] = AtHand]
    /\ Steps([loop EXCEPT !.read = @ + 1, !.write = @ + 1])
    /\ UNCHANGED <<s_buckets, s_capacity, s_load, s_shifts, s_indexed, s_dedup, call, asked>>

MergeTakes ==
    /\ Walking /\ loop.read <= Source!size
    /\ InsertPlaces(AtHand.key, AtHand.val) \/ InsertGrows(AtHand.key, AtHand.val)
    /\ Steps([loop EXCEPT !.read = @ + 1])
    /\ UNCHANGED <<source_vars, call, asked>>

(* drop_tail_and_reindex, after compact_and_reindex has closed the gap: an *)
(* index that still describes its values is left alone. *)
Leaves(left) ==
    /\ s_values' = left
    /\ IF Len(left) = Source!size
       THEN UNCHANGED <<s_buckets, s_capacity, s_shifts, s_indexed>>
       ELSE Source!clear_buckets /\ s_indexed' = 0
    /\ UNCHANGED <<s_load, s_dedup, ring, call, asked>>

Stayed     == SubSeq(s_values, 1, loop.write - 1)
Rest(from) == SubSeq(s_values, from, Source!size)

MergeEnds ==
    /\ Walking /\ loop.read > Source!size
    /\ Leaves(Stayed)
    /\ loop' = [loop EXCEPT !.op = "reindex"]
    /\ UNCHANGED vars

(* A slip: the source keeps the element it was handing over. *)
MergeThrowsKeeps ==
    /\ Walking /\ loop.read <= Source!size
    /\ \/ UNCHANGED vars /\ loop' = [loop EXCEPT !.op = "reindex"]
       \/ /\ InsertPlaces(AtHand.key, AtHand.val)
          /\ loop' = [loop EXCEPT !.op = "reindex", !.threw = {AtHand}]
    /\ Leaves(Stayed \o Rest(loop.read))

(* A throw out of the probe leaves the element at hand to the source; one  *)
(* out of the placement leaves a husk, which the source drops. *)
MergeThrows ==
    /\ Walking /\ loop.read <= Source!size
    /\ \/ /\ Leaves(Stayed \o Rest(loop.read))
          /\ UNCHANGED vars
          /\ loop' = [loop EXCEPT !.op = "reindex"]
       \/ /\ InsertThrows(AtHand.key)
          /\ Leaves(Stayed \o Rest(loop.read + 1))
          /\ loop' = [loop EXCEPT !.op = "reindex", !.threw = {AtHand}]

Reindex ==
    /\ loop.op = "reindex"
    /\ IF Source!Idle THEN Done /\ UNCHANGED source_vars
       ELSE Source!FillStep /\ UNCHANGED loop
    /\ UNCHANGED <<vars, ring, call, asked>>

---------------------------------------------------------------------------
(* An array that grew during a batch is filled before the next element. *)
Grow ==
    /\ loop.op \in {"insert", "merge", "merge_ahead"}
    /\ FillStep
    /\ UNCHANGED <<source_vars, loop, ring, call, asked>>

Stop == loop.op = "done" /\ UNCHANGED batch_vars

BatchNext ==
    \/ Fill \/ Grow \/ Stop
    \/ (\E range \in Ranges : InsertRange(range)) \/ InsertRangeStep \/ InsertRangeEnd
    \/ (\E c \in Containers : Replace(c)) \/ KeepsAhead \/ DropsAhead \/ ReplaceTail
    \/ (\E last \in 0 .. size : \E first \in 0 .. last : EraseRange(first, last))
    \/ EraseForward \/ EraseTurns \/ EraseBack
    \/ (\E keys \in SUBSET Key : EraseIf(keys)) \/ EraseIfStep
    \/ Merge \/ MergeStays \/ MergeTakes \/ MergeEnds \/ MergeThrows \/ Reindex

BatchSpec == BatchInit /\ [][BatchNext]_batch_vars

---------------------------------------------------------------------------
(* Properties *)

Finished(kind) == loop.op = "done" /\ call.kind = kind

(* Whenever a look-ahead gives out a hash, it is that of the element at    *)
(* hand: "getting that backwards returns a wrong answer rather than        *)
(* crashing" (do_insert_range, do_replace_pipelined, do_merge). *)
HashIsItsElements ==
    /\ loop.op = "insert" /\ loop.read <= Len(call.arg) =>
         ring[SlotOf(loop.read)] = call.arg[loop.read].key
    /\ loop.op = "replace_ahead" /\ size > indexed + Depth + 1 =>
         ring[SlotOf(indexed + 1)] = NextValue.key
    /\ loop.op = "merge_ahead" /\ loop.read <= Source!size =>
         ring[SlotOf(loop.read)] = AtHand.key

(* In the middle of a batch and after it, also after one that threw, each  *)
(* table finds exactly the values it has; a source in the middle of a      *)
(* merge excepted, which nobody can look into. *)
BothTablesFind ==
    loop.op # "fill" =>
      /\ TypeOK /\ IndexExact /\ CountersExact /\ LookupsAgree
      /\ Source!TypeOK
      /\ loop.op \notin {"merge", "merge_ahead"} =>
           Source!IndexExact /\ Source!CountersExact /\ Source!LookupsAgree

Holding(values) == {values[p] : p \in DOMAIN values}
KeysOf(values)  == {values[p].key : p \in DOMAIN values}
FirstOfEachKey(range) ==
    {range[i] : i \in {j \in DOMAIN range : range[j].key \notin KeysOf(SubSeq(range, 1, j - 1))}}

(* erase(first, last) takes the elements of its range, leaves those before *)
(* it in their places, and a caller who goes on from what it returns meets *)
(* each of those behind it.  erase_if asks once about each element and     *)
(* takes those its predicate is true of. *)
ErasesAreExact ==
    /\ Finished("erase_range") =>
         LET first == call.arg[1]
             last  == call.arg[2]
         IN  /\ SubSeq(m_values, 1, first) = SubSeq(call.values, 1, first)
             /\ Holding(SubSeq(m_values, first + 1, size))
                  = Holding(SubSeq(call.values, last + 1, Len(call.values)))
    /\ Finished("erase_if") =>
         /\ Holding(m_values) = {e \in Holding(call.values) : e.key \notin call.arg}
         /\ Len(asked) = Len(call.values) /\ Holding(asked) = Holding(call.values)

(* An inserted range, up to where it threw, adds the first element of each *)
(* key that was absent and changes no other; a replaced container is there *)
(* with every key it had, once. *)
RangesAreTaken ==
    /\ Finished("insert") =>
         LET range == IF loop.threw = {} THEN call.arg ELSE SubSeq(call.arg, 1, loop.read - 1)
         IN  Holding(m_values) = Holding(call.values)
               \cup {e \in FirstOfEachKey(range) : e.key \notin KeysOf(call.values)}
    /\ Finished("replace") =>
         /\ KeysOf(m_values) = KeysOf(call.arg) /\ Holding(m_values) \subseteq Holding(call.arg)
         /\ Cardinality(KeysOf(m_values)) = size

(* merge moves the elements whose keys are absent and leaves the others,   *)
(* in their order; if it throws, each element is still in one of the two   *)
(* tables and in one only, but for the one that was being placed. *)
EachInOneTable ==
    LET absent == {e \in Holding(call.source) : e.key \notin KeysOf(call.values)}
    IN  /\ Holding(call.values) \subseteq Holding(m_values)
        /\ Holding(m_values) \cup Holding(s_values) \cup loop.threw
             = Holding(call.values) \cup Holding(call.source)
        /\ Holding(m_values) \cap Holding(s_values) = {}
        /\ loop.threw \cap (Holding(m_values) \cup Holding(s_values)) = {}
        /\ loop.threw = {} /\ loop.read > Len(call.source) =>
             Holding(s_values) = Holding(call.source) \ absent

InTheirOrder ==
    \A p, q \in DOMAIN s_values, i, j \in DOMAIN call.source :
      p < q /\ s_values[p] = call.source[i] /\ s_values[q] = call.source[j] => i < j

MergeKeepsElements == Finished("merge") => EachInOneTable /\ InTheirOrder

(* Each element of a batch is placed by its own hash, and in the middle of *)
(* it and after a throw each table finds exactly the values it has.        *)
(* (do_insert_range, do_replace_pipelined, do_merge.) *)
BatchesIndex == HashIsItsElements /\ BothTablesFind

(* A range erased, inserted or put in place of a table is that range,      *)
(* erase_if asks about each element once, and a merge keeps every element  *)
(* in one table or the other, also if it throws, but for the one it was    *)
(* placing.  (erase, erase_if, insert, do_merge.) *)
BatchesAreExact == ErasesAreExact /\ RangesAreTaken /\ MergeKeepsElements
=============================================================================
