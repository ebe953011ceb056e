---------------------------- MODULE MCTablePairs ----------------------------
(***************************************************************************)
(* A table whose groups have pairs of slots, for TLC, by single operations *)
(* (DenseTable) and by one that takes many elements (TableBatch); and an   *)
(* index that is loaded from outside (IndexLoad), which shares no state    *)
(* with it.  Each behaviour is of one of the three.                        *)
(***************************************************************************)
EXTENDS MCIndexLoad, TableBatch

Numbered(keys) == [i \in DOMAIN keys |-> [key |-> keys[i], val |-> 2 + (i % 2)]]
UpTo(keys, n) == UNION {[1 .. m -> keys] : m \in 0 .. n}

(* All ranges of up to three elements and containers of up to four, and    *)
(* those of six with two keys, where the look-ahead goes on after a        *)
(* duplicate.  The source of a merge hashes the keys differently.          *)
MCSourceHash  == <<15, 2, 6, 1, 4>>
MCRanges      == {Numbered(keys) : keys \in UpTo(1 .. 3, 3)}
MCContainers  == {Numbered(keys) : keys \in UpTo(1 .. 3, 4) \cup [1 .. 6 -> 1 .. 2]}
MCMaxElements == [insert |-> 2, replace |-> 0, erase_range |-> 4, erase_if |-> 4,
                   merge |-> 2, source |-> 3]

(* The single operations, of elements that differ in their keys only. *)
Single == INSTANCE DenseTable WITH
            Value <- {1}, Containers <- {Elements(<<1, 1, 2, 3, 2>>), Elements(<<4, 3, 3>>)}

(* Batches of four of the keys. *)
Batch == INSTANCE TableBatch WITH Key <- 1 .. 4

VARIABLES part,    \* which of them a behaviour is of: constant
          l_values, l_buckets, l_capacity, l_load, l_shifts, l_indexed, l_dedup

(* Three keys and a load factor of half the slots; the numbers of the      *)
(* index are those of the table. *)
Loaded == INSTANCE IndexLoad WITH
            Key <- {2, 4, 5}, Value <- {1}, DefaultLoadFactor <- 50, LoadFactors <- {100}, Sizes <- {0, 5},
            Containers <- {}, Bytes <- MCBytes, Spots <- 2,
            m_values <- l_values, m_buckets <- l_buckets, m_max_bucket_capacity <- l_capacity,
            m_max_load_factor <- l_load, m_shifts <- l_shifts, indexed <- l_indexed,
            dedup <- l_dedup

load_off == /\ l_values = "off" /\ l_buckets = "off" /\ l_capacity = "off" /\ l_load = "off"
            /\ l_shifts = "off" /\ l_indexed = "off" /\ l_dedup = "off"
            /\ offered = "off" /\ kind = "off" /\ trusted = "off" /\ confirmed = "off"

loaded_vars == <<l_values, l_buckets, l_capacity, l_load, l_shifts, l_indexed, l_dedup,
                 offered, kind, trusted, confirmed>>

(* A table no batch was called on yet. *)
table_off == BatchInit /\ call.kind = "insert"
many_vars == <<source_vars, loop, ring, call, asked>>

MCInit == \/ part = "table" /\ table_off /\ load_off
          \/ part = "batch" /\ Batch!BatchInit /\ load_off
          \/ part = "load"  /\ table_off /\ Loaded!LoadInit

MCNext == /\ UNCHANGED part
          /\ \/ part = "table" /\ Single!Next /\ UNCHANGED <<many_vars, loaded_vars>>
             \/ part = "batch" /\ Batch!BatchNext /\ UNCHANGED loaded_vars
             \/ part = "load"  /\ Loaded!LoadNext /\ UNCHANGED batch_vars

MCSpec == MCInit /\ [][MCNext]_<<part, batch_vars, loaded_vars>>

(* An index from outside that passed the check stays safe through every    *)
(* operation, right or wrong; one that verify(full) confirms is right; and *)
(* it stays right if no counter was too low.  (load_index, verify.) *)
LoadedIndexHolds ==
    part = "load" => /\ Loaded!CheckedStaysSafe
                     /\ Loaded!VerifyProves
                     /\ Loaded!HighCountersAreHarmless
=============================================================================
