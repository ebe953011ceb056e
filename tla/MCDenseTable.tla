---------------------------- MODULE MCDenseTable ----------------------------
(***************************************************************************)
(* Small instances of DenseTable for TLC.  Keys and values are numbers, so *)
(* that a hash can be written as a sequence.                               *)
(***************************************************************************)
EXTENDS DenseTable, TLC

(* Two groups of two slots that grow to four groups.  Hashes of 4 bits:    *)
(* the upper ones are the home, the lower two the fingerprint, of which 0  *)
(* and 2 share a counter.  Keys 1, 2, 3 and 5 share their home in the      *)
(* smallest array, and 2 and 5 are equal in every bit of their hash.       *)
PairsHash == <<1, 3, 4, 12, 3>>

(* Two groups of one slot that grow to four, which is fewer than there are *)
(* keys: the largest array is filled to its last slot and an insert then   *)
(* fails.  Keys 1 and 2, and 3 and 4, share their home in four groups, and *)
(* all of them in two. *)
SinglesHash == <<1, 3, 4, 5, 15>>

(* Two groups of one slot that grow to four; all homes are the same. *)
MapHash == <<1, 3, 2>>

(* A container with these keys; values alternate. *)
WithKeys(keys) == [i \in DOMAIN keys |->
                     [key |-> keys[i], val |-> 1 + (i % Cardinality(Value))]]

SinglesContainers == {<<>>, WithKeys(<<1, 2, 1, 4>>)}
MapContainers     == {<<>>, WithKeys(<<1, 1, 2, 3>>), WithKeys(<<2, 1, 1, 2>>)}
=============================================================================
