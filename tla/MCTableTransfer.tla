--------------------------- MODULE MCTableTransfer ---------------------------
(***************************************************************************)
(* Instances of TableTransfer for TLC: two tables, two allocators, an      *)
(* array for each table and one more.  Arrays have two groups or four, the *)
(* largest.  The cfg gives the allocators' traits.                         *)
(***************************************************************************)
EXTENDS TableTransfer, TLC

(* Arrays and allocators are chosen by CHOOSE and are not interchangeable. *)
Symmetry == Permutations(Table) \cup Permutations(Elem)
=============================================================================
