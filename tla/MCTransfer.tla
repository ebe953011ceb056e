----------------------------- MODULE MCTransfer -----------------------------
(***************************************************************************)
(* Operations on whole tables for TLC: TableTransfer with allocators that  *)
(* never propagate, like std::pmr::polymorphic_allocator, and with those   *)
(* that follow a copy assignment and a swap; a value container in blocks,  *)
(* SegmentedVector, with such allocators and with those that follow a move *)
(* assignment as well; and a debugger that shows what such a container     *)
(* holds, LldbFormatter.  They share no state, and each behaviour is of    *)
(* one of them.                                                            *)
(***************************************************************************)
EXTENDS MCTableTransfer, Sequences

VARIABLE part    \* which of them a behaviour is of: constant

VARIABLES seg_alive, vec, handed, undestroyed, promised
VARIABLES table, storage, names, made, kept, stops

Follows == INSTANCE TableTransfer WITH Pocca <- TRUE, Pocs <- TRUE

(* Blocks of two elements, up to three elements of two kinds.              *)
Sticks == INSTANCE SegmentedVector WITH
            Vec <- Table, Elem <- {"x", "y"}, Block <- 2, MaxSize <- 3,
            Pocca <- FALSE, Pocma <- FALSE, Pocs <- FALSE, ConstructorsThrow <- FALSE,
            alive <- seg_alive
Goes   == INSTANCE SegmentedVector WITH
            Vec <- Table, Elem <- {"x", "y"}, Block <- 2, MaxSize <- 3,
            Pocca <- TRUE, Pocma <- TRUE, Pocs <- TRUE, ConstructorsThrow <- FALSE,
            alive <- seg_alive

seg_vars == <<seg_alive, vec, handed, undestroyed, promised>>

seg_off == /\ seg_alive = "off" /\ vec = "off" /\ handed = "off"
           /\ undestroyed = "off" /\ promised = "off"

Rendering(quoted, text) == [quoted |-> quoted, text |-> text]

(* Strings and scalars: one that is cut to the name of another, digits with *)
(* and without a suffix, a bracket, an unprintable character, an enumerator. *)
Renderings ==
    {Rendering(TRUE, <<"a", "b">>), Rendering(TRUE, <<"a", "b", "c">>),
     Rendering(TRUE, <<"]">>), Rendering(TRUE, <<"a", "~">>),
     Rendering(FALSE, <<"7", "L">>), Rendering(FALSE, <<"7">>),
     Rendering(FALSE, <<"a", "L">>), Rendering(FALSE, <<"a">>)}

(* Digits, a name and one that is cut to it: enough to see children go stale. *)
FewRenderings == {Rendering(TRUE, <<"a", "b">>), Rendering(TRUE, <<"a", "b", "c">>),
                  Rendering(FALSE, <<"7">>)}

(* Up to three elements: eight keys at one stop, three while the program   *)
(* goes on twice. *)
Shown  == INSTANCE LldbFormatter WITH
            Keys <- Renderings, MaxElements <- 3, MaxKeyNameLen <- 2, ElementSize <- 2,
            DefaultBytes <- 8, SegmentBytes <- {1, 5, 8}, TypeNameTold <- TRUE, Stops <- 0
Onward == INSTANCE LldbFormatter WITH
            Keys <- FewRenderings, MaxElements <- 3, MaxKeyNameLen <- 2, ElementSize <- 2,
            DefaultBytes <- 8, SegmentBytes <- {1, 5, 8}, TypeNameTold <- TRUE, Stops <- 2

shown_off == table = "off" /\ storage = "off" /\ names = {} /\ made = {} /\ kept = "off" /\ stops = 0

shown_vars == <<table, storage, names, made, kept, stops>>

ASSUME Sticks!SegmentsAssumption

MCInit == \/ part = "stays" /\ Init /\ seg_off /\ shown_off
          \/ part = "follows" /\ Follows!Init /\ seg_off /\ shown_off
          \/ part \in {"sticks", "goes"} /\ Sticks!Init /\ Init /\ shown_off
          \/ part = "shown" /\ Shown!Init /\ Init /\ seg_off
          \/ part = "stops" /\ Onward!Init /\ Init /\ seg_off

(* A debugger stays where it is when it has asked for all children. *)
Rests == UNCHANGED shown_vars

MCNext == /\ UNCHANGED part
          /\ \/ part = "stays" /\ Next /\ UNCHANGED <<seg_vars, shown_vars>>
             \/ part = "follows" /\ Follows!Next /\ UNCHANGED <<seg_vars, shown_vars>>
             \/ part = "sticks" /\ Sticks!Next /\ UNCHANGED <<vars, shown_vars>>
             \/ part = "goes" /\ Goes!Next /\ UNCHANGED <<vars, shown_vars>>
             \/ part = "shown" /\ (Shown!Next \/ Rests) /\ UNCHANGED <<vars, seg_vars>>
             \/ part = "stops" /\ (Onward!Next \/ Rests) /\ UNCHANGED <<vars, seg_vars>>

MCSpec == MCInit /\ [][MCNext]_<<vars, seg_vars, shown_vars, part>>

(* A value container in blocks holds what a std::vector would, destroys    *)
(* each element once, and its blocks go back to the allocator that made    *)
(* them, also after an assignment or a resize that threw.                  *)
(* (segmented_vector.) *)
SegmentsHold ==
    part \in {"sticks", "goes"} => /\ Sticks!BlocksAccountedFor
                                   /\ Sticks!ElementsAccountedFor
                                   /\ Sticks!HoldsWhatItShould

(* In whatever order children are asked for, each that was made at this stop *)
(* is the element of its index, and its name leads back to it and to no    *)
(* other.  (get_child_at_index, _claims, address_of.) *)
ChildrenLeadBack ==
    part \in {"shown", "stops"} => Shown!ChildrenAreElements /\ Shown!NamesLeadBack
=============================================================================
