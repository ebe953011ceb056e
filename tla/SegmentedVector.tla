--------------------------- MODULE SegmentedVector ---------------------------
(***************************************************************************)
(* segmented_vector, the value container of segmented_map and -_set: its   *)
(* elements live in blocks of equal size that are never moved; several of  *)
(* them are constructed, copied, moved, swapped and destroyed, and any     *)
(* allocation and any copy or move of an element may throw.                *)
(*                                                                         *)
(* The cells of a vector's blocks are one sequence, as operator[] sees     *)
(* them.  A cell is raw memory, holds an element, or one that was moved    *)
(* from, which still has to be destroyed.  The vector of block pointers    *)
(* is a std::vector: it keeps the allocator, and is modelled by what its   *)
(* own assignments and swap do with that.                                  *)
(***************************************************************************)
EXTENDS Integers, SequencesExt

CONSTANTS
    Vec,                \* names of vectors
    Elem,               \* the elements
    Allocator,          \* allocators that compare unequal
    Block,              \* num_elements_in_block
    MaxSize,            \* bound on the number of elements
    Pocca, Pocma, Pocs, \* propagate_on_container_copy_assignment, ...
    ConstructorsThrow   \* copies and moves to a new vector may fail

SegmentsAssumption ==
    /\ Block \in Nat \ {0} /\ MaxSize \in Nat
    /\ {Pocca, Pocma, Pocs, ConstructorsThrow} \subseteq BOOLEAN

VARIABLES
    alive,      \* the vectors that exist
    vec,        \* their members: [cells, m_size, alloc]
    handed,     \* blocks each allocator has handed out and not been given back
    undestroyed, \* elements whose memory is gone and whose destructor has not run
    promised    \* what each vector has to hold, as any container would

vars == <<alive, vec, handed, undestroyed, promised>>

Raw       == "raw"
MovedFrom == "moved from"
Unspecified == <<"unspecified">>     \* no sequence of elements

Raws(n)   == [i \in 1 .. n |-> Raw]
Empty(a)  == [cells |-> <<>>, m_size |-> 0, alloc |-> a]
Values(v) == SubSeq(v.cells, 1, v.m_size)

capacity(v)   == Len(v.cells)
num_blocks(v) == Len(v.cells) \div Block    \* m_blocks.size()
calc_num_blocks_for_capacity(n) == (n + Block - 1) \div Block

---------------------------------------------------------------------------
(* The members of one vector, on the vector and what its memory comes to:  *)
(* [v, handed, lost] *)

On(v) == [v |-> v, handed |-> handed, lost |-> 0]

increase_by(m, n) ==
    [m EXCEPT !.handed[m.v.alloc] = @ + n, !.v.cells = @ \o Raws(n * Block)]

increase_capacity(m) == increase_by(m, 1)

reserve(m, n) ==
    LET more == calc_num_blocks_for_capacity(n) - num_blocks(m.v)
    IN  IF more > 0 THEN increase_by(m, more) ELSE m

emplace_back(m, e) ==
    LET room == IF m.v.m_size = capacity(m.v) THEN increase_capacity(m) ELSE m
    IN  [room EXCEPT !.v.cells[m.v.m_size + 1] = e, !.v.m_size = @ + 1]

(* The blocks stay. *)
destroy_tail(m, n) ==
    [m EXCEPT !.v.cells = [i \in DOMAIN @ |-> IF i > n THEN Raw ELSE @[i]],
              !.v.m_size = n]

clear(m) == destroy_tail(m, 0)

(* The cells go as they are, and the vector of pointers goes next. *)
dealloc(m) ==
    [m EXCEPT !.handed[m.v.alloc] = @ - num_blocks(m.v),
              !.lost = @ + Cardinality({i \in DOMAIN m.v.cells : m.v.cells[i] # Raw}),
              !.v.cells = <<>>]

(* A slip: a moved from vector's size stays. *)
take_keeps_size(other) == [other EXCEPT !.cells = <<>>]

(* What std::move(other.m_blocks) and std::exchange(other.m_size, {}) leave *)
take(other) == [other EXCEPT !.cells = <<>>, !.m_size = 0]

(* append_everything_from, up to its n-th element *)
append(m, elems, n) ==
    FoldLeft(emplace_back, reserve(m, m.v.m_size + Len(elems)), SubSeq(elems, 1, n))

(* ... and what it leaves when it fails: while it makes room, or when the  *)
(* element after the n-th throws. *)
Attempts(m, elems) ==
    {[m |-> reserve(m, k), n |-> 0] :
       k \in {j \in 0 .. m.v.m_size + Len(elems) - 1 : j % Block = 0}}
    \cup {[m |-> append(m, elems, n), n |-> n] : n \in 0 .. Len(elems) - 1}

(* The first n elements of other were moved from. *)
Drained(other, n) ==
    [other EXCEPT !.cells = [i \in DOMAIN @ |-> IF i <= n THEN MovedFrom ELSE @[i]]]

Ends(t, m) ==
    /\ vec' = [vec EXCEPT ![t] = m.v]
    /\ handed' = m.handed
    /\ undestroyed' = undestroyed + m.lost

EndsWith(t, m, s, other) ==
    /\ vec' = [vec EXCEPT ![t] = m.v, ![s] = other]
    /\ handed' = m.handed
    /\ undestroyed' = undestroyed + m.lost

Holds(t) == t \in alive /\ promised[t] # Unspecified

---------------------------------------------------------------------------
Init ==
    /\ alive = {}
    /\ vec = [t \in Vec |-> Empty(CHOOSE a \in Allocator : TRUE)]
    /\ handed = [a \in Allocator |-> 0]
    /\ undestroyed = 0
    /\ promised = [t \in Vec |-> <<>>]

Construct(t, a) ==
    /\ t \notin alive
    /\ alive' = alive \cup {t}
    /\ vec' = [vec EXCEPT ![t] = Empty(a)]
    /\ promised' = [promised EXCEPT ![t] = <<>>]
    /\ UNCHANGED <<handed, undestroyed>>

Destroy(t) ==
    /\ t \in alive
    /\ alive' = alive \ {t}
    /\ Ends(t, [dealloc(clear(On(vec[t]))) EXCEPT !.v = Empty(CHOOSE a \in Allocator : TRUE)])
    /\ promised' = [promised EXCEPT ![t] = <<>>]

EmplaceBack(t, e) ==
    /\ Holds(t) /\ vec[t].m_size < MaxSize
    /\ Ends(t, emplace_back(On(vec[t]), e))
    /\ promised' = [promised EXCEPT ![t] = Append(@, e)]
    /\ UNCHANGED alive

(* The element's constructor throws; the block made for it stays. *)
EmplaceBackThrows(t) ==
    /\ Holds(t) /\ vec[t].m_size = capacity(vec[t])
    /\ Ends(t, increase_capacity(On(vec[t])))
    /\ UNCHANGED <<alive, promised>>

PopBack(t) ==
    /\ Holds(t) /\ vec[t].m_size > 0
    /\ Ends(t, destroy_tail(On(vec[t]), vec[t].m_size - 1))
    /\ promised' = [promised EXCEPT ![t] = Front(@)]
    /\ UNCHANGED alive

Clear(t) ==
    /\ t \in alive
    /\ Ends(t, clear(On(vec[t])))
    /\ promised' = [promised EXCEPT ![t] = <<>>]
    /\ UNCHANGED alive

Reserve(t, n) ==
    /\ t \in alive
    /\ Ends(t, reserve(On(vec[t]), n))
    /\ UNCHANGED <<alive, promised>>

(* resize(count, value), which may throw at each new element. *)
Resize(t, count, e) ==
    LET more == [i \in 1 .. count - vec[t].m_size |-> e]
    IN  /\ Holds(t) /\ count # vec[t].m_size
        /\ IF count < vec[t].m_size
           THEN /\ Ends(t, destroy_tail(On(vec[t]), count))
                /\ promised' = [promised EXCEPT ![t] = SubSeq(@, 1, count)]
           ELSE \/ /\ Ends(t, append(On(vec[t]), more, Len(more)))
                   /\ promised' = [promised EXCEPT ![t] = @ \o more]
                \/ /\ \E a \in Attempts(On(vec[t]), more) : Ends(t, a.m)
                   /\ promised' = [promised EXCEPT ![t] = Unspecified]
        /\ UNCHANGED alive

ShrinkToFit(t) ==
    LET v     == vec[t]
        keeps == calc_num_blocks_for_capacity(v.m_size)
        spare == num_blocks(v) - keeps
    IN  /\ t \in alive
        /\ vec' = [vec EXCEPT ![t].cells = SubSeq(@, 1, keeps * Block)]
        /\ handed' = [handed EXCEPT ![v.alloc] = @ - spare]
        /\ UNCHANGED <<alive, undestroyed, promised>>

---------------------------------------------------------------------------
(* Copies and moves *)

(* segmented_vector(other) and segmented_vector(other, alloc) *)
CopyConstruct(t, s, a) ==
    /\ t \notin alive /\ Holds(s)
    /\ alive' = alive \cup {t}
    /\ Ends(t, append(On(Empty(a)), Values(vec[s]), vec[s].m_size))
    /\ promised' = [promised EXCEPT ![t] = promised[s]]

(* No destructor runs for an object whose constructor has thrown: neither  *)
(* constructor delegates to another that had come to its end. *)
CopyConstructThrows(s, a) ==
    /\ ConstructorsThrow /\ Holds(s)
    /\ \E x \in Attempts(On(Empty(a)), Values(vec[s])) :
         /\ handed' = x.m.handed
         /\ undestroyed' = undestroyed + x.n
    /\ UNCHANGED <<alive, vec, promised>>

(* segmented_vector(std::move(other), alloc); without alloc it is other's. *)
MoveConstruct(t, s, a) ==
    LET other == vec[s]
    IN  /\ t \notin alive /\ Holds(s)
        /\ alive' = alive \cup {t}
        /\ IF a = other.alloc
           THEN /\ EndsWith(t, On(other), s, take(other))
                /\ promised' = [promised EXCEPT ![t] = promised[s], ![s] = <<>>]
           ELSE /\ EndsWith(t, append(On(Empty(a)), Values(other), other.m_size),
                            s, Drained(other, other.m_size))
                /\ promised' = [promised EXCEPT ![t] = promised[s], ![s] = Unspecified]

(* As for a copy, nothing gives back what the new vector had. *)
MoveConstructThrows(s, a) ==
    /\ ConstructorsThrow /\ Holds(s) /\ a # vec[s].alloc
    /\ \E x \in Attempts(On(Empty(a)), Values(vec[s])) :
         /\ handed' = x.m.handed
         /\ undestroyed' = undestroyed + x.n
         /\ vec' = [vec EXCEPT ![s] = Drained(@, x.n)]
    /\ promised' = [promised EXCEPT ![s] = Unspecified]
    /\ UNCHANGED alive

(* A slip: the blocks go back after the other allocator was adopted. *)
AdoptsFirst(t, s) ==
    LET cleared == clear(On(vec[t]))
    IN  IF Pocca /\ vec[t].alloc # vec[s].alloc
        THEN dealloc([cleared EXCEPT !.v.alloc = vec[s].alloc])
        ELSE cleared

(* What a copy assignment appends to: under pocca the blocks go back       *)
(* through the old allocator before the other one is adopted. *)
Adopts(t, s) ==
    LET cleared == clear(On(vec[t]))
    IN  IF Pocca /\ vec[t].alloc # vec[s].alloc
        THEN [dealloc(cleared) EXCEPT !.v.alloc = vec[s].alloc]
        ELSE cleared

(* operator=(segmented_vector const&) of another vector *)
CopyAssign(t, s) ==
    /\ t \in alive /\ Holds(s) /\ t # s
    /\ \/ /\ Ends(t, append(Adopts(t, s), Values(vec[s]), vec[s].m_size))
          /\ promised' = [promised EXCEPT ![t] = promised[s]]
       \/ /\ \E x \in Attempts(Adopts(t, s), Values(vec[s])) : Ends(t, x.m)
          /\ promised' = [promised EXCEPT ![t] = Unspecified]
    /\ UNCHANGED alive

(* operator=(segmented_vector&&) of another vector: the blocks, with their *)
(* allocator if it propagates, or one element after the other into the     *)
(* blocks that are there. *)
MoveAssign(t, s) ==
    LET cleared == clear(On(vec[t]))
        other   == vec[s]
        freed   == dealloc(cleared)
        taken   == [other EXCEPT !.alloc = IF Pocma THEN @ ELSE vec[t].alloc]
    IN  /\ t \in alive /\ Holds(s) /\ t # s
        /\ IF Pocma \/ vec[t].alloc = other.alloc
           THEN /\ EndsWith(t, [freed EXCEPT !.v = taken], s, take(other))
                /\ promised' = [promised EXCEPT ![t] = promised[s], ![s] = <<>>]
           ELSE \/ /\ EndsWith(t, append(cleared, Values(other), other.m_size),
                               s, Drained(other, other.m_size))
                   /\ promised' = [promised EXCEPT ![t] = promised[s], ![s] = Unspecified]
                \/ /\ \E x \in Attempts(cleared, Values(other)) :
                        EndsWith(t, x.m, s, Drained(other, x.n))
                   /\ promised' = [promised EXCEPT ![t] = Unspecified, ![s] = Unspecified]
        /\ UNCHANGED alive

(* The caller may not swap unequal allocators that do not propagate. *)
Swap(t, s) ==
    /\ Holds(t) /\ Holds(s) /\ t # s
    /\ Pocs \/ vec[t].alloc = vec[s].alloc
    /\ vec' = [vec EXCEPT ![t] = vec[s], ![s] = vec[t]]
    /\ promised' = [promised EXCEPT ![t] = promised[s], ![s] = promised[t]]
    /\ UNCHANGED <<alive, handed, undestroyed>>

---------------------------------------------------------------------------
Next ==
    \E t \in Vec :
      \/ Destroy(t) \/ Clear(t) \/ PopBack(t) \/ ShrinkToFit(t) \/ EmplaceBackThrows(t)
      \/ \E e \in Elem : EmplaceBack(t, e)
      \/ \E n \in 0 .. MaxSize : Reserve(t, n) \/ \E e \in Elem : Resize(t, n, e)
      \/ \E a \in Allocator :
           \/ Construct(t, a) \/ CopyConstructThrows(t, a) \/ MoveConstructThrows(t, a)
           \/ \E s \in Vec : CopyConstruct(t, s, a) \/ MoveConstruct(t, s, a)
      \/ \E s \in Vec : CopyAssign(t, s) \/ MoveAssign(t, s) \/ Swap(t, s)

Spec == Init /\ [][Next]_vars

---------------------------------------------------------------------------
(* Properties *)

(* "Whatever the allocator is, everything it handed out has to come back   *)
(* to it" (test/unit/table_allocators.cpp:115): what an allocator has      *)
(* handed out are the blocks of the vectors that will give them back to    *)
(* it, also after an exception. *)
BlocksAccountedFor ==
    \A a \in Allocator :
      handed[a] = FoldSet(LAMBDA t, n : n + num_blocks(vec[t]), 0,
                          {t \in alive : vec[t].alloc = a})

(* Each element is destroyed once, and before its memory goes: the cells   *)
(* below the size hold elements, those above are raw, and no block goes    *)
(* with an element in it.  (destroy_tail, dealloc.) *)
ElementsAccountedFor ==
    /\ undestroyed = 0
    /\ \A t \in alive : \A i \in DOMAIN vec[t].cells :
         vec[t].cells[i] # Raw <=> i <= vec[t].m_size
    /\ \A t \in alive : vec[t].m_size <= capacity(vec[t])

(* A segmented_vector holds what a std::vector would after the same calls, *)
(* where the standard says what that is: the table that keeps its values   *)
(* in one relies on it.  (TableTransfer models m_values by that contract.) *)
HoldsWhatItShould ==
    \A t \in alive : promised[t] # Unspecified => Values(vec[t]) = promised[t]
=============================================================================
