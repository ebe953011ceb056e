----------------------------- MODULE GroupIndex -----------------------------
(***************************************************************************)
(* The index of a table as a value: an array of groups, each with          *)
(* SlotsPerGroup slots and Counters overflow counters, and the operations  *)
(* of the header on it.  An index is a record                              *)
(*   size      the number of groups, 0 for a table without an array        *)
(*   slot      what each <<group, lane>> holds: the fingerprint fp (0 for a *)
(*             free slot) and the position idx of the value it points to   *)
(*   overflow  the counter of each <<group, counter>>                      *)
(* Positions count from 1, the header's value indices from 0.  The value   *)
(* index left behind in a slot that is freed is not kept: no operation     *)
(* compares a slot with fingerprint 0 as a match.                          *)
(*                                                                         *)
(* A walk over the probe sequence is stated by the order in which it       *)
(* visits the groups (Distance), not step by step.                         *)
(***************************************************************************)
EXTENDS ProbeSequence, FiniteSets

Groups(ix)    == 0 .. ix.size - 1
FreeSlot      == [fp |-> 0, idx |-> 0]
Slots(ix)     == Groups(ix) \X Lane
Occupied(ix)  == {x \in Slots(ix) : ix.slot[x].fp # 0}

(* n value-initialised groups: every slot free, every counter zero. *)
EmptyBlocks(n) == [size     |-> n,
                   slot     |-> [x \in (0 .. n - 1) \X Lane |-> FreeSlot],
                   overflow |-> [y \in (0 .. n - 1) \X Counter |-> 0]]

NoBlocks == EmptyBlocks(0)

(* The blocks a lookup reads.  A table without an array reads the shared   *)
(* sentinel: as many groups as the smallest array has, and never written.  *)
Data(ix) == IF ix.size = 0 THEN EmptyBlocks(calc_num_groups(InitialShifts))
                           ELSE ix

match_fingerprint(ix, g, fp) == {lane \in Lane : ix.slot[<<g, lane>>].fp = fp}
match_empty(ix, g)           == match_fingerprint(ix, g, 0)

first_lane(lanes) == CHOOSE l \in lanes : \A m \in lanes : l <= m

(* The groups a walk from home passes before it stops in group g. *)
Passes(ix, home, passed, g) ==
    Distance(home, passed, ix.size) < Distance(home, g, ix.size)

---------------------------------------------------------------------------
(* Counters are 8 bit and stay at MaxCounter once they are there. *)
Incremented(c) == IF c # MaxCounter THEN c + 1 ELSE c
(* A slip: a saturated counter is decremented like any other. *)
DecrementedAlways(c) == (c + MaxCounter) % (MaxCounter + 1)

Decremented(c) == IF c # MaxCounter THEN (c + MaxCounter) % (MaxCounter + 1)
                                    ELSE c

(* The counters after an entry of this class, placed in group g, passed    *)
(* the groups before it.                                                   *)
Counted(ix, home, class, g) ==
    [y \in DOMAIN ix.overflow |->
       IF y[2] = class /\ Passes(ix, home, y[1], g)
       THEN Incremented(ix.overflow[y]) ELSE ix.overflow[y]]

(* A slip: the walk takes the group the entry was found in along. *)
uncount_found_in(ix, home, class, found_in) ==
    [y \in DOMAIN ix.overflow |->
       IF y[2] = class /\ ~Passes(ix, home, found_in, y[1])
       THEN Decremented(ix.overflow[y]) ELSE ix.overflow[y]]

uncount(ix, home, class, found_in) ==
    [y \in DOMAIN ix.overflow |->
       IF y[2] = class /\ Passes(ix, home, y[1], found_in)
       THEN Decremented(ix.overflow[y]) ELSE ix.overflow[y]]

(* The first group on the sequence from home with a free slot.  The loop   *)
(* in the header has no other way to end: there must be one.               *)
HasRoom(ix)         == \E g \in Groups(ix) : match_empty(ix, g) # {}
FirstRoom(ix, home) == CHOOSE g \in Groups(ix) :
                         /\ match_empty(ix, g) # {}
                         /\ \A f \in Groups(ix) :
                              match_empty(ix, f) # {} => ~Passes(ix, home, f, g)

place_group(ix, shifts, key, idx) ==
    LET home == Home(key, shifts)
        fp   == Fingerprint(key)
        g    == FirstRoom(ix, home)
        x    == <<g, first_lane(match_empty(ix, g))>>
    IN  [ix EXCEPT !.slot     = [@ EXCEPT ![x] = [fp |-> fp, idx |-> idx]],
                   !.overflow = Counted(ix, home, CounterOf(fp), g)]

erase_group_slot(ix, shifts, key, at) ==
    [ix EXCEPT !.slot     = [@ EXCEPT ![at] = FreeSlot],
               !.overflow = uncount(ix, Home(key, shifts),
                                    CounterOf(Fingerprint(key)), at[1])]

(* A slip: an entry moves home and stays counted on the way. *)
move_home_counted(ix, shifts, key, at) ==
    LET home    == Home(key, shifts)
        empties == match_empty(ix, home)
        to      == <<home, first_lane(empties)>>
    IN  IF at[1] = home \/ empties = {}
        THEN ix
        ELSE [ix EXCEPT !.slot = [@ EXCEPT ![to] = ix.slot[at], ![at] = FreeSlot]]

(* A slip: an entry moves to any group before its own that has room. *)
move_closer(ix, shifts, key, at) ==
    LET home == Home(key, shifts)
        g    == FirstRoom(ix, home)
    IN  IF ~HasRoom(ix) \/ ~Passes(ix, home, g, at[1])
        THEN ix
        ELSE place_group(erase_group_slot(ix, shifts, key, at),
                         shifts, key, ix.slot[at].idx)

(* An entry found away from home moves there if home has room again. *)
move_home(ix, shifts, key, at) ==
    LET home    == Home(key, shifts)
        empties == match_empty(ix, home)
        to      == <<home, first_lane(empties)>>
    IN  IF at[1] = home \/ empties = {}
        THEN ix
        ELSE [ix EXCEPT !.slot     = [@ EXCEPT ![to] = ix.slot[at],
                                               ![at] = FreeSlot],
                        !.overflow = uncount(ix, home,
                                             CounterOf(Fingerprint(key)), at[1])]

---------------------------------------------------------------------------
(* Lookups.  values is the sequence of elements, each with a field key.    *)

(* The lanes of the group at this distance that hold the key. *)
Hits(ix, shifts, values, key, d) ==
    LET g == Visit(Home(key, shifts), d, ix.size)
    IN  {lane \in match_fingerprint(ix, g, Fingerprint(key)) :
           values[ix.slot[<<g, lane>>].idx].key = key}

(* A slip: a group with a free slot is taken for the end of the sequence. *)
StopsAtFreeSlot(ix, shifts, key, d) ==
    \/ match_empty(ix, Visit(Home(key, shifts), d, ix.size)) # {}
    \/ d = ix.size - 1

(* A probe ends in a group nothing of this class ever overflowed past, and *)
(* once it has visited every group.                                        *)
StopsAt(ix, shifts, key, d) ==
    \/ ix.overflow[<<Visit(Home(key, shifts), d, ix.size),
                     CounterOf(Fingerprint(key))>>] = 0
    \/ d = ix.size - 1

(* The distances a probe gets to, and those among them where it finds. *)
FoundAt(ix, shifts, values, key) ==
    {d \in Groups(ix) :
       /\ Hits(ix, shifts, values, key, d) # {}
       /\ \A e \in 0 .. d - 1 :
            /\ Hits(ix, shifts, values, key, e) = {}
            /\ ~StopsAt(ix, shifts, key, e)}

Found(ix, shifts, values, key) == FoundAt(ix, shifts, values, key) # {}

(* Where the probe stopped when it found the key: the slot. *)
probe(ix, shifts, values, key) ==
    LET d == CHOOSE e \in FoundAt(ix, shifts, values, key) : TRUE
    IN  <<Visit(Home(key, shifts), d, ix.size),
          first_lane(Hits(ix, shifts, values, key, d))>>

(* The slot that points at a value, searched from the value's home group   *)
(* by fingerprint and position.  Without one the header reports            *)
(* on_error_key_changed() after the last group.                            *)
PointsAt(ix, key, idx) ==
    {x \in Slots(ix) : /\ ix.slot[x].fp = Fingerprint(key)
                       /\ ix.slot[x].idx = idx}

slot_of_value(ix, shifts, key, idx) ==
    CHOOSE x \in PointsAt(ix, key, idx) :
      \A y \in PointsAt(ix, key, idx) :
        /\ ~Passes(ix, Home(key, shifts), y[1], x[1])
        /\ y[1] = x[1] => x[2] <= y[2]

repoint_value(ix, shifts, key, idx, new_idx) ==
    LET x == slot_of_value(ix, shifts, key, idx)
    IN  [ix EXCEPT !.slot[x].idx = new_idx]

---------------------------------------------------------------------------
(* What the index promises about the values at positions P, where key[p]   *)
(* is the key of the value at position p.                                  *)

IndexType(ix) ==
    ix \in [size     : Nat,
           slot     : [Slots(ix) -> [fp : Nat, idx : Nat]],
           overflow : [Groups(ix) \X Counter -> 0 .. MaxCounter]]

(* Every value has a slot, every occupied slot points at one of the values *)
(* with the fingerprint of its key, and no two slots point at the same.    *)
PointsExactly(ix, key, P) ==
    /\ \A p \in P : \E x \in Occupied(ix) : ix.slot[x].idx = p
    /\ \A x \in Occupied(ix) : /\ ix.slot[x].idx \in P
                               /\ ix.slot[x].fp = Fingerprint(key[ix.slot[x].idx])
    /\ \A x, y \in Occupied(ix) : ix.slot[x].idx = ix.slot[y].idx => x = y

(* The live entries of a class that passed a group on their own sequence. *)
PassedBy(ix, shifts, key, g, class) ==
    {x \in Occupied(ix) :
       /\ CounterOf(ix.slot[x].fp) = class
       /\ Passes(ix, Home(key[ix.slot[x].idx], shifts), g, x[1])}

(* "the counters are exact", except for one that has reached MaxCounter. *)
CountsExactly(ix, shifts, key) ==
    \A g \in Groups(ix), class \in Counter :
      \/ ix.overflow[<<g, class>>] = MaxCounter
      \/ ix.overflow[<<g, class>>] =
           Cardinality(PassedBy(ix, shifts, key, g, class))
=============================================================================
