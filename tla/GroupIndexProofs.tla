-------------------------- MODULE GroupIndexProofs --------------------------
(***************************************************************************)
(* What the operations on the index return, preserve and find, for every   *)
(* size of group and array, every hash and every number of counters.       *)
(***************************************************************************)
EXTENDS GroupIndex, FiniteSetTheorems, FunctionTheorems,
        WellFoundedInduction, TLAPS

(* A counter is as high as this, or too high by one of these numbers, or   *)
(* has saturated. *)
CountIs(count, n, slack) == count = MaxCounter \/ count - n \in slack

CountsWithin(ix, s, key, slack) ==
    \A g \in Groups(ix), class \in Counter :
      CountIs(ix.overflow[<<g, class>>],
              Cardinality(PassedBy(ix, s, key, g, class)), slack)

(* The index ix, of an array with this shift, is exactly that of the       *)
(* values at positions P, whose keys are key[p], but for counters that are *)
(* too high: slack is {0} if there are none. *)
IndexFor(ix, s, key, P, slack) ==
    /\ slack \subseteq Nat /\ 0 \in slack
    /\ s \in ArrayShifts
    /\ ix.size = calc_num_groups(s)
    /\ IndexType(ix)
    /\ \A p \in P : p \in Nat /\ key[p] \in Key
    /\ PointsExactly(ix, key, P)
    /\ CountsWithin(ix, s, key, slack)

(* Of the same index, only that it points at each position once, with      *)
(* whatever fingerprint and whatever counters. *)
OnceFor(ix, s, P) ==
    /\ s \in ArrayShifts
    /\ ix.size = calc_num_groups(s)
    /\ IndexType(ix)
    /\ P \subseteq Nat
    /\ {ix.slot[x].idx : x \in Occupied(ix)} = P
    /\ \A x, y \in Occupied(ix) : ix.slot[x].idx = ix.slot[y].idx => x = y

(* An exact index points at each position once. *)
LEMMA ExactIsOnce ==
    ASSUME NEW ix, NEW s, NEW key, NEW P, NEW slack, IndexFor(ix, s, key, P, slack)
    PROVE  OnceFor(ix, s, P)
BY DEF IndexFor, OnceFor, PointsExactly

---------------------------------------------------------------------------
(* Least elements *)

(* Every non-empty set of naturals has a least element: of the intervals   *)
(* that start at 0 and end in the set, one has no other inside it. *)
LEMMA LeastNatural ==
    ASSUME NEW S, S \subseteq Nat, S # {}
    PROVE  \E m \in S : \A n \in S : m <= n
<1> DEFINE T == {0 .. n : n \in S}
<1>1. T \subseteq FiniteSubsetsOf(Nat)
  <2> SUFFICES ASSUME NEW n \in S
               PROVE  0 .. n \in FiniteSubsetsOf(Nat)
    OBVIOUS
  <2>1. n \in Nat
    OBVIOUS
  <2>2. IsFiniteSet(0 .. n)
    BY <2>1, FS_Interval
  <2>3. 0 .. n \in SUBSET Nat
    BY <2>1
  <2> QED
    BY <2>2, <2>3 DEF FiniteSubsetsOf
<1>2. T # {}
  OBVIOUS
<1>3. IsWellFoundedOn(StrictSubsetOrdering(Nat), FiniteSubsetsOf(Nat))
  BY FS_StrictSubsetOrderingWellFounded
<1> HIDE DEF T
<1>4. PICK U \in T : \A V \in T : ~ (<<V, U>> \in StrictSubsetOrdering(Nat))
  BY <1>1, <1>2, <1>3, WFMin
<1>5. PICK m \in S : U = 0 .. m
  BY DEF T
<1>6. ASSUME NEW n \in S, n < m
      PROVE  FALSE
  <2>1. m \in Nat /\ n \in Nat
    OBVIOUS
  <2>2. 0 .. n \in T
    BY DEF T
  <2>3. /\ 0 .. n \subseteq 0 .. m
        /\ 0 .. n # 0 .. m
        /\ 0 .. m \in SUBSET Nat
        /\ 0 .. n \in SUBSET Nat
    BY <1>6, <2>1
  <2>4. <<0 .. n, 0 .. m>> \in StrictSubsetOrdering(Nat)
    BY <2>3 DEF StrictSubsetOrdering
  <2> QED
    BY <1>4, <1>5, <2>2, <2>4
<1> QED
  BY <1>6

(* The lane an operation takes is one of those it was offered. *)
LEMMA FirstLaneIsOne ==
    ASSUME NEW S, S \subseteq Lane, S # {}
    PROVE  first_lane(S) \in S
<1>1. S \subseteq Nat
  BY SizesAssumption DEF Lane
<1>2. \E m \in S : \A n \in S : m <= n
  BY <1>1, LeastNatural
<1> QED
  BY <1>2 DEF first_lane

---------------------------------------------------------------------------
(* The probe sequence *)

(* Distance numbers the groups of an array in the order a probe from home  *)
(* visits them. *)
LEMMA ProbeOrder ==
    ASSUME NEW s \in ArrayShifts, NEW n, n = calc_num_groups(s),
           NEW h \in 0 .. n - 1
    PROVE  /\ n \in Nat \ {0}
           /\ \A g \in 0 .. n - 1 : /\ Distance(h, g, n) \in 0 .. n - 1
                                    /\ Visit(h, Distance(h, g, n), n) = g
           /\ \A d \in 0 .. n - 1 : /\ Visit(h, d, n) \in 0 .. n - 1
                                    /\ Distance(h, Visit(h, d, n), n) = d
           /\ Distance(h, h, n) = 0
<1>1. n \in Nat \ {0}
  BY GroupsAssumption
<1>2. /\ Visit(h, 0, n) = h
      /\ \A g \in 0 .. n - 1 : \E d \in 0 .. n - 1 : Visit(h, d, n) = g
      /\ \A d, e \in 0 .. n - 1 : /\ Visit(h, d, n) \in 0 .. n - 1
                                  /\ Visit(h, d, n) = Visit(h, e, n) => d = e
  <2>1. VisitsEveryGroupOnce(h, n)
    BY ProbeAssumption
  <2> QED
    BY <2>1 DEF VisitsEveryGroupOnce
<1>3. ASSUME NEW g \in 0 .. n - 1
      PROVE  /\ Distance(h, g, n) \in 0 .. n - 1
             /\ Visit(h, Distance(h, g, n), n) = g
  BY <1>2 DEF Distance
<1>4. ASSUME NEW d \in 0 .. n - 1
      PROVE  /\ Visit(h, d, n) \in 0 .. n - 1
             /\ Distance(h, Visit(h, d, n), n) = d
  BY <1>2, <1>3
<1>5. Distance(h, h, n) = 0
  BY <1>1, <1>2, <1>4
<1> QED
  BY <1>1, <1>3, <1>4, <1>5

(* Nothing passes its home group, and of two different groups one is       *)
(* visited before the other. *)
LEMMA PassesOrder ==
    ASSUME NEW s \in ArrayShifts, NEW ix, ix.size = calc_num_groups(s),
           NEW h \in Groups(ix)
    PROVE  /\ \A g \in Groups(ix) : ~Passes(ix, h, g, h)
           /\ \A g \in Groups(ix) : ~Passes(ix, h, g, g)
<1> USE DEF Groups
<1>1. /\ \A g \in 0 .. ix.size - 1 : Distance(h, g, ix.size) \in 0 .. ix.size - 1
      /\ Distance(h, h, ix.size) = 0
      /\ ix.size \in Nat
  BY ProbeOrder
<1> QED
  BY <1>1 DEF Passes

---------------------------------------------------------------------------
(* Room *)

(* An array has size * SlotsPerGroup slots. *)
LEMMA SlotsFinite ==
    ASSUME NEW ix, ix.size \in Nat
    PROVE  /\ IsFiniteSet(Slots(ix))
           /\ Cardinality(Slots(ix)) = ix.size * SlotsPerGroup
           /\ IsFiniteSet(Occupied(ix))
<1>1. IsFiniteSet(Groups(ix)) /\ Cardinality(Groups(ix)) = ix.size
  <2> DEFINE n == ix.size
  <2>1. n \in Nat /\ 0 \in Int /\ n - 1 \in Int
    OBVIOUS
  <2> HIDE DEF n
  <2>2. /\ IsFiniteSet(0 .. n - 1)
        /\ Cardinality(0 .. n - 1) = IF 0 > n - 1 THEN 0 ELSE (n - 1) - 0 + 1
    BY <2>1, FS_Interval
  <2>3. IsFiniteSet(0 .. n - 1) /\ Cardinality(0 .. n - 1) = n
    BY <2>1, <2>2
  <2> QED
    BY <2>3 DEF Groups, n
<1>2. IsFiniteSet(Lane) /\ Cardinality(Lane) = SlotsPerGroup
  BY FS_Interval, SizesAssumption DEF Lane
<1>3. /\ IsFiniteSet(Slots(ix))
      /\ Cardinality(Slots(ix)) = ix.size * SlotsPerGroup
  <2> HIDE DEF Groups, Lane
  <2>1. /\ IsFiniteSet(Groups(ix) \X Lane)
        /\ Cardinality(Groups(ix) \X Lane) = Cardinality(Groups(ix)) * Cardinality(Lane)
    BY <1>1, <1>2, FS_Product
  <2> QED
    BY <1>1, <1>2, <2>1 DEF Slots
<1>4. IsFiniteSet(Occupied(ix))
  BY <1>3, FS_Subset DEF Occupied
<1> QED
  BY <1>3, <1>4

(* An index of fewer values than it has slots has a group with room. *)
LEMMA RoomWhileFewer ==
    ASSUME NEW ix, NEW s, NEW n \in Nat, OnceFor(ix, s, 1 .. n),
           n < ix.size * SlotsPerGroup
    PROVE  HasRoom(ix)
<1> SUFFICES ASSUME ~HasRoom(ix)
             PROVE  FALSE
  OBVIOUS
<1>1. /\ ix.size \in Nat
      /\ ix.slot \in [Slots(ix) -> [fp : Nat, idx : Nat]]
  BY DEF OnceFor, IndexType
<1>2. Occupied(ix) = Slots(ix)
  <2> SUFFICES ASSUME NEW g \in Groups(ix), NEW lane \in Lane
               PROVE  ix.slot[<<g, lane>>].fp # 0
    BY DEF Occupied, Slots
  <2>1. lane \notin match_empty(ix, g)
    BY DEF HasRoom
  <2> QED
    BY <2>1 DEF match_empty, match_fingerprint
<1> DEFINE f == [x \in Slots(ix) |-> ix.slot[x].idx]
<1>3. f \in Injection(Slots(ix), 1 .. n)
  <2>1. f \in [Slots(ix) -> 1 .. n]
    BY <1>2 DEF OnceFor
  <2>2. \A x, y \in Slots(ix) : f[x] = f[y] => x = y
    BY <1>2 DEF OnceFor
  <2> HIDE DEF f
  <2> QED
    BY <2>1, <2>2, Fun_IsInj
<1> HIDE DEF f
<1>4. IsFiniteSet(1 .. n) /\ Cardinality(1 .. n) = n
  BY FS_Interval
<1>5. Cardinality(Slots(ix)) <= n
  BY <1>3, <1>4, FS_Injection
<1>6. Cardinality(Slots(ix)) = ix.size * SlotsPerGroup
  BY <1>1, SlotsFinite
<1>7. ix.size * SlotsPerGroup \in Nat
  BY <1>1, SizesAssumption
<1> QED
  BY <1>5, <1>6, <1>7

(* The group an entry is placed in has room, and comes first on the        *)
(* sequence among those that have. *)
LEMMA FirstRoomIsFirst ==
    ASSUME NEW s \in ArrayShifts, NEW ix, ix.size = calc_num_groups(s),
           NEW h \in Groups(ix), HasRoom(ix)
    PROVE  /\ FirstRoom(ix, h) \in Groups(ix)
           /\ match_empty(ix, FirstRoom(ix, h)) # {}
<1> DEFINE R == {g \in Groups(ix) : match_empty(ix, g) # {}}
           D == {Distance(h, g, ix.size) : g \in R}
<1>1. /\ ix.size \in Nat \ {0}
      /\ \A g \in Groups(ix) : /\ Distance(h, g, ix.size) \in 0 .. ix.size - 1
                              /\ Visit(h, Distance(h, g, ix.size), ix.size) = g
  BY ProbeOrder DEF Groups
<1>2. D \subseteq Nat /\ D # {}
  BY <1>1 DEF HasRoom
<1>3. PICK m \in D : \A d \in D : m <= d
  BY <1>2, LeastNatural
<1>4. PICK g \in R : m = Distance(h, g, ix.size)
  OBVIOUS
<1>5. \A f \in Groups(ix) : match_empty(ix, f) # {} => ~Passes(ix, h, f, g)
  <2> SUFFICES ASSUME NEW f \in Groups(ix), match_empty(ix, f) # {}
               PROVE  ~(Distance(h, f, ix.size) < Distance(h, g, ix.size))
    BY DEF Passes
  <2>1. Distance(h, g, ix.size) <= Distance(h, f, ix.size)
    BY <1>3, <1>4
  <2> QED
    BY <1>1, <2>1
<1> QED
  BY <1>4, <1>5 DEF FirstRoom

---------------------------------------------------------------------------
(* Placing *)

(* The counter arithmetic stays within a counter; an increment and a       *)
(* decrement undo each other for one that is not at its largest value. *)
LEMMA CounterSteps ==
    ASSUME NEW c \in 0 .. MaxCounter
    PROVE  /\ Incremented(c) \in 0 .. MaxCounter
           /\ c # MaxCounter => Incremented(c) = c + 1
           /\ Decremented(c) \in 0 .. MaxCounter
           /\ c = MaxCounter => Incremented(c) = c /\ Decremented(c) = c
           /\ c # MaxCounter /\ c > 0 => Decremented(c) = c - 1
<1>1. MaxCounter \in Nat \ {0}
  BY SizesAssumption
<1>2. ASSUME c # MaxCounter, c > 0
      PROVE  (c + MaxCounter) % (MaxCounter + 1) = c - 1
  BY <1>1, <1>2
<1>3. (c + MaxCounter) % (MaxCounter + 1) \in 0 .. MaxCounter
  BY <1>1
<1> QED
  BY <1>1, <1>2, <1>3 DEF Incremented, Decremented

(* A counter that counts one more, or one less. *)
LEMMA CountsOn ==
    ASSUME NEW c \in 0 .. MaxCounter, NEW n \in Nat, NEW slack \in SUBSET Nat,
           CountIs(c, n, slack)
    PROVE  /\ CountIs(Incremented(c), n + 1, slack)
           /\ n # 0 => CountIs(Decremented(c), n - 1, slack)
<1>1. CASE c = MaxCounter
  BY <1>1, CounterSteps DEF CountIs
<1>2. CASE c # MaxCounter
  <2>1. c - n \in slack /\ c - n \in Nat /\ c \in Nat
    BY <1>2, SizesAssumption DEF CountIs
  <2>2. Incremented(c) = c + 1 /\ (c + 1) - (n + 1) = c - n
    BY <1>2, <2>1, CounterSteps
  <2>3. n # 0 => Decremented(c) = c - 1 /\ (c - 1) - (n - 1) = c - n
    BY <1>2, <2>1, CounterSteps
  <2> QED
    BY <2>1, <2>2, <2>3 DEF CountIs
<1> QED
  BY <1>1, <1>2

(* What place_group changes: one free slot, in the first group with room,  *)
(* and the counters of the groups before it. *)
LEMMA PlacedParts ==
    ASSUME NEW ix, NEW s \in ArrayShifts, IndexType(ix),
           ix.size = calc_num_groups(s), HasRoom(ix),
           NEW k \in Key, NEW p \in Nat
    PROVE  \E x \in Slots(ix) :
             /\ x \notin Occupied(ix)
             /\ place_group(ix, s, k, p) =
                  [size     |-> ix.size,
                   slot     |-> [ix.slot EXCEPT ![x] =
                                   [fp |-> Fingerprint(k), idx |-> p]],
                   overflow |-> Counted(ix, Home(k, s),
                                        CounterOf(Fingerprint(k)), x[1])]
<1> DEFINE h == Home(k, s)
           g == FirstRoom(ix, h)
           x == <<g, first_lane(match_empty(ix, g))>>
<1>1. h \in Groups(ix)
  BY HomeAssumption DEF Groups
<1> HIDE DEF h
<1>2. g \in Groups(ix) /\ match_empty(ix, g) # {}
  BY <1>1, FirstRoomIsFirst
<1> HIDE DEF g
<1>3. first_lane(match_empty(ix, g)) \in match_empty(ix, g)
  BY <1>2, FirstLaneIsOne DEF match_empty, match_fingerprint
<1>4. x \in Slots(ix) /\ x \notin Occupied(ix) /\ x[1] = g
  BY <1>2, <1>3 DEF match_empty, match_fingerprint, Slots, Occupied
<1>5. place_group(ix, s, k, p) =
        [ix EXCEPT !.slot     = [@ EXCEPT ![x] = [fp |-> Fingerprint(k), idx |-> p]],
                   !.overflow = Counted(ix, h, CounterOf(Fingerprint(k)), x[1])]
  BY <1>4 DEF place_group, g, h
<1> HIDE DEF x
<1>6. place_group(ix, s, k, p) =
                  [size     |-> ix.size,
                   slot     |-> [ix.slot EXCEPT ![x] =
                                   [fp |-> Fingerprint(k), idx |-> p]],
                   overflow |-> Counted(ix, h, CounterOf(Fingerprint(k)), x[1])]
  BY <1>5 DEF IndexType
<1> QED
  BY <1>4, <1>6 DEF h

(* An index to which a value is added is that of the values and it. *)
LEMMA PlaceKeepsIndex ==
    ASSUME NEW ix, NEW s, NEW key, NEW P, NEW slack, IndexFor(ix, s, key, P, slack),
           HasRoom(ix),
           NEW key2, NEW p \in Nat \ P, key2[p] \in Key,
           \A q \in P : key2[q] = key[q]
    PROVE  IndexFor(place_group(ix, s, key2[p], p), s, key2, P \cup {p}, slack)
<1> DEFINE k  == key2[p]
           h  == Home(k, s)
           c  == CounterOf(Fingerprint(k))
           nx == place_group(ix, s, k, p)
<1>1. /\ slack \in SUBSET Nat /\ 0 \in slack
      /\ s \in ArrayShifts /\ ix.size = calc_num_groups(s)
      /\ IndexType(ix)
      /\ \A q \in P : q \in Nat /\ key[q] \in Key
      /\ PointsExactly(ix, key, P)
      /\ CountsWithin(ix, s, key, slack)
  BY DEF IndexFor
<1>2. PICK x \in Slots(ix) :
             /\ x \notin Occupied(ix)
             /\ nx = [size     |-> ix.size,
                      slot     |-> [ix.slot EXCEPT ![x] =
                                      [fp |-> Fingerprint(k), idx |-> p]],
                      overflow |-> Counted(ix, h, c, x[1])]
  <2>1. k \in Key /\ p \in Nat
    OBVIOUS
  <2> HIDE DEF k
  <2> QED
    BY <1>1, <2>1, PlacedParts
<1>3. Fingerprint(k) \in Nat \ {0} /\ c \in Counter
  BY FingerprintAssumption
<1> HIDE DEF h, c, nx
<1>4. /\ ix.slot \in [Slots(ix) -> [fp : Nat, idx : Nat]]
      /\ ix.overflow \in [Groups(ix) \X Counter -> 0 .. MaxCounter]
      /\ ix.size \in Nat
  BY <1>1 DEF IndexType
<1>5. /\ nx.size = ix.size
      /\ Groups(nx) = Groups(ix)
      /\ Slots(nx) = Slots(ix)
      /\ nx.slot[x] = [fp |-> Fingerprint(k), idx |-> p]
      /\ \A y \in Slots(ix) : y # x => nx.slot[y] = ix.slot[y]
      /\ nx.overflow = Counted(ix, h, c, x[1])
  BY <1>2, <1>4 DEF Groups, Slots
<1>6. Occupied(nx) = Occupied(ix) \cup {x}
  BY <1>2, <1>3, <1>5 DEF Occupied
<1>7. IndexType(nx)
  <2>1. nx.slot \in [Slots(ix) -> [fp : Nat, idx : Nat]]
    BY <1>2, <1>3, <1>4
  <2>2. nx.overflow \in [Groups(ix) \X Counter -> 0 .. MaxCounter]
    BY <1>4, <1>5, CounterSteps DEF Counted
  <2>3. nx = [size |-> nx.size, slot |-> nx.slot, overflow |-> nx.overflow]
    BY <1>2
  <2> QED
    BY <1>4, <1>5, <2>1, <2>2, <2>3 DEF IndexType
<1>8. PointsExactly(nx, key2, P \cup {p})
  <2>1. \A y \in Occupied(ix) : y # x /\ nx.slot[y] = ix.slot[y] /\ ix.slot[y].idx \in P
    BY <1>1, <1>2, <1>5 DEF PointsExactly, Occupied
  <2>2. \A q \in P \cup {p} : \E y \in Occupied(nx) : nx.slot[y].idx = q
    BY <1>1, <1>5, <1>6, <2>1 DEF PointsExactly
  <2>3. \A y \in Occupied(nx) : /\ nx.slot[y].idx \in P \cup {p}
                                /\ nx.slot[y].fp = Fingerprint(key2[nx.slot[y].idx])
    BY <1>1, <1>5, <1>6, <2>1 DEF PointsExactly, k
  <2>4. \A y, z \in Occupied(nx) : nx.slot[y].idx = nx.slot[z].idx => y = z
    BY <1>1, <1>5, <1>6, <2>1 DEF PointsExactly
  <2> QED
    BY <2>2, <2>3, <2>4 DEF PointsExactly
<1>9. CountsWithin(nx, s, key2, slack)
  <2> SUFFICES ASSUME NEW g \in Groups(ix), NEW class \in Counter
               PROVE  CountIs(nx.overflow[<<g, class>>],
                              Cardinality(PassedBy(nx, s, key2, g, class)), slack)
    BY <1>5 DEF CountsWithin
  <2> DEFINE old == PassedBy(ix, s, key, g, class)
             new == PassedBy(nx, s, key2, g, class)
             cnt == ix.overflow[<<g, class>>]
  <2>1. cnt \in 0 .. MaxCounter /\ <<g, class>> \in DOMAIN ix.overflow
    BY <1>4
  <2>2. CountIs(cnt, Cardinality(old), slack)
    BY <1>1 DEF CountsWithin
  <2>3. IsFiniteSet(old) /\ x \notin old
    <3>1. IsFiniteSet(Occupied(ix))
      BY <1>4, SlotsFinite
    <3> QED
      BY <3>1, <1>2, FS_Subset DEF PassedBy
  <2>4. \A y \in Occupied(ix) :
          y \in new <=> y \in old
    <3> TAKE y \in Occupied(ix)
    <3>1. y # x /\ y \in Slots(ix)
      BY <1>2 DEF Occupied
    <3>2. nx.slot[y] = ix.slot[y] /\ y \in Occupied(nx)
      BY <3>1, <1>5, <1>6
    <3>3. key2[ix.slot[y].idx] = key[ix.slot[y].idx]
      BY <1>1 DEF PointsExactly
    <3> QED
      BY <3>2, <3>3, <1>5 DEF PassedBy, Passes
  <2>5. x \in new <=> c = class /\ Passes(ix, h, g, x[1])
    BY <1>5, <1>6 DEF PassedBy, Passes, c, h, k
  <2>6. new \subseteq Occupied(ix) \cup {x} /\ old \subseteq Occupied(ix)
    BY <1>6 DEF PassedBy
  <2>7. nx.overflow[<<g, class>>] =
          IF class = c /\ Passes(ix, h, g, x[1]) THEN Incremented(cnt) ELSE cnt
    BY <1>5, <2>1 DEF Counted
  <2> HIDE DEF old, new, cnt
  <2>8. CASE class = c /\ Passes(ix, h, g, x[1])
    <3>1. new = old \cup {x}
      BY <2>8, <2>4, <2>5, <2>6
    <3>2. Cardinality(new) = Cardinality(old) + 1
      BY <3>1, <2>3, FS_AddElement
    <3>3. Cardinality(old) \in Nat
      BY <2>3, FS_CardinalityType
    <3> QED
      BY <1>1, <2>8, <3>2, <3>3, <2>1, <2>2, <2>7, CountsOn DEF new
  <2>9. CASE ~(class = c /\ Passes(ix, h, g, x[1]))
    <3>1. new = old
      BY <2>9, <2>4, <2>5, <2>6
    <3> QED
      BY <2>9, <3>1, <2>2, <2>7 DEF new
  <2> QED
    BY <2>8, <2>9
<1>10. \A q \in P \cup {p} : q \in Nat /\ key2[q] \in Key
  BY <1>1
<1> QED
  BY <1>1, <1>5, <1>7, <1>8, <1>9, <1>10 DEF IndexFor, nx, k

---------------------------------------------------------------------------
(* Erasing *)

(* What erase_group_slot changes. *)
LEMMA ErasedParts ==
    ASSUME NEW ix, IndexType(ix), NEW s, NEW k, NEW x \in Slots(ix)
    PROVE  erase_group_slot(ix, s, k, x) =
             [size     |-> ix.size,
              slot     |-> [ix.slot EXCEPT ![x] = FreeSlot],
              overflow |-> uncount(ix, Home(k, s), CounterOf(Fingerprint(k)), x[1])]
<1> DEFINE ov == uncount(ix, Home(k, s), CounterOf(Fingerprint(k)), x[1])
<1>1. erase_group_slot(ix, s, k, x) =
        [ix EXCEPT !.slot = [@ EXCEPT ![x] = FreeSlot], !.overflow = ov]
  BY DEF erase_group_slot
<1> HIDE DEF ov
<1>2. erase_group_slot(ix, s, k, x) =
        [size |-> ix.size, slot |-> [ix.slot EXCEPT ![x] = FreeSlot], overflow |-> ov]
  BY <1>1 DEF IndexType
<1> QED
  BY <1>2 DEF ov

(* An index from which the slot of a value is erased is that of the other  *)
(* values: every counter the value had counted in is taken back. *)
LEMMA EraseKeepsIndex ==
    ASSUME NEW ix, NEW s, NEW key, NEW P, NEW slack, IndexFor(ix, s, key, P, slack),
           NEW x \in Occupied(ix), NEW p, p = ix.slot[x].idx,
           NEW key2, \A q \in P \ {p} : key2[q] = key[q]
    PROVE  IndexFor(erase_group_slot(ix, s, key[p], x), s, key2, P \ {p}, slack)
<1> DEFINE k  == key[p]
           h  == Home(k, s)
           c  == CounterOf(Fingerprint(k))
           nx == erase_group_slot(ix, s, k, x)
<1>1. /\ slack \in SUBSET Nat /\ 0 \in slack
      /\ s \in ArrayShifts /\ ix.size = calc_num_groups(s)
      /\ IndexType(ix)
      /\ \A q \in P : q \in Nat /\ key[q] \in Key
      /\ PointsExactly(ix, key, P)
      /\ CountsWithin(ix, s, key, slack)
  BY DEF IndexFor
<1>2. /\ x \in Slots(ix)
      /\ p \in P
      /\ ix.slot[x].fp = Fingerprint(k)
  BY <1>1 DEF PointsExactly, Occupied
<1>3. nx = [size     |-> ix.size,
            slot     |-> [ix.slot EXCEPT ![x] = FreeSlot],
            overflow |-> uncount(ix, h, c, x[1])]
  BY <1>1, <1>2, ErasedParts
<1> HIDE DEF h, c, nx, k
<1>4. /\ ix.slot \in [Slots(ix) -> [fp : Nat, idx : Nat]]
      /\ ix.overflow \in [Groups(ix) \X Counter -> 0 .. MaxCounter]
      /\ ix.size \in Nat
  BY <1>1 DEF IndexType
<1>5. /\ nx.size = ix.size
      /\ Groups(nx) = Groups(ix)
      /\ Slots(nx) = Slots(ix)
      /\ nx.slot[x].fp = 0
      /\ \A y \in Slots(ix) : y # x => nx.slot[y] = ix.slot[y]
      /\ nx.overflow = uncount(ix, h, c, x[1])
  BY <1>2, <1>3, <1>4 DEF Groups, Slots, FreeSlot
<1>6. Occupied(nx) = Occupied(ix) \ {x}
  BY <1>5 DEF Occupied
<1>7. IndexType(nx)
  <2>1. nx.slot \in [Slots(ix) -> [fp : Nat, idx : Nat]]
    BY <1>3, <1>4 DEF FreeSlot
  <2>2. nx.overflow \in [Groups(ix) \X Counter -> 0 .. MaxCounter]
    BY <1>4, <1>5, CounterSteps DEF uncount
  <2>3. nx = [size |-> nx.size, slot |-> nx.slot, overflow |-> nx.overflow]
    BY <1>3
  <2> QED
    BY <1>4, <1>5, <2>1, <2>2, <2>3 DEF IndexType
<1>8. PointsExactly(nx, key2, P \ {p})
  <2>1. \A y \in Occupied(nx) : /\ y \in Occupied(ix)
                                /\ nx.slot[y] = ix.slot[y]
                                /\ ix.slot[y].idx \in P \ {p}
    BY <1>1, <1>5, <1>6 DEF PointsExactly, Occupied
  <2>2. \A q \in P \ {p} : \E y \in Occupied(nx) : nx.slot[y].idx = q
    BY <1>1, <1>6, <2>1 DEF PointsExactly
  <2>3. \A y \in Occupied(nx) : nx.slot[y].fp = Fingerprint(key2[nx.slot[y].idx])
    BY <1>1, <2>1 DEF PointsExactly
  <2>4. \A y, z \in Occupied(nx) : nx.slot[y].idx = nx.slot[z].idx => y = z
    BY <1>1, <2>1 DEF PointsExactly
  <2> QED
    BY <2>1, <2>2, <2>3, <2>4 DEF PointsExactly
<1>9. CountsWithin(nx, s, key2, slack)
  <2> SUFFICES ASSUME NEW g \in Groups(ix), NEW class \in Counter
               PROVE  CountIs(nx.overflow[<<g, class>>],
                              Cardinality(PassedBy(nx, s, key2, g, class)), slack)
    BY <1>5 DEF CountsWithin
  <2> DEFINE old == PassedBy(ix, s, key, g, class)
             new == PassedBy(nx, s, key2, g, class)
             cnt == ix.overflow[<<g, class>>]
  <2>1. cnt \in 0 .. MaxCounter /\ <<g, class>> \in DOMAIN ix.overflow
    BY <1>4
  <2>2. CountIs(cnt, Cardinality(old), slack)
    BY <1>1 DEF CountsWithin
  <2>3. IsFiniteSet(old)
    <3>1. IsFiniteSet(Occupied(ix))
      BY <1>4, SlotsFinite
    <3> QED
      BY <3>1, FS_Subset DEF PassedBy
  <2>4. \A y \in Occupied(nx) : y \in new <=> y \in old
    <3> TAKE y \in Occupied(nx)
    <3>1. /\ y # x /\ y \in Slots(ix) /\ y \in Occupied(ix)
          /\ nx.slot[y] = ix.slot[y]
      BY <1>5, <1>6 DEF Occupied
    <3>2. ix.slot[y].idx \in P \ {p}
      BY <1>1, <3>1 DEF PointsExactly
    <3>3. key2[ix.slot[y].idx] = key[ix.slot[y].idx]
      BY <3>2
    <3> QED
      BY <3>1, <3>3, <1>5 DEF PassedBy, Passes
  <2>5. x \in old <=> c = class /\ Passes(ix, h, g, x[1])
    BY <1>2 DEF PassedBy, Passes, c, h, k
  <2>6. new \subseteq Occupied(ix) \ {x} /\ old \subseteq Occupied(ix)
    BY <1>6 DEF PassedBy
  <2>7. nx.overflow[<<g, class>>] =
          IF class = c /\ Passes(ix, h, g, x[1]) THEN Decremented(cnt) ELSE cnt
    BY <1>5, <2>1 DEF uncount
  <2> HIDE DEF old, new, cnt
  <2>8. CASE class = c /\ Passes(ix, h, g, x[1])
    <3>1. x \in old /\ new = old \ {x}
      BY <2>8, <2>4, <2>5, <2>6, <1>6
    <3>2. /\ Cardinality(old) \in Nat
          /\ Cardinality(new) = Cardinality(old) - 1
          /\ Cardinality(new) \in Nat
      BY <3>1, <2>3, FS_RemoveElement, FS_CardinalityType, FS_Subset
    <3> QED
      BY <1>1, <2>8, <3>2, <2>1, <2>2, <2>7, CountsOn DEF new
  <2>9. CASE ~(class = c /\ Passes(ix, h, g, x[1]))
    <3>1. new = old
      BY <2>9, <2>4, <2>5, <2>6, <1>6
    <3> QED
      BY <2>9, <3>1, <2>2, <2>7 DEF new
  <2> QED
    BY <2>8, <2>9
<1>10. \A q \in P \ {p} : q \in Nat /\ key2[q] \in Key
  BY <1>1
<1> QED
  BY <1>1, <1>5, <1>7, <1>8, <1>9, <1>10 DEF IndexFor, nx, k

---------------------------------------------------------------------------
(* Moving *)

(* An entry that moves home is erased where it was and placed again: its   *)
(* home is the first group with room, and a walk that ends there has       *)
(* passed no group. *)
LEMMA MoveHomeKeepsIndex ==
    ASSUME NEW ix, NEW s, NEW key, NEW P, NEW slack, IndexFor(ix, s, key, P, slack),
           NEW x \in Occupied(ix)
    PROVE  IndexFor(move_home(ix, s, key[ix.slot[x].idx], x), s, key, P, slack)
<1> DEFINE p  == ix.slot[x].idx
           k  == key[p]
           h  == Home(k, s)
           ex == erase_group_slot(ix, s, k, x)
           to == <<h, first_lane(match_empty(ix, h))>>
<1>1. /\ slack \in SUBSET Nat /\ 0 \in slack
      /\ s \in ArrayShifts /\ ix.size = calc_num_groups(s)
      /\ IndexType(ix)
      /\ \A q \in P : q \in Nat /\ key[q] \in Key
      /\ PointsExactly(ix, key, P)
  BY DEF IndexFor
<1>2. /\ x \in Slots(ix) /\ p \in P /\ k \in Key /\ p \in Nat
      /\ ix.slot[x].fp = Fingerprint(k)
  BY <1>1 DEF PointsExactly, Occupied
<1>3. CASE x[1] = h \/ match_empty(ix, h) = {}
  BY <1>3 DEF move_home
<1>4. CASE x[1] # h /\ match_empty(ix, h) # {}
  <2>1. IndexFor(ex, s, key, P \ {p}, slack)
    BY EraseKeepsIndex
  <2>2. ex = [size     |-> ix.size,
              slot     |-> [ix.slot EXCEPT ![x] = FreeSlot],
              overflow |-> uncount(ix, h, CounterOf(Fingerprint(k)), x[1])]
    BY <1>1, <1>2, ErasedParts
  <2>3. h \in Groups(ix)
    BY <1>1, <1>2, HomeAssumption DEF Groups
  <2> HIDE DEF h, ex, p
  <2>4. ix.slot \in [Slots(ix) -> [fp : Nat, idx : Nat]]
    BY <1>1 DEF IndexType
  <2>5. /\ ex.size = ix.size /\ Groups(ex) = Groups(ix)
        /\ ex.slot = [ix.slot EXCEPT ![x] = FreeSlot]
    BY <2>2 DEF Groups
  <2>6. match_empty(ex, h) = match_empty(ix, h)
    <3>1. \A lane \in Lane : <<h, lane>> # x /\ <<h, lane>> \in Slots(ix)
      BY <1>4, <2>3 DEF Slots
    <3> QED
      BY <3>1, <2>4, <2>5 DEF match_empty, match_fingerprint
  <2>7. HasRoom(ex)
    BY <1>4, <2>3, <2>5, <2>6 DEF HasRoom
  <2>8. FirstRoom(ex, h) = h
    <3>1. ex.size = calc_num_groups(s) /\ h \in Groups(ex)
      BY <1>1, <2>3, <2>5
    <3>2. \A g \in Groups(ex) :
            g # h => Distance(h, h, ex.size) < Distance(h, g, ex.size)
      <4>1. /\ Distance(h, h, ex.size) = 0
            /\ \A g \in Groups(ex) : /\ Distance(h, g, ex.size) \in Nat
                                    /\ Visit(h, Distance(h, g, ex.size), ex.size) = g
            /\ h \in Groups(ex)
        BY <1>1, <3>1, ProbeOrder DEF Groups
      <4> QED
        BY <4>1
    <3>3. \A f \in Groups(ex) : ~Passes(ex, h, f, h)
      BY <1>1, <3>1, PassesOrder
    <3>4. match_empty(ex, h) # {}
      BY <1>4, <2>6
    <3> QED
      BY <3>1, <3>2, <3>3, <3>4 DEF FirstRoom, Passes
  <2>9. Counted(ex, h, CounterOf(Fingerprint(k)), h) = ex.overflow
    <3>1. ex.overflow = [y \in Groups(ix) \X Counter |-> ex.overflow[y]]
      BY <2>1, <2>5 DEF IndexFor, IndexType
    <3>2. \A y \in Groups(ix) \X Counter : ~Passes(ex, h, y[1], h)
      BY <1>1, <2>3, <2>5, PassesOrder
    <3> QED
      BY <3>1, <3>2 DEF Counted
  <2> DEFINE moved == [size     |-> ix.size,
                       slot     |-> [ix.slot EXCEPT ![x] = FreeSlot,
                                                    ![to] = ix.slot[x]],
                       overflow |-> ex.overflow]
  <2>10. to # x /\ to \in Slots(ix)
    <3>1. first_lane(match_empty(ix, h)) \in Lane
      BY <1>4, FirstLaneIsOne DEF match_empty, match_fingerprint
    <3> QED
      BY <3>1, <1>4, <2>3 DEF Slots
  <2>11. ix.slot[x] = [fp |-> Fingerprint(k), idx |-> p]
    BY <1>2, <2>4 DEF p
  <2>12. place_group(ex, s, k, p) = moved
    <3>1. place_group(ex, s, k, p) =
            [ex EXCEPT !.slot     = [@ EXCEPT ![to] = ix.slot[x]],
                       !.overflow = ex.overflow]
      BY <2>6, <2>8, <2>9, <2>11 DEF place_group, h
    <3> HIDE DEF to
    <3> QED
      BY <3>1, <2>2, <2>5
  <2>13. move_home(ix, s, k, x) = moved
    <3>1. move_home(ix, s, k, x) =
            [ix EXCEPT !.slot     = [@ EXCEPT ![to] = ix.slot[x], ![x] = FreeSlot],
                       !.overflow = ex.overflow]
      BY <1>4, <2>2 DEF move_home, h
    <3> HIDE DEF to
    <3>2. [ix.slot EXCEPT ![to] = ix.slot[x], ![x] = FreeSlot] =
          [ix.slot EXCEPT ![x] = FreeSlot, ![to] = ix.slot[x]]
      BY <1>2, <2>4, <2>10
    <3> QED
      BY <1>1, <3>1, <3>2 DEF IndexType
  <2>14. IndexFor(place_group(ex, s, key[p], p), s, key, (P \ {p}) \cup {p}, slack)
    BY <1>2, <2>1, <2>7, PlaceKeepsIndex DEF p
  <2>15. (P \ {p}) \cup {p} = P
    BY <1>2 DEF p
  <2> QED
    BY <2>12, <2>13, <2>14, <2>15 DEF p
<1> QED
  BY <1>3, <1>4

(* The slot that is searched for a value is the one that points at it. *)
LEMMA SlotOfValueIs ==
    ASSUME NEW ix, NEW s, NEW key, NEW P, NEW slack, IndexFor(ix, s, key, P, slack),
           NEW p \in P
    PROVE  /\ PointsAt(ix, key[p], p) # {}
           /\ slot_of_value(ix, s, key[p], p) \in Occupied(ix)
           /\ ix.slot[slot_of_value(ix, s, key[p], p)].idx = p
<1>1. /\ s \in ArrayShifts /\ ix.size = calc_num_groups(s)
      /\ IndexType(ix) /\ key[p] \in Key
      /\ PointsExactly(ix, key, P)
  BY DEF IndexFor
<1>2. PICK x \in Occupied(ix) : ix.slot[x].idx = p
  BY <1>1 DEF PointsExactly
<1>3. Fingerprint(key[p]) # 0
  BY <1>1, FingerprintAssumption
<1>4. PointsAt(ix, key[p], p) = {x}
  <2>1. x \in PointsAt(ix, key[p], p)
    BY <1>1, <1>2 DEF PointsAt, PointsExactly, Occupied
  <2>2. \A y \in PointsAt(ix, key[p], p) : y \in Occupied(ix) /\ ix.slot[y].idx = p
    BY <1>3 DEF PointsAt, Occupied
  <2> QED
    BY <1>1, <1>2, <2>1, <2>2 DEF PointsExactly
<1>5. /\ ~Passes(ix, Home(key[p], s), x[1], x[1])
      /\ x[2] <= x[2]
  <2>1. x[2] \in Nat /\ x[1] \in Groups(ix)
    BY <1>2, SizesAssumption DEF Occupied, Slots, Lane
  <2>2. Home(key[p], s) \in Groups(ix)
    BY <1>1, HomeAssumption DEF Groups
  <2> QED
    BY <1>1, <2>1, <2>2, PassesOrder
<1>6. slot_of_value(ix, s, key[p], p) = x
  BY <1>4, <1>5 DEF slot_of_value
<1> QED
  BY <1>2, <1>4, <1>6

(* An index in which the slot of a value is repointed is that of the       *)
(* values with this one in its new place. *)
LEMMA RepointKeepsIndex ==
    ASSUME NEW ix, NEW s, NEW key, NEW P, NEW slack, IndexFor(ix, s, key, P, slack),
           NEW q \in P, NEW p \in Nat \ P,
           NEW key2, key2[p] = key[q], \A r \in P \ {q} : key2[r] = key[r]
    PROVE  IndexFor(repoint_value(ix, s, key[q], q, p), s, key2, (P \ {q}) \cup {p}, slack)
<1> DEFINE x  == slot_of_value(ix, s, key[q], q)
           nx == repoint_value(ix, s, key[q], q, p)
<1>1. /\ slack \in SUBSET Nat /\ 0 \in slack
      /\ s \in ArrayShifts /\ ix.size = calc_num_groups(s)
      /\ IndexType(ix)
      /\ \A r \in P : r \in Nat /\ key[r] \in Key
      /\ PointsExactly(ix, key, P)
      /\ CountsWithin(ix, s, key, slack)
  BY DEF IndexFor
<1>2. x \in Occupied(ix) /\ ix.slot[x].idx = q
  BY SlotOfValueIs
<1>3. nx = [ix EXCEPT !.slot[x].idx = p]
  BY DEF repoint_value
<1> HIDE DEF x, nx
<1>4. /\ ix.slot \in [Slots(ix) -> [fp : Nat, idx : Nat]]
      /\ x \in Slots(ix)
  BY <1>1, <1>2 DEF IndexType, Occupied
<1>5. /\ nx.size = ix.size /\ nx.overflow = ix.overflow
      /\ nx = [size |-> nx.size, slot |-> nx.slot, overflow |-> nx.overflow]
      /\ nx.slot = [ix.slot EXCEPT ![x] = [ix.slot[x] EXCEPT !.idx = p]]
  <2> DEFINE sl == [ix.slot EXCEPT ![x] = [ix.slot[x] EXCEPT !.idx = p]]
  <2>1. nx = [ix EXCEPT !.slot = sl]
    BY <1>3
  <2> HIDE DEF sl
  <2>2. ix = [size |-> ix.size, slot |-> ix.slot, overflow |-> ix.overflow]
    BY <1>1 DEF IndexType
  <2>3. nx = [size |-> ix.size, slot |-> sl, overflow |-> ix.overflow]
    BY <2>1, <2>2
  <2> QED
    BY <2>3 DEF sl
<1>6. /\ Groups(nx) = Groups(ix) /\ Slots(nx) = Slots(ix)
      /\ nx.slot[x].fp = ix.slot[x].fp /\ nx.slot[x].idx = p
      /\ \A y \in Slots(ix) : y # x => nx.slot[y] = ix.slot[y]
      /\ nx.slot \in [Slots(ix) -> [fp : Nat, idx : Nat]]
  BY <1>4, <1>5 DEF Groups, Slots
<1>7. Occupied(nx) = Occupied(ix)
  BY <1>6 DEF Occupied
<1>8. \A y \in Occupied(ix) :
        /\ y \in Slots(ix)
        /\ ix.slot[y].idx \in P
        /\ y # x => ix.slot[y].idx # q
        /\ key2[nx.slot[y].idx] = key[ix.slot[y].idx]
        /\ nx.slot[y].fp = ix.slot[y].fp
        /\ nx.slot[y].idx = IF y = x THEN p ELSE ix.slot[y].idx
  <2>1. \A y \in Occupied(ix) : /\ y \in Slots(ix)
                                /\ ix.slot[y].idx \in P
                                /\ y # x => ix.slot[y].idx # q
    BY <1>1, <1>2 DEF PointsExactly, Occupied
  <2> QED
    BY <1>2, <1>6, <2>1
<1>9. IndexType(nx)
  BY <1>1, <1>5, <1>6 DEF IndexType
<1>10. PointsExactly(nx, key2, (P \ {q}) \cup {p})
  <2>1. \A r \in (P \ {q}) \cup {p} : \E y \in Occupied(nx) : nx.slot[y].idx = r
    BY <1>1, <1>2, <1>7, <1>8 DEF PointsExactly
  <2>2. \A y \in Occupied(nx) : /\ nx.slot[y].idx \in (P \ {q}) \cup {p}
                                /\ nx.slot[y].fp = Fingerprint(key2[nx.slot[y].idx])
    BY <1>1, <1>7, <1>8 DEF PointsExactly
  <2>3. \A y, z \in Occupied(nx) : nx.slot[y].idx = nx.slot[z].idx => y = z
    BY <1>1, <1>7, <1>8 DEF PointsExactly
  <2> QED
    BY <2>1, <2>2, <2>3 DEF PointsExactly
<1>11. CountsWithin(nx, s, key2, slack)
  <2>1. \A g \in Groups(ix), class \in Counter :
          PassedBy(nx, s, key2, g, class) = PassedBy(ix, s, key, g, class)
    <3> TAKE g \in Groups(ix), class \in Counter
    <3>1. ASSUME NEW y \in Occupied(ix)
          PROVE  y \in PassedBy(nx, s, key2, g, class)
                   <=> y \in PassedBy(ix, s, key, g, class)
      <4>1. /\ nx.slot[y].fp = ix.slot[y].fp
            /\ key2[nx.slot[y].idx] = key[ix.slot[y].idx]
        BY <1>8
      <4>2. \A h : Passes(nx, h, g, y[1]) <=> Passes(ix, h, g, y[1])
        BY <1>5 DEF Passes
      <4>3. y \in PassedBy(nx, s, key2, g, class) <=>
              /\ CounterOf(nx.slot[y].fp) = class
              /\ Passes(nx, Home(key2[nx.slot[y].idx], s), g, y[1])
        BY <1>7 DEF PassedBy
      <4>4. y \in PassedBy(ix, s, key, g, class) <=>
              /\ CounterOf(ix.slot[y].fp) = class
              /\ Passes(ix, Home(key[ix.slot[y].idx], s), g, y[1])
        BY DEF PassedBy
      <4> QED
        BY <4>1, <4>2, <4>3, <4>4
    <3>2. /\ PassedBy(nx, s, key2, g, class) \subseteq Occupied(ix)
          /\ PassedBy(ix, s, key, g, class) \subseteq Occupied(ix)
      BY <1>7 DEF PassedBy
    <3> QED
      BY <3>1, <3>2
  <2> SUFFICES ASSUME NEW g \in Groups(ix), NEW class \in Counter
               PROVE  CountIs(nx.overflow[<<g, class>>],
                              Cardinality(PassedBy(nx, s, key2, g, class)), slack)
    BY <1>6 DEF CountsWithin
  <2>2. CountIs(ix.overflow[<<g, class>>],
                Cardinality(PassedBy(ix, s, key, g, class)), slack)
    BY <1>1 DEF CountsWithin
  <2> QED
    BY <1>5, <2>1, <2>2
<1>12. \A r \in (P \ {q}) \cup {p} : r \in Nat /\ key2[r] \in Key
  BY <1>1
<1> QED
  BY <1>1, <1>5, <1>9, <1>10, <1>11, <1>12 DEF IndexFor, nx

---------------------------------------------------------------------------
(* Empty arrays *)

(* An array that was just allocated or cleared is the index of no values. *)
LEMMA EmptyBlocksType ==
    ASSUME NEW n \in Nat
    PROVE  /\ EmptyBlocks(n).size = n
           /\ IndexType(EmptyBlocks(n))
           /\ Occupied(EmptyBlocks(n)) = {}
<1> DEFINE ix == EmptyBlocks(n)
<1>1. /\ ix.size = n
      /\ Slots(ix) = (0 .. n - 1) \X Lane
      /\ Groups(ix) = 0 .. n - 1
  BY DEF EmptyBlocks, Slots, Groups
<1>2. /\ ix.slot = [x \in Slots(ix) |-> FreeSlot]
      /\ ix.overflow = [y \in Groups(ix) \X Counter |-> 0]
      /\ ix = [size |-> ix.size, slot |-> ix.slot, overflow |-> ix.overflow]
  BY <1>1 DEF EmptyBlocks
<1> HIDE DEF ix
<1>3. /\ ix.slot \in [Slots(ix) -> [fp : Nat, idx : Nat]]
      /\ ix.overflow \in [Groups(ix) \X Counter -> 0 .. MaxCounter]
  BY <1>2, SizesAssumption DEF FreeSlot
<1>4. IndexType(ix)
  BY <1>1, <1>2, <1>3 DEF IndexType
<1>5. Occupied(ix) = {}
  BY <1>2 DEF Occupied, FreeSlot
<1> QED
  BY <1>1, <1>4, <1>5 DEF ix

(* An array just allocated is an exact index of no values. *)
LEMMA EmptyIndex ==
    ASSUME NEW s \in ArrayShifts, NEW key, NEW n, n = calc_num_groups(s),
           NEW slack \in SUBSET Nat, 0 \in slack
    PROVE  IndexFor(EmptyBlocks(n), s, key, {}, slack)
<1> DEFINE ix == EmptyBlocks(n)
<1>1. n \in Nat
  BY GroupsAssumption
<1>2. ix.size = n /\ IndexType(ix) /\ Occupied(ix) = {}
  BY <1>1, EmptyBlocksType
<1>3. ix.overflow = [y \in (0 .. n - 1) \X Counter |-> 0]
  BY DEF EmptyBlocks
<1> HIDE DEF ix
<1>4. PointsExactly(ix, key, {})
  BY <1>2 DEF PointsExactly
<1>5. CountsWithin(ix, s, key, slack)
  <2>1. \A g \in Groups(ix), class \in Counter : PassedBy(ix, s, key, g, class) = {}
    BY <1>2 DEF PassedBy
  <2>2. \A g \in Groups(ix), class \in Counter : ix.overflow[<<g, class>>] = 0
    BY <1>2, <1>3 DEF Groups
  <2>3. Cardinality({}) = 0
    BY FS_EmptySet
  <2>4. CountIs(0, 0, slack)
    BY DEF CountIs
  <2> QED
    BY <2>1, <2>2, <2>3, <2>4 DEF CountsWithin
<1> QED
  BY <1>2, <1>4, <1>5 DEF IndexFor, ix

---------------------------------------------------------------------------
(* Finding *)

(* A probe finds a key if and only if one of the values has it, although   *)
(* it gives up at the first counter that is zero: every group before the   *)
(* one that holds the key was counted by it.  It finds a slot of such a    *)
(* value. *)
LEMMA ProbeFinds ==
    ASSUME NEW ix, NEW s, NEW key, NEW P, NEW slack, IndexFor(ix, s, key, P, slack),
           NEW values, \A p \in P : values[p].key = key[p],
           NEW k \in Key
    PROVE  /\ Found(ix, s, values, k) <=> \E p \in P : key[p] = k
           /\ Found(ix, s, values, k) =>
                /\ probe(ix, s, values, k) \in Occupied(ix)
                /\ key[ix.slot[probe(ix, s, values, k)].idx] = k
<1> DEFINE h       == Home(k, s)
           fp      == Fingerprint(k)
           At(d)   == Visit(h, d, ix.size)
           Hit(d)  == Hits(ix, s, values, k, d)
<1>1. /\ slack \in SUBSET Nat /\ 0 \in slack
      /\ s \in ArrayShifts /\ ix.size = calc_num_groups(s)
      /\ IndexType(ix)
      /\ PointsExactly(ix, key, P)
      /\ CountsWithin(ix, s, key, slack)
  BY DEF IndexFor
<1>2. fp \in Nat \ {0} /\ CounterOf(fp) \in Counter
  BY FingerprintAssumption
<1>3. h \in Groups(ix)
  BY <1>1, HomeAssumption DEF Groups
<1>4. /\ ix.size \in Nat \ {0}
      /\ \A g \in Groups(ix) : /\ Distance(h, g, ix.size) \in Groups(ix)
                               /\ At(Distance(h, g, ix.size)) = g
      /\ \A d \in Groups(ix) : /\ At(d) \in Groups(ix)
                               /\ Distance(h, At(d), ix.size) = d
  <2> HIDE DEF h
  <2>1. h \in 0 .. ix.size - 1
    BY <1>3 DEF Groups
  <2> QED
    BY <1>1, <2>1, ProbeOrder DEF Groups
<1>5. \A d \in Groups(ix) : Hit(d) =
        {lane \in Lane : /\ ix.slot[<<At(d), lane>>].fp = fp
                         /\ values[ix.slot[<<At(d), lane>>].idx].key = k}
  BY DEF Hits, match_fingerprint
<1>6. \A d \in Groups(ix), lane \in Lane :
        lane \in Hit(d) <=> /\ <<At(d), lane>> \in Occupied(ix)
                            /\ key[ix.slot[<<At(d), lane>>].idx] = k
  <2> TAKE d \in Groups(ix), lane \in Lane
  <2> DEFINE x == <<At(d), lane>>
  <2>1. x \in Slots(ix)
    BY <1>4 DEF Slots
  <2>2. lane \in Hit(d) <=> ix.slot[x].fp = fp /\ values[ix.slot[x].idx].key = k
    BY <1>5
  <2> HIDE DEF x, Hit
  <2>3. ASSUME x \in Occupied(ix)
        PROVE  /\ values[ix.slot[x].idx].key = key[ix.slot[x].idx]
               /\ ix.slot[x].fp = Fingerprint(key[ix.slot[x].idx])
    BY <1>1, <2>3 DEF PointsExactly
  <2>4. ASSUME ix.slot[x].fp = fp
        PROVE  x \in Occupied(ix)
    BY <1>2, <2>1, <2>4 DEF Occupied
  <2> QED
    BY <2>2, <2>3, <2>4 DEF x
<1>7. FoundAt(ix, s, values, k) =
        {d \in Groups(ix) : /\ Hit(d) # {}
                            /\ \A e \in 0 .. d - 1 :
                                 Hit(e) = {} /\ ~StopsAt(ix, s, k, e)}
  BY DEF FoundAt
<1>8. \A d \in Groups(ix) : Hit(d) \subseteq Lane
  BY <1>5
<1> HIDE DEF h, fp, At, Hit
<1>9. ASSUME NEW d \in Groups(ix), Hit(d) # {}
      PROVE  \E lane \in Lane : /\ lane = first_lane(Hit(d))
                                /\ <<At(d), lane>> \in Occupied(ix)
                                /\ key[ix.slot[<<At(d), lane>>].idx] = k
  <2>1. first_lane(Hit(d)) \in Hit(d)
    BY <1>8, <1>9, FirstLaneIsOne
  <2> QED
    BY <1>6, <1>8, <2>1
<1>10. ASSUME NEW p \in P, key[p] = k
       PROVE  FoundAt(ix, s, values, k) # {}
  <2> DEFINE D == {d \in Groups(ix) : Hit(d) # {}}
  <2>1. PICK x \in Occupied(ix) : ix.slot[x].idx = p
    BY <1>1 DEF PointsExactly
  <2>2. x[1] \in Groups(ix) /\ x[2] \in Lane /\ x = <<x[1], x[2]>>
    BY DEF Occupied, Slots
  <2>3. Distance(h, x[1], ix.size) \in D
    BY <1>4, <1>6, <1>10, <2>1, <2>2
  <2>4. D \subseteq Nat
    BY <1>4 DEF Groups
  <2>5. PICK m \in D : \A d \in D : m <= d
    BY <2>3, <2>4, LeastNatural
  <2>6. PICK lane \in Lane : /\ <<At(m), lane>> \in Occupied(ix)
                             /\ key[ix.slot[<<At(m), lane>>].idx] = k
    BY <1>9
  <2>7. ASSUME NEW e \in 0 .. m - 1
        PROVE  Hit(e) = {} /\ ~StopsAt(ix, s, k, e)
    <3>1. e \in Groups(ix) /\ e < m /\ m <= ix.size - 1 /\ e \in Nat /\ m \in Nat
      BY <1>4 DEF Groups
    <3>2. Hit(e) = {}
      BY <2>5, <3>1
    <3> DEFINE B == PassedBy(ix, s, key, At(e), CounterOf(fp))
    <3>3. <<At(m), lane>> \in B
      <4>1. Passes(ix, h, At(e), At(m))
        BY <1>4, <3>1 DEF Passes
      <4>2. ix.slot[<<At(m), lane>>].fp = fp
        BY <1>1, <2>6 DEF PointsExactly, fp
      <4> QED
        BY <2>6, <4>1, <4>2 DEF PassedBy, h
    <3>4. Cardinality(B) \in Nat \ {0}
      <4>1. IsFiniteSet(Occupied(ix))
        BY <1>4, SlotsFinite
      <4>2. IsFiniteSet(B)
        BY <4>1, FS_Subset DEF PassedBy
      <4> HIDE DEF B
      <4> QED
        BY <4>2, <3>3, FS_EmptySet, FS_CardinalityType
    <3>5. At(e) \in Groups(ix)
      BY <1>4, <3>1
    <3>6. ix.overflow[<<At(e), CounterOf(fp)>>] # 0
      BY <1>1, <1>2, <3>4, <3>5, SizesAssumption DEF CountsWithin, CountIs
    <3> QED
      BY <1>4, <3>1, <3>2, <3>6 DEF StopsAt, At, h, fp
  <2> QED
    BY <1>7, <2>5, <2>7
<1>11. ASSUME Found(ix, s, values, k)
       PROVE  /\ probe(ix, s, values, k) \in Occupied(ix)
              /\ key[ix.slot[probe(ix, s, values, k)].idx] = k
  <2> DEFINE d == CHOOSE e \in FoundAt(ix, s, values, k) : TRUE
  <2>1. d \in FoundAt(ix, s, values, k)
    BY <1>11 DEF Found
  <2>2. probe(ix, s, values, k) = <<At(d), first_lane(Hit(d))>>
    BY DEF probe, At, Hit, h
  <2> HIDE DEF d
  <2>3. d \in Groups(ix) /\ Hit(d) # {}
    BY <1>7, <2>1
  <2> QED
    BY <1>9, <2>2, <2>3
<1>12. ASSUME Found(ix, s, values, k)
       PROVE  \E p \in P : key[p] = k
  BY <1>1, <1>11, <1>12 DEF PointsExactly
<1> QED
  BY <1>10, <1>11, <1>12 DEF Found
=============================================================================
