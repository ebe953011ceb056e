---------------------------- MODULE MCIndexLoad ----------------------------
(***************************************************************************)
(* IndexLoad on tables of two groups of two slots that grow to four, with  *)
(* the hash of MCDenseTable.  Of the three keys that occur 2 and 5 have    *)
(* the same hash and a home in group 0 of every array; key 4 has another   *)
(* fingerprint, another counter, and a home in another group.              *)
(***************************************************************************)
EXTENDS IndexLoad, MCDenseTable

Elements(keys) == [i \in DOMAIN keys |-> [key |-> keys[i], val |-> 1]]
PairSlots(n)   == (0 .. n - 1) \X (0 .. 1)
NoEntry        == [fp |-> 0, idx |-> 0]

(* Values and n groups with these slots; the counters of the keys that      *)
(* share a hash may have these values. *)
BytesOf(keys, n, slot, counters) ==
    {[values  |-> Elements(keys),
      index   |-> [size |-> n, slot |-> slot, overflow |-> o],
      aligned |-> TRUE] :
       o \in {c \in [(0 .. n - 1) \X (0 .. 1) -> counters \cup {1}] :
                \A g \in 0 .. n - 1 : c[<<g, 1>>] \in counters /\ c[<<g, 0>>] = 1}}

(* Up to three full slots, with any fingerprint and any index in them. *)
AnySlots == {s \in [PairSlots(2) -> {NoEntry} \cup [fp : {2, 3}, idx : 1 .. 3]] :
               \E x \in PairSlots(2) : s[x] = NoEntry}

(* Each value with its own fingerprint, in a slot that may be the wrong one. *)
PlacedSlots(keys) ==
    {[x \in PairSlots(2) |->
        IF \E p \in DOMAIN keys : at[p] = x
        THEN LET p == CHOOSE q \in DOMAIN keys : at[q] = x
             IN  [fp |-> Fingerprint(keys[p]), idx |-> p]
        ELSE NoEntry] :
       at \in {f \in [DOMAIN keys -> PairSlots(2)] :
                 \A i, j \in DOMAIN keys : f[i] = f[j] => i = j}}

Empty(n, is_aligned) ==
    [values  |-> <<>>,
     index   |-> [size |-> n, slot |-> [x \in PairSlots(n) |-> NoEntry],
                  overflow |-> [y \in (0 .. n - 1) \X (0 .. 1) |-> 0]],
     aligned |-> is_aligned]

(* Anything for four lists of values, a repeated key among them; wrong      *)
(* places and counters for two; and empty indexes of all shapes.            *)
MCBytes ==
    UNION {BytesOf(keys, 2, s, {1}) :
             keys \in {<<2>>, <<2, 5>>, <<4, 2>>, <<2, 2>>}, s \in AnySlots}
    \cup UNION {UNION {BytesOf(keys, 2, s, 0 .. 3) : s \in PlacedSlots(keys)} :
                  keys \in {<<2, 5>>, <<4, 2, 5>>}}
    \cup {Empty(n, a) : n \in {0, 1, 2, 3, 8}, a \in BOOLEAN}
    \cup {[Empty(0, TRUE) EXCEPT !.values = Elements(<<2>>)]}
=============================================================================
