---------------------------- MODULE AbstractMap ----------------------------
(***************************************************************************)
(* What a map promises its callers: a set of elements with one element per *)
(* key.  Load is replace(): it takes a container that may hold a key more  *)
(* than once, and while settling is TRUE duplicates leave, one element of  *)
(* every key staying behind; which one is not specified.                   *)
(***************************************************************************)
CONSTANTS Key, Value

VARIABLES contents, settling

absvars == <<contents, settling>>

Element == [key : Key, val : Value]

KeysOf(S)     == {e.key : e \in S}
Functional(S) == \A a, b \in S : a.key = b.key => a = b

Init == contents = {} /\ settling = FALSE

Put(k, v) ==
    /\ ~settling
    /\ k \notin KeysOf(contents)
    /\ contents' = contents \cup {[key |-> k, val |-> v]}
    /\ UNCHANGED settling

Assign(k, v) ==
    /\ ~settling
    /\ k \in KeysOf(contents)
    /\ contents' = {e \in contents : e.key # k} \cup {[key |-> k, val |-> v]}
    /\ UNCHANGED settling

Remove(k) ==
    /\ ~settling
    /\ contents' = {e \in contents : e.key # k}
    /\ UNCHANGED settling

Rename(k, new) ==
    /\ ~settling
    /\ new \notin KeysOf(contents)
    /\ contents' = {IF e.key = k THEN [e EXCEPT !.key = new] ELSE e : e \in contents}
    /\ UNCHANGED settling

Clear ==
    /\ ~settling
    /\ contents' = {}
    /\ UNCHANGED settling

Load ==
    /\ ~settling
    /\ contents' \in SUBSET Element
    /\ settling' = (contents' # {})

Settle ==
    /\ settling
    /\ contents' \in SUBSET contents
    /\ KeysOf(contents') = KeysOf(contents)
    /\ settling' \in {TRUE} \cup {~Functional(contents')}

Next ==
    \/ \E k \in Key, v \in Value : Put(k, v) \/ Assign(k, v)
    \/ \E k \in Key : Remove(k) \/ \E new \in Key : Rename(k, new)
    \/ Clear
    \/ Load
    \/ Settle

Spec == Init /\ [][Next]_absvars
=============================================================================
