---------------------------- MODULE LldbFormatter ----------------------------
(***************************************************************************)
(* The children LLDB shows of a table, src/lldb/unordered_dense.py.        *)
(*                                                                         *)
(* At every stop the debugger calls update(), which parses m_values anew;  *)
(* then it asks for children, in whatever order its user looks at them,    *)
(* and keeps those it was given.  A child is named after its key if no     *)
(* child that was asked for before has taken the name.  What update()      *)
(* returns tells the debugger whether the children it keeps are still      *)
(* good.  Between two stops the program goes on.                           *)
(*                                                                         *)
(* An address is a block and a place in it; a std::vector is one block.    *)
(* Text is a sequence of classes of characters: letters, the digit "7",    *)
(* the bracket that is dropped, "~" for what is not printable, and "L",    *)
(* which may be the suffix of an integer literal.                          *)
(***************************************************************************)
EXTENDS Naturals, Sequences, FiniteSets, SequencesExt

CONSTANTS Keys,           \* renderings of keys: [quoted : BOOLEAN, text : a sequence]
          MaxElements,    \* bound: elements of a table
          MaxKeyNameLen,  \* _MAX_KEY_NAME_LEN
          ElementSize,    \* sizeof(T)
          DefaultBytes,   \* _DEFAULT_SEGMENT_BYTES
          SegmentBytes,   \* the MaxSegmentSizeBytes that occur
          TypeNameTold,   \* whether the debugger has the type's name right
          Stops           \* bound: how often the program goes on

\* A digit is one character here, so an index has one (MaxElements < 10); a name
\* cut to length is longer than any index, as 36 characters are.

VARIABLES table,    \* m_values and the index, as the program left them
          storage,  \* _Storage: what update() made of m_values
          names,    \* _names: [name, index] of the children named by key
          made,     \* children handed out since update(): [index, name, address]
          kept,     \* the children the debugger holds on to
          stops     \* how often the program went on

vars == <<table, storage, names, made, kept, stops>>

-----------------------------------------------------------------------------
(* The program: containers and where their elements are.                   *)

RECURSIVE Bits(_, _, _)
Bits(limit, size, f) == IF size * 2^(f + 1) <= limit THEN Bits(limit, size, f + 1) ELSE f

\* segmented_vector::num_elements_in_block.
num_elements_in_block(bytes) == 2^Bits(bytes, ElementSize, 0)

\* Where element i (counted from 0) of a container is.
Element(t, i) ==
    IF t.kind = "vector" THEN [block |-> t.base, at |-> i]
    ELSE LET n == num_elements_in_block(t.bytes)
         IN  [block |-> t.base + i \div n, at |-> i % n]

\* A container of elements that render as `keys`, after a reallocation or not.
Tables == [kind : {"vector", "segmented"}, keys : BoundedSeq(Keys, MaxElements),
           base : 0..Stops, bytes : SegmentBytes]

-----------------------------------------------------------------------------
(* The formatter: where the children are.                                  *)

\* MaxSegmentSizeBytes as the type's name ends in it, or the default.
segment_bytes(t) == IF TypeNameTold /\ t.bytes > 0 THEN t.bytes ELSE DefaultBytes

elements_per_block(bytes) == 2^Bits(bytes, ElementSize, 0)

\* _parse_vector and _parse_segmented.
Parsed(t) == [kind |-> t.kind, count |-> Len(t.keys), begin |-> t.base,
              per |-> IF t.kind = "vector" THEN 1 ELSE elements_per_block(segment_bytes(t))]

\* For an index below the count.
address_of(i) ==
    IF storage.kind = "vector" THEN [block |-> storage.begin, at |-> i]
    ELSE [block |-> storage.begin + i \div storage.per, at |-> i % storage.per]

-----------------------------------------------------------------------------
(* The formatter: what the children are called.                            *)

NoName == <<>>
NoIndex == MaxElements

\* "[i]".  The index 0 is spelt with the digit that keys have, so that such a
\* key could be mistaken for it.
IndexName(i) == IF i = 0 THEN <<"7">> ELSE [j \in 1..i |-> "#"]

Cut(text) == SubSeq(text, 1, IF Len(text) < MaxKeyNameLen THEN Len(text) ELSE MaxKeyNameLen)
Unbracketed(text) == SelectSeq(text, LAMBDA c : c # "]")

\* A scalar loses what may be the suffix of an integer literal; a string is
\* unquoted.
Rendered(key) == IF ~key.quoted /\ key.text # <<>> /\ Last(key.text) = "L" THEN Front(key.text)
                 ELSE key.text

sanitized_key_name(key) ==
    LET text == Unbracketed(Rendered(key))
    IN  IF "~" \in ToSet(text) \/ ToSet(text) = {"7"} THEN NoName ELSE Cut(text)

\* A slip: every child is named after its key.
claims_any(i) == sanitized_key_name(table.keys[i + 1])

\* The name a child takes by its key, unless one that was asked for before has
\* it.
claims(i) ==
    LET name == sanitized_key_name(table.keys[i + 1])
    IN  IF \E n \in names : n.name = name THEN NoName ELSE name

get_child_index(name) ==
    IF \E n \in names : n.name = name THEN (CHOOSE n \in names : n.name = name).index
    ELSE IF \E i \in 0..(MaxElements - 1) : IndexName(i) = name
         THEN CHOOSE i \in 0..(MaxElements - 1) : IndexName(i) = name
         ELSE NoIndex

\* What update() returns: TRUE tells the debugger that it may reuse the
\* children it has.
update_returns == TRUE

-----------------------------------------------------------------------------
NothingKept == [count |-> MaxElements + 1, children |-> {}]

TypeOK ==
    /\ table \in Tables
    /\ storage.kind = table.kind /\ storage.count \in 0..MaxElements /\ storage.begin \in 0..Stops
    /\ storage.per = 1 \/ storage.per * ElementSize <= segment_bytes(table)
    /\ \A n \in names : n.index \in 0..(MaxElements - 1) /\ n.name # NoName
    /\ \A c \in made \cup kept.children : c.index \in 0..(MaxElements - 1) /\ c.name # NoName
    /\ kept.count \in 0..(MaxElements + 1)
    /\ stops \in 0..Stops

Init ==
    /\ table \in {t \in Tables : t.base = 0}
    /\ storage = Parsed(table)
    /\ names = {} /\ made = {} /\ kept = NothingKept
    /\ stops = 0

\* num_children, which the debugger asks for once.
Count ==
    /\ kept.count = NothingKept.count
    /\ kept' = [kept EXCEPT !.count = storage.count]
    /\ UNCHANGED <<table, storage, names, made, stops>>

\* get_child_at_index(i), of a child the debugger has not got.
Ask(i) ==
    /\ i < storage.count
    /\ i < kept.count /\ kept.count # NothingKept.count
    /\ \A c \in kept.children : c.index # i
    /\ LET name == IF claims(i) = NoName THEN IndexName(i) ELSE claims(i)
           child == [index |-> i, name |-> name, address |-> address_of(i)]
       IN  /\ made' = made \cup {child}
           /\ kept' = [kept EXCEPT !.children = @ \cup {child}]
    /\ names' = IF claims(i) = NoName THEN names
                ELSE names \cup {[name |-> claims(i), index |-> i]}
    /\ UNCHANGED <<table, storage, stops>>

\* The program goes on: it inserts, erases by moving the last element into the
\* gap, or starts over; its container may move.
Changed(keys) ==
    {<<k>> : k \in Keys}
    \cup {Append(keys, k) : k \in IF Len(keys) < MaxElements THEN Keys ELSE {}}
    \cup {SubSeq([keys EXCEPT ![i] = Last(keys)], 1, Len(keys) - 1) : i \in DOMAIN keys}

\* ... and at the next stop the debugger calls update().
Stop ==
    /\ stops < Stops
    /\ stops' = stops + 1
    /\ \E keys \in Changed(table.keys), base \in {table.base, stops + 1} :
         table' = [table EXCEPT !.keys = keys, !.base = base]
    /\ storage' = Parsed(table')
    /\ names' = {} /\ made' = {}
    /\ kept' = IF update_returns THEN kept ELSE NothingKept

Next == Count \/ Stop \/ \E i \in 0..(MaxElements - 1) : Ask(i)

Spec == Init /\ [][Next]_vars

-----------------------------------------------------------------------------
(* What the formatter promises.                                            *)

\* A child that was made at this stop is the element of its index, where the
\* container has it: block and place agree with the header's shift and mask.
\* (_Storage.address_of, segmented_vector::operator[].)
ChildrenAreElements == \A c \in made : c.address = Element(table, c.index)

\* In whatever order children are asked for, the name of each leads back to it
\* and to no other: names are unique, and keys are never taken for an index.
\* (get_child_at_index, line 412: "child names stay unique and ["key"] lookup
\* stays unambiguous".)
NamesLeadBack == \A c \in made : get_child_index(c.name) = c.index

=============================================================================
