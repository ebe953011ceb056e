--------------------------- MODULE ProbeSequence ---------------------------
(***************************************************************************)
(* How a key's hash chooses where its element is looked for: the home      *)
(* group, the fingerprint, the overflow counter, and the order in which a  *)
(* probe visits the groups of an array.  Translated from                   *)
(* include/ankerl/unordered_dense.h; every constant is a number or a       *)
(* function the header fixes at compile time.                              *)
(***************************************************************************)
EXTENDS Integers

CONSTANTS
    Key,                \* the keys
    Hash,               \* mixed_hash: a function from Key to 0 .. 2^HashBits-1
    HashBits,           \* width of the mixed hash                  (64)
    InitialShifts,      \* initial_shifts, of the smallest array    (62)
    SlotsPerGroup,      \* slots_per_group                          (16)
    MaxBucketCount,     \* max_bucket_count(), in slots             (2^32)
    FingerprintValues,  \* values the low bits of a hash take       (256)
    Counters,           \* overflow counters per group              (8)
    MaxCounter          \* largest value of a counter               (255)

Lane    == 0 .. SlotsPerGroup - 1
Counter == 0 .. Counters - 1

(* The largest array has MaxGroups groups. *)
MaxGroups == MaxBucketCount \div SlotsPerGroup

calc_num_groups(shifts) ==
    IF 2^(HashBits - shifts) < MaxGroups THEN 2^(HashBits - shifts)
                                         ELSE MaxGroups

(* In slots. *)
calc_num_buckets(shifts) == calc_num_groups(shifts) * SlotsPerGroup

(* The capacity of an array: the largest one uses every slot. *)
capacity_for(num_buckets, load_factor) ==
    IF num_buckets = MaxBucketCount
    THEN MaxBucketCount
    ELSE (num_buckets * load_factor) \div 100

(* The shifts an array can be indexed with: hash >> shifts must be one of  *)
(* its groups, so an array that is already the largest one cannot be given *)
(* a smaller shift, although calc_num_groups is defined for it.            *)
ArrayShifts == {s \in 0 .. InitialShifts : 2^(HashBits - s) <= MaxGroups}

group_idx_from_hash(mh, shifts) == mh \div 2^shifts

(* The group a key's probe starts in. *)
Home(key, shifts) == group_idx_from_hash(Hash[key], shifts)

(* Never 0, the fingerprint of a free slot; 0 becomes Counters (8), which  *)
(* picks the same counter.                                                 *)
fingerprint_word(mh) == LET low == mh % FingerprintValues
                        IN  IF low = 0 THEN Counters ELSE low

Fingerprint(key) == fingerprint_word(Hash[key])

(* word & 7U *)
CounterOf(fingerprint) == fingerprint % Counters

(* The group visited after delta calls of next_group: the increments are   *)
(* 1, 2, 3, ... and the sum is masked with the number of groups - 1.       *)
Visit(home, delta, n) == (home + (delta * (delta + 1)) \div 2) % n

(* How many groups a probe that starts in home visits before group g. *)
Distance(home, g, n) == CHOOSE d \in 0 .. n - 1 : Visit(home, d, n) = g

---------------------------------------------------------------------------
(* What the rest relies on, each a fact about the numbers above that TLC   *)
(* evaluates for the constants of a run.                                   *)

ASSUME SizesAssumption ==
    /\ SlotsPerGroup \in Nat \ {0}
    /\ Counters \in Nat \ {0}
    /\ MaxCounter \in Nat \ {0}
    /\ MaxBucketCount \in Nat \ {0}
    /\ HashBits \in Nat
    /\ InitialShifts \in 0 .. HashBits
    /\ FingerprintValues \in Nat
    /\ Counters < FingerprintValues
    /\ Hash \in [Key -> 0 .. 2^HashBits - 1]

(* The array doubles when its shift goes down by one, until it is as large *)
(* as it may get; the smallest array is not larger than that.              *)
ASSUME GroupsAssumption ==
    /\ MaxBucketCount = MaxGroups * SlotsPerGroup
    /\ InitialShifts \in ArrayShifts
    /\ \A s \in ArrayShifts :
         /\ calc_num_groups(s) \in Nat \ {0}
         /\ calc_num_groups(s) # MaxGroups =>
              /\ s - 1 \in ArrayShifts
              /\ calc_num_groups(s - 1) = 2 * calc_num_groups(s)
    /\ \A s, t \in ArrayShifts : s <= t => calc_num_groups(t) <= calc_num_groups(s)
    /\ \A s \in (0 .. InitialShifts) \ ArrayShifts :
         calc_num_groups(s + 1) = MaxGroups

(* Every hash has its home inside the array. *)
ASSUME HomeAssumption ==
    \A s \in ArrayShifts, k \in Key :
       Home(k, s) \in 0 .. calc_num_groups(s) - 1

(* "the triangular numbers reach every group of a power-of-two array":     *)
(* a probe visits every group exactly once, its home first.                *)
VisitsEveryGroupOnce(home, n) ==
    /\ Visit(home, 0, n) = home
    /\ \A g \in 0 .. n - 1 : \E d \in 0 .. n - 1 : Visit(home, d, n) = g
    /\ \A d, e \in 0 .. n - 1 :
         /\ Visit(home, d, n) \in 0 .. n - 1
         /\ Visit(home, d, n) = Visit(home, e, n) => d = e

ASSUME ProbeAssumption ==
    \A s \in ArrayShifts : \A home \in 0 .. calc_num_groups(s) - 1 :
       VisitsEveryGroupOnce(home, calc_num_groups(s))

(* A fingerprint is never that of a free slot and picks a counter. *)
ASSUME FingerprintAssumption ==
    \A k \in Key : /\ Fingerprint(k) \in Nat \ {0}
                   /\ CounterOf(Fingerprint(k)) \in Counter
=============================================================================
