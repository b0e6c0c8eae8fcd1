----------------------------- MODULE MCHashMap -----------------------------
(***************************************************************************)
(* Instances of HashMap for TLC: memory that holds anything, keys that     *)
(* collide in a table of two buckets and part when it grows.               *)
(***************************************************************************)
EXTENDS HashMap

FourKeys == 1..4
FourHashes == <<0, 4, 2, 8>>   \* a function on 1..4

\* What Filter picks of a sequence is what SelectSeq selects.
Short == UNION {[1..n -> {0, 1}] : n \in 0..4}
ASSUME PicksWhatIsSelected ==
    \A s \in Short, x \in {0, 1} : Picked(s, {i \in DOMAIN s : s[i] = x}) = SelectSeq(s, LAMBDA y : y = x)

Dirty == {NULL, JUNK}
=============================================================================
