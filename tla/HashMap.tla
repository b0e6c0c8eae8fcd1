------------------------------ MODULE HashMap ------------------------------
(***************************************************************************)
(* The chained hash table of bot/hashmap.c, with the memory it allocates.  *)
(*                                                                         *)
(* A bucket is the sequence of entries reached from it and the pointer     *)
(* that ends the chain: NULL, or JUNK where malloc's memory was never      *)
(* written.  Following JUNK is undefined behaviour; the model then stops.  *)
(* The table has one user, the plugin, on one thread: an operation is one  *)
(* step.                                                                   *)
(***************************************************************************)
EXTENDS Naturals, Sequences, FiniteSets, Filter

CONSTANTS
    Keys, Values,
    HashOf,          \* JDKHash of each key
    InitialCapacity, \* DEFAULT_INITIAL_CAPACITY, 16 in the code
    MaximumCapacity, \* MAXIMUM_CAPACITY, 2^30 in the code
    Cleared,         \* buckets the memset of hashmap_new reaches: 16 bytes of pointers
    Memory,          \* what fresh memory may hold: {NULL} or {NULL, JUNK}
    NULL, JUNK

ASSUME HashMapAssumption ==
    /\ HashOf \in [Keys -> Nat]
    /\ InitialCapacity \in Nat \ {0} /\ MaximumCapacity \in Nat
    /\ Cleared \in 0..InitialCapacity
    /\ Memory \subseteq {NULL, JUNK} /\ Memory # {}
    /\ NULL # JUNK /\ NULL \notin Values

VARIABLES
    length,  \* map->length, the number of buckets
    list,    \* map->list
    size,    \* map->size
    status,  \* "ok", or "undefined" once JUNK was followed
    result   \* what the last operation returned

vars == <<length, list, size, status, result>>

Entry  == [key : Keys, value : Values]
Bucket == [chain : Seq(Entry), end : {NULL, JUNK}]

TypeOK ==
    /\ length \in Nat \ {0}
    /\ list \in [0..(length - 1) -> Bucket]
    /\ size \in Nat
    /\ status \in {"ok", "undefined"}
    /\ result \in Values \cup {NULL} \cup BOOLEAN

(* INDEX_FOR: h & (len - 1), for a power of two the remainder.             *)
IndexFor(h, len) == h % len

(* hashmap_new clears DEFAULT_INITIAL_CAPACITY bytes, not buckets.         *)
FreshList_OneMore(m) ==
    [i \in 0..InitialCapacity |-> [chain |-> <<>>, end |-> NULL]]
FreshList(m) ==
    [i \in 0..(InitialCapacity - 1) |->
        [chain |-> <<>>, end |-> IF i < Cleared THEN NULL ELSE m[i]]]

Init ==
    /\ length = InitialCapacity
    /\ \E m \in [0..(InitialCapacity - 1) -> Memory] : list = FreshList(m)
    /\ size = 0
    /\ status = "ok"
    /\ result = NULL

-----------------------------------------------------------------------------
Home(k) == IndexFor(HashOf[k], length)
BucketOf(k) == list[Home(k)]

Positions(k) == {i \in DOMAIN BucketOf(k).chain : BucketOf(k).chain[i].key = k}
Found(k) == Positions(k) # {}
At(k) == CHOOSE i \in Positions(k) : \A j \in Positions(k) : i <= j
ValueOf(k) == BucketOf(k).chain[At(k)].value

(* _get_entry walks the chain to the entry or to its end.                  *)
Walk(k) == status = "ok" /\ (Found(k) \/ BucketOf(k).end = NULL)
Lost(k) == status = "ok" /\ ~Found(k) /\ BucketOf(k).end = JUNK

Undefined == status' = "undefined" /\ UNCHANGED <<length, list, size, result>>

Get(k) ==
    /\ Walk(k)
    /\ result' = IF Found(k) THEN ValueOf(k) ELSE NULL
    /\ UNCHANGED <<length, list, size, status>>

Exists(k) ==
    /\ Walk(k)
    /\ result' = Found(k)
    /\ UNCHANGED <<length, list, size, status>>

(* The chains of the table twice as long: an entry whose hash has the bit  *)
(* `length' goes to the upper of the two buckets that share its remainder, *)
(* the order is kept; a bucket that gets no entry is never written.        *)
Half_Swapped(h) == 1 - ((h \div length) % 2)
Half(h) == (h \div length) % 2

Resized(old, m) ==
    [j \in 0..(2 * length - 1) |->
        LET from == old[j % length].chain
            part == Picked(from, {p \in DOMAIN from : Half(HashOf[from[p].key]) = j \div length})
        IN [chain |-> part, end |-> IF part = <<>> THEN m[j] ELSE NULL]]

(* _add_entry pushes the new entry on its chain.                           *)
Pushed(k, v) ==
    [list EXCEPT ![Home(k)].chain = <<[key |-> k, value |-> v]>> \o @]

MustResize == size + 1 > length /\ length < MaximumCapacity

(* hashmap_put, the key being there: the old value is returned.            *)
PutReplace(k, v) ==
    /\ status = "ok" /\ Found(k)
    /\ result' = ValueOf(k)
    /\ list' = [list EXCEPT ![Home(k)].chain[At(k)].value = v]
    /\ UNCHANGED <<length, size, status>>

(* A new key; the table stays as it is, or malloc refuses the longer one.  *)
PutNew(k, v) ==
    /\ status = "ok" /\ ~Found(k) /\ BucketOf(k).end = NULL
    /\ list' = Pushed(k, v)
    /\ size' = size + 1
    /\ result' = NULL
    /\ UNCHANGED <<length, status>>

(* A new key that makes the table grow; every old chain is walked.         *)
PutResize(k, v) ==
    /\ status = "ok" /\ ~Found(k) /\ BucketOf(k).end = NULL
    /\ MustResize
    /\ \A i \in DOMAIN list : list[i].end = NULL
    /\ \E m \in [0..(2 * length - 1) -> Memory] : list' = Resized(Pushed(k, v), m)
    /\ length' = 2 * length
    /\ size' = size + 1
    /\ result' = NULL
    /\ UNCHANGED status

(* malloc refuses the entry: the pair is forgotten, with the same answer.  *)
PutNoMemory(k) ==
    /\ status = "ok" /\ ~Found(k) /\ BucketOf(k).end = NULL
    /\ result' = NULL
    /\ UNCHANGED <<length, list, size, status>>

(* The chain of the key, or on growth any chain, ends in JUNK.             *)
PutUndefined(k) ==
    /\ \/ Lost(k)
       \/ /\ status = "ok" /\ ~Found(k) /\ MustResize
          /\ \E i \in DOMAIN list : list[i].end = JUNK
    /\ Undefined

Unlinked_WithPredecessors(k) ==
    [list EXCEPT ![Home(k)].chain = SubSeq(@, At(k) + 1, Len(@))]
Unlinked(k) ==
    [list EXCEPT ![Home(k)].chain =
        SubSeq(@, 1, At(k) - 1) \o SubSeq(@, At(k) + 1, Len(@))]

SizeAfterRemove == size - 1

Remove(k) ==
    /\ Walk(k)
    /\ IF Found(k)
       THEN list' = Unlinked(k) /\ size' = SizeAfterRemove /\ result' = ValueOf(k)
       ELSE result' = NULL /\ UNCHANGED <<list, size>>
    /\ UNCHANGED <<length, status>>

(* hashmap_clear frees every chain and keeps the buckets.                  *)
Clear ==
    /\ status = "ok"
    /\ \A i \in DOMAIN list : list[i].end = NULL
    /\ list' = [i \in DOMAIN list |-> [chain |-> <<>>, end |-> NULL]]
    /\ size' = 0
    /\ result' = NULL
    /\ UNCHANGED <<length, status>>

ClearUndefined ==
    /\ status = "ok"
    /\ \E i \in DOMAIN list : list[i].end = JUNK
    /\ Undefined

Next ==
    \/ \E k \in Keys :
          \/ \E v \in Values : PutReplace(k, v) \/ PutNew(k, v) \/ PutResize(k, v) \/ PutNoMemory(k)
          \/ PutUndefined(k)
          \/ Get(k) \/ Exists(k) \/ Remove(k)
          \/ Lost(k) /\ Undefined
    \/ Clear \/ ClearUndefined

Spec == Init /\ [][Next]_vars

-----------------------------------------------------------------------------
(* Properties.                                                             *)

Content == [k \in Keys |-> IF Found(k) THEN ValueOf(k) ELSE NULL]

Abstract == INSTANCE Map WITH
    Nothing <- NULL, content <- Content, answer <- result, defined <- (status = "ok")

(* Through collisions, removals and growth the table is the map its header *)
(* declares, and every operation returns what the map holds, until         *)
(* unwritten memory is followed (hashmap.c:40-301).                        *)
ImplementsMap == Abstract!MapSpec

(* Every entry is in the bucket its hash names, so that the next look-up   *)
(* goes where the entry was put, also right after the chains were split    *)
(* (hashmap.c:52-104, 116-123).                                            *)
WellPlaced ==
    \A i \in DOMAIN list : \A p \in DOMAIN list[i].chain :
       IndexFor(HashOf[list[i].chain[p].key], length) = i

(* `size', which alone decides when the table grows, counts the entries,   *)
(* and no key is there twice (hashmap.c:158, 274).                         *)
SizeExact ==
    LET Places == UNION {{i} \X DOMAIN list[i].chain : i \in DOMAIN list}
        KeyAt(e) == list[e[1]].chain[e[2]].key
    IN /\ size = Cardinality({KeyAt(e) : e \in Places})
       /\ \A e, f \in Places : KeyAt(e) = KeyAt(f) => e = f

(* Wherever the table holds something, the chain ends in NULL: unwritten   *)
(* memory is only ever in buckets that hold nothing (hashmap.c:56-103,     *)
(* 119-126, 155).                                                          *)
JunkOnlyWhereEmpty ==
    \A i \in DOMAIN list : list[i].end = JUNK => list[i].chain = <<>>

(* The three together: what every operation needs to find of the table    *)
(* (hashmap.c:40-160).                                                     *)
WellFormed == WellPlaced /\ SizeExact /\ JunkOnlyWhereEmpty
=============================================================================
