---------------------------- MODULE HashMapProofs ----------------------------
(***************************************************************************)
(* Proofs about HashMap, for any keys and hashes, any capacities and any   *)
(* memory: the table stays in the shape its operations rely on, and it is  *)
(* the map of module Map.  What an operation does is followed on the chain *)
(* it changes; the lemmas are about chains and tables as values.           *)
(***************************************************************************)
EXTENDS HashMap, Integers, FiniteSetTheorems, SequenceTheorems, TLAPS

-----------------------------------------------------------------------------
(* Parts of a sequence: the i-th of n positions is there, the order is     *)
(* theirs, and every position is the i-th for some i.                      *)

LEMMA NthIs ==
    ASSUME NEW n \in Nat, NEW I \in SUBSET (1..n)
    PROVE  /\ Cardinality(I) \in Nat
           /\ \A i \in 1..Cardinality(I) : Nth(I, i) \in I
           /\ \A i, j \in 1..Cardinality(I) : i < j => Nth(I, i) < Nth(I, j)
           /\ \A j \in I : \E i \in 1..Cardinality(I) : Nth(I, i) = j
  <1> DEFINE Below(j) == {k \in I : k <= j}
             rank == [j \in I |-> Cardinality(Below(j))]
             c == Cardinality(I)
  <1>1. IsFiniteSet(I) /\ c \in Nat /\ I \subseteq Nat
    <2>1. IsFiniteSet(1..n)
      BY FS_Interval
    <2>2. IsFiniteSet(I)
      BY <2>1, FS_Subset
    <2>3. Cardinality(I) \in Nat
      BY <2>2, FS_CardinalityType
    <2> QED BY <2>2, <2>3
  <1>2. \A j \in I : IsFiniteSet(Below(j)) /\ rank[j] \in 1..c
    <2> SUFFICES ASSUME NEW j \in I PROVE IsFiniteSet(Below(j)) /\ rank[j] \in 1..c
      OBVIOUS
    <2>1. Below(j) \in SUBSET I /\ j \in Below(j)
      BY <1>1
    <2>2. IsFiniteSet(Below(j)) /\ Cardinality(Below(j)) <= c /\ Cardinality(Below(j)) \in Nat
      BY <1>1, <2>1, FS_Subset, FS_CardinalityType
    <2>3. Cardinality(Below(j)) # 0
      BY <2>1, <2>2, FS_EmptySet
    <2> QED BY <1>1, <2>2, <2>3
  <1>3. \A j, k \in I : j < k => rank[j] < rank[k]
    <2> SUFFICES ASSUME NEW j \in I, NEW k \in I, j < k PROVE rank[j] < rank[k]
      OBVIOUS
    <2>1. Below(j) \in SUBSET Below(k) /\ k \in Below(k) /\ k \notin Below(j)
      <3>1. \A i \in I : i <= j => i <= k
        BY <1>1
      <3>2. k <= k /\ ~(k <= j)
        BY <1>1
      <3> QED BY <3>1, <3>2
    <2>2. Cardinality(Below(j)) <= Cardinality(Below(k)) /\ Cardinality(Below(j)) # Cardinality(Below(k))
      BY <1>2, <2>1, FS_Subset
    <2> QED BY <1>1, <1>2, <2>2
  <1>4. rank \in Injection(I, 1..c)
    <2>1. rank \in [I -> 1..c]
      BY <1>2
    <2>2. ASSUME NEW j \in I, NEW k \in I, rank[j] = rank[k] PROVE j = k
      <3>1. rank[j] \in Nat /\ rank[k] \in Nat /\ j \in Nat /\ k \in Nat
        BY <1>1, <1>2
      <3>2. ~(j < k) /\ ~(k < j)
        BY <1>3, <2>2, <3>1
      <3> QED BY <3>1, <3>2
    <2> QED BY <2>1, <2>2 DEF Injection, IsInjective
  <1>5. IsFiniteSet(1..c) /\ Cardinality(1..c) = c
    BY <1>1, FS_Interval
  <1>6. rank \in Surjection(I, 1..c)
    BY <1>1, <1>4, <1>5, FS_Injection
  <1>7. \A i \in 1..c : Nth(I, i) \in I /\ rank[Nth(I, i)] = i
    <2> TAKE i \in 1..c
    <2>1. \E j \in I : rank[j] = i
      BY <1>6 DEF Surjection
    <2>2. \E j \in I : Cardinality({k \in I : k <= j}) = i
      BY <2>1
    <2> QED BY <2>2 DEF Nth
  <1>8. \A j \in I : Nth(I, rank[j]) = j
    <2> TAKE j \in I
    <2>1. rank[j] \in 1..c
      BY <1>2
    <2>2. Nth(I, rank[j]) \in I /\ rank[Nth(I, rank[j])] = rank[j]
      BY <1>7, <2>1
    <2> QED BY <1>4, <2>2 DEF Injection, IsInjective
  <1>9. \A i, j \in 1..c : i < j => Nth(I, i) < Nth(I, j)
    <2> SUFFICES ASSUME NEW i \in 1..c, NEW j \in 1..c, i < j PROVE Nth(I, i) < Nth(I, j)
      OBVIOUS
    <2> DEFINE x == Nth(I, i)
               y == Nth(I, j)
    <2>1. x \in I /\ y \in I /\ rank[x] = i /\ rank[y] = j
      BY <1>7
    <2> HIDE DEF x, y, rank
    <2>2. ~(x = y) /\ ~(y < x)
      BY <1>1, <1>3, <2>1
    <2>3. x < y
      BY <1>1, <2>1, <2>2
    <2> QED BY <2>3 DEF x, y
  <1> QED BY <1>1, <1>2, <1>7, <1>8, <1>9

LEMMA PickedIs ==
    ASSUME NEW S, NEW s \in Seq(S), NEW I \in SUBSET (DOMAIN s)
    PROVE  /\ Picked(s, I) \in Seq(S) /\ DOMAIN Picked(s, I) = 1..Cardinality(I)
           /\ Len(Picked(s, I)) = Cardinality(I) /\ Cardinality(I) \in Nat
           /\ \A i \in 1..Cardinality(I) : Nth(I, i) \in I /\ Picked(s, I)[i] = s[Nth(I, i)]
           /\ \A i, j \in 1..Cardinality(I) : i < j => Nth(I, i) < Nth(I, j)
           /\ \A j \in I : \E i \in 1..Cardinality(I) : Nth(I, i) = j
  <1>1. DOMAIN s = 1..Len(s) /\ Len(s) \in Nat /\ \A j \in 1..Len(s) : s[j] \in S
    OBVIOUS
  <1>2. /\ Cardinality(I) \in Nat
        /\ \A i \in 1..Cardinality(I) : Nth(I, i) \in I
        /\ \A i, j \in 1..Cardinality(I) : i < j => Nth(I, i) < Nth(I, j)
        /\ \A j \in I : \E i \in 1..Cardinality(I) : Nth(I, i) = j
    BY <1>1, NthIs
  <1> DEFINE c == Cardinality(I)
             p == [i \in 1..c |-> s[Nth(I, i)]]
  <1>3. p \in Seq(S) /\ DOMAIN p = 1..c /\ Len(p) = c
    <2>1. \A i \in 1..c : s[Nth(I, i)] \in S
      BY <1>1, <1>2
    <2>2. c \in Nat
      BY <1>2
    <2> HIDE DEF c
    <2> QED BY <2>1, <2>2
  <1>4. Picked(s, I) = p
    BY DEF Picked
  <1> QED BY <1>2, <1>3, <1>4

(* The first entry of chain c with key k, and what is stored in it.        *)
PositionsIn(c, k) == {i \in DOMAIN c : c[i].key = k}
AtIn(c, k) == CHOOSE i \in PositionsIn(c, k) : \A j \in PositionsIn(c, k) : i <= j
Looked(c, k) == IF PositionsIn(c, k) # {} THEN c[AtIn(c, k)].value ELSE NULL

(* What the operations make of a chain.                                    *)
PushedOn(c, k, v)   == <<[key |-> k, value |-> v]>> \o c
ReplacedIn(c, k, v) == [c EXCEPT ![AtIn(c, k)].value = v]
CutFrom(c, k)       == SubSeq(c, 1, AtIn(c, k) - 1) \o SubSeq(c, AtIn(c, k) + 1, Len(c))

Once(c) == \A p, q \in DOMAIN c : c[p].key = c[q].key => p = q
HashesTo(c, n, i) == \A p \in DOMAIN c : IndexFor(HashOf[c[p].key], n) = i

(* The shape of a table of n buckets, and the map it is.                   *)
Shape(n, l) ==
    /\ n \in Nat \ {0}
    /\ l \in [0..(n - 1) -> Bucket]
    /\ \A i \in 0..(n - 1) :
          Once(l[i].chain) /\ HashesTo(l[i].chain, n, i) /\ (l[i].end = JUNK => l[i].chain = <<>>)

WithChain(l, h, d) == [l EXCEPT ![h].chain = d]

ContentOf(n, l) == [k \in Keys |-> Looked(l[IndexFor(HashOf[k], n)].chain, k)]

KeysIn == {k \in Keys : ContentOf(length, list)[k] # NULL}

(* What is inductive: the shape, and that `size' counts the keys.          *)
Inv ==
    /\ Shape(length, list)
    /\ size \in Nat /\ IsFiniteSet(KeysIn) /\ size = Cardinality(KeysIn)
    /\ status \in {"ok", "undefined"}
    /\ result \in Values \cup {NULL} \cup BOOLEAN

-----------------------------------------------------------------------------
(* Remainders.                                                             *)

LEMMA Remainder ==
    ASSUME NEW n \in Nat \ {0}, NEW q \in Int, NEW r \in 0..(n - 1), NEW x \in Int, x = n * q + r
    PROVE  x % n = r /\ x \div n = q
  <1> DEFINE e == x \div n
             s == x % n
  <1>1. e \in Int /\ s \in 0..(n - 1) /\ x = n * e + s
    OBVIOUS
  <1> HIDE DEF e, s
  <1>2. PICK d \in Int : d = q - e
    BY <1>1
  <1>3. n * d = s - r
    BY <1>1, <1>2
  <1>4. s - r < n /\ s - r > -n
    BY <1>1
  <1>5. d >= 1 => n * d >= n
    BY <1>2
  <1>6. d <= -1 => n * d <= -n
    BY <1>2
  <1>7. d = 0
    BY <1>2, <1>3, <1>4, <1>5, <1>6
  <1>8. n * d = 0
    BY <1>7
  <1>9. s = r
    BY <1>1, <1>3, <1>8
  <1>10. e = q
    BY <1>1, <1>2, <1>7
  <1> QED BY <1>9, <1>10 DEF e, s

(* Of the two buckets a chain is split into, the one of an entry is told   *)
(* by the bit n of its hash.                                               *)
LEMMA SplitIndex ==
    ASSUME NEW n \in Nat \ {0}, NEW h \in Nat
    PROVE  /\ h % (2 * n) = n * ((h \div n) % 2) + (h % n)
           /\ (h \div n) % 2 \in {0, 1} /\ h % n \in 0..(n - 1)
  <1> DEFINE q == h \div n
             r == h % n
             b == q % 2
             a == q \div 2
  <1>1. q \in Nat /\ r \in 0..(n - 1) /\ h = n * q + r
    OBVIOUS
  <1>2. b \in {0, 1} /\ a \in Nat /\ q = 2 * a + b
    BY <1>1
  <1> HIDE DEF q, r, b, a
  <1>3. n * q = n * (2 * a) + n * b
    BY <1>1, <1>2
  <1>4. n * (2 * a) = (2 * n) * a
    BY <1>2
  <1>5. h = (2 * n) * a + (n * b + r)
    BY <1>1, <1>2, <1>3, <1>4
  <1>6. n * b + r \in 0..(2 * n - 1)
    BY <1>1, <1>2
  <1> DEFINE m == 2 * n
             t == n * b + r
  <1>7. m \in Nat \ {0} /\ t \in 0..(m - 1) /\ h = m * a + t /\ a \in Int /\ h \in Int
    BY <1>2, <1>5, <1>6
  <1> HIDE DEF m, t
  <1>8. h % m = t
    BY <1>7, Remainder
  <1> QED BY <1>1, <1>2, <1>8 DEF q, r, b, a, m, t

LEMMA BucketHalf ==
    ASSUME NEW n \in Nat \ {0}, NEW j \in 0..(2 * n - 1)
    PROVE  j % n \in 0..(n - 1) /\ j \div n \in {0, 1} /\ j = n * (j \div n) + (j % n)
  <1>1. j % n \in 0..(n - 1) /\ j \div n \in Nat /\ j = n * (j \div n) + (j % n)
    OBVIOUS
  <1> DEFINE q == j \div n
             r == j % n
  <1> HIDE DEF q, r
  <1>2. q >= 2 => n * q >= 2 * n
    BY <1>1 DEF q, r
  <1>3. q \in {0, 1}
    BY <1>1, <1>2 DEF q, r
  <1> QED BY <1>1, <1>3 DEF q, r

-----------------------------------------------------------------------------
(* Chains.                                                                 *)

LEMMA EntryIs ==
    ASSUME NEW c \in Seq(Entry), NEW p \in DOMAIN c
    PROVE  c[p] \in Entry /\ c[p].key \in Keys /\ c[p].value \in Values /\ p \in Nat
  <1>1. p \in 1..Len(c) /\ Len(c) \in Nat
    OBVIOUS
  <1>2. c[p] \in Entry
    BY <1>1, ElementOfSeq
  <1> QED BY <1>1, <1>2 DEF Entry

LEMMA FoundAt ==
    ASSUME NEW c \in Seq(Entry), Once(c), NEW p \in DOMAIN c, NEW k, c[p].key = k
    PROVE  PositionsIn(c, k) = {p} /\ AtIn(c, k) = p /\ Looked(c, k) = c[p].value
  <1>1. PositionsIn(c, k) = {p} /\ p <= p
    BY EntryIs DEF PositionsIn, Once
  <1>2. AtIn(c, k) = p
    BY <1>1 DEF AtIn
  <1> QED BY <1>1, <1>2 DEF Looked

LEMMA NotFound ==
    ASSUME NEW c, NEW k, \A p \in DOMAIN c : c[p].key # k
    PROVE  PositionsIn(c, k) = {} /\ Looked(c, k) = NULL
  BY DEF PositionsIn, Looked

LEMMA LookedType ==
    ASSUME NEW c \in Seq(Entry), Once(c), NEW k
    PROVE  /\ Looked(c, k) \in Values \cup {NULL}
           /\ Looked(c, k) # NULL <=> PositionsIn(c, k) # {}
           /\ PositionsIn(c, k) # {} =>
                /\ AtIn(c, k) \in DOMAIN c /\ c[AtIn(c, k)].key = k
                /\ Looked(c, k) = c[AtIn(c, k)].value
  <1>1. CASE \A p \in DOMAIN c : c[p].key # k
    BY <1>1, NotFound
  <1>2. ASSUME NEW p \in DOMAIN c, c[p].key = k
        PROVE  /\ Looked(c, k) \in Values /\ PositionsIn(c, k) # {}
               /\ AtIn(c, k) = p /\ Looked(c, k) = c[p].value
    <2>1. PositionsIn(c, k) = {p} /\ AtIn(c, k) = p /\ Looked(c, k) = c[p].value
      BY <1>2, FoundAt
    <2>2. c[p].value \in Values
      BY <1>2, EntryIs
    <2> QED BY <2>1, <2>2
  <1>3. NULL \notin Values
    BY HashMapAssumption
  <1> QED BY <1>1, <1>2, <1>3

(* Chains with the same entry for k, or none both, hold the same.          *)
LEMMA SameLooked ==
    ASSUME NEW c \in Seq(Entry), NEW d \in Seq(Entry), Once(c), Once(d), NEW k,
           \A p \in DOMAIN c : c[p].key = k => \E q \in DOMAIN d : d[q] = c[p],
           \A q \in DOMAIN d : d[q].key = k => \E p \in DOMAIN c : c[p] = d[q]
    PROVE  Looked(c, k) = Looked(d, k)
  <1>1. CASE \A p \in DOMAIN c : c[p].key # k
    <2>1. \A q \in DOMAIN d : d[q].key # k
      BY <1>1
    <2> QED BY <1>1, <2>1, NotFound
  <1>2. ASSUME NEW p \in DOMAIN c, c[p].key = k PROVE Looked(c, k) = Looked(d, k)
    <2>1. PICK q \in DOMAIN d : d[q] = c[p]
      BY <1>2
    <2>2. Looked(d, k) = d[q].value
      BY <1>2, <2>1, FoundAt
    <2>3. Looked(c, k) = c[p].value
      BY <1>2, FoundAt
    <2> QED BY <2>1, <2>2, <2>3
  <1> QED BY <1>1, <1>2

(* _add_entry. *)
LEMMA PushedChain ==
    ASSUME NEW c \in Seq(Entry), Once(c), NEW k \in Keys, NEW v \in Values, PositionsIn(c, k) = {},
           NEW d, d = PushedOn(c, k, v)
    PROVE  /\ d \in Seq(Entry) /\ Once(d)
           /\ \A q \in DOMAIN d : d[q].key = k \/ \E p \in DOMAIN c : d[q] = c[p]
           /\ Looked(d, k) = v
           /\ \A x \in Keys : x # k => Looked(d, x) = Looked(c, x)
  <1> DEFINE e == [key |-> k, value |-> v]
  <1>1. e \in Entry /\ e.key = k /\ e.value = v /\ <<e>> \in Seq(Entry)
    BY DEF Entry
  <1>2. \A p \in DOMAIN c : c[p].key # k
    BY DEF PositionsIn
  <1>3. /\ d \in Seq(Entry) /\ Len(d) = Len(c) + 1 /\ DOMAIN d = 1..(Len(c) + 1)
        /\ d[1] = e /\ \A q \in 2..(Len(c) + 1) : d[q] = c[q - 1]
        /\ DOMAIN c = 1..Len(c) /\ Len(c) \in Nat
    <2>1. d = <<e>> \o c
      BY DEF PushedOn
    <2> HIDE DEF e
    <2>2. d \in Seq(Entry) /\ Len(d) = Len(<<e>>) + Len(c) /\ Len(<<e>>) = 1 /\ <<e>>[1] = e
      BY <1>1, <2>1, ConcatProperties
    <2>3. \A q \in 1..Len(d) : d[q] = IF q <= 1 THEN <<e>>[q] ELSE c[q - 1]
      BY <1>1, <2>1, <2>2, ConcatProperties
    <2> QED BY <2>2, <2>3
  <1> HIDE DEF e
  <1>4. 1 \in DOMAIN d /\ \A p \in DOMAIN c : p + 1 \in DOMAIN d /\ d[p + 1] = c[p]
    BY <1>3
  <1>5. \A q \in DOMAIN d : q = 1 \/ (q - 1 \in DOMAIN c /\ d[q] = c[q - 1])
    BY <1>3
  <1>6. Once(d)
    <2> SUFFICES ASSUME NEW p \in DOMAIN d, NEW q \in DOMAIN d, d[p].key = d[q].key PROVE p = q
      BY DEF Once
    <2>1. CASE p = 1
      BY <1>1, <1>2, <1>3, <1>5, <2>1
    <2>2. CASE q = 1
      BY <1>1, <1>2, <1>3, <1>5, <2>2
    <2>3. CASE p # 1 /\ q # 1
      <3>1. p - 1 \in DOMAIN c /\ q - 1 \in DOMAIN c /\ c[p - 1].key = c[q - 1].key
        BY <1>5, <2>3
      <3>2. p - 1 = q - 1
        BY <3>1 DEF Once
      <3> QED BY <1>3, <3>2
    <2> QED BY <2>1, <2>2, <2>3
  <1>7. Looked(d, k) = v
    <2>1. 1 \in DOMAIN d /\ d[1].key = k /\ d[1].value = v
      BY <1>1, <1>3, <1>4
    <2> QED BY <1>3, <1>6, <2>1, FoundAt
  <1>8. ASSUME NEW x \in Keys, x # k PROVE Looked(d, x) = Looked(c, x)
    <2>1. \A p \in DOMAIN c : c[p].key = x => \E q \in DOMAIN d : d[q] = c[p]
      BY <1>4
    <2>2. \A q \in DOMAIN d : d[q].key = x => \E p \in DOMAIN c : c[p] = d[q]
      BY <1>1, <1>3, <1>5, <1>8
    <2> QED BY <1>3, <1>6, <2>1, <2>2, SameLooked
  <1> QED BY <1>1, <1>3, <1>5, <1>6, <1>7, <1>8

(* hashmap_put of a key that is there. *)
LEMMA ReplacedChain ==
    ASSUME NEW c \in Seq(Entry), Once(c), NEW k \in Keys, NEW v \in Values, PositionsIn(c, k) # {},
           NEW d, d = ReplacedIn(c, k, v)
    PROVE  /\ d \in Seq(Entry) /\ Once(d) /\ DOMAIN d = DOMAIN c
           /\ \A q \in DOMAIN d : d[q].key = c[q].key
           /\ Looked(d, k) = v
           /\ \A x \in Keys : x # k => Looked(d, x) = Looked(c, x)
  <1> DEFINE a == AtIn(c, k)
             e == [c[a] EXCEPT !.value = v]
  <1>1. a \in DOMAIN c /\ c[a].key = k
    BY LookedType
  <1>2. c[a] \in Entry /\ e \in Entry /\ e.key = k /\ e.value = v
    <2>1. c[a] \in Entry
      BY <1>1, EntryIs
    <2> QED BY <1>1, <2>1 DEF Entry
  <1>3. d = [c EXCEPT ![a] = e]
    BY DEF ReplacedIn
  <1> HIDE DEF a, e
  <1>4. /\ d \in Seq(Entry) /\ DOMAIN d = DOMAIN c /\ d[a] = e
        /\ \A q \in DOMAIN c : q # a => d[q] = c[q]
    <2>1. DOMAIN c = 1..Len(c) /\ a \in 1..Len(c)
      BY <1>1
    <2>2. [c EXCEPT ![a] = e] \in Seq(Entry)
      BY <1>2, <2>1, ExceptSeq
    <2> QED BY <1>1, <1>3, <2>2
  <1>5. \A q \in DOMAIN d : d[q].key = c[q].key
    BY <1>1, <1>2, <1>4
  <1>6. Once(d)
    BY <1>4, <1>5 DEF Once
  <1>7. Looked(d, k) = v
    <2>1. a \in DOMAIN d /\ d[a].key = k /\ d[a].value = v
      BY <1>1, <1>2, <1>4
    <2> QED BY <1>4, <1>6, <2>1, FoundAt
  <1>8. ASSUME NEW x \in Keys, x # k PROVE Looked(d, x) = Looked(c, x)
    <2>1. \A p \in DOMAIN c : c[p].key = x => \E q \in DOMAIN d : d[q] = c[p]
      BY <1>1, <1>4, <1>8
    <2>2. \A q \in DOMAIN d : d[q].key = x => \E p \in DOMAIN c : c[p] = d[q]
      BY <1>2, <1>4, <1>8
    <2> QED BY <1>4, <1>6, <2>1, <2>2, SameLooked
  <1> QED BY <1>4, <1>5, <1>6, <1>7, <1>8

(* hashmap_remove. *)
LEMMA CutChain ==
    ASSUME NEW c \in Seq(Entry), Once(c), NEW k \in Keys, PositionsIn(c, k) # {},
           NEW d, d = CutFrom(c, k)
    PROVE  /\ d \in Seq(Entry) /\ Once(d)
           /\ \A q \in DOMAIN d : \E p \in DOMAIN c : d[q] = c[p]
           /\ Looked(d, k) = NULL
           /\ \A x \in Keys : x # k => Looked(d, x) = Looked(c, x)
  <1> DEFINE a == AtIn(c, k)
             l == SubSeq(c, 1, a - 1)
             r == SubSeq(c, a + 1, Len(c))
  <1>1. a \in DOMAIN c /\ c[a].key = k /\ a \in 1..Len(c) /\ Len(c) \in Nat /\ DOMAIN c = 1..Len(c)
    BY LookedType
  <1> HIDE DEF a
  <1>2. /\ l \in Seq(Entry) /\ Len(l) = a - 1 /\ \A i \in 1..(a - 1) : l[i] = c[i]
        /\ r \in Seq(Entry) /\ Len(r) = Len(c) - a /\ \A i \in 1..(Len(c) - a) : r[i] = c[a + i]
    <2>1. \A i \in 1..Len(c) : c[i] \in Entry
      BY <1>1, EntryIs
    <2>2. l \in Seq(Entry) /\ Len(l) = a - 1 /\ \A i \in 1..(a - 1) : l[i] = c[i]
      <3>1. \A i \in 1..(a - 1) : c[i] \in Entry
        BY <1>1, <2>1
      <3> QED BY <1>1, <3>1
    <2>3. r \in Seq(Entry) /\ Len(r) = Len(c) - a /\ \A i \in 1..(Len(c) - a) : r[i] = c[a + i]
      <3>1. \A i \in (a + 1)..Len(c) : c[i] \in Entry
        BY <1>1, <2>1
      <3> QED BY <1>1, <3>1
    <2> QED BY <2>2, <2>3
  <1>3. d = l \o r
    BY DEF a, CutFrom
  <1> HIDE DEF l, r
  <1>4. d \in Seq(Entry) /\ DOMAIN d = 1..(Len(c) - 1)
        /\ \A i \in 1..(Len(c) - 1) : d[i] = IF i < a THEN c[i] ELSE c[i + 1]
    <2>0. /\ l \o r \in Seq(Entry) /\ Len(l \o r) = Len(l) + Len(r)
          /\ \A i \in 1..(Len(l) + Len(r)) : (l \o r)[i] = IF i <= Len(l) THEN l[i] ELSE r[i - Len(l)]
      BY <1>2, ConcatProperties
    <2>1. d \in Seq(Entry) /\ Len(d) = Len(l) + Len(r)
          /\ \A i \in 1..Len(d) : d[i] = IF i <= Len(l) THEN l[i] ELSE r[i - Len(l)]
      BY <1>3, <2>0
    <2>2. Len(d) = Len(c) - 1 /\ DOMAIN d = 1..(Len(c) - 1)
      BY <1>1, <1>2, <2>1
    <2>3. ASSUME NEW i \in 1..(Len(c) - 1) PROVE d[i] = IF i < a THEN c[i] ELSE c[i + 1]
      <3>1. CASE i < a
        BY <1>1, <1>2, <2>1, <2>2, <3>1
      <3>2. CASE ~(i < a)
        <4>1. i - (a - 1) \in 1..(Len(c) - a) /\ a + (i - (a - 1)) = i + 1
          BY <1>1, <3>2
        <4>2. r[i - (a - 1)] = c[i + 1]
          BY <1>2, <4>1
        <4>3. d[i] = r[i - (a - 1)]
          BY <1>1, <1>2, <2>1, <2>2, <3>2
        <4> QED BY <3>2, <4>2, <4>3
      <3> QED BY <3>1, <3>2
    <2> QED BY <2>1, <2>2, <2>3
  <1> DEFINE from(i) == IF i < a THEN i ELSE i + 1
  <1>5. \A i \in DOMAIN d : from(i) \in DOMAIN c /\ from(i) # a /\ d[i] = c[from(i)]
    BY <1>1, <1>4
  <1>6. \A i, j \in DOMAIN d : from(i) = from(j) => i = j
    BY <1>1, <1>4
  <1>7. \A p \in DOMAIN c : p # a => \E i \in DOMAIN d : from(i) = p
    <2> SUFFICES ASSUME NEW p \in DOMAIN c, p # a PROVE \E i \in DOMAIN d : from(i) = p
      OBVIOUS
    <2>1. CASE p < a
      BY <1>1, <1>4, <2>1
    <2>2. CASE p > a
      <3>1. p - 1 \in DOMAIN d /\ from(p - 1) = p
        BY <1>1, <1>4, <2>2
      <3> QED BY <3>1
    <2> QED BY <1>1, <2>1, <2>2
  <1> HIDE DEF from
  <1>8. Once(d)
    BY <1>5, <1>6 DEF Once
  <1>9. \A i \in DOMAIN d : d[i].key # k
    BY <1>1, <1>5 DEF Once
  <1>10. ASSUME NEW x \in Keys, x # k PROVE Looked(d, x) = Looked(c, x)
    <2>1. \A p \in DOMAIN c : c[p].key = x => \E i \in DOMAIN d : d[i] = c[p]
      BY <1>1, <1>5, <1>7, <1>10
    <2> QED BY <1>4, <1>5, <1>8, <2>1, SameLooked
  <1> QED BY <1>4, <1>5, <1>8, <1>9, <1>10, NotFound

(* A part of a chain holds what the chain does of the keys that are kept.  *)
LEMMA PartOfChain ==
    ASSUME NEW c \in Seq(Entry), Once(c), NEW I \in SUBSET (DOMAIN c), NEW d, d = Picked(c, I)
    PROVE  /\ d \in Seq(Entry) /\ Once(d)
           /\ \A q \in DOMAIN d : \E p \in I : d[q] = c[p]
           /\ \A x \in Keys : (\A p \in DOMAIN c : c[p].key = x => p \in I) => Looked(d, x) = Looked(c, x)
  <1> DEFINE N == 1..Cardinality(I)
  <1>1. /\ d \in Seq(Entry) /\ DOMAIN d = N /\ Cardinality(I) \in Nat
        /\ \A i \in N : Nth(I, i) \in I /\ d[i] = c[Nth(I, i)]
        /\ \A i, j \in N : i < j => Nth(I, i) < Nth(I, j)
        /\ \A j \in I : \E i \in N : Nth(I, i) = j
    BY PickedIs
  <1>2. \A p \in I : p \in DOMAIN c /\ p \in Nat
    BY EntryIs
  <1>3. \A i, j \in N : Nth(I, i) = Nth(I, j) => i = j
    <2> SUFFICES ASSUME NEW i \in N, NEW j \in N, Nth(I, i) = Nth(I, j) PROVE i = j
      OBVIOUS
    <2>1. Nth(I, i) \in Nat /\ Nth(I, j) \in Nat
      BY <1>1, <1>2
    <2>2. ~(i < j) /\ ~(j < i)
      BY <1>1, <2>1
    <2> QED BY <1>1, <2>2
  <1>4. Once(d)
    BY <1>1, <1>2, <1>3 DEF Once
  <1>5. ASSUME NEW x \in Keys, \A p \in DOMAIN c : c[p].key = x => p \in I
        PROVE  Looked(d, x) = Looked(c, x)
    <2>1. \A p \in DOMAIN c : c[p].key = x => \E i \in DOMAIN d : d[i] = c[p]
      BY <1>1, <1>5
    <2>2. \A i \in DOMAIN d : d[i].key = x => \E p \in DOMAIN c : c[p] = d[i]
      BY <1>1, <1>2
    <2> QED BY <1>1, <1>4, <2>1, <2>2, SameLooked
  <1> QED BY <1>1, <1>4, <1>5

-----------------------------------------------------------------------------
(* Tables.                                                                 *)

LEMMA HomeIs ==
    ASSUME NEW n, NEW l, Shape(n, l), NEW k \in Keys
    PROVE  LET h == IndexFor(HashOf[k], n)
           IN  /\ h \in 0..(n - 1) /\ HashOf[k] \in Nat
               /\ l[h] \in Bucket /\ l[h].chain \in Seq(Entry) /\ Once(l[h].chain)
               /\ l[h].end \in {NULL, JUNK}
               /\ ContentOf(n, l)[k] = Looked(l[h].chain, k)
  <1>1. HashOf[k] \in Nat /\ n \in Nat \ {0}
    BY HashMapAssumption DEF Shape
  <1>2. IndexFor(HashOf[k], n) \in 0..(n - 1)
    BY <1>1 DEF IndexFor
  <1> QED BY <1>1, <1>2 DEF Shape, Bucket, ContentOf

LEMMA ContentType ==
    ASSUME NEW n, NEW l, Shape(n, l)
    PROVE  ContentOf(n, l) \in [Keys -> Values \cup {NULL}]
  <1>1. \A k \in Keys : Looked(l[IndexFor(HashOf[k], n)].chain, k) \in Values \cup {NULL}
    BY HomeIs, LookedType
  <1> QED BY <1>1 DEF ContentOf

(* A table one chain of which is changed for one key.                      *)
LEMMA ChangedTable ==
    ASSUME NEW n, NEW l, Shape(n, l), NEW k \in Keys, NEW v \in Values \cup {NULL},
           NEW h, h = IndexFor(HashOf[k], n),
           NEW d \in Seq(Entry), Once(d), HashesTo(d, n, h), l[h].end = JUNK => d = <<>>,
           Looked(d, k) = v, \A x \in Keys : x # k => Looked(d, x) = Looked(l[h].chain, x),
           NEW t, t = WithChain(l, h, d)
    PROVE  Shape(n, t) /\ ContentOf(n, t) = [ContentOf(n, l) EXCEPT ![k] = v]
  <1>1. h \in 0..(n - 1) /\ l[h] \in Bucket /\ n \in Nat \ {0} /\ l \in [0..(n - 1) -> Bucket]
    BY HomeIs DEF Shape
  <1> DEFINE b == [l[h] EXCEPT !.chain = d]
  <1>2. b \in Bucket /\ b.chain = d /\ b.end = l[h].end
    BY <1>1 DEF Bucket
  <1>3. t = [l EXCEPT ![h] = b]
    BY <1>1 DEF WithChain
  <1> HIDE DEF b
  <1>4. /\ t \in [0..(n - 1) -> Bucket] /\ t[h] = b
        /\ \A i \in 0..(n - 1) : i # h => t[i] = l[i]
    BY <1>1, <1>2, <1>3
  <1>5. Shape(n, t)
    <2> SUFFICES ASSUME NEW i \in 0..(n - 1)
                 PROVE  /\ Once(t[i].chain) /\ HashesTo(t[i].chain, n, i)
                        /\ t[i].end = JUNK => t[i].chain = <<>>
      BY <1>1, <1>4 DEF Shape
    <2>1. CASE i = h
      BY <1>2, <1>4, <2>1
    <2>2. CASE i # h
      BY <1>4, <2>2 DEF Shape
    <2> QED BY <2>1, <2>2
  <1>6. ASSUME NEW x \in Keys
        PROVE  ContentOf(n, t)[x] = IF x = k THEN v ELSE ContentOf(n, l)[x]
    <2> DEFINE i == IndexFor(HashOf[x], n)
    <2>1. i \in 0..(n - 1) /\ ContentOf(n, t)[x] = Looked(t[i].chain, x)
          /\ ContentOf(n, l)[x] = Looked(l[i].chain, x)
      BY <1>5, HomeIs
    <2>2. CASE i # h
      <3>1. x # k
        BY <2>2
      <3> QED BY <1>4, <2>1, <2>2, <3>1
    <2>3. CASE i = h
      BY <1>2, <1>4, <2>1, <2>3
    <2> QED BY <2>2, <2>3
  <1>7. ContentOf(n, t) \in [Keys -> Values \cup {NULL}] /\ ContentOf(n, l) \in [Keys -> Values \cup {NULL}]
    BY <1>5, ContentType
  <1> QED BY <1>5, <1>6, <1>7

(* The table that Resized makes.                                           *)
LEMMA SplitTable ==
    ASSUME NEW l, Shape(length, l), \A i \in 0..(length - 1) : l[i].end = NULL,
           NEW m \in [0..(2 * length - 1) -> Memory], NEW t, t = Resized(l, m)
    PROVE  Shape(2 * length, t) /\ ContentOf(2 * length, t) = ContentOf(length, l)
  <1> DEFINE n == length
             from(j) == l[j % n].chain
             I(j) == {p \in DOMAIN from(j) : Half(HashOf[from(j)[p].key]) = j \div n}
             part(j) == Picked(from(j), I(j))
             b(j) == [chain |-> part(j), end |-> IF part(j) = <<>> THEN m[j] ELSE NULL]
  <1>1. n \in Nat \ {0} /\ 2 * n \in Nat \ {0}
    BY DEF Shape
  <1>2. t = [j \in 0..(2 * n - 1) |-> b(j)]
    BY DEF Resized
  <1>3. ASSUME NEW j \in 0..(2 * n - 1)
        PROVE  /\ j % n \in 0..(n - 1) /\ j \div n \in {0, 1} /\ j = n * (j \div n) + (j % n)
               /\ from(j) \in Seq(Entry) /\ Once(from(j)) /\ HashesTo(from(j), n, j % n)
               /\ I(j) \in SUBSET (DOMAIN from(j))
    <2>1. j % n \in 0..(n - 1) /\ j \div n \in {0, 1} /\ j = n * (j \div n) + (j % n)
      BY <1>1, BucketHalf
    <2>2. l[j % n] \in Bucket
      BY <2>1 DEF Shape
    <2> QED BY <2>1, <2>2 DEF Shape, Bucket
  <1>4. ASSUME NEW j \in 0..(2 * n - 1), NEW p \in DOMAIN from(j)
        PROVE  /\ from(j)[p].key \in Keys /\ HashOf[from(j)[p].key] \in Nat
               /\ p \in I(j) <=> IndexFor(HashOf[from(j)[p].key], 2 * n) = j
    <2> DEFINE h == HashOf[from(j)[p].key]
               q == (h \div n) % 2
               e == j \div n
    <2>1. from(j)[p].key \in Keys /\ h \in Nat
      BY <1>3, EntryIs, HashMapAssumption
    <2>2. h % n = j % n
      BY <1>3 DEF HashesTo, IndexFor
    <2>3. h % (2 * n) = n * q + (h % n) /\ q \in {0, 1}
      BY <1>1, <2>1, SplitIndex
    <2>4. j = n * e + (j % n) /\ e \in {0, 1} /\ j % n \in 0..(n - 1)
      BY <1>3
    <2>5. p \in I(j) <=> q = e
      BY DEF Half
    <2> HIDE DEF h, q, e
    <2> DEFINE r == j % n
    <2>6. r \in Int /\ j = n * e + r /\ h % (2 * n) = n * q + r
      BY <2>2, <2>3, <2>4
    <2> HIDE DEF r
    <2>7. q = e <=> h % (2 * n) = j
      BY <1>1, <2>3, <2>4, <2>6
    <2> QED BY <2>1, <2>5, <2>7 DEF h, IndexFor
  <1>5. ASSUME NEW j \in 0..(2 * n - 1)
        PROVE  /\ part(j) \in Seq(Entry) /\ Once(part(j)) /\ HashesTo(part(j), 2 * n, j)
               /\ \A x \in Keys : (\A p \in DOMAIN from(j) : from(j)[p].key = x => p \in I(j))
                                     => Looked(part(j), x) = Looked(from(j), x)
    <2>1. /\ part(j) \in Seq(Entry) /\ Once(part(j))
          /\ \A q \in DOMAIN part(j) : \E p \in I(j) : part(j)[q] = from(j)[p]
          /\ \A x \in Keys : (\A p \in DOMAIN from(j) : from(j)[p].key = x => p \in I(j))
                                => Looked(part(j), x) = Looked(from(j), x)
      BY <1>3, PartOfChain
    <2>2. ASSUME NEW q \in DOMAIN part(j)
          PROVE  IndexFor(HashOf[part(j)[q].key], 2 * n) = j
      <3>1. PICK p \in I(j) : part(j)[q] = from(j)[p]
        BY <2>1
      <3>2. p \in DOMAIN from(j)
        OBVIOUS
      <3> QED BY <1>4, <3>1, <3>2
    <2> QED BY <2>1, <2>2 DEF HashesTo
  <1>6. ASSUME NEW j \in 0..(2 * n - 1)
        PROVE  b(j) \in Bucket /\ b(j).chain = part(j) /\ (b(j).end = JUNK => part(j) = <<>>)
    <2>1. m[j] \in {NULL, JUNK}
      BY HashMapAssumption
    <2> QED BY <1>5, <2>1, HashMapAssumption DEF Bucket
  <1> HIDE DEF b, part, I, from
  <1>7. /\ t \in [0..(2 * n - 1) -> Bucket]
        /\ \A j \in 0..(2 * n - 1) : t[j] = b(j)
    BY <1>2, <1>6
  <1>8. Shape(2 * n, t)
    BY <1>1, <1>5, <1>6, <1>7 DEF Shape
  <1>9. ASSUME NEW x \in Keys PROVE ContentOf(2 * n, t)[x] = ContentOf(n, l)[x]
    <2> DEFINE j == IndexFor(HashOf[x], 2 * n)
               i == IndexFor(HashOf[x], n)
    <2>1. j \in 0..(2 * n - 1) /\ HashOf[x] \in Nat /\ ContentOf(2 * n, t)[x] = Looked(t[j].chain, x)
      BY <1>8, HomeIs
    <2>2. ContentOf(n, l)[x] = Looked(l[i].chain, x)
      BY HomeIs
    <2>3. j % n = i
      <3> DEFINE q == (HashOf[x] \div n) % 2
      <3>1. j = n * q + i /\ q \in {0, 1} /\ i \in 0..(n - 1)
        BY <1>1, <2>1, SplitIndex DEF IndexFor
      <3> HIDE DEF q, i, j
      <3>2. q \in Int /\ j \in Int
        BY <2>1, <3>1
      <3> QED BY <1>1, <3>1, <3>2, Remainder
    <2>4. from(j) = l[i].chain
      BY <2>3 DEF from
    <2>5. \A p \in DOMAIN from(j) : from(j)[p].key = x => p \in I(j)
      BY <1>4, <2>1
    <2>6. Looked(part(j), x) = Looked(from(j), x)
      BY <1>5, <2>1, <2>5
    <2>7. t[j].chain = part(j)
      BY <1>6, <1>7, <2>1
    <2> QED BY <2>1, <2>2, <2>4, <2>6, <2>7
  <1>10. /\ ContentOf(2 * n, t) \in [Keys -> Values \cup {NULL}]
         /\ ContentOf(n, l) \in [Keys -> Values \cup {NULL}]
    BY <1>8, ContentType
  <1>11. ContentOf(2 * n, t) = ContentOf(n, l)
    BY <1>9, <1>10
  <1> QED BY <1>8, <1>11

-----------------------------------------------------------------------------
(* The operations.                                                         *)

(* What the operators of HashMap say of the chain of a key.                *)
LEMMA ChainOf ==
    ASSUME Inv, NEW k \in Keys
    PROVE  LET c == BucketOf(k).chain
           IN  /\ Home(k) = IndexFor(HashOf[k], length) /\ BucketOf(k) = list[Home(k)]
               /\ Home(k) \in 0..(length - 1) /\ DOMAIN list = 0..(length - 1)
               /\ BucketOf(k).end \in {NULL, JUNK}
               /\ c \in Seq(Entry) /\ Once(c) /\ HashesTo(c, length, Home(k))
               /\ Positions(k) = PositionsIn(c, k) /\ At(k) = AtIn(c, k)
               /\ ContentOf(length, list)[k] = Looked(c, k)
               /\ Found(k) <=> PositionsIn(c, k) # {}
               /\ Found(k) => ContentOf(length, list)[k] = ValueOf(k) /\ ValueOf(k) \in Values
               /\ ~Found(k) => ContentOf(length, list)[k] = NULL
  <1> DEFINE c == BucketOf(k).chain
             h == IndexFor(HashOf[k], length)
  <1>1. Home(k) = h /\ BucketOf(k) = list[h]
    BY DEF Home, BucketOf
  <1>2. /\ h \in 0..(length - 1) /\ DOMAIN list = 0..(length - 1) /\ c \in Seq(Entry) /\ Once(c)
        /\ BucketOf(k).end \in {NULL, JUNK} /\ ContentOf(length, list)[k] = Looked(c, k)
    <2>1. Shape(length, list) /\ DOMAIN list = 0..(length - 1) /\ c = list[h].chain
      BY <1>1 DEF Inv, Shape
    <2>2. /\ h \in 0..(length - 1) /\ list[h].chain \in Seq(Entry) /\ Once(list[h].chain)
          /\ list[h].end \in {NULL, JUNK} /\ ContentOf(length, list)[k] = Looked(list[h].chain, k)
      BY <2>1, HomeIs
    <2> QED BY <1>1, <2>1, <2>2
  <1>3. HashesTo(c, length, h)
    BY <1>1, <1>2 DEF Inv, Shape
  <1>4. Positions(k) = PositionsIn(c, k)
    BY DEF Positions, PositionsIn
  <1>5. At(k) = AtIn(c, k)
    BY <1>4 DEF At, AtIn
  <1>6. Found(k) <=> PositionsIn(c, k) # {}
    BY <1>4 DEF Found
  <1>7. Found(k) => /\ AtIn(c, k) \in DOMAIN c /\ Looked(c, k) = ValueOf(k)
                    /\ ValueOf(k) = c[AtIn(c, k)].value
    BY <1>2, <1>5, <1>6, LookedType DEF ValueOf
  <1>8. Found(k) => ValueOf(k) \in Values
    BY <1>2, <1>7, EntryIs
  <1>9. ~Found(k) => Looked(c, k) = NULL
    BY <1>6 DEF Looked
  <1> QED BY <1>1, <1>2, <1>3, <1>4, <1>5, <1>6, <1>7, <1>8, <1>9

LEMMA ContentIs == Content = ContentOf(length, list) /\ Content' = ContentOf(length, list)'
  BY DEF Content, ContentOf, Found, ValueOf, At, Positions, BucketOf, Home, Looked, AtIn, PositionsIn

(* `size' follows the keys.                                                *)
LEMMA CountsNew ==
    ASSUME Inv, NEW k \in Keys, NEW v \in Values, ContentOf(length, list)[k] = NULL,
           ContentOf(length, list)' = [ContentOf(length, list) EXCEPT ![k] = v]
    PROVE  size + 1 \in Nat /\ IsFiniteSet(KeysIn') /\ size + 1 = Cardinality(KeysIn')
  <1> DEFINE C == ContentOf(length, list)
  <1>1. C \in [Keys -> Values \cup {NULL}]
    BY ContentType DEF Inv
  <1>2. KeysIn' = KeysIn \cup {k} /\ k \notin KeysIn
    <2>1. \A x \in Keys : C'[x] = IF x = k THEN v ELSE C[x]
      BY <1>1
    <2> HIDE DEF C
    <2>2. KeysIn = {x \in Keys : C[x] # NULL} /\ KeysIn' = {x \in Keys : C'[x] # NULL}
      BY DEF KeysIn, C
    <2>3. v # NULL /\ C[k] = NULL
      BY HashMapAssumption DEF C
    <2> QED BY <2>1, <2>2, <2>3
  <1>3. IsFiniteSet(KeysIn) /\ size = Cardinality(KeysIn) /\ size \in Nat
    BY DEF Inv
  <1> QED BY <1>2, <1>3, FS_AddElement

LEMMA CountsSame ==
    ASSUME Inv, NEW k \in Keys, NEW v \in Values, ContentOf(length, list)[k] # NULL,
           ContentOf(length, list)' = [ContentOf(length, list) EXCEPT ![k] = v]
    PROVE  KeysIn' = KeysIn
  <1> DEFINE C == ContentOf(length, list)
  <1>1. C \in [Keys -> Values \cup {NULL}]
    BY ContentType DEF Inv
  <1>2. \A x \in Keys : C'[x] = IF x = k THEN v ELSE C[x]
    BY <1>1
  <1> HIDE DEF C
  <1>3. KeysIn = {x \in Keys : C[x] # NULL} /\ KeysIn' = {x \in Keys : C'[x] # NULL}
    BY DEF KeysIn, C
  <1>4. v # NULL /\ C[k] # NULL
    BY HashMapAssumption DEF C
  <1> QED BY <1>2, <1>3, <1>4

LEMMA CountsLess ==
    ASSUME Inv, NEW k \in Keys, ContentOf(length, list)[k] # NULL,
           ContentOf(length, list)' = [ContentOf(length, list) EXCEPT ![k] = NULL]
    PROVE  size - 1 \in Nat /\ IsFiniteSet(KeysIn') /\ size - 1 = Cardinality(KeysIn')
  <1> DEFINE C == ContentOf(length, list)
  <1>1. C \in [Keys -> Values \cup {NULL}]
    BY ContentType DEF Inv
  <1>2. KeysIn' = KeysIn \ {k} /\ k \in KeysIn
    <2>1. \A x \in Keys : C'[x] = IF x = k THEN NULL ELSE C[x]
      BY <1>1
    <2> HIDE DEF C
    <2>2. KeysIn = {x \in Keys : C[x] # NULL} /\ KeysIn' = {x \in Keys : C'[x] # NULL}
      BY DEF KeysIn, C
    <2>3. C[k] # NULL
      BY DEF C
    <2> QED BY <2>1, <2>2, <2>3
  <1>3. IsFiniteSet(KeysIn) /\ size = Cardinality(KeysIn) /\ size \in Nat
    BY DEF Inv
  <1>4. IsFiniteSet(KeysIn') /\ Cardinality(KeysIn') = size - 1
    BY <1>2, <1>3, FS_RemoveElement
  <1> QED BY <1>3, <1>4, FS_CardinalityType

LEMMA PutReplaceIs ==
    ASSUME Inv, NEW k \in Keys, NEW v \in Values, PutReplace(k, v)
    PROVE  Inv' /\ Abstract!MapPut(k, v)
  <1> DEFINE c == BucketOf(k).chain
             d == ReplacedIn(c, k, v)
             h == Home(k)
  <1>1. Found(k) /\ status = "ok" /\ result' = ValueOf(k) /\ UNCHANGED <<length, size, status>>
    BY DEF PutReplace
  <1>2. list' = WithChain(list, h, d)
    <2>1. list' = [list EXCEPT ![h].chain[At(k)].value = v]
      BY DEF PutReplace
    <2>2. d = [list[h].chain EXCEPT ![At(k)].value = v]
      BY ChainOf DEF ReplacedIn
    <2> QED BY <2>1, <2>2 DEF WithChain
  <1>3. /\ d \in Seq(Entry) /\ Once(d) /\ DOMAIN d = DOMAIN c
        /\ \A q \in DOMAIN d : d[q].key = c[q].key
        /\ Looked(d, k) = v
        /\ \A x \in Keys : x # k => Looked(d, x) = Looked(c, x)
    BY <1>1, ChainOf, ReplacedChain
  <1>4. HashesTo(d, length, h)
    BY <1>3, ChainOf DEF HashesTo
  <1>5. c # <<>> /\ list[h].end = JUNK => d = <<>>
    <2>1. c # <<>>
      BY <1>1, ChainOf DEF PositionsIn
    <2>2. list[h].end # JUNK
      BY <2>1, ChainOf DEF Inv, Shape
    <2> QED BY <2>1, <2>2
  <1>6. list[h].end = JUNK => d = <<>>
    <2>1. c # <<>>
      BY <1>1, ChainOf DEF PositionsIn
    <2> QED BY <1>5, <2>1
  <1> HIDE DEF d
  <1>7. Shape(length, list') /\ ContentOf(length, list') = [ContentOf(length, list) EXCEPT ![k] = v]
    <2>1. h = IndexFor(HashOf[k], length) /\ c = list[h].chain /\ Shape(length, list)
      BY ChainOf DEF Inv
    <2>2. \A x \in Keys : x # k => Looked(d, x) = Looked(list[h].chain, x)
      BY <1>3, <2>1
    <2> HIDE DEF h, c
    <2> QED BY <1>2, <1>3, <1>4, <1>6, <2>1, <2>2, ChangedTable
  <1>8. ContentOf(length, list)' = [ContentOf(length, list) EXCEPT ![k] = v] /\ Shape(length, list)'
    BY <1>1, <1>7
  <1>9. ContentOf(length, list)[k] = ValueOf(k) /\ ValueOf(k) \in Values /\ ValueOf(k) # NULL
    BY <1>1, ChainOf, HashMapAssumption
  <1>10. KeysIn' = KeysIn
    BY <1>8, <1>9, CountsSame
  <1>11. Inv'
    BY <1>1, <1>8, <1>9, <1>10 DEF Inv
  <1> QED BY <1>1, <1>8, <1>9, <1>11, ContentIs DEF Abstract!MapPut

(* A new key, in the table as it is.                                       *)
LEMMA PushedIs ==
    ASSUME Inv, NEW k \in Keys, NEW v \in Values, ~Found(k), BucketOf(k).end = NULL
    PROVE  /\ Shape(length, Pushed(k, v))
           /\ ContentOf(length, Pushed(k, v)) = [ContentOf(length, list) EXCEPT ![k] = v]
           /\ ContentOf(length, list)[k] = NULL
           /\ \A i \in DOMAIN list : Pushed(k, v)[i].end = list[i].end
  <1> DEFINE c == BucketOf(k).chain
             d == PushedOn(c, k, v)
             h == Home(k)
             t == Pushed(k, v)
  <1>1. h = IndexFor(HashOf[k], length) /\ c = list[h].chain /\ list[h].end = NULL /\ h \in DOMAIN list
    BY ChainOf
  <1>2. t = WithChain(list, h, d)
    BY <1>1 DEF Pushed, PushedOn, WithChain
  <1>3. /\ d \in Seq(Entry) /\ Once(d)
        /\ \A q \in DOMAIN d : d[q].key = k \/ \E p \in DOMAIN c : d[q] = c[p]
        /\ Looked(d, k) = v
        /\ \A x \in Keys : x # k => Looked(d, x) = Looked(c, x)
    <2>1. c \in Seq(Entry) /\ Once(c) /\ PositionsIn(c, k) = {}
      BY ChainOf
    <2> HIDE DEF c
    <2> QED BY <2>1, PushedChain
  <1>4. HashesTo(d, length, h)
    BY <1>1, <1>3, ChainOf DEF HashesTo
  <1>5. list[h].end # JUNK
    BY <1>1, HashMapAssumption
  <1>6. \A i \in DOMAIN list : t[i].end = list[i].end
    <2>1. list[h] \in Bucket
      BY ChainOf DEF Inv, Shape
    <2> HIDE DEF d, h, t
    <2> QED BY <1>2, <2>1 DEF Bucket, WithChain
  <1> HIDE DEF d, h, t, c
  <1>7. Shape(length, t) /\ ContentOf(length, t) = [ContentOf(length, list) EXCEPT ![k] = v]
    <2>1. Shape(length, list) /\ \A x \in Keys : x # k => Looked(d, x) = Looked(list[h].chain, x)
      BY <1>1, <1>3 DEF Inv
    <2> QED BY <1>1, <1>2, <1>3, <1>4, <1>5, <2>1, ChangedTable
  <1> QED BY <1>6, <1>7, ChainOf DEF t

LEMMA PutNewIs ==
    ASSUME Inv, NEW k \in Keys, NEW v \in Values, PutNew(k, v)
    PROVE  Inv' /\ Abstract!MapPut(k, v)
  <1>1. /\ status = "ok" /\ ~Found(k) /\ BucketOf(k).end = NULL
        /\ list' = Pushed(k, v) /\ size' = size + 1 /\ result' = NULL /\ UNCHANGED <<length, status>>
    BY DEF PutNew
  <1>2. /\ Shape(length, list)' /\ ContentOf(length, list)[k] = NULL
        /\ ContentOf(length, list)' = [ContentOf(length, list) EXCEPT ![k] = v]
    BY <1>1, PushedIs
  <1>3. size + 1 \in Nat /\ IsFiniteSet(KeysIn') /\ size + 1 = Cardinality(KeysIn')
    BY <1>2, CountsNew
  <1>4. Inv'
    BY <1>1, <1>2, <1>3 DEF Inv
  <1> QED BY <1>1, <1>2, <1>4, ContentIs DEF Abstract!MapPut

LEMMA PutResizeIs ==
    ASSUME Inv, NEW k \in Keys, NEW v \in Values, PutResize(k, v)
    PROVE  Inv' /\ Abstract!MapPut(k, v)
  <1> DEFINE t == Pushed(k, v)
  <1>1. /\ status = "ok" /\ ~Found(k) /\ BucketOf(k).end = NULL
        /\ \A i \in DOMAIN list : list[i].end = NULL
        /\ length' = 2 * length /\ size' = size + 1 /\ result' = NULL /\ UNCHANGED status
    BY DEF PutResize
  <1>2. PICK m \in [0..(2 * length - 1) -> Memory] : list' = Resized(t, m)
    BY DEF PutResize
  <1>3. /\ Shape(length, t) /\ ContentOf(length, list)[k] = NULL
        /\ ContentOf(length, t) = [ContentOf(length, list) EXCEPT ![k] = v]
        /\ \A i \in DOMAIN list : t[i].end = list[i].end
    BY <1>1, PushedIs
  <1>4. \A i \in 0..(length - 1) : t[i].end = NULL
    BY <1>1, <1>3, ChainOf
  <1> HIDE DEF t
  <1>5. Shape(2 * length, list') /\ ContentOf(2 * length, list') = ContentOf(length, t)
    BY <1>2, <1>3, <1>4, SplitTable
  <1>6. /\ Shape(length, list)'
        /\ ContentOf(length, list)' = [ContentOf(length, list) EXCEPT ![k] = v]
    BY <1>1, <1>3, <1>5
  <1>7. size + 1 \in Nat /\ IsFiniteSet(KeysIn') /\ size + 1 = Cardinality(KeysIn')
    BY <1>3, <1>6, CountsNew
  <1>8. Inv'
    BY <1>1, <1>6, <1>7 DEF Inv
  <1> QED BY <1>1, <1>3, <1>6, <1>8, ContentIs DEF Abstract!MapPut

LEMMA RemoveIs ==
    ASSUME Inv, NEW k \in Keys, Remove(k)
    PROVE  Inv' /\ Abstract!MapRemove(k)
  <1> DEFINE c == BucketOf(k).chain
             d == CutFrom(c, k)
             h == Home(k)
             C == ContentOf(length, list)
  <1>1. status = "ok" /\ UNCHANGED <<length, status>>
    BY DEF Remove, Walk
  <1>2. CASE ~Found(k)
    <2>1. result' = NULL /\ UNCHANGED <<list, size>>
      BY <1>2 DEF Remove
    <2>2. C[k] = NULL /\ C \in [Keys -> Values \cup {NULL}]
      BY <1>2, ChainOf, ContentType DEF Inv
    <2>3. C' = C
      BY <1>1, <2>1
    <2>4. KeysIn' = KeysIn /\ Shape(length, list)'
      BY <1>1, <2>1 DEF KeysIn, Inv
    <2>5. Inv'
      BY <1>1, <2>1, <2>4 DEF Inv
    <2>6. C' = [C EXCEPT ![k] = NULL]
      <3> HIDE DEF C
      <3> QED BY <2>2, <2>3
    <2> QED BY <1>1, <2>1, <2>2, <2>5, <2>6, ContentIs DEF Abstract!MapRemove
  <1>3. CASE Found(k)
    <2>1. list' = Unlinked(k) /\ size' = size - 1 /\ result' = ValueOf(k)
      BY <1>3 DEF Remove, SizeAfterRemove
    <2>2. h = IndexFor(HashOf[k], length) /\ c = list[h].chain /\ h \in DOMAIN list
      BY ChainOf
    <2>3. list' = WithChain(list, h, d)
      BY <2>1, <2>2, ChainOf DEF Unlinked, CutFrom, WithChain
    <2>4. /\ d \in Seq(Entry) /\ Once(d) /\ \A q \in DOMAIN d : \E p \in DOMAIN c : d[q] = c[p]
          /\ Looked(d, k) = NULL /\ \A x \in Keys : x # k => Looked(d, x) = Looked(c, x)
      BY <1>3, ChainOf, CutChain
    <2>5. HashesTo(d, length, h)
      BY <2>4, ChainOf DEF HashesTo
    <2>6. list[h].end # JUNK
      <3>1. c # <<>>
        BY <1>3, ChainOf DEF PositionsIn
      <3> QED BY <3>1, ChainOf DEF Inv, Shape
    <2> HIDE DEF d, c, h
    <2>7. Shape(length, list') /\ ContentOf(length, list') = [ContentOf(length, list) EXCEPT ![k] = NULL]
      <3>1. Shape(length, list) /\ \A x \in Keys : x # k => Looked(d, x) = Looked(list[h].chain, x)
        BY <2>2, <2>4 DEF Inv
      <3> QED BY <2>2, <2>3, <2>4, <2>5, <2>6, <3>1, ChangedTable
    <2>8. Shape(length, list)' /\ C' = [C EXCEPT ![k] = NULL]
      BY <1>1, <2>7
    <2>9. C[k] = ValueOf(k) /\ ValueOf(k) \in Values /\ ValueOf(k) # NULL
      BY <1>3, ChainOf, HashMapAssumption
    <2>10. size - 1 \in Nat /\ IsFiniteSet(KeysIn') /\ size - 1 = Cardinality(KeysIn')
      BY <2>8, <2>9, CountsLess
    <2>11. Inv'
      BY <1>1, <2>1, <2>8, <2>9, <2>10 DEF Inv
    <2> QED BY <1>1, <2>1, <2>8, <2>9, <2>11, ContentIs DEF Abstract!MapRemove
  <1> QED BY <1>2, <1>3

LEMMA ClearIs ==
    ASSUME Inv, Clear
    PROVE  Inv' /\ Abstract!MapClear
  <1> DEFINE e == [chain |-> <<>>, end |-> NULL]
  <1>1. /\ status = "ok" /\ list' = [i \in DOMAIN list |-> e] /\ size' = 0 /\ result' = NULL
        /\ UNCHANGED <<length, status>>
    BY DEF Clear
  <1>2. length \in Nat \ {0} /\ DOMAIN list = 0..(length - 1)
    BY DEF Inv, Shape
  <1>3. e \in Bucket /\ e.chain = <<>> /\ e.end = NULL
    BY DEF Bucket
  <1> HIDE DEF e
  <1>4. \A i \in 0..(length - 1) : list'[i].chain = <<>> /\ list'[i].end = NULL
    BY <1>1, <1>2, <1>3
  <1>5. Shape(length, list')
    <2>1. list' \in [0..(length - 1) -> Bucket]
      BY <1>1, <1>2, <1>3
    <2>2. \A i \in 0..(length - 1) : Once(list'[i].chain) /\ HashesTo(list'[i].chain, length, i)
      BY <1>4 DEF Once, HashesTo
    <2> QED BY <1>2, <1>4, <2>1, <2>2 DEF Shape
  <1>6. ContentOf(length, list') = [k \in Keys |-> NULL]
    <2>1. ASSUME NEW k \in Keys PROVE ContentOf(length, list')[k] = NULL
      <3>1. /\ IndexFor(HashOf[k], length) \in 0..(length - 1)
            /\ ContentOf(length, list')[k] = Looked(list'[IndexFor(HashOf[k], length)].chain, k)
        BY <1>5, HomeIs
      <3>2. list'[IndexFor(HashOf[k], length)].chain = <<>>
        BY <1>4, <3>1
      <3>3. Looked(<<>>, k) = NULL
        BY NotFound
      <3> QED BY <3>1, <3>2, <3>3
    <2>2. ContentOf(length, list') \in [Keys -> Values \cup {NULL}]
      BY <1>5, ContentType
    <2> QED BY <2>1, <2>2
  <1>7. Shape(length, list)' /\ ContentOf(length, list)' = [k \in Keys |-> NULL]
    BY <1>1, <1>5, <1>6
  <1>8. KeysIn' = {}
    BY <1>7 DEF KeysIn
  <1>9. Inv'
    BY <1>1, <1>7, <1>8, FS_EmptySet DEF Inv
  <1> QED BY <1>1, <1>7, <1>9, ContentIs DEF Abstract!MapClear

(* An operation that leaves the table alone.                               *)
LEMMA Untouched ==
    ASSUME Inv, UNCHANGED <<length, list, size>>, status' \in {"ok", "undefined"},
           result' \in Values \cup {NULL} \cup BOOLEAN
    PROVE  Inv' /\ Content' = Content
  <1>1. ContentOf(length, list)' = ContentOf(length, list) /\ Shape(length, list)'
    BY DEF Inv
  <1>2. KeysIn' = KeysIn
    BY <1>1 DEF KeysIn
  <1> QED BY <1>1, <1>2, ContentIs DEF Inv

LEMMA InitIs == Init => Inv /\ Abstract!MapInit
  <1> SUFFICES ASSUME Init PROVE Inv /\ Abstract!MapInit
    OBVIOUS
  <1>1. PICK m \in [0..(InitialCapacity - 1) -> Memory] : list = FreshList(m)
    BY DEF Init
  <1>2. length \in Nat \ {0} /\ length = InitialCapacity
    BY HashMapAssumption DEF Init
  <1>3. \A i \in 0..(length - 1) : list[i] \in Bucket /\ list[i].chain = <<>>
    <2> SUFFICES ASSUME NEW i \in 0..(length - 1) PROVE list[i] \in Bucket /\ list[i].chain = <<>>
      OBVIOUS
    <2>1. list[i] = [chain |-> <<>>, end |-> IF i < Cleared THEN NULL ELSE m[i]]
      BY <1>1, <1>2 DEF FreshList
    <2>2. m[i] \in {NULL, JUNK}
      BY <1>2, HashMapAssumption
    <2> QED BY <2>1, <2>2 DEF Bucket
  <1>4. list \in [0..(length - 1) -> Bucket]
    <2>1. list = [i \in 0..(length - 1) |-> [chain |-> <<>>, end |-> IF i < Cleared THEN NULL ELSE m[i]]]
      BY <1>1, <1>2 DEF FreshList
    <2>2. list = [i \in 0..(length - 1) |-> list[i]]
      BY <2>1
    <2> QED BY <1>3, <2>2
  <1>5. Shape(length, list)
    BY <1>2, <1>3, <1>4 DEF Shape, Once, HashesTo
  <1>6. ContentOf(length, list) = [k \in Keys |-> NULL]
    <2>1. ASSUME NEW k \in Keys PROVE ContentOf(length, list)[k] = NULL
      <3>1. /\ IndexFor(HashOf[k], length) \in 0..(length - 1)
            /\ ContentOf(length, list)[k] = Looked(list[IndexFor(HashOf[k], length)].chain, k)
        BY <1>5, HomeIs
      <3>2. list[IndexFor(HashOf[k], length)].chain = <<>>
        BY <1>3, <3>1
      <3>3. Looked(<<>>, k) = NULL
        BY NotFound
      <3> QED BY <3>1, <3>2, <3>3
    <2>2. ContentOf(length, list) \in [Keys -> Values \cup {NULL}]
      BY <1>5, ContentType
    <2> QED BY <2>1, <2>2
  <1>7. KeysIn = {}
    BY <1>6 DEF KeysIn
  <1>8. size = 0 /\ status = "ok" /\ result = NULL
    BY DEF Init
  <1>9. Inv
    BY <1>5, <1>7, <1>8, FS_EmptySet DEF Inv
  <1> QED BY <1>6, <1>8, <1>9, ContentIs DEF Abstract!MapInit

(* Every step keeps the invariant, and is a step of the map or none.       *)
LEMMA StepIs == Inv /\ [Next]_vars => Inv' /\ [Abstract!MapNext]_(Abstract!mapVars)
  <1> SUFFICES ASSUME Inv, [Next]_vars PROVE Inv' /\ [Abstract!MapNext]_(Abstract!mapVars)
    OBVIOUS
  <1>1. CASE UNCHANGED vars
    <2>1. Inv' /\ Content' = Content
      BY <1>1, Untouched DEF vars, Inv
    <2> QED BY <1>1, <2>1 DEF vars, Abstract!mapVars
  <1>2. ASSUME NEW k \in Keys, NEW v \in Values, PutReplace(k, v) \/ PutNew(k, v) \/ PutResize(k, v)
        PROVE  Inv' /\ Abstract!MapNext
    BY <1>2, PutReplaceIs, PutNewIs, PutResizeIs DEF Abstract!MapNext
  <1>3. ASSUME NEW k \in Keys, NEW v \in Values, PutNoMemory(k) PROVE Inv' /\ Abstract!MapNext
    <2>1. /\ status = "ok" /\ ~Found(k) /\ result' = NULL
          /\ UNCHANGED <<length, list, size, status>>
      BY <1>3 DEF PutNoMemory
    <2>2. Inv' /\ Content' = Content
      BY <2>1, Untouched DEF Inv
    <2>3. Content[k] = NULL
      BY <2>1, ChainOf, ContentIs
    <2>4. Abstract!MapPut(k, v)
      BY <2>1, <2>2, <2>3 DEF Abstract!MapPut
    <2> QED BY <2>2, <2>4 DEF Abstract!MapNext
  <1>4. ASSUME NEW k \in Keys, Get(k) PROVE Inv' /\ Abstract!MapNext
    <2>1. /\ status = "ok" /\ result' = (IF Found(k) THEN ValueOf(k) ELSE NULL)
          /\ UNCHANGED <<length, list, size, status>>
      BY <1>4 DEF Get, Walk
    <2>2. result' = Content[k] /\ result' \in Values \cup {NULL}
      BY <2>1, ChainOf, ContentIs
    <2>3. Inv' /\ Content' = Content
      BY <2>1, <2>2, Untouched DEF Inv
    <2> QED BY <2>1, <2>2, <2>3 DEF Abstract!MapNext, Abstract!MapGet
  <1>5. ASSUME NEW k \in Keys, Exists(k) PROVE Inv' /\ Abstract!MapNext
    <2>1. status = "ok" /\ result' = Found(k) /\ UNCHANGED <<length, list, size, status>>
      BY <1>5 DEF Exists, Walk
    <2>2. Found(k) \in BOOLEAN /\ Found(k) = (Content[k] # NULL)
      <3>1. Found(k) \in BOOLEAN
        BY DEF Found
      <3>2. Found(k) <=> Content[k] # NULL
        BY ChainOf, ContentIs, HashMapAssumption
      <3> QED BY <3>1, <3>2
    <2>3. Inv' /\ Content' = Content
      BY <2>1, <2>2, Untouched DEF Inv
    <2> QED BY <2>1, <2>2, <2>3 DEF Abstract!MapNext, Abstract!MapExists
  <1>6. ASSUME NEW k \in Keys, Remove(k) PROVE Inv' /\ Abstract!MapNext
    BY <1>6, RemoveIs DEF Abstract!MapNext
  <1>7. CASE Clear
    BY <1>7, ClearIs DEF Abstract!MapNext
  <1>8. ASSUME status = "ok", Undefined PROVE Inv' /\ Abstract!MapNext
    <2>1. Inv' /\ Content' = Content
      BY <1>8, Untouched DEF Undefined, Inv
    <2> QED BY <1>8, <2>1 DEF Abstract!MapNext, Abstract!Undefined, Undefined
  <1>9. ASSUME NEW k \in Keys, PutUndefined(k) \/ (Lost(k) /\ Undefined) PROVE Inv' /\ Abstract!MapNext
    BY <1>8, <1>9 DEF PutUndefined, Lost
  <1>10. CASE ClearUndefined
    BY <1>8, <1>10 DEF ClearUndefined
  <1> QED BY <1>1, <1>2, <1>3, <1>4, <1>5, <1>6, <1>7, <1>9, <1>10 DEF Next

LEMMA InvTyped == Inv => TypeOK
  <1> SUFFICES ASSUME Inv PROVE TypeOK
    OBVIOUS
  <1> QED BY DEF Inv, Shape, TypeOK

LEMMA InvWellFormed == Inv => WellFormed
  <1> SUFFICES ASSUME Inv PROVE WellFormed
    OBVIOUS
  <1> DEFINE Places == UNION {{i} \X DOMAIN list[i].chain : i \in DOMAIN list}
             KeyAt(e) == list[e[1]].chain[e[2]].key
  <1>1. /\ length \in Nat \ {0} /\ DOMAIN list = 0..(length - 1)
        /\ \A i \in DOMAIN list :
              /\ list[i].chain \in Seq(Entry) /\ Once(list[i].chain) /\ HashesTo(list[i].chain, length, i)
              /\ list[i].end = JUNK => list[i].chain = <<>>
    BY DEF Inv, Shape, Bucket
  <1>2. WellPlaced /\ JunkOnlyWhereEmpty
    BY <1>1 DEF WellPlaced, HashesTo, JunkOnlyWhereEmpty
  <1>3. \A e : e \in Places <=> \E i \in DOMAIN list : \E p \in DOMAIN list[i].chain : e = <<i, p>>
    OBVIOUS
  <1>4. ASSUME NEW e \in Places, NEW f \in Places, KeyAt(e) = KeyAt(f) PROVE e = f
    <2>1. PICK i \in DOMAIN list : \E p \in DOMAIN list[i].chain : e = <<i, p>>
      BY <1>3
    <2>2. PICK p \in DOMAIN list[i].chain : e = <<i, p>>
      BY <2>1
    <2>3. PICK j \in DOMAIN list : \E q \in DOMAIN list[j].chain : f = <<j, q>>
      BY <1>3
    <2>4. PICK q \in DOMAIN list[j].chain : f = <<j, q>>
      BY <2>3
    <2>5. list[i].chain[p].key = list[j].chain[q].key
      BY <1>4, <2>2, <2>4
    <2>6. i = j
      <3>1. IndexFor(HashOf[list[i].chain[p].key], length) = i
        BY <1>1 DEF HashesTo
      <3>2. IndexFor(HashOf[list[j].chain[q].key], length) = j
        BY <1>1 DEF HashesTo
      <3> QED BY <2>5, <3>1, <3>2
    <2>7. p = q
      BY <1>1, <2>5, <2>6 DEF Once
    <2> QED BY <2>2, <2>4, <2>6, <2>7
  <1>5. {KeyAt(e) : e \in Places} = KeysIn
    <2>1. ASSUME NEW e \in Places PROVE KeyAt(e) \in KeysIn
      <3>1. PICK i \in DOMAIN list : \E p \in DOMAIN list[i].chain : e = <<i, p>>
        BY <1>3
      <3>2. PICK p \in DOMAIN list[i].chain : e = <<i, p>>
        BY <3>1
      <3> DEFINE c == list[i].chain
                 k == c[p].key
      <3>3. KeyAt(e) = k
        BY <3>2
      <3>4. k \in Keys /\ c[p].value \in Values /\ IndexFor(HashOf[k], length) = i
        BY <1>1, EntryIs DEF HashesTo
      <3>5. Looked(c, k) = c[p].value
        BY <1>1, FoundAt
      <3>6. ContentOf(length, list)[k] # NULL
        BY <3>4, <3>5, HashMapAssumption DEF ContentOf
      <3> QED BY <3>3, <3>4, <3>6 DEF KeysIn
    <2>2. ASSUME NEW k \in KeysIn PROVE \E e \in Places : k = KeyAt(e)
      <3> DEFINE i == IndexFor(HashOf[k], length)
                 c == list[i].chain
      <3>1. k \in Keys /\ ContentOf(length, list)[k] # NULL
        BY DEF KeysIn
      <3>2. i \in DOMAIN list /\ c \in Seq(Entry) /\ Once(c) /\ Looked(c, k) # NULL
        BY <1>1, <3>1, HomeIs DEF Inv
      <3>3. AtIn(c, k) \in DOMAIN c /\ c[AtIn(c, k)].key = k
        BY <3>2, LookedType
      <3>4. <<i, AtIn(c, k)>> \in Places /\ KeyAt(<<i, AtIn(c, k)>>) = k
        BY <1>3, <3>2, <3>3
      <3> QED BY <3>4
    <2> QED BY <2>1, <2>2
  <1>6. size = Cardinality({KeyAt(e) : e \in Places})
    BY <1>5 DEF Inv
  <1>7. SizeExact
    BY <1>4, <1>6 DEF SizeExact
  <1> QED BY <1>2, <1>7 DEF WellFormed

-----------------------------------------------------------------------------
(* Every reachable table is well-typed, for any keys, capacities and memory*)
(* (hashmap.c:9-38).                                                       *)
THEOREM WellTyped == Spec => []TypeOK
  BY InitIs, StepIs, InvTyped, PTL DEF Spec

(* Every entry is where its hash leads, `size' counts the keys, none is    *)
(* there twice, and junk ends empty chains only, through any growths       *)
(* (hashmap.c:40-160).                                                     *)
THEOREM StaysWellFormed == Spec => []WellFormed
  BY InitIs, StepIs, InvWellFormed, PTL DEF Spec

(* The table is the map of hashmap.h, through collisions, removals and     *)
(* growth, until it follows memory that was never written                  *)
(* (hashmap.c:40-301).                                                     *)
THEOREM IsTheMap == Spec => ImplementsMap
  BY InitIs, StepIs, PTL DEF Spec, ImplementsMap, Abstract!MapSpec
=============================================================================
