--------------------------- MODULE HookListProofs ---------------------------
(***************************************************************************)
(* Proofs about HookList, for any plugins, events and kinds of hooks, any  *)
(* number of hooks and any depth of calls.                                 *)
(*                                                                         *)
(* A run may be interrupted anywhere by callbacks that hook, unhook and    *)
(* run hooks themselves, so what a run relies on is said of every frame of *)
(* the stack (Sound) and not only of the innermost: what it has called     *)
(* stands before the hook it goes on with, what it still owes a call       *)
(* stands from there on, and priorities fall.  All that other calls do to  *)
(* the list and the blocks is to put new hooks between the old ones, to    *)
(* take some out, and to mark some as deleted; none of this disturbs a     *)
(* frame (SoundKept).                                                      *)
(***************************************************************************)
EXTENDS HookList, Integers, FiniteSetTheorems, SequenceTheorems, WellFoundedInduction, TLAPS

HookRec == [addr : Addresses, pl : Plugins, type : Types \cup {"DELETED"},
            name : {k.name : k \in Kinds}, pri : Nat]

Typed ==
    /\ blocks \in Seq(HookRec) /\ Len(blocks) <= MaxHooks
    /\ list \in Seq(DOMAIN blocks) /\ IsInjective(list)
    /\ loaded \subseteq Plugins
    /\ sources \subseteq [tag : Ids, addr : Addresses]
    /\ stack \in Seq(Frame)
    /\ fault \in {"none", "dangling", "unloaded", "stray"}
    /\ nested \in BOOLEAN /\ recycled \in BOOLEAN

-----------------------------------------------------------------------------
\* hooks of commands and of print events stand in the order of their priorities
Sorted(T) == \A i, j \in DOMAIN list :
    i < j /\ blocks[list[i]].type \in T /\ blocks[list[j]].type \in T =>
        blocks[list[i]].pri >= blocks[list[j]].pri

\* malloc gives out an address once
Placed == \A i, j \in DOMAIN list : blocks[list[i]].addr = blocks[list[j]].addr => i = j

Tidy == Sorted({"COMMAND"}) /\ Sorted({"PRINT", "PRINT_ATTRS"}) /\ Placed

-----------------------------------------------------------------------------
\* what a frame knows are hooks that were made
Known(f) ==
    /\ \A n \in DOMAIN f.called : f.called[n] \in DOMAIN blocks
    /\ f.due \subseteq DOMAIN blocks
    /\ f.next # 0 => f.next \in DOMAIN blocks /\ f.kind = "run"
    /\ f.kind = "timer" => f.hook \in DOMAIN blocks

\* what a run has called, it has passed
Passed(f) ==
    /\ IsInjective(f.called)
    /\ \A n \in DOMAIN f.called, i, j \in DOMAIN list : list[i] = f.called[n] /\ list[j] = f.next => i < j

\* what it has not, it still comes to
Served(f) == \A h \in f.due : Live(h) =>
    /\ Matches(h, f)
    /\ \/ \E n \in DOMAIN f.called : f.called[n] = h
       \/ f.next # 0 /\ \A i, j \in DOMAIN list : list[i] = h /\ list[j] = f.next => j <= i

\* and nothing of a higher priority than what it has called
Fallen(f) == \A m, n \in DOMAIN f.called :
    m < n /\ f.called[m] \in f.due /\ f.called[n] \in f.due => blocks[f.called[m]].pri >= blocks[f.called[n]].pri
Falling(f) == \A n \in DOMAIN f.called, i, j \in DOMAIN list :
    f.called[n] \in f.due /\ list[j] = f.next /\ j <= i /\ list[i] \in f.due /\ ~Deleted(list[i]) =>
        blocks[f.called[n]].pri >= blocks[list[i]].pri

Sound(f) ==
    Known(f) /\ Passed(f) /\ Served(f) /\ ("SERVER" \notin f.mask => Fallen(f) /\ Falling(f))

-----------------------------------------------------------------------------
\* The hook a run goes on with is there, unless a run inside it freed it, and
\* the hook of a timer is alone at its address, unless that was given out again.
Kept(f) == f.next # 0 => Allocated(f.next)
OwnAddress(f) == \A h \in DOMAIN blocks :
    Live(h) /\ blocks[h].addr = blocks[f.hook].addr => h = f.hook

Fine(f) ==
    /\ Sound(f)
    /\ ~nested => Kept(f)
    /\ ~recycled /\ f.kind = "timer" => OwnAddress(f)

\* As long as nothing has gone wrong, callbacks return to plugins that are loaded,
\* and a plugin that is being loaded was not called into before.
Stands(s, plugins) ==
    /\ \A i \in DOMAIN s : s[i].pl \in plugins
    /\ \A i, j \in DOMAIN s : i < j /\ s[j].kind = "init" => s[i].pl # s[j].pl

In(s) == {s[i] : i \in DOMAIN s}

Inv ==
    /\ Typed /\ Tidy
    /\ \A f \in In(stack) : Fine(f)
    /\ fault = "none" => Stands(stack, loaded)
    /\ UnloadedHasNoHooks /\ TimeoutsAreHooked /\ OnlyNestedRunsDangle

-----------------------------------------------------------------------------
(* A set of natural numbers that is not empty has a least element.         *)
LEMMA Least ==
    ASSUME NEW S \in SUBSET Nat, S # {}
    PROVE  \E m \in S : \A k \in S : m <= k
  <1>1. IsWellFoundedOn(OpToRel(<, Nat), Nat)
    BY NatLessThanWellFounded
  <1>2. PICK m \in S : \A k \in S : ~(<<k, m>> \in OpToRel(<, Nat))
    BY <1>1, WFMin
  <1>3. \A k \in S : ~(k < m)
    BY <1>2 DEF OpToRel
  <1> QED BY <1>3

(* Min is an element, and where it should be.                              *)
LEMMA MinIs ==
    ASSUME NEW S \in SUBSET Nat, S # {}
    PROVE  Min(S) \in S /\ \A k \in S : Min(S) <= k
  BY Least DEF Min

(* Parts of a sequence: the i-th of n positions is there, the order is     *)
(* theirs, and every position is the i-th for some i.                      *)

LEMMA NthIs ==
    ASSUME NEW n \in Nat, NEW I \in SUBSET (1..n)
    PROVE  /\ Cardinality(I) \in Nat
           /\ \A i \in 1..Cardinality(I) : Nth(I, i) \in I
           /\ \A i, j \in 1..Cardinality(I) : i < j => Nth(I, i) < Nth(I, j)
           /\ \A j \in I : \E i \in 1..Cardinality(I) : Nth(I, i) = j
  <1> DEFINE Below(j) == {k \in I : k <= j}
             rank == [j \in I |-> Cardinality(Below(j))]
             c == Cardinality(I)
  <1>1. IsFiniteSet(I) /\ c \in Nat /\ I \subseteq Nat
    <2>1. IsFiniteSet(1..n)
      BY FS_Interval
    <2>2. IsFiniteSet(I)
      BY <2>1, FS_Subset
    <2>3. Cardinality(I) \in Nat
      BY <2>2, FS_CardinalityType
    <2> QED BY <2>2, <2>3
  <1>2. \A j \in I : IsFiniteSet(Below(j)) /\ rank[j] \in 1..c
    <2> SUFFICES ASSUME NEW j \in I PROVE IsFiniteSet(Below(j)) /\ rank[j] \in 1..c
      OBVIOUS
    <2>1. Below(j) \in SUBSET I /\ j \in Below(j)
      BY <1>1
    <2>2. IsFiniteSet(Below(j)) /\ Cardinality(Below(j)) <= c /\ Cardinality(Below(j)) \in Nat
      BY <1>1, <2>1, FS_Subset, FS_CardinalityType
    <2>3. Cardinality(Below(j)) # 0
      BY <2>1, <2>2, FS_EmptySet
    <2> QED BY <1>1, <2>2, <2>3
  <1>3. \A j, k \in I : j < k => rank[j] < rank[k]
    <2> SUFFICES ASSUME NEW j \in I, NEW k \in I, j < k PROVE rank[j] < rank[k]
      OBVIOUS
    <2>1. Below(j) \in SUBSET Below(k) /\ k \in Below(k) /\ k \notin Below(j)
      <3>1. \A i \in I : i <= j => i <= k
        BY <1>1
      <3>2. k <= k /\ ~(k <= j)
        BY <1>1
      <3> QED BY <3>1, <3>2
    <2>2. Cardinality(Below(j)) <= Cardinality(Below(k)) /\ Cardinality(Below(j)) # Cardinality(Below(k))
      BY <1>2, <2>1, FS_Subset
    <2> QED BY <1>1, <1>2, <2>2
  <1>4. rank \in Injection(I, 1..c)
    <2>1. rank \in [I -> 1..c]
      BY <1>2
    <2>2. ASSUME NEW j \in I, NEW k \in I, rank[j] = rank[k] PROVE j = k
      <3>1. rank[j] \in Nat /\ rank[k] \in Nat /\ j \in Nat /\ k \in Nat
        BY <1>1, <1>2
      <3>2. ~(j < k) /\ ~(k < j)
        BY <1>3, <2>2, <3>1
      <3> QED BY <3>1, <3>2
    <2> QED BY <2>1, <2>2 DEF Injection, IsInjective
  <1>5. IsFiniteSet(1..c) /\ Cardinality(1..c) = c
    BY <1>1, FS_Interval
  <1>6. rank \in Surjection(I, 1..c)
    BY <1>1, <1>4, <1>5, FS_Injection
  <1>7. \A i \in 1..c : Nth(I, i) \in I /\ rank[Nth(I, i)] = i
    <2> TAKE i \in 1..c
    <2>1. \E j \in I : rank[j] = i
      BY <1>6 DEF Surjection
    <2>2. \E j \in I : Cardinality({k \in I : k <= j}) = i
      BY <2>1
    <2> QED BY <2>2 DEF Nth
  <1>8. \A j \in I : Nth(I, rank[j]) = j
    <2> TAKE j \in I
    <2>1. rank[j] \in 1..c
      BY <1>2
    <2>2. Nth(I, rank[j]) \in I /\ rank[Nth(I, rank[j])] = rank[j]
      BY <1>7, <2>1
    <2> QED BY <1>4, <2>2 DEF Injection, IsInjective
  <1>9. \A i, j \in 1..c : i < j => Nth(I, i) < Nth(I, j)
    <2> SUFFICES ASSUME NEW i \in 1..c, NEW j \in 1..c, i < j PROVE Nth(I, i) < Nth(I, j)
      OBVIOUS
    <2> DEFINE x == Nth(I, i)
               y == Nth(I, j)
    <2>1. x \in I /\ y \in I /\ rank[x] = i /\ rank[y] = j
      BY <1>7
    <2> HIDE DEF x, y, rank
    <2>2. ~(x = y) /\ ~(y < x)
      BY <1>1, <1>3, <2>1
    <2>3. x < y
      BY <1>1, <2>1, <2>2
    <2> QED BY <2>3 DEF x, y
  <1> QED BY <1>1, <1>2, <1>7, <1>8, <1>9

LEMMA PickedIs ==
    ASSUME NEW S, NEW s \in Seq(S), NEW I \in SUBSET (DOMAIN s)
    PROVE  /\ Picked(s, I) \in Seq(S) /\ DOMAIN Picked(s, I) = 1..Cardinality(I)
           /\ Len(Picked(s, I)) = Cardinality(I) /\ Cardinality(I) \in Nat
           /\ \A i \in 1..Cardinality(I) : Nth(I, i) \in I /\ Picked(s, I)[i] = s[Nth(I, i)]
           /\ \A i, j \in 1..Cardinality(I) : i < j => Nth(I, i) < Nth(I, j)
           /\ \A j \in I : \E i \in 1..Cardinality(I) : Nth(I, i) = j
  <1>1. DOMAIN s = 1..Len(s) /\ Len(s) \in Nat /\ \A j \in 1..Len(s) : s[j] \in S
    OBVIOUS
  <1>2. /\ Cardinality(I) \in Nat
        /\ \A i \in 1..Cardinality(I) : Nth(I, i) \in I
        /\ \A i, j \in 1..Cardinality(I) : i < j => Nth(I, i) < Nth(I, j)
        /\ \A j \in I : \E i \in 1..Cardinality(I) : Nth(I, i) = j
    BY <1>1, NthIs
  <1> DEFINE c == Cardinality(I)
             p == [i \in 1..c |-> s[Nth(I, i)]]
  <1>3. p \in Seq(S) /\ DOMAIN p = 1..c /\ Len(p) = c
    <2>1. \A i \in 1..c : s[Nth(I, i)] \in S
      BY <1>1, <1>2
    <2>2. c \in Nat
      BY <1>2
    <2> HIDE DEF c
    <2> QED BY <2>1, <2>2
  <1>4. Picked(s, I) = p
    BY DEF Picked
  <1> QED BY <1>2, <1>3, <1>4

-----------------------------------------------------------------------------
(* The types.                                                              *)

LEMMA Lists ==
    ASSUME Typed
    PROVE  /\ DOMAIN blocks = 1..Len(blocks) /\ Len(blocks) \in Nat /\ DOMAIN blocks \subseteq Ids
           /\ DOMAIN list = 1..Len(list) /\ Len(list) \in Nat
           /\ \A i \in DOMAIN list : list[i] \in DOMAIN blocks /\ list[i] \in Nat /\ list[i] # 0
           /\ \A h \in DOMAIN blocks : blocks[h] \in HookRec
           /\ \A i, j \in DOMAIN list : list[i] = list[j] => i = j
           /\ DOMAIN stack = 1..Len(stack) /\ Len(stack) \in Nat
           /\ \A i \in DOMAIN stack : stack[i] \in Frame
  <1>1. blocks \in Seq(HookRec) /\ list \in Seq(DOMAIN blocks) /\ stack \in Seq(Frame) /\ Len(blocks) <= MaxHooks
    BY DEF Typed
  <1>2. DOMAIN blocks = 1..Len(blocks) /\ Len(blocks) \in Nat /\ DOMAIN list = 1..Len(list) /\ Len(list) \in Nat
        /\ DOMAIN stack = 1..Len(stack) /\ Len(stack) \in Nat
    BY <1>1
  <1>3. DOMAIN blocks \subseteq Ids
    BY <1>1, <1>2, HookAssumption DEF Ids
  <1>4. \A i \in DOMAIN list : list[i] \in DOMAIN blocks
    BY <1>1, ElementOfSeq
  <1>5. \A h \in DOMAIN blocks : blocks[h] \in HookRec
    BY <1>1, ElementOfSeq
  <1>6. \A i \in DOMAIN stack : stack[i] \in Frame
    BY <1>1, ElementOfSeq
  <1>7. \A i, j \in DOMAIN list : list[i] = list[j] => i = j
    BY DEF Typed, IsInjective
  <1> QED BY <1>2, <1>3, <1>4, <1>5, <1>6, <1>7

LEMMA Frames ==
    ASSUME NEW f \in Frame
    PROVE  /\ f.called \in Seq(Ids) /\ DOMAIN f.called = 1..Len(f.called) /\ Len(f.called) \in Nat
           /\ f.due \subseteq Ids /\ f.next \in Ids \cup {0} /\ f.pl \in Plugins
           /\ f.mask \in Masks \cup {{}}
  <1>1. f.called \in Seq(Ids) /\ f.due \in SUBSET Ids /\ f.next \in Ids \cup {0} /\ f.pl \in Plugins
        /\ f.mask \in Masks \cup {{}}
    BY DEF Frame
  <1> QED BY <1>1

LEMMA TypedIs == Typed => TypeOK
  <1> SUFFICES ASSUME Typed PROVE TypeOK
    OBVIOUS
  <1>1. list \in Seq(Ids)
    <2>1. list \in Seq(DOMAIN blocks) /\ DOMAIN blocks \subseteq Ids
      BY Lists DEF Typed
    <2>2. \A i \in 1..Len(list) : list[i] \in Ids
      BY <2>1, Lists
    <2> QED BY <2>1, <2>2, Lists
  <1> QED BY <1>1 DEF Typed, TypeOK, HookRec

-----------------------------------------------------------------------------
(* The searches.                                                           *)

LEMMA PlaceOf ==
    ASSUME Typed, NEW p \in DOMAIN list
    PROVE  SelectInSeq(list, LAMBDA h : h = list[p]) = p
  <1> DEFINE I == {i \in 1..Len(list) : list[i] = list[p]}
  <1>1. I = {p} /\ p \in Nat
    BY Lists
  <1>2. Min(I) = p
    BY <1>1, MinIs
  <1>3. SelectInSeq(list, LAMBDA h : h = list[p]) = IF I # {} THEN Min(I) ELSE 0
    BY DEF SelectInSeq
  <1> HIDE DEF I
  <1> QED BY <1>1, <1>2, <1>3

LEMMA AfterIs ==
    ASSUME Typed, NEW p \in DOMAIN list
    PROVE  /\ p = Len(list) => After(list[p]) = 0
           /\ p # Len(list) => p + 1 \in DOMAIN list /\ After(list[p]) = list[p + 1]
  <1>1. After(list[p]) = IF p < Len(list) THEN list[p + 1] ELSE 0
    BY PlaceOf DEF After
  <1> QED BY <1>1, Lists

LEMMA FindIs ==
    ASSUME Typed, NEW p \in DOMAIN list, NEW e
    PROVE  \/ /\ Find(list[p], e) = 0
              /\ \A i \in p..Len(list) : ~Matches(list[i], e)
           \/ \E q \in p..Len(list) :
                 /\ q \in DOMAIN list /\ Find(list[p], e) = list[q] /\ Matches(list[q], e)
                 /\ \A i \in p..(q - 1) : ~Matches(list[i], e)
  <1> DEFINE rest == SubSeq(list, p, Len(list))
             I == {i \in 1..Len(rest) : Matches(rest[i], e)}
  <1>1. Rest(list[p]) = rest
    <2>1. list[p] # 0
      BY Lists
    <2> QED BY <2>1, PlaceOf DEF Rest
  <1>2. p \in Nat /\ p >= 1 /\ p <= Len(list) /\ Len(list) \in Nat /\ DOMAIN list = 1..Len(list)
    BY Lists
  <1>3. Len(rest) = Len(list) - p + 1 /\ \A i \in 1..(Len(list) - p + 1) : rest[i] = list[p + i - 1]
    <2>1. \A i \in p..Len(list) : list[i] \in DOMAIN blocks
      BY <1>2, Lists
    <2> QED BY <1>2, <2>1, SubSeqProperties
  <1>4. Find(list[p], e) = IF (IF I # {} THEN Min(I) ELSE 0) = 0 THEN 0 ELSE rest[IF I # {} THEN Min(I) ELSE 0]
    BY <1>1 DEF Find, SelectInSeq
  <1>5. I \subseteq Nat /\ I \subseteq 1..(Len(list) - p + 1)
    BY <1>2, <1>3
  <1>6. \A i \in 1..(Len(list) - p + 1) : i \in I <=> Matches(list[p + i - 1], e)
    BY <1>3
  <1> HIDE DEF I, rest
  <1>7. CASE I = {}
    <2>1. Find(list[p], e) = 0
      BY <1>4, <1>7
    <2>2. ASSUME NEW i \in p..Len(list) PROVE ~Matches(list[i], e)
      <3>1. i - p + 1 \in 1..(Len(list) - p + 1) /\ p + (i - p + 1) - 1 = i
        BY <1>2
      <3>2. i - p + 1 \notin I
        BY <1>7
      <3> QED BY <1>6, <3>1, <3>2
    <2> QED BY <2>1, <2>2
  <1>8. CASE I # {}
    <2> DEFINE m == Min(I)
               q == p + m - 1
    <2>1. m \in I /\ \A i \in I : m <= i
      BY <1>5, <1>8, MinIs
    <2> HIDE DEF m
    <2>2. m \in Nat /\ m >= 1 /\ m <= Len(list) - p + 1
      BY <1>2, <1>5, <2>1
    <2>3. q \in p..Len(list) /\ q \in DOMAIN list
      BY <1>2, <2>2
    <2>4. Find(list[p], e) = rest[m]
      BY <1>4, <1>8, <2>2 DEF m
    <2>5. rest[m] = list[q] /\ Matches(list[q], e)
      BY <1>3, <1>5, <1>6, <2>1
    <2>6. ASSUME NEW i \in p..(q - 1) PROVE ~Matches(list[i], e)
      <3>1. i - p + 1 \in 1..(Len(list) - p + 1) /\ p + (i - p + 1) - 1 = i /\ i - p + 1 < m
        BY <1>2, <2>2
      <3>2. i - p + 1 \notin I
        BY <2>1, <2>2, <3>1
      <3> QED BY <1>6, <3>1, <3>2
    <2> QED BY <2>3, <2>4, <2>5, <2>6
  <1> QED BY <1>7, <1>8
-----------------------------------------------------------------------------
(* What other calls do to the list and to the blocks does not disturb a    *)
(* frame: the hooks that are left keep their order, and what is known of a *)
(* hook stays, but that it may be marked as deleted.                       *)

OrderKept == \A m, n \in DOMAIN list' :
    list'[m] \in DOMAIN blocks /\ list'[n] \in DOMAIN blocks =>
        \E i, j \in DOMAIN list : list[i] = list'[m] /\ list[j] = list'[n] /\ (m < n <=> i < j)

BlocksKept == \A h \in DOMAIN blocks :
    /\ h \in DOMAIN blocks'
    /\ blocks'[h].addr = blocks[h].addr /\ blocks'[h].pl = blocks[h].pl
    /\ blocks'[h].name = blocks[h].name /\ blocks'[h].pri = blocks[h].pri
    /\ blocks'[h].type = blocks[h].type \/ blocks'[h].type = "DELETED"

AnyFrame == [kind : {"run", "timer", "init", "unload", "reload", "shutdown"}, pl : Plugins \cup {"main loop"},
             mask : Masks \cup {{}}, name : {e.name : e \in Events} \cup {RawLine},
             next : Ids \cup {0}, hook : Ids \cup {0}, called : Seq(Ids), due : SUBSET Ids]

LEMMA NotDeleted == \A f \in AnyFrame : "DELETED" \notin f.mask
  <1> SUFFICES ASSUME NEW f \in AnyFrame PROVE "DELETED" \notin f.mask
    OBVIOUS
  <1>1. f.mask \in Masks \cup {{}}
    BY DEF AnyFrame
  <1> QED BY <1>1 DEF Masks

LEMMA ListsNext ==
    ASSUME Typed'
    PROVE  /\ DOMAIN blocks' = 1..Len(blocks') /\ Len(blocks') \in Nat
           /\ DOMAIN list' = 1..Len(list') /\ Len(list') \in Nat
           /\ \A i \in DOMAIN list' : i \in Nat /\ list'[i] \in DOMAIN blocks' /\ list'[i] # 0
  <1>1. blocks' \in Seq(HookRec) /\ list' \in Seq(DOMAIN blocks')
    BY DEF Typed, HookRec
  <1>2. DOMAIN blocks' = 1..Len(blocks') /\ Len(blocks') \in Nat /\ DOMAIN list' = 1..Len(list') /\ Len(list') \in Nat
    BY <1>1
  <1>3. \A i \in DOMAIN list' : list'[i] \in DOMAIN blocks'
    BY <1>1, ElementOfSeq
  <1> QED BY <1>2, <1>3

LEMMA FrameIsAny == Frame \subseteq AnyFrame
  BY DEF Frame, AnyFrame

LEMMA LiveBefore ==
    ASSUME Typed, OrderKept, BlocksKept, NEW h \in DOMAIN blocks, Live(h)'
    PROVE  Live(h) /\ blocks'[h].type = blocks[h].type
  <1>1. PICK m \in DOMAIN list' : list'[m] = h
    BY DEF Live, Allocated
  <1>2. PICK i \in DOMAIN list : list[i] = h
    BY <1>1 DEF OrderKept
  <1>3. blocks'[h].type # "DELETED"
    BY DEF Live, Deleted
  <1> QED BY <1>2, <1>3 DEF Live, Allocated, Deleted, BlocksKept

LEMMA SoundKept ==
    ASSUME Typed, Typed', OrderKept, BlocksKept, NEW f, Sound(f)
    PROVE  Sound(f)'
  <1>1. Known(f)'
    BY DEF Sound, Known, BlocksKept
  <1>2. Passed(f)'
    <2> SUFFICES ASSUME NEW n \in DOMAIN f.called, NEW k \in DOMAIN list', NEW m \in DOMAIN list',
                        list'[k] = f.called[n], list'[m] = f.next
                 PROVE  k < m
      BY DEF Sound, Passed
    <2>1. f.called[n] \in DOMAIN blocks /\ f.next \in DOMAIN blocks
      <3>1. list'[m] # 0
        BY ListsNext
      <3> QED BY <3>1 DEF Sound, Known
    <2>2. PICK i, j \in DOMAIN list : list[i] = list'[k] /\ list[j] = list'[m] /\ (k < m <=> i < j)
      BY <2>1 DEF OrderKept
    <2> QED BY <2>2 DEF Sound, Passed
  <1>3. Served(f)'
    <2> SUFFICES ASSUME NEW h \in f.due, Live(h)'
                 PROVE  /\ Matches(h, f)'
                        /\ \/ \E n \in DOMAIN f.called : f.called[n] = h
                           \/ /\ f.next # 0
                              /\ \A k, m \in DOMAIN list' : list'[k] = h /\ list'[m] = f.next => m <= k
      BY DEF Served
    <2>1. h \in DOMAIN blocks
      BY DEF Sound, Known
    <2>2. Live(h) /\ blocks'[h].type = blocks[h].type
      BY <2>1, LiveBefore
    <2>3. Matches(h, f)'
      BY <2>1, <2>2 DEF Matches, Sound, Served, BlocksKept
    <2>4. ASSUME f.next # 0, \A i, j \in DOMAIN list : list[i] = h /\ list[j] = f.next => j <= i,
                 NEW k \in DOMAIN list', NEW m \in DOMAIN list', list'[k] = h, list'[m] = f.next
          PROVE  m <= k
      <3>1. f.next \in DOMAIN blocks
        BY <2>4 DEF Sound, Known
      <3>2. PICK i, j \in DOMAIN list : list[i] = list'[k] /\ list[j] = list'[m] /\ (k < m <=> i < j)
        BY <2>1, <2>4, <3>1 DEF OrderKept
      <3>3. j <= i /\ i \in Nat /\ j \in Nat
        BY <2>4, <3>2, Lists
      <3>4. k \in Nat /\ m \in Nat
        BY ListsNext
      <3> QED BY <3>2, <3>3, <3>4
    <2> QED BY <2>2, <2>3, <2>4 DEF Sound, Served
  <1>4. ASSUME Fallen(f), Falling(f) PROVE Fallen(f)' /\ Falling(f)'
    <2>1. \A n \in DOMAIN f.called : f.called[n] \in DOMAIN blocks /\ blocks'[f.called[n]].pri = blocks[f.called[n]].pri
      BY DEF Sound, Known, BlocksKept
    <2>2. Fallen(f)'
      BY <1>4, <2>1 DEF Fallen
    <2>3. ASSUME NEW n \in DOMAIN f.called, NEW k \in DOMAIN list', NEW m \in DOMAIN list',
                 f.called[n] \in f.due, list'[m] = f.next, m <= k, list'[k] \in f.due, blocks'[list'[k]].type # "DELETED"
          PROVE  blocks'[f.called[n]].pri >= blocks'[list'[k]].pri
      <3>1. list'[k] \in DOMAIN blocks /\ f.next \in DOMAIN blocks
        <4>1. list'[m] # 0
          BY ListsNext
        <4> QED BY <2>3, <4>1 DEF Sound, Known
      <3>2. PICK i, j \in DOMAIN list : list[i] = list'[k] /\ list[j] = list'[m] /\ (k < m <=> i < j)
        BY <2>3, <3>1 DEF OrderKept
      <3>3. i \in Nat /\ j \in Nat /\ k \in Nat /\ m \in Nat
        BY <3>2, Lists, ListsNext
      <3>4. j <= i
        BY <2>3, <3>2, <3>3
      <3>5. ~Deleted(list[i])
        BY <2>3, <3>1, <3>2 DEF Deleted, BlocksKept
      <3>6. blocks[f.called[n]].pri >= blocks[list[i]].pri
        BY <1>4, <2>3, <3>2, <3>4, <3>5 DEF Falling
      <3> QED BY <2>1, <3>1, <3>2, <3>6 DEF BlocksKept
    <2> QED BY <2>2, <2>3 DEF Falling, Deleted
  <1> QED BY <1>1, <1>2, <1>3, <1>4 DEF Sound

-----------------------------------------------------------------------------
(* A run calls the next hook.                                              *)

LEMMA InOrder ==
    ASSUME Tidy, NEW f \in AnyFrame, "SERVER" \notin f.mask,
           NEW i \in DOMAIN list, NEW j \in DOMAIN list, i < j,
           blocks[list[i]].type \in f.mask, blocks[list[j]].type \in f.mask
    PROVE  blocks[list[i]].pri >= blocks[list[j]].pri
  <1>1. f.mask \subseteq {"COMMAND"} \/ f.mask \subseteq {"PRINT", "PRINT_ATTRS"}
    BY DEF AnyFrame, Masks
  <1> QED BY <1>1 DEF Tidy, Sorted

LEMMA CallingIs ==
    ASSUME Typed, NEW g \in AnyFrame, NEW q \in DOMAIN list
    PROVE  LET h == list[q]
               c == Calling(g, h)
           IN  /\ c \in Frame /\ c.kind = g.kind /\ c.mask = g.mask /\ c.name = g.name /\ c.due = g.due
               /\ c.pl = blocks[h].pl /\ c.hook = h /\ c.next = After(h) /\ c.called = Append(g.called, h)
               /\ DOMAIN g.called = 1..Len(g.called) /\ Len(g.called) \in Nat
               /\ DOMAIN c.called = 1..(Len(g.called) + 1) /\ c.called[Len(g.called) + 1] = h
               /\ \A n \in DOMAIN g.called : c.called[n] = g.called[n]
  <1> DEFINE h == list[q]
             c == Calling(g, h)
  <1>1. h \in Ids /\ h \in DOMAIN blocks /\ blocks[h].pl \in Plugins
    BY Lists DEF HookRec
  <1>2. After(h) \in Ids \cup {0}
    BY AfterIs, Lists
  <1>3. g.called \in Seq(Ids)
    BY DEF AnyFrame
  <1>4. Append(g.called, h) \in Seq(Ids)
    BY <1>1, <1>3
  <1>5. c = [g EXCEPT !.hook = h, !.pl = blocks[h].pl, !.next = After(h), !.called = Append(g.called, h)]
    BY DEF Calling
  <1> HIDE DEF h
  <1>6. /\ c \in Frame /\ c.kind = g.kind /\ c.mask = g.mask /\ c.name = g.name /\ c.due = g.due
        /\ c.pl = blocks[h].pl /\ c.hook = h /\ c.next = After(h) /\ c.called = Append(g.called, h)
    BY <1>1, <1>2, <1>4, <1>5 DEF AnyFrame, Frame
  <1>7. DOMAIN g.called = 1..Len(g.called) /\ Len(g.called) \in Nat
    BY <1>3
  <1>8. /\ DOMAIN c.called = 1..(Len(g.called) + 1) /\ c.called[Len(g.called) + 1] = h
        /\ \A n \in DOMAIN g.called : c.called[n] = g.called[n]
    BY <1>1, <1>3, <1>6
  <1> QED BY <1>6, <1>7, <1>8 DEF h

LEMMA SoundCalls ==
    ASSUME Typed, Tidy, NEW g \in AnyFrame, Sound(g), g.kind = "run", Allocated(g.next), Find(g.next, g) # 0
    PROVE  LET h == Find(g.next, g)
           IN  /\ Live(h) /\ h \in DOMAIN blocks /\ blocks[h].type \in g.mask
               /\ Calling(g, h) \in Frame /\ Sound(Calling(g, h))
               /\ Calling(g, h).kind = g.kind /\ Calling(g, h).pl = blocks[h].pl
               /\ Calling(g, h).next # 0 => Allocated(Calling(g, h).next)
  <1> DEFINE h == Find(g.next, g)
             c == Calling(g, h)
             l == Len(g.called)
  <1>1. PICK p \in DOMAIN list : list[p] = g.next
    BY DEF Allocated
  <1>2. PICK q \in p..Len(list) :
           /\ q \in DOMAIN list /\ h = list[q] /\ Matches(list[q], g)
           /\ \A i \in p..(q - 1) : ~Matches(list[i], g)
    BY <1>1, FindIs
  <1> HIDE DEF h
  <1>3. /\ c \in Frame /\ c.kind = g.kind /\ c.mask = g.mask /\ c.name = g.name /\ c.due = g.due
        /\ c.pl = blocks[h].pl /\ c.next = After(h)
        /\ DOMAIN g.called = 1..l /\ l \in Nat
        /\ DOMAIN c.called = 1..(l + 1) /\ c.called[l + 1] = h
        /\ \A n \in 1..l : c.called[n] = g.called[n]
    <2> HIDE DEF c
    <2> QED BY <1>2, CallingIs DEF c
  <1> HIDE DEF c, l
  <1>4. p \in Nat /\ q \in Nat /\ p <= q /\ q <= Len(list) /\ Len(list) \in Nat /\ DOMAIN list = 1..Len(list)
        /\ h \in DOMAIN blocks /\ h # 0
    BY <1>2, Lists
  <1>5. /\ q = Len(list) => c.next = 0
        /\ q # Len(list) => q + 1 \in DOMAIN list /\ c.next = list[q + 1] /\ c.next # 0 /\ c.next \in DOMAIN blocks
    BY <1>2, <1>3, <1>4, AfterIs, Lists
  <1>6. blocks[h].type \in g.mask /\ ~Deleted(h) /\ Live(h)
    BY <1>2, NotDeleted DEF Matches, Deleted, Live, Allocated
  <1>7. Known(c)
    <2>1. \A n \in 1..(l + 1) : c.called[n] \in DOMAIN blocks
      BY <1>3, <1>4 DEF Sound, Known
    <2> QED BY <1>3, <1>5, <2>1 DEF Sound, Known
  <1>8. \A n \in 1..l, i \in DOMAIN list : list[i] = g.called[n] => i < p
    BY <1>1, <1>3 DEF Sound, Passed
  <1>9. \A j \in DOMAIN list : list[j] = c.next => j = q + 1
    BY <1>4, <1>5, Lists
  <1>10. Passed(c)
    <2>1. \A n \in 1..l : g.called[n] # h
      BY <1>2, <1>4, <1>8
    <2>2. IsInjective(c.called)
      <3> SUFFICES ASSUME NEW m \in 1..(l + 1), NEW n \in 1..(l + 1), c.called[m] = c.called[n] PROVE m = n
        BY <1>3 DEF IsInjective
      <3>1. IsInjective(g.called)
        BY DEF Sound, Passed
      <3>2. CASE m \in 1..l /\ n \in 1..l
        BY <1>3, <3>1, <3>2 DEF IsInjective
      <3>3. CASE m = l + 1 \/ n = l + 1
        BY <1>3, <2>1, <3>3
      <3> QED BY <1>3, <3>2, <3>3
    <2>3. ASSUME NEW n \in 1..(l + 1), NEW i \in DOMAIN list, NEW j \in DOMAIN list,
                 list[i] = c.called[n], list[j] = c.next
          PROVE  i < j
      <3>1. j = q + 1
        BY <1>9, <2>3
      <3>2. CASE n \in 1..l
        <4>1. i < p
          BY <1>3, <1>8, <2>3, <3>2
        <4> QED BY <1>4, <3>1, <4>1
      <3>3. CASE n = l + 1
        <4>1. i = q
          BY <1>2, <1>3, <2>3, <3>3, Lists
        <4> QED BY <1>4, <3>1, <4>1
      <3> QED BY <1>3, <3>2, <3>3
    <2> QED BY <1>3, <2>2, <2>3 DEF Passed
  <1>11. Served(c)
    <2> SUFFICES ASSUME NEW x \in g.due, Live(x)
                 PROVE  /\ Matches(x, c)
                        /\ \/ \E n \in DOMAIN c.called : c.called[n] = x
                           \/ c.next # 0 /\ \A i, j \in DOMAIN list : list[i] = x /\ list[j] = c.next => j <= i
      BY <1>3 DEF Served
    <2>1. Matches(x, g) /\ (\/ \E n \in DOMAIN g.called : g.called[n] = x
                            \/ \A i, j \in DOMAIN list : list[i] = x /\ list[j] = g.next => j <= i)
      BY DEF Sound, Served
    <2>2. Matches(x, c)
      BY <1>3, <2>1 DEF Matches
    <2>3. CASE \E n \in DOMAIN g.called : g.called[n] = x
      <3>1. PICK n \in 1..l : g.called[n] = x
        BY <1>3, <2>3
      <3>2. n \in DOMAIN c.called /\ c.called[n] = x
        BY <1>3, <3>1
      <3> QED BY <2>2, <3>2
    <2>4. CASE \A i, j \in DOMAIN list : list[i] = x /\ list[j] = g.next => j <= i
      <3>1. PICK k \in DOMAIN list : list[k] = x
        BY DEF Live, Allocated
      <3>2. p <= k
        BY <1>1, <2>4, <3>1
      <3>3. k \in Nat /\ k <= Len(list) /\ ~(k < q)
        <4>1. k < q => k \in p..(q - 1)
          BY <1>4, <3>1, <3>2
        <4> QED BY <1>2, <1>4, <2>1, <3>1, <4>1
      <3>4. CASE k = q
        <4>1. l + 1 \in DOMAIN c.called /\ c.called[l + 1] = x
          BY <1>2, <1>3, <3>1, <3>4
        <4> QED BY <2>2, <4>1
      <3>5. CASE k > q
        <4>0. q # Len(list)
          BY <1>4, <3>3, <3>5
        <4>1. c.next # 0
          BY <1>5, <4>0
        <4>2. \A i, j \in DOMAIN list : list[i] = x /\ list[j] = c.next => i = k /\ j = q + 1
          BY <1>9, <3>1, Lists
        <4>3. q + 1 <= k
          BY <1>4, <3>3, <3>5
        <4> QED BY <2>2, <4>1, <4>2, <4>3
      <3> QED BY <1>4, <3>3, <3>4, <3>5
    <2> QED BY <2>1, <2>3, <2>4
  <1>12. ASSUME "SERVER" \notin c.mask PROVE Fallen(c) /\ Falling(c)
    <2>1. Fallen(g) /\ Falling(g)
      BY <1>3, <1>12 DEF Sound
    <2>2. \A n \in 1..l, i \in DOMAIN list :
             g.called[n] \in g.due /\ p <= i /\ list[i] \in g.due /\ ~Deleted(list[i]) =>
                 blocks[g.called[n]].pri >= blocks[list[i]].pri
      BY <1>1, <1>3, <2>1 DEF Falling
    <2>3. Fallen(c)
      <3> SUFFICES ASSUME NEW m \in 1..(l + 1), NEW n \in 1..(l + 1), m < n,
                          c.called[m] \in g.due, c.called[n] \in g.due
                   PROVE  blocks[c.called[m]].pri >= blocks[c.called[n]].pri
        BY <1>3 DEF Fallen
      <3>1. CASE n \in 1..l
        <4>1. m \in 1..l
          BY <1>3, <3>1
        <4> QED BY <1>3, <2>1, <3>1, <4>1 DEF Fallen
      <3>2. CASE n = l + 1
        <4>1. m \in 1..l
          BY <1>3, <3>2
        <4>2. c.called[m] = g.called[m] /\ c.called[n] = list[q]
          BY <1>2, <1>3, <3>2, <4>1
        <4>3. p <= q /\ ~Deleted(list[q])
          BY <1>2, <1>4, <1>6
        <4>4. blocks[g.called[m]].pri >= blocks[list[q]].pri
          BY <1>2, <2>2, <4>1, <4>2, <4>3
        <4> QED BY <4>2, <4>4
      <3> QED BY <1>3, <3>1, <3>2
    <2>4. Falling(c)
      <3> SUFFICES ASSUME NEW n \in 1..(l + 1), NEW i \in DOMAIN list, NEW j \in DOMAIN list,
                          c.called[n] \in g.due, list[j] = c.next, j <= i, list[i] \in g.due, ~Deleted(list[i])
                   PROVE  blocks[c.called[n]].pri >= blocks[list[i]].pri
        BY <1>3 DEF Falling
      <3>1. i \in Nat /\ q < i /\ p <= i
        <4>1. j = q + 1 /\ i \in Nat
          BY <1>9, Lists
        <4> QED BY <1>4, <4>1
      <3>2. CASE n \in 1..l
        BY <1>3, <2>2, <3>1, <3>2
      <3>3. CASE n = l + 1
        <4>1. Matches(list[i], g)
          BY DEF Sound, Served, Live, Allocated
        <4>2. blocks[list[i]].type \in g.mask
          BY <4>1 DEF Matches
        <4>3. "SERVER" \notin g.mask
          BY <1>3, <1>12
        <4>4. blocks[list[q]].pri >= blocks[list[i]].pri
          BY <1>2, <1>6, <3>1, <4>2, <4>3, InOrder
        <4> QED BY <1>2, <1>3, <3>3, <4>4
      <3> QED BY <1>3, <3>2, <3>3
    <2> QED BY <2>3, <2>4
  <1>13. c.next # 0 => Allocated(c.next)
    BY <1>4, <1>5 DEF Allocated
  <1>14. Sound(c)
    BY <1>7, <1>10, <1>11, <1>12 DEF Sound
  <1> QED BY <1>3, <1>4, <1>6, <1>13, <1>14 DEF h, c
-----------------------------------------------------------------------------
(* Nothing new in the list: hooks are marked, or freed by a purge.         *)

LEMMA TidyKept ==
    ASSUME Typed, Typed', OrderKept, BlocksKept, DOMAIN blocks' = DOMAIN blocks, Tidy
    PROVE  Tidy'
  <1>1. ASSUME NEW m \in DOMAIN list', NEW n \in DOMAIN list'
        PROVE  /\ list'[m] \in DOMAIN blocks /\ list'[n] \in DOMAIN blocks
               /\ \E i, j \in DOMAIN list : list[i] = list'[m] /\ list[j] = list'[n] /\ (m < n <=> i < j)
    BY ListsNext DEF OrderKept
  <1>2. ASSUME NEW T, "DELETED" \notin T, Sorted(T),
               NEW m \in DOMAIN list', NEW n \in DOMAIN list', m < n,
               blocks'[list'[m]].type \in T, blocks'[list'[n]].type \in T
        PROVE  blocks'[list'[m]].pri >= blocks'[list'[n]].pri
    <2>1. PICK i, j \in DOMAIN list : list[i] = list'[m] /\ list[j] = list'[n] /\ (m < n <=> i < j)
      BY <1>1
    <2>2. blocks[list[i]].type \in T /\ blocks[list[j]].type \in T
      BY <1>1, <1>2, <2>1 DEF BlocksKept
    <2>3. blocks[list[i]].pri >= blocks[list[j]].pri
      BY <1>2, <2>1, <2>2 DEF Sorted
    <2> QED BY <1>1, <2>1, <2>3 DEF BlocksKept
  <1>3. Sorted({"COMMAND"})'
    BY <1>2 DEF Tidy, Sorted
  <1>4. Sorted({"PRINT", "PRINT_ATTRS"})'
    BY <1>2 DEF Tidy, Sorted
  <1>5. Placed'
    <2> SUFFICES ASSUME NEW m \in DOMAIN list', NEW n \in DOMAIN list',
                        blocks'[list'[m]].addr = blocks'[list'[n]].addr
                 PROVE  m = n
      BY DEF Placed
    <2>1. PICK i, j \in DOMAIN list : list[i] = list'[m] /\ list[j] = list'[n]
      BY <1>1
    <2>2. blocks[list[i]].addr = blocks[list[j]].addr
      BY <1>1, <2>1 DEF BlocksKept
    <2>3. i = j
      BY <2>2 DEF Tidy, Placed
    <2> QED BY <2>1, <2>3 DEF Typed, IsInjective
  <1> QED BY <1>3, <1>4, <1>5 DEF Tidy

LEMMA SameBlocks == ASSUME blocks' = blocks PROVE BlocksKept
  BY DEF BlocksKept

LEMMA SameList == ASSUME Typed, list' = list PROVE OrderKept
  BY DEF OrderKept

LEMMA MarkedIs ==
    ASSUME Typed, NEW hs, blocks' = Marked(hs), list' = list
    PROVE  /\ blocks' \in Seq(HookRec) /\ Len(blocks') = Len(blocks) /\ DOMAIN blocks' = DOMAIN blocks
           /\ BlocksKept /\ OrderKept
           /\ \A h \in DOMAIN blocks : Live(h)' <=> Live(h) /\ h \notin hs
           /\ \A h \in DOMAIN blocks : h \notin hs => blocks'[h] = blocks[h]
  <1>1. /\ DOMAIN blocks' = DOMAIN blocks
        /\ \A h \in DOMAIN blocks : h \notin hs => blocks'[h] = blocks[h]
        /\ \A h \in DOMAIN blocks : h \in hs => blocks'[h] = [blocks[h] EXCEPT !.type = "DELETED"]
    BY DEF Marked
  <1>2. \A h \in DOMAIN blocks : blocks[h] \in HookRec
    BY Lists
  <1>3. \A h \in DOMAIN blocks : h \in hs =>
           /\ blocks'[h] \in HookRec /\ blocks'[h].type = "DELETED"
           /\ blocks'[h].addr = blocks[h].addr /\ blocks'[h].pl = blocks[h].pl
           /\ blocks'[h].name = blocks[h].name /\ blocks'[h].pri = blocks[h].pri
    BY <1>1, <1>2 DEF HookRec
  <1>4. blocks' \in Seq(HookRec) /\ Len(blocks') = Len(blocks)
    <2>1. blocks' = [h \in 1..Len(blocks) |-> blocks'[h]]
      BY Lists DEF Marked
    <2>2. \A h \in 1..Len(blocks) : blocks'[h] \in HookRec
      BY <1>1, <1>2, <1>3, Lists
    <2>3. Len(blocks) \in Nat
      BY Lists
    <2> QED BY <2>1, <2>2, <2>3
  <1>5. BlocksKept
    BY <1>1, <1>3 DEF BlocksKept
  <1>6. ASSUME NEW h \in DOMAIN blocks PROVE Live(h)' <=> Live(h) /\ h \notin hs
    <2>1. Allocated(h)' <=> Allocated(h)
      BY DEF Allocated
    <2>2. Deleted(h)' <=> Deleted(h) \/ h \in hs
      BY <1>1, <1>3 DEF Deleted
    <2> QED BY <2>1, <2>2 DEF Live
  <1> QED BY <1>1, <1>4, <1>5, <1>6, SameList

LEMMA PurgedIs ==
    ASSUME Typed, list' = Purged, blocks' = blocks
    PROVE  /\ list' \in Seq(DOMAIN blocks') /\ IsInjective(list')
           /\ BlocksKept /\ OrderKept
           /\ \A h : Live(h)' <=> Live(h)
  <1> DEFINE I == {i \in DOMAIN list : ~Deleted(list[i])}
             c == Cardinality(I)
  <1>1. /\ list' \in Seq(DOMAIN blocks) /\ DOMAIN list' = 1..c /\ c \in Nat
        /\ \A i \in 1..c : Nth(I, i) \in I /\ list'[i] = list[Nth(I, i)]
        /\ \A i, j \in 1..c : i < j => Nth(I, i) < Nth(I, j)
        /\ \A j \in I : \E i \in 1..c : Nth(I, i) = j
    <2>1. list \in Seq(DOMAIN blocks) /\ I \in SUBSET (DOMAIN list)
      BY DEF Typed
    <2>2. list' = Picked(list, I)
      BY DEF Purged
    <2> HIDE DEF I
    <2> QED BY <2>1, <2>2, PickedIs
  <1>2. \A i \in I : i \in DOMAIN list /\ i \in Nat /\ ~Deleted(list[i])
    BY Lists
  <1>3. \A i \in DOMAIN list : ~Deleted(list[i]) => i \in I
    OBVIOUS
  <1> HIDE DEF I, c
  <1>4. ASSUME NEW m \in 1..c, NEW n \in 1..c PROVE m < n <=> Nth(I, m) < Nth(I, n)
    <2>1. m < n => Nth(I, m) < Nth(I, n)
      BY <1>1
    <2>2. n < m => Nth(I, n) < Nth(I, m)
      BY <1>1
    <2>3. m \in Nat /\ n \in Nat /\ Nth(I, m) \in Nat /\ Nth(I, n) \in Nat
      BY <1>1, <1>2
    <2> QED BY <2>1, <2>2, <2>3
  <1>5. IsInjective(list')
    <2> SUFFICES ASSUME NEW m \in 1..c, NEW n \in 1..c, list'[m] = list'[n] PROVE m = n
      BY <1>1 DEF IsInjective
    <2>1. Nth(I, m) = Nth(I, n)
      BY <1>1, <1>2, Lists
    <2>2. ~(m < n) /\ ~(n < m)
      BY <1>1, <1>2, <2>1
    <2> QED BY <1>1, <2>2
  <1>6. OrderKept
    BY <1>1, <1>2, <1>4 DEF OrderKept
  <1>7. ASSUME NEW h PROVE Live(h)' <=> Live(h)
    <2>1. Deleted(h)' <=> Deleted(h)
      BY DEF Deleted
    <2>2. ASSUME Live(h)' PROVE Live(h)
      <3>1. PICK m \in 1..c : list'[m] = h
        BY <1>1, <2>2 DEF Live, Allocated
      <3>2. Nth(I, m) \in DOMAIN list /\ list[Nth(I, m)] = h
        BY <1>1, <1>2, <3>1
      <3> QED BY <2>1, <2>2, <3>2 DEF Live, Allocated
    <2>3. ASSUME Live(h) PROVE Live(h)'
      <3>1. PICK i \in DOMAIN list : list[i] = h /\ ~Deleted(list[i])
        BY <2>3 DEF Live, Allocated
      <3>2. PICK m \in 1..c : Nth(I, m) = i
        BY <1>1, <1>3, <3>1
      <3>3. m \in DOMAIN list' /\ list'[m] = h
        BY <1>1, <3>1, <3>2
      <3> QED BY <2>1, <2>3, <3>3 DEF Live, Allocated
    <2> QED BY <2>2, <2>3
  <1> QED BY <1>1, <1>5, <1>6, <1>7, SameBlocks
-----------------------------------------------------------------------------
(* A new hook: it goes between others and where its priority has it.       *)

LEMMA BeforeIs ==
    ASSUME Typed, NEW new
    PROVE  /\ Before(new) \in 1..(Len(list) + 1)
           /\ \A i \in DOMAIN list : i < Before(new) => ~YieldsTo(list[i], new)
           /\ Before(new) \in DOMAIN list => YieldsTo(list[Before(new)], new)
  <1> DEFINE I == {i \in 1..Len(list) : YieldsTo(list[i], new)}
             m == IF I # {} THEN Min(I) ELSE 0
  <1>1. Before(new) = IF m = 0 THEN Len(list) + 1 ELSE m
    BY DEF Before, SelectInSeq
  <1>2. Len(list) \in Nat /\ DOMAIN list = 1..Len(list)
    BY Lists
  <1>3. I \subseteq Nat /\ I \subseteq 1..Len(list) /\ \A i \in 1..Len(list) : i \in I <=> YieldsTo(list[i], new)
    OBVIOUS
  <1> HIDE DEF I
  <1>4. CASE I = {}
    <2>1. Before(new) = Len(list) + 1
      BY <1>1, <1>4
    <2> QED BY <1>2, <1>3, <1>4, <2>1
  <1>5. CASE I # {}
    <2>1. Min(I) \in I /\ \A i \in I : Min(I) <= i
      BY <1>3, <1>5, MinIs
    <2>2. Before(new) = Min(I)
      BY <1>1, <1>3, <1>5, <2>1
    <2>3. Min(I) \in 1..Len(list) /\ YieldsTo(list[Min(I)], new)
      BY <1>3, <2>1
    <2>4. ASSUME NEW i \in 1..Len(list), i < Min(I) PROVE ~YieldsTo(list[i], new)
      <3>1. ~(Min(I) <= i)
        BY <1>2, <2>3, <2>4
      <3> QED BY <1>3, <2>1, <3>1
    <2>5. Min(I) \in 1..(Len(list) + 1)
      BY <1>2, <2>3
    <2> QED BY <1>2, <2>2, <2>3, <2>4, <2>5
  <1> QED BY <1>4, <1>5

LEMMA InsertedIs ==
    ASSUME Typed, NEW new
    PROVE  LET at == Before(new)
               t  == Inserted(new)
               N  == Len(blocks) + 1
           IN  /\ t \in Seq(1..N) /\ Len(t) = Len(list) + 1 /\ t[at] = N
               /\ \A i \in DOMAIN list : i < at => t[i] = list[i]
               /\ \A i \in DOMAIN list : i >= at => t[i + 1] = list[i]
  <1> DEFINE at == Before(new)
             N  == Len(blocks) + 1
             l  == Len(list)
             s1 == SubSeq(list, 1, at - 1)
             s2 == SubSeq(list, at, l)
             u  == s1 \o <<N>>
  <1>1. /\ at \in Nat /\ at >= 1 /\ at <= l + 1 /\ l \in Nat /\ DOMAIN list = 1..l /\ N \in 1..N
        /\ \A i \in 1..l : list[i] \in 1..N
    <2>1. at \in 1..(l + 1)
      BY BeforeIs
    <2>2. l \in Nat /\ DOMAIN list = 1..l /\ N \in 1..N /\ DOMAIN blocks \subseteq 1..N
      BY Lists
    <2>3. \A i \in DOMAIN list : list[i] \in DOMAIN blocks
      BY Lists
    <2> HIDE DEF at, N
    <2> QED BY <2>1, <2>2, <2>3
  <1> HIDE DEF at, N, l
  <1>2. s1 \in Seq(1..N) /\ Len(s1) = at - 1 /\ \A i \in 1..(at - 1) : s1[i] = list[i]
    <2>1. \A i \in 1..(at - 1) : list[i] \in 1..N
      BY <1>1
    <2>2. /\ s1 \in Seq(1..N) /\ Len(s1) = IF 1 <= at - 1 THEN (at - 1) - 1 + 1 ELSE 0
          /\ \A i \in 1..((at - 1) - 1 + 1) : s1[i] = list[1 + i - 1]
      BY <1>1, <2>1, SubSeqProperties
    <2>3. Len(s1) = at - 1
      BY <1>1, <2>2
    <2>4. \A i \in 1..(at - 1) : s1[i] = list[i]
      BY <1>1, <2>2
    <2> QED BY <2>2, <2>3, <2>4
  <1>3. s2 \in Seq(1..N) /\ Len(s2) = l - at + 1 /\ \A i \in 1..(l - at + 1) : s2[i] = list[at + i - 1]
    <2>1. \A i \in at..l : list[i] \in 1..N
      BY <1>1
    <2>2. /\ s2 \in Seq(1..N) /\ Len(s2) = IF at <= l THEN l - at + 1 ELSE 0
          /\ \A i \in 1..(l - at + 1) : s2[i] = list[at + i - 1]
      BY <1>1, <2>1, SubSeqProperties
    <2> QED BY <1>1, <2>2
  <1> HIDE DEF s1, s2
  <1>4. /\ u \in Seq(1..N) /\ Len(u) = at /\ u[at] = N
        /\ \A i \in 1..(at - 1) : u[i] = list[i]
    <2>1. <<N>> \in Seq(1..N) /\ Len(<<N>>) = 1 /\ <<N>>[1] = N
      BY <1>1
    <2>2. /\ u \in Seq(1..N) /\ Len(u) = (at - 1) + 1
          /\ \A i \in 1..((at - 1) + 1) : u[i] = IF i <= at - 1 THEN s1[i] ELSE <<N>>[i - (at - 1)]
      BY <1>2, <2>1, ConcatProperties
    <2>3. at \in 1..((at - 1) + 1) /\ ~(at <= at - 1) /\ at - (at - 1) = 1 /\ (at - 1) + 1 = at
      BY <1>1
    <2>4. u[at] = N
      BY <2>1, <2>2, <2>3
    <2>5. \A i \in 1..(at - 1) : u[i] = list[i]
      BY <1>1, <1>2, <2>2
    <2> QED BY <2>2, <2>3, <2>4, <2>5
  <1> HIDE DEF u
  <1>5. /\ u \o s2 \in Seq(1..N) /\ Len(u \o s2) = at + (l - at + 1)
        /\ \A i \in 1..(at + (l - at + 1)) : (u \o s2)[i] = IF i <= at THEN u[i] ELSE s2[i - at]
    <2>0. u \in Seq(1..N) /\ s2 \in Seq(1..N)
      BY <1>3, <1>4
    <2>1. /\ u \o s2 \in Seq(1..N) /\ Len(u \o s2) = Len(u) + Len(s2)
          /\ \A i \in 1..(Len(u) + Len(s2)) : (u \o s2)[i] = IF i <= Len(u) THEN u[i] ELSE s2[i - Len(u)]
      BY <2>0, ConcatProperties
    <2>2. Len(u) = at /\ Len(s2) = l - at + 1
      BY <1>3, <1>4
    <2> QED BY <2>1, <2>2
  <1>6. Inserted(new) = u \o s2
    BY DEF Inserted, InsertAt, u, s1, s2, at, N, l
  <1>7. Len(Inserted(new)) = l + 1 /\ Inserted(new)[at] = N
    BY <1>1, <1>4, <1>5, <1>6
  <1>8. ASSUME NEW i \in 1..l, i < at PROVE Inserted(new)[i] = list[i]
    <2>1. i \in 1..(at - 1) /\ i \in 1..(at + (l - at + 1)) /\ i <= at
      BY <1>1, <1>8
    <2> QED BY <1>4, <1>5, <1>6, <2>1
  <1>9. ASSUME NEW i \in 1..l, i >= at PROVE Inserted(new)[i + 1] = list[i]
    <2>1. PICK k \in Nat : k = i + 1
      BY <1>1
    <2>2. k \in 1..(at + (l - at + 1)) /\ ~(k <= at) /\ k - at \in 1..(l - at + 1) /\ at + (k - at) - 1 = i
      BY <1>1, <1>9, <2>1
    <2>3. Inserted(new)[k] = s2[k - at]
      BY <1>5, <1>6, <2>2
    <2>4. s2[k - at] = list[i]
      BY <1>3, <2>2
    <2> QED BY <2>1, <2>3, <2>4
  <1> QED BY <1>1, <1>5, <1>6, <1>7, <1>8, <1>9 DEF at, N, l

LEMMA HookedIs ==
    ASSUME Typed, Tidy, NEW new \in HookRec, new.type # "DELETED",
           \A i \in DOMAIN list : blocks[list[i]].addr # new.addr,
           Len(blocks) < MaxHooks, list' = Inserted(new), blocks' = Append(blocks, new),
           NEW N, N = Len(blocks) + 1
    PROVE  /\ blocks' \in Seq(HookRec) /\ Len(blocks') = N /\ N <= MaxHooks /\ N \in Ids
           /\ DOMAIN blocks' = DOMAIN blocks \cup {N} /\ N \notin DOMAIN blocks
           /\ blocks'[N] = new /\ \A h \in DOMAIN blocks : blocks'[h] = blocks[h]
           /\ list' \in Seq(DOMAIN blocks') /\ IsInjective(list')
           /\ BlocksKept /\ OrderKept
           /\ Live(N)' /\ \A h \in DOMAIN blocks : Live(h)' <=> Live(h)
           /\ \A h \in DOMAIN blocks : Allocated(h) => Allocated(h)'
           /\ Tidy'
  <1> DEFINE at == Before(new)
             l == Len(list)
  <1>1. /\ blocks' \in Seq(HookRec) /\ Len(blocks') = N /\ DOMAIN blocks' = 1..N
        /\ blocks'[N] = new /\ \A h \in 1..Len(blocks) : blocks'[h] = blocks[h]
    BY DEF Typed
  <1>2. /\ Len(blocks) \in Nat /\ DOMAIN blocks = 1..Len(blocks) /\ l \in Nat /\ DOMAIN list = 1..l
        /\ \A i \in 1..l : list[i] \in 1..Len(blocks)
    BY Lists
  <1>3. N \in Ids /\ N <= MaxHooks /\ N \notin DOMAIN blocks /\ DOMAIN blocks' = DOMAIN blocks \cup {N}
    BY <1>1, <1>2, HookAssumption DEF Ids
  <1>4. /\ at \in Nat /\ at >= 1 /\ at <= l + 1
        /\ \A i \in 1..l : i < at => ~YieldsTo(list[i], new)
        /\ at \in 1..l => YieldsTo(list[at], new)
    BY <1>2, BeforeIs
  <1>5. /\ list' \in Seq(1..N) /\ Len(list') = l + 1 /\ list'[at] = N
        /\ \A i \in 1..l : i < at => list'[i] = list[i]
        /\ \A i \in 1..l : i >= at => list'[i + 1] = list[i]
    BY <1>2, InsertedIs
  <1> HIDE DEF at, l
  <1>6. DOMAIN list' = 1..(l + 1)
    BY <1>5
  <1>7. ASSUME NEW m \in 1..(l + 1), m # at
        PROVE  LET i == IF m < at THEN m ELSE m - 1 IN i \in 1..l /\ list[i] = list'[m]
    <2>1. CASE m < at
      BY <1>2, <1>4, <1>5, <2>1
    <2>2. CASE m > at
      <3>1. m - 1 \in 1..l /\ m - 1 >= at /\ (m - 1) + 1 = m /\ ~(m < at)
        BY <1>2, <1>4, <2>2
      <3> QED BY <1>5, <3>1
    <2> QED BY <1>2, <1>4, <1>7, <2>1, <2>2
  <1>8. \A m \in 1..(l + 1) : m # at => list'[m] \in DOMAIN blocks
    BY <1>2, <1>7
  <1> DEFINE Same(m, n) == \E i, j \in 1..l : list[i] = list'[m] /\ list[j] = list'[n] /\ (m < n <=> i < j)
  <1>9. ASSUME NEW m \in 1..(l + 1), NEW n \in 1..(l + 1), m # at, n # at
        PROVE  Same(m, n)
    <2> DEFINE i == IF m < at THEN m ELSE m - 1
               j == IF n < at THEN n ELSE n - 1
    <2>1. i \in 1..l /\ list[i] = list'[m] /\ j \in 1..l /\ list[j] = list'[n]
      BY <1>7, <1>9
    <2>2. m < n <=> i < j
      BY <1>2, <1>4, <1>9
    <2> HIDE DEF i, j
    <2> QED BY <2>1, <2>2
  <1>10. IsInjective(list')
    <2> SUFFICES ASSUME NEW m \in 1..(l + 1), NEW n \in 1..(l + 1), list'[m] = list'[n] PROVE m = n
      BY <1>6 DEF IsInjective
    <2>1. m = at <=> n = at
      BY <1>3, <1>5, <1>8
    <2>2. CASE m # at /\ n # at
      <3>0. Same(m, n) /\ Same(n, m)
        <4> HIDE DEF Same
        <4> QED BY <1>9, <2>2
      <3>1. PICK i, j \in 1..l : list[i] = list'[m] /\ list[j] = list'[n] /\ (m < n <=> i < j)
        BY <3>0
      <3>2. PICK i2, j2 \in 1..l : list[i2] = list'[n] /\ list[j2] = list'[m] /\ (n < m <=> i2 < j2)
        BY <3>0
      <3>3. i = j /\ i2 = j2
        BY <1>2, <3>1, <3>2, Lists
      <3>4. ~(m < n) /\ ~(n < m)
        BY <1>2, <3>1, <3>2, <3>3
      <3> QED BY <1>2, <3>4
    <2> QED BY <2>1, <2>2
  <1>11. OrderKept
    <2> SUFFICES ASSUME NEW m \in DOMAIN list', NEW n \in DOMAIN list',
                        list'[m] \in DOMAIN blocks, list'[n] \in DOMAIN blocks
                 PROVE  \E i, j \in DOMAIN list : list[i] = list'[m] /\ list[j] = list'[n] /\ (m < n <=> i < j)
      BY DEF OrderKept
    <2>1. m \in 1..(l + 1) /\ n \in 1..(l + 1)
      BY <1>6
    <2>2. m # at /\ n # at
      BY <1>3, <1>5
    <2> HIDE DEF Same
    <2>3. Same(m, n)
      BY <1>9, <2>1, <2>2
    <2>4. PICK i, j \in 1..l : list[i] = list'[m] /\ list[j] = list'[n] /\ (m < n <=> i < j)
      BY <2>3 DEF Same
    <2>5. i \in DOMAIN list /\ j \in DOMAIN list
      BY <1>2
    <2> QED BY <2>4, <2>5
  <1>12. BlocksKept
    BY <1>1, <1>2, <1>3 DEF BlocksKept
  <1>13. \A h \in DOMAIN blocks : Allocated(h) => Allocated(h)'
    <2> SUFFICES ASSUME NEW i \in 1..l PROVE \E m \in 1..(l + 1) : list'[m] = list[i]
      BY <1>2, <1>6 DEF Allocated
    <2>1. i < at => i \in 1..(l + 1) /\ list'[i] = list[i]
      BY <1>2, <1>5
    <2>2. ~(i < at) => i + 1 \in 1..(l + 1) /\ list'[i + 1] = list[i]
      BY <1>2, <1>4, <1>5
    <2> QED BY <2>1, <2>2
  <1>14. Live(N)'
    <2>1. at \in DOMAIN list'
      BY <1>2, <1>4, <1>6
    <2> QED BY <1>1, <1>5, <2>1 DEF Live, Allocated, Deleted
  <1>15. ASSUME NEW h \in DOMAIN blocks PROVE Live(h)' <=> Live(h)
    <2>1. Live(h)' => Live(h)
      BY <1>11, <1>12, LiveBefore
    <2>2. Deleted(h)' <=> Deleted(h)
      BY <1>1, <1>2 DEF Deleted
    <2> QED BY <1>13, <2>1, <2>2 DEF Live
  <1>16. ASSUME NEW T, Sorted(T), new.type \in T => Mixed(new.type) = T
         PROVE  \A m, n \in DOMAIN list' :
                   m < n /\ blocks'[list'[m]].type \in T /\ blocks'[list'[n]].type \in T =>
                       blocks'[list'[m]].pri >= blocks'[list'[n]].pri
    <2> SUFFICES ASSUME NEW m \in 1..(l + 1), NEW n \in 1..(l + 1), m < n,
                        blocks'[list'[m]].type \in T, blocks'[list'[n]].type \in T
                 PROVE  blocks'[list'[m]].pri >= blocks'[list'[n]].pri
      BY <1>6
    <2>1. new.pri \in Nat /\ \A h \in DOMAIN blocks : blocks[h].pri \in Nat
      BY Lists DEF HookRec
    <2>2. \A i \in 1..l : blocks'[list[i]] = blocks[list[i]] /\ list[i] \in DOMAIN blocks
      BY <1>1, <1>2
    <2>3. CASE m # at /\ n # at
      <3>0. Same(m, n)
        <4> HIDE DEF Same
        <4> QED BY <1>9, <2>3
      <3>1. PICK i, j \in 1..l : list[i] = list'[m] /\ list[j] = list'[n] /\ (m < n <=> i < j)
        BY <3>0
      <3>2. i < j /\ blocks[list[i]].type \in T /\ blocks[list[j]].type \in T
        BY <2>2, <3>1
      <3>3. blocks[list[i]].pri >= blocks[list[j]].pri
        BY <1>2, <1>16, <3>2 DEF Sorted
      <3> QED BY <2>2, <3>1, <3>3
    <2>4. CASE m = at
      <3>1. blocks'[list'[m]] = new /\ Mixed(new.type) = T
        BY <1>1, <1>5, <1>16, <2>4
      <3>2. n # at /\ ~(n < at) /\ at <= n - 1
        BY <1>2, <1>4, <2>4
      <3>3. n - 1 \in 1..l /\ list[n - 1] = list'[n]
        BY <1>7, <3>2
      <3>4. blocks'[list'[n]] = blocks[list[n - 1]] /\ blocks[list[n - 1]].type \in T
        BY <2>2, <3>3
      <3>5. at \in 1..l
        BY <1>2, <1>4, <3>2, <3>3
      <3>6. blocks[list[at]].type \in T /\ blocks[list[at]].pri <= new.pri
        BY <1>4, <3>1, <3>5 DEF YieldsTo
      <3>7. blocks[list[at]].pri >= blocks[list[n - 1]].pri
        <4>1. CASE at = n - 1
          BY <2>1, <2>2, <3>5, <4>1
        <4>2. CASE at < n - 1
          <5>1. at \in DOMAIN list /\ n - 1 \in DOMAIN list
            BY <1>2, <3>3, <3>5
          <5>2. blocks[list[at]].type \in T /\ blocks[list[n - 1]].type \in T
            BY <3>4, <3>6
          <5> QED BY <1>16, <4>2, <5>1, <5>2 DEF Sorted
        <4> QED BY <1>2, <1>4, <3>2, <4>1, <4>2
      <3>8. blocks[list[at]].pri \in Nat /\ blocks[list[n - 1]].pri \in Nat
        BY <2>1, <2>2, <3>3, <3>5
      <3> QED BY <2>1, <3>1, <3>4, <3>6, <3>7, <3>8
    <2>5. CASE n = at
      <3>1. blocks'[list'[n]] = new /\ Mixed(new.type) = T
        BY <1>1, <1>5, <1>16, <2>5
      <3>2. m # at /\ m < at
        BY <1>2, <1>4, <2>5
      <3>3. m \in 1..l /\ list[m] = list'[m]
        BY <1>7, <3>2
      <3>4. blocks'[list'[m]] = blocks[list[m]] /\ blocks[list[m]].type \in T
        BY <2>2, <3>3
      <3>5. ~(blocks[list[m]].pri <= new.pri)
        BY <1>4, <3>1, <3>2, <3>3, <3>4 DEF YieldsTo
      <3>6. blocks[list[m]].pri \in Nat
        BY <2>1, <2>2, <3>3
      <3> QED BY <2>1, <3>1, <3>4, <3>5, <3>6
    <2> QED BY <2>3, <2>4, <2>5
  <1>17. Sorted({"COMMAND"})'
    <2>1. new.type \in {"COMMAND"} => Mixed(new.type) = {"COMMAND"}
      BY DEF Mixed
    <2> QED BY <1>16, <2>1 DEF Tidy, Sorted
  <1>18. Sorted({"PRINT", "PRINT_ATTRS"})'
    <2>1. new.type \in {"PRINT", "PRINT_ATTRS"} => Mixed(new.type) = {"PRINT", "PRINT_ATTRS"}
      BY DEF Mixed
    <2> QED BY <1>16, <2>1 DEF Tidy, Sorted
  <1>19. Placed'
    <2> SUFFICES ASSUME NEW m \in 1..(l + 1), NEW n \in 1..(l + 1),
                        blocks'[list'[m]].addr = blocks'[list'[n]].addr
                 PROVE  m = n
      BY <1>6 DEF Placed
    <2>1. \A k \in 1..(l + 1) : k # at => \E i \in 1..l : list[i] = list'[k]
      BY <1>7
    <2>2. \A i \in 1..l : blocks'[list[i]] = blocks[list[i]] /\ blocks[list[i]].addr # new.addr
      BY <1>1, <1>2
    <2>3. blocks'[list'[at]].addr = new.addr /\ \A k \in 1..(l + 1) : k # at => blocks'[list'[k]].addr # new.addr
      <3>1. blocks'[list'[at]].addr = new.addr
        BY <1>1, <1>5
      <3>2. ASSUME NEW k \in 1..(l + 1), k # at PROVE blocks'[list'[k]].addr # new.addr
        <4>1. PICK i \in 1..l : list[i] = list'[k]
          BY <2>1, <3>2
        <4> QED BY <2>2, <4>1
      <3> QED BY <3>1, <3>2
    <2>4. CASE m # at /\ n # at
      <3>1. PICK i, j \in 1..l : list[i] = list'[m] /\ list[j] = list'[n]
        BY <2>1, <2>4
      <3>2. blocks[list[i]].addr = blocks[list[j]].addr
        BY <2>2, <3>1
      <3>3. i = j
        BY <1>2, <3>2 DEF Tidy, Placed
      <3> QED BY <1>6, <1>10, <3>1, <3>3 DEF IsInjective
    <2> QED BY <2>3, <2>4
  <1>20. list' \in Seq(DOMAIN blocks')
    BY <1>1, <1>5
  <1>21. Tidy'
    BY <1>17, <1>18, <1>19 DEF Tidy
  <1> QED BY <1>1, <1>2, <1>3, <1>10, <1>11, <1>12, <1>13, <1>14, <1>15, <1>20, <1>21
-----------------------------------------------------------------------------
(* The stack.                                                              *)

LEMMA Pushed ==
    ASSUME NEW s \in Seq(Frame), NEW f \in Frame
    PROVE  LET t == Append(s, f)
           IN  /\ t \in Seq(Frame) /\ In(t) = In(s) \cup {f}
               /\ Len(s) \in Nat /\ Len(t) = Len(s) + 1 /\ DOMAIN s = 1..Len(s) /\ DOMAIN t = 1..(Len(s) + 1)
               /\ t[Len(s) + 1] = f /\ \A i \in 1..Len(s) : t[i] = s[i]
  <1> DEFINE t == Append(s, f)
             n == Len(s)
  <1>1. /\ t \in Seq(Frame) /\ n \in Nat /\ Len(t) = n + 1 /\ DOMAIN s = 1..n /\ DOMAIN t = 1..(n + 1)
        /\ t[n + 1] = f /\ \A i \in 1..n : t[i] = s[i]
    OBVIOUS
  <1> HIDE DEF t, n
  <1>2. 1..(n + 1) = (1..n) \cup {n + 1}
    BY <1>1
  <1>3. In(t) = In(s) \cup {f}
    <2>1. In(t) = {t[i] : i \in (1..n) \cup {n + 1}}
      BY <1>1, <1>2 DEF In
    <2>2. In(s) = {t[i] : i \in 1..n}
      BY <1>1 DEF In
    <2> QED BY <1>1, <2>1, <2>2
  <1> QED BY <1>1, <1>3 DEF t, n

LEMMA Popped ==
    ASSUME Typed, stack # <<>>
    PROVE  LET s == Front(stack)
               n == Len(stack)
           IN  /\ n \in Nat /\ n >= 1 /\ n \in DOMAIN stack /\ DOMAIN stack = 1..n
               /\ Top = stack[n] /\ Top \in Frame /\ Top \in In(stack)
               /\ s \in Seq(Frame) /\ Len(s) = n - 1 /\ DOMAIN s = 1..(n - 1)
               /\ \A i \in 1..(n - 1) : s[i] = stack[i]
               /\ In(s) \subseteq In(stack)
  <1> DEFINE s == Front(stack)
             n == Len(stack)
  <1>1. n \in Nat /\ n >= 1 /\ DOMAIN stack = 1..n /\ n \in 1..n
    BY EmptySeq DEF Typed
  <1>2. \A i \in 1..n : stack[i] \in Frame
    BY Lists
  <1>3. Top = stack[n] /\ Top \in Frame
    BY <1>1, <1>2 DEF Top, Last
  <1> HIDE DEF n
  <1>4. s \in Seq(Frame) /\ Len(s) = n - 1 /\ \A i \in 1..(n - 1) : s[i] = stack[i]
    <2>1. \A i \in 1..(n - 1) : stack[i] \in Frame
      BY <1>1, <1>2
    <2>2. /\ SubSeq(stack, 1, n - 1) \in Seq(Frame)
          /\ Len(SubSeq(stack, 1, n - 1)) = IF 1 <= n - 1 THEN (n - 1) - 1 + 1 ELSE 0
          /\ \A i \in 1..((n - 1) - 1 + 1) : SubSeq(stack, 1, n - 1)[i] = stack[1 + i - 1]
      BY <1>1, <2>1, SubSeqProperties
    <2>3. s = SubSeq(stack, 1, n - 1)
      BY DEF Front, n
    <2> HIDE DEF s
    <2>4. Len(s) = n - 1
      BY <1>1, <2>2, <2>3
    <2>5. \A i \in 1..(n - 1) : s[i] = stack[i]
      BY <1>1, <2>2, <2>3
    <2> QED BY <2>2, <2>3, <2>4, <2>5
  <1> HIDE DEF s
  <1>5. DOMAIN s = 1..(n - 1)
    BY <1>4
  <1>6. In(s) \subseteq In(stack)
    BY <1>1, <1>4, <1>5 DEF In
  <1> QED BY <1>1, <1>3, <1>4, <1>5, <1>6 DEF s, n, In

LEMMA StandsPushed ==
    ASSUME NEW s \in Seq(Frame), NEW f \in Frame, NEW plugins, Stands(s, plugins), f.pl \in plugins,
           f.kind = "init" => \A i \in DOMAIN s : s[i].pl # f.pl
    PROVE  Stands(Append(s, f), plugins)
  <1> DEFINE t == Append(s, f)
  <1>1. /\ Len(s) \in Nat /\ DOMAIN s = 1..Len(s) /\ DOMAIN t = 1..(Len(s) + 1)
        /\ t[Len(s) + 1] = f /\ \A i \in 1..Len(s) : t[i] = s[i]
    BY Pushed
  <1> HIDE DEF t
  <1>2. \A i \in DOMAIN t : t[i].pl \in plugins
    <2>1. \A i \in 1..(Len(s) + 1) : i \in 1..Len(s) \/ i = Len(s) + 1
      BY <1>1
    <2> QED BY <1>1, <2>1 DEF Stands
  <1>3. ASSUME NEW i \in 1..(Len(s) + 1), NEW j \in 1..(Len(s) + 1), i < j, t[j].kind = "init"
        PROVE  t[i].pl # t[j].pl
    <2>1. i \in 1..Len(s)
      BY <1>1, <1>3
    <2>2. CASE j \in 1..Len(s)
      BY <1>1, <1>3, <2>1, <2>2 DEF Stands
    <2>3. CASE j = Len(s) + 1
      BY <1>1, <1>3, <2>1, <2>3
    <2> QED BY <1>1, <2>2, <2>3
  <1>4. Stands(t, plugins)
    BY <1>1, <1>2, <1>3 DEF Stands
  <1> QED BY <1>4 DEF t

LEMMA StandsPopped ==
    ASSUME Typed, stack # <<>>, Stands(stack, loaded)
    PROVE  Stands(Front(stack), loaded)
  BY Popped DEF Stands

LEMMA CallIs ==
    ASSUME NEW kind \in {"run", "timer", "init", "unload", "reload", "shutdown"}, NEW p \in Plugins
    PROVE  /\ Call(kind, p) \in Frame /\ Call(kind, p).kind = kind /\ Call(kind, p).pl = p
           /\ Call(kind, p).next = 0 /\ Call(kind, p).hook = 0
           /\ Call(kind, p).called = <<>> /\ Call(kind, p).due = {}
  BY DEF Call, Frame

LEMMA CallIsFine ==
    ASSUME NEW f, f.called = <<>>, f.due = {}, f.next = 0, f.kind # "timer"
    PROVE  Fine(f)
  <1>1. DOMAIN f.called = {}
    OBVIOUS
  <1>2. IsInjective(f.called)
    BY <1>1 DEF IsInjective
  <1>3. Known(f) /\ Passed(f) /\ Served(f) /\ Fallen(f) /\ Falling(f)
    BY <1>1, <1>2 DEF Known, Passed, Served, Fallen, Falling
  <1> QED BY <1>3 DEF Fine, Sound, Kept

-----------------------------------------------------------------------------
(* What a step leaves as it was.                                           *)

LEMMA FineKept ==
    ASSUME Typed, Typed', OrderKept, BlocksKept, NEW f, Fine(f),
           ~nested' => ~nested /\ (f.next \in DOMAIN blocks /\ Allocated(f.next) => Allocated(f.next)'),
           ~recycled' => ~recycled,
           ~recycled' /\ f.kind = "timer" =>
               \A h \in DOMAIN blocks' \ DOMAIN blocks : blocks'[h].addr # blocks[f.hook].addr
    PROVE  Fine(f)'
  <1>1. Sound(f)'
    BY SoundKept DEF Fine
  <1>2. ASSUME ~nested' PROVE Kept(f)'
    BY <1>2 DEF Fine, Kept, Sound, Known
  <1>3. ASSUME ~recycled', f.kind = "timer" PROVE OwnAddress(f)'
    <2> SUFFICES ASSUME NEW h \in DOMAIN blocks', Live(h)', blocks'[h].addr = blocks'[f.hook].addr
                 PROVE  h = f.hook
      BY DEF OwnAddress
    <2>1. f.hook \in DOMAIN blocks /\ blocks'[f.hook].addr = blocks[f.hook].addr
      BY <1>3 DEF Fine, Sound, Known, BlocksKept
    <2>2. h \in DOMAIN blocks
      BY <1>3, <2>1
    <2>3. Live(h) /\ blocks[h].addr = blocks[f.hook].addr
      BY <2>1, <2>2, LiveBefore DEF BlocksKept
    <2> QED BY <1>3, <2>3, <2>2 DEF Fine, OwnAddress
  <1> QED BY <1>1, <1>2, <1>3 DEF Fine

\* hooks are not touched
LEMMA SameHooks ==
    ASSUME Inv, Typed', list' = list, blocks' = blocks, nested' = nested, recycled' = recycled
    PROVE  /\ Tidy' /\ \A f : Fine(f) => Fine(f)'
           /\ loaded \subseteq loaded' => UnloadedHasNoHooks'
           /\ sources' = sources /\ fault' # "stray" => TimeoutsAreHooked'
  <1>1. Typed /\ OrderKept /\ BlocksKept
    BY SameList, SameBlocks DEF Inv
  <1>2. Tidy'
    BY <1>1, TidyKept DEF Inv
  <1>3. ASSUME NEW f, Fine(f) PROVE Fine(f)'
    <2>1. Allocated(f.next) => Allocated(f.next)'
      BY DEF Allocated
    <2> QED BY <1>1, <1>3, <2>1, FineKept
  <1>4. \A h \in DOMAIN blocks : Live(h)' <=> Live(h)
    BY DEF Live, Allocated, Deleted
  <1>5. ASSUME loaded \subseteq loaded' PROVE UnloadedHasNoHooks'
    BY <1>4, <1>5 DEF UnloadedHasNoHooks, Inv
  <1>6. ASSUME sources' = sources, fault' # "stray" PROVE TimeoutsAreHooked'
    BY <1>4, <1>6 DEF TimeoutsAreHooked, Inv
  <1> QED BY <1>2, <1>3, <1>5, <1>6

\* the list may lose deleted hooks
LEMMA Purging ==
    ASSUME Inv, Typed', list' = Purged, blocks' = blocks, recycled' = recycled, sources' = sources,
           loaded' = loaded, fault' # "stray"
    PROVE  /\ Tidy' /\ UnloadedHasNoHooks' /\ TimeoutsAreHooked'
           /\ \A f : Fine(f) /\ (~nested' => ~nested /\ (f.next = 0 \/ list' = list)) => Fine(f)'
  <1>1. /\ Typed /\ OrderKept /\ BlocksKept /\ \A h : Live(h)' <=> Live(h)
    BY PurgedIs DEF Inv
  <1>2. Tidy'
    BY <1>1, TidyKept DEF Inv
  <1>3. UnloadedHasNoHooks'
    BY <1>1 DEF UnloadedHasNoHooks, Inv
  <1>4. TimeoutsAreHooked'
    BY <1>1 DEF TimeoutsAreHooked, Inv
  <1>5. ASSUME NEW f, Fine(f), ~nested' => ~nested /\ (f.next = 0 \/ list' = list)
        PROVE  Fine(f)'
    <2>1. 0 \notin DOMAIN blocks
      BY <1>1, Lists
    <2>2. ~nested' => ~nested /\ (f.next \in DOMAIN blocks /\ Allocated(f.next) => Allocated(f.next)')
      BY <1>5, <2>1 DEF Allocated
    <2> QED BY <1>1, <1>5, <2>2, FineKept
  <1> QED BY <1>2, <1>3, <1>4, <1>5

\* hooks are removed
LEMMA Marking ==
    ASSUME Inv, Typed', NEW hs, NEW gone, blocks' = Marked(hs), list' = list, sources' = Disarmed(gone),
           nested' = nested, recycled' = recycled, fault' # "stray",
           ~recycled => \A h \in DOMAIN blocks : Live(h) => (h \in hs <=> h \in gone)
    PROVE  /\ Tidy' /\ \A f : Fine(f) => Fine(f)'
           /\ \A h \in DOMAIN blocks : (Live(h)' <=> Live(h) /\ h \notin hs) /\ blocks'[h].pl = blocks[h].pl
           /\ DOMAIN blocks' = DOMAIN blocks
           /\ TimeoutsAreHooked'
  <1>1. /\ Typed /\ OrderKept /\ BlocksKept /\ DOMAIN blocks' = DOMAIN blocks
        /\ \A h \in DOMAIN blocks : Live(h)' <=> Live(h) /\ h \notin hs
        /\ \A h \in DOMAIN blocks : h \notin hs => blocks'[h] = blocks[h]
    BY MarkedIs DEF Inv
  <1>2. Tidy'
    BY <1>1, TidyKept DEF Inv
  <1>3. ASSUME NEW f, Fine(f) PROVE Fine(f)'
    <2>1. Allocated(f.next) => Allocated(f.next)'
      BY DEF Allocated
    <2> QED BY <1>1, <1>3, <2>1, FineKept
  <1>4. TimeoutsAreHooked'
    <2> SUFFICES ASSUME ~recycled
                 PROVE  {s.tag : s \in sources'} =
                            {h \in DOMAIN blocks' : Live(h)' /\ blocks'[h].type = "TIMER"}
      BY DEF TimeoutsAreHooked
    <2>1. {s.tag : s \in sources} = {h \in DOMAIN blocks : Live(h) /\ blocks[h].type = "TIMER"}
      BY DEF TimeoutsAreHooked, Inv
    <2>2. {s.tag : s \in sources'} = {s.tag : s \in sources} \ gone
      BY DEF Disarmed
    <2>3. ASSUME NEW h \in DOMAIN blocks
          PROVE  (Live(h)' /\ blocks'[h].type = "TIMER") <=> (Live(h) /\ blocks[h].type = "TIMER" /\ h \notin gone)
      BY <1>1
    <2> QED BY <1>1, <2>1, <2>2, <2>3
  <1> QED BY <1>1, <1>2, <1>3, <1>4 DEF BlocksKept
-----------------------------------------------------------------------------
(* The steps.                                                              *)

LEMMA InitInv == Init => Inv
  <1> SUFFICES ASSUME Init PROVE Inv
    OBVIOUS
  <1>1. DOMAIN list = {} /\ DOMAIN blocks = {} /\ DOMAIN stack = {} /\ Len(blocks) = 0
    BY DEF Init
  <1>2. IsInjective(list)
    BY <1>1 DEF IsInjective
  <1>3. Typed
    <2>1. \A S : <<>> \in Seq(S)
      OBVIOUS
    <2>2. Len(blocks) <= MaxHooks
      BY <1>1, HookAssumption
    <2>3. blocks \in Seq(HookRec) /\ list \in Seq(DOMAIN blocks) /\ stack \in Seq(Frame)
      BY <2>1 DEF Init
    <2>4. /\ loaded = {} /\ sources = {} /\ fault = "none" /\ nested \in BOOLEAN /\ recycled \in BOOLEAN
      BY DEF Init
    <2> QED BY <1>2, <2>2, <2>3, <2>4 DEF Typed
  <1>4. Tidy
    BY <1>1 DEF Tidy, Sorted, Placed
  <1>5. In(stack) = {}
    BY <1>1 DEF In
  <1>6. Stands(stack, loaded)
    BY <1>1 DEF Stands
  <1>7. UnloadedHasNoHooks /\ TimeoutsAreHooked /\ OnlyNestedRunsDangle
    BY <1>1 DEF Init, UnloadedHasNoHooks, TimeoutsAreHooked, OnlyNestedRunsDangle
  <1> QED BY <1>3, <1>4, <1>5, <1>6, <1>7 DEF Inv

LEMMA StepHook == ASSUME Inv, NEW k \in Kinds, NEW a \in Addresses, Hook(k, a) PROVE Inv'
  <1> DEFINE new == [addr |-> a, pl |-> Running, type |-> k.type, name |-> k.name, pri |-> k.pri]
  <1>1. /\ Typed /\ Tidy /\ fault = "none" /\ Stands(stack, loaded)
        /\ Len(stack) \in DOMAIN stack /\ Running = stack[Len(stack)].pl /\ stack[Len(stack)] \in Frame
    BY Popped DEF Inv, Hook, Running, Top
  <1>2. Running \in Plugins /\ Running \in loaded
    BY <1>1, Frames DEF Stands
  <1>3. PICK N : N = Len(blocks) + 1
    OBVIOUS
  <1>4. new \in HookRec /\ new.type # "DELETED" /\ new.addr = a /\ new.pl = Running /\ new.type = k.type
    <2>1. k.type \in Types /\ k.pri \in Nat /\ k.name \in {x.name : x \in Kinds}
      BY HookAssumption
    <2> QED BY <1>2, <2>1 DEF HookRec, Types
  <1>5. /\ \A i \in DOMAIN list : blocks[list[i]].addr # a
        /\ Len(blocks) < MaxHooks /\ list' = Inserted(new) /\ blocks' = Append(blocks, new)
        /\ sources' = IF k.type = "TIMER" THEN sources \cup {[tag |-> N, addr |-> a]} ELSE sources
        /\ recycled' = (recycled \/ \E i \in DOMAIN stack : stack[i].kind = "timer" /\
                                                            blocks[stack[i].hook].addr = a)
        /\ loaded' = loaded /\ stack' = stack /\ fault' = fault /\ nested' = nested
    BY <1>3 DEF Hook
  <1> HIDE DEF new
  <1>6. /\ blocks' \in Seq(HookRec) /\ Len(blocks') = N /\ N <= MaxHooks /\ N \in Ids
        /\ DOMAIN blocks' = DOMAIN blocks \cup {N} /\ N \notin DOMAIN blocks
        /\ blocks'[N] = new /\ \A h \in DOMAIN blocks : blocks'[h] = blocks[h]
        /\ list' \in Seq(DOMAIN blocks') /\ IsInjective(list')
        /\ BlocksKept /\ OrderKept
        /\ Live(N)' /\ \A h \in DOMAIN blocks : Live(h)' <=> Live(h)
        /\ \A h \in DOMAIN blocks : Allocated(h) => Allocated(h)'
        /\ Tidy'
    BY <1>1, <1>3, <1>4, <1>5, HookedIs
  <1>7. Typed'
    <2>1. sources' \subseteq [tag : Ids, addr : Addresses]
      <3>1. sources \subseteq [tag : Ids, addr : Addresses]
        BY <1>1 DEF Typed
      <3>2. [tag |-> N, addr |-> a] \in [tag : Ids, addr : Addresses]
        BY <1>6
      <3> QED BY <1>5, <3>1, <3>2
    <2>2. recycled' \in BOOLEAN
      BY <1>1, <1>5 DEF Typed
    <2>3. loaded \subseteq Plugins /\ stack \in Seq(Frame) /\ nested \in BOOLEAN
      BY <1>1 DEF Typed
    <2> QED BY <1>1, <1>5, <1>6, <2>1, <2>2, <2>3 DEF Typed
  <1>8. ASSUME NEW f \in In(stack) PROVE Fine(f)'
    <2>1. Fine(f)
      BY DEF Inv
    <2>2. ASSUME ~recycled', f.kind = "timer" PROVE blocks[f.hook].addr # a
      BY <1>5, <2>2 DEF In
    <2>3. ~recycled' => ~recycled
      BY <1>5
    <2>4. \A h \in DOMAIN blocks' \ DOMAIN blocks : blocks'[h].addr = a
      BY <1>4, <1>6
    <2> QED BY <1>1, <1>5, <1>6, <1>7, <2>1, <2>2, <2>3, <2>4, FineKept
  <1>9. UnloadedHasNoHooks'
    <2>1. UnloadedHasNoHooks
      BY DEF Inv
    <2> QED BY <1>2, <1>4, <1>5, <1>6, <2>1 DEF UnloadedHasNoHooks
  <1>10. TimeoutsAreHooked'
    <2> SUFFICES ASSUME ~recycled'
                 PROVE  {s.tag : s \in sources'} =
                            {h \in DOMAIN blocks' : Live(h)' /\ blocks'[h].type = "TIMER"}
      BY <1>1, <1>5 DEF TimeoutsAreHooked
    <2>1. {s.tag : s \in sources} = {h \in DOMAIN blocks : Live(h) /\ blocks[h].type = "TIMER"}
      BY <1>5 DEF TimeoutsAreHooked, Inv
    <2>2. {h \in DOMAIN blocks' : Live(h)' /\ blocks'[h].type = "TIMER"} =
            {s.tag : s \in sources} \cup (IF k.type = "TIMER" THEN {N} ELSE {})
      BY <1>4, <1>6, <2>1
    <2>3. CASE k.type = "TIMER"
      <3>1. {s.tag : s \in sources'} = {s.tag : s \in sources} \cup {N}
        <4> DEFINE r == [tag |-> N, addr |-> a]
        <4>1. sources' = sources \cup {r} /\ r.tag = N
          BY <1>5, <2>3
        <4> HIDE DEF r
        <4> QED BY <4>1
      <3> QED BY <2>2, <2>3, <3>1
    <2>4. CASE k.type # "TIMER"
      BY <1>5, <2>2, <2>4
    <2> QED BY <2>3, <2>4
  <1>11. OnlyNestedRunsDangle'
    BY <1>1, <1>5 DEF OnlyNestedRunsDangle
  <1>12. (fault = "none" => Stands(stack, loaded))'
    BY <1>1, <1>5 DEF Stands
  <1>13. \A f \in In(stack') : Fine(f)'
    BY <1>5, <1>8
  <1> QED BY <1>6, <1>7, <1>9, <1>10, <1>11, <1>12, <1>13 DEF Inv, In

LEMMA StepUnhook == ASSUME Inv, NEW h \in DOMAIN blocks, Unhook(h) PROVE Inv'
  <1>1. /\ fault = "none" /\ blocks' = Marked({h}) /\ list' = list /\ sources' = Disarmed({h})
        /\ loaded' = loaded /\ stack' = stack /\ fault' = fault /\ nested' = nested /\ recycled' = recycled
    BY DEF Unhook, Expunge
  <1>2. Typed'
    <2>1. Typed
      BY DEF Inv
    <2>2. blocks' \in Seq(HookRec) /\ Len(blocks') = Len(blocks) /\ DOMAIN blocks' = DOMAIN blocks
      BY <1>1, <2>1, MarkedIs
    <2>3. sources' \subseteq sources
      BY <1>1 DEF Disarmed
    <2> QED BY <1>1, <2>1, <2>2, <2>3 DEF Typed
  <1>3. /\ Tidy' /\ \A f : Fine(f) => Fine(f)'
        /\ \A x \in DOMAIN blocks : (Live(x)' <=> Live(x) /\ x \notin {h}) /\ blocks'[x].pl = blocks[x].pl
        /\ DOMAIN blocks' = DOMAIN blocks
        /\ TimeoutsAreHooked'
    BY <1>1, <1>2, Marking
  <1>4. UnloadedHasNoHooks'
    BY <1>1, <1>3 DEF UnloadedHasNoHooks, Inv
  <1>5. \A f \in In(stack') : Fine(f)'
    BY <1>1, <1>3 DEF Inv
  <1>6. (fault = "none" => Stands(stack, loaded))'
    BY <1>1 DEF Inv, Stands
  <1> QED BY <1>1, <1>2, <1>3, <1>4, <1>5, <1>6 DEF Inv, In, OnlyNestedRunsDangle

LEMMA SameEvent ==
    ASSUME NEW from, NEW e, NEW g, g.mask = e.mask, g.name = e.name
    PROVE  Find(from, g) = Find(from, e) /\ \A h : Matches(h, g) <=> Matches(h, e)
  <1>1. \A h : Matches(h, g) <=> Matches(h, e)
    BY DEF Matches
  <1> DEFINE rest == Rest(from)
             I == {i \in 1..Len(rest) : Matches(rest[i], g)}
             J == {i \in 1..Len(rest) : Matches(rest[i], e)}
             at(S) == IF S # {} THEN Min(S) ELSE 0
             found(S) == IF at(S) = 0 THEN 0 ELSE rest[at(S)]
  <1>2. I = J
    BY <1>1
  <1>3. Find(from, g) = found(I)
    BY DEF Find, SelectInSeq
  <1>4. Find(from, e) = found(J)
    BY DEF Find, SelectInSeq
  <1> HIDE DEF I, J, found
  <1> QED BY <1>1, <1>2, <1>3, <1>4

LEMMA NextElsewhere ==
    ASSUME NEW f \in AnyFrame, NEW n \in Ids
    PROVE  LET g == [f EXCEPT !.next = n]
           IN  /\ g \in AnyFrame /\ g.next = n
               /\ g.kind = f.kind /\ g.mask = f.mask /\ g.name = f.name /\ g.called = f.called /\ g.due = f.due
               /\ \A h : Calling(g, h) = Calling(f, h)
  <1> DEFINE g == [f EXCEPT !.next = n]
  <1>1. /\ g \in AnyFrame /\ g.next = n
        /\ g.kind = f.kind /\ g.mask = f.mask /\ g.name = f.name /\ g.called = f.called /\ g.due = f.due
    BY DEF AnyFrame
  <1>2. ASSUME NEW h PROVE Calling(g, h) = Calling(f, h)
    <2>1. Append(g.called, h) = Append(f.called, h)
      BY <1>1
    <2> DEFINE c == Append(f.called, h)
               p == blocks[h].pl
               x == After(h)
    <2>2. Calling(g, h) = [g EXCEPT !.hook = h, !.pl = p, !.next = x, !.called = c]
      BY <2>1 DEF Calling
    <2>3. Calling(f, h) = [f EXCEPT !.hook = h, !.pl = p, !.next = x, !.called = c]
      BY DEF Calling
    <2> HIDE DEF c, p, x
    <2>4. [g EXCEPT !.hook = h, !.pl = p, !.next = x, !.called = c] =
            [f EXCEPT !.hook = h, !.pl = p, !.next = x, !.called = c]
      BY DEF AnyFrame
    <2> QED BY <2>2, <2>3, <2>4
  <1> QED BY <1>1, <1>2

LEMMA StepRunHooks == ASSUME Inv, NEW e \in Events, RunHooks(e) PROVE Inv'
  <1> DEFINE from  == IF list = <<>> THEN 0 ELSE Head(list)
             due   == {x \in DOMAIN blocks : Allocated(x) /\ Matches(x, e)}
             frame == [Call("run", Running) EXCEPT !.mask = e.mask, !.name = e.name, !.due = due]
             g     == [frame EXCEPT !.next = from]
             h     == Find(from, e)
  <1>1. /\ fault = "none" /\ blocks' = blocks /\ loaded' = loaded /\ sources' = sources /\ fault' = fault
        /\ recycled' = recycled
        /\ h = 0 => list' = Purged /\ nested' = FreedInside(stack) /\ stack' = stack
        /\ h # 0 => stack' = Append(stack, Calling(frame, h)) /\ list' = list /\ nested' = nested
    BY DEF RunHooks, Deeper
  <1>2. /\ Typed /\ Tidy /\ Stands(stack, loaded) /\ UnloadedHasNoHooks /\ OnlyNestedRunsDangle
        /\ \A f \in In(stack) : Fine(f)
    BY <1>1 DEF Inv
  <1>3. fault' # "dangling" /\ fault' # "stray" /\ OnlyNestedRunsDangle'
    BY <1>1 DEF OnlyNestedRunsDangle
  <1>4. CASE h = 0
    <2> HIDE DEF h
    <2>1. list' = Purged /\ nested' = FreedInside(stack) /\ stack' = stack
      BY <1>1, <1>4
    <2>2. Typed'
      <3>1. list' \in Seq(DOMAIN blocks') /\ IsInjective(list')
        BY <1>1, <1>2, <2>1, PurgedIs
      <3>2. nested' \in BOOLEAN
        BY <1>2, <2>1 DEF FreedInside, Typed
      <3> QED BY <1>1, <1>2, <2>1, <3>1, <3>2 DEF Typed
    <2>3. /\ Tidy' /\ UnloadedHasNoHooks' /\ TimeoutsAreHooked'
          /\ \A f : Fine(f) /\ (~nested' => ~nested /\ (f.next = 0 \/ list' = list)) => Fine(f)'
      BY <1>1, <1>3, <2>1, <2>2, Purging
    <2>4. ASSUME NEW f \in In(stack') PROVE Fine(f)'
      <3>1. PICK i \in DOMAIN stack : f = stack[i]
        BY <2>1 DEF In
      <3>2. Fine(f)
        BY <1>2, <3>1 DEF In
      <3>3. f.next # 0 => f.kind = "run"
        BY <3>2 DEF Fine, Sound, Known
      <3>4. ~nested' => ~nested /\ (f.next = 0 \/ list' = list)
        BY <2>1, <3>1, <3>3 DEF FreedInside
      <3> QED BY <2>3, <3>2, <3>4
    <2>5. (fault = "none" => Stands(stack, loaded))'
      BY <1>1, <1>2, <2>1 DEF Stands
    <2> QED BY <1>3, <2>2, <2>3, <2>4, <2>5 DEF Inv, In
  <1>5. CASE h # 0
    <2> DEFINE c == Calling(g, h)
    <2>1. list # <<>>
      <3> SUFFICES ASSUME list = <<>> PROVE FALSE
        OBVIOUS
      <3>1. from = 0
        OBVIOUS
      <3>2. Rest(0) = <<>>
        BY DEF Rest
      <3>3. 1..Len(<<>>) = {}
        OBVIOUS
      <3>4. Find(0, e) = 0
        BY <3>2, <3>3 DEF Find, SelectInSeq
      <3> QED BY <1>5, <3>1, <3>4
    <2>2. 1 \in DOMAIN list /\ from = list[1] /\ from \in DOMAIN blocks /\ from \in Ids /\ from # 0
      <3>1. 1 \in DOMAIN list /\ from = list[1]
        BY <1>2, <2>1, EmptySeq DEF Typed
      <3> QED BY <1>2, <3>1, Lists
    <2> HIDE DEF from, h
    <2>3. due \subseteq DOMAIN blocks /\ due \subseteq Ids
      BY <1>2, Lists
    <2>4. e.mask \in Masks /\ e.name \in {x.name : x \in Events}
      BY HookAssumption
    <2>5. Running \in Plugins \cup {"main loop"}
      <3>1. CASE stack = <<>>
        BY <3>1 DEF Running
      <3>2. CASE stack # <<>>
        BY <1>2, <3>2, Popped, Frames DEF Running, Top
      <3> QED BY <3>1, <3>2
    <2>6. /\ frame \in AnyFrame /\ frame.kind = "run" /\ frame.mask = e.mask /\ frame.name = e.name
          /\ frame.called = <<>> /\ frame.due = due
      <3> HIDE DEF due
      <3>1. <<>> \in Seq(Ids)
        OBVIOUS
      <3>2. /\ frame.kind = "run" /\ frame.mask = e.mask /\ frame.name = e.name
            /\ frame.called = <<>> /\ frame.due = due
        BY DEF Call
      <3>3. frame \in AnyFrame
        BY <2>3, <2>4, <2>5, <3>1 DEF Call, AnyFrame
      <3> QED BY <3>2, <3>3
    <2> HIDE DEF frame
    <2>7. /\ g \in AnyFrame /\ g.kind = "run" /\ g.mask = e.mask /\ g.name = e.name /\ g.next = from
          /\ g.called = <<>> /\ g.due = due
          /\ Calling(frame, h) = c
      BY <2>2, <2>6, NextElsewhere
    <2> HIDE DEF g
    <2>8. h = Find(g.next, g) /\ \A x : Matches(x, g) <=> Matches(x, e)
      BY <2>7, SameEvent DEF h
    <2>9. Sound(g)
      <3>1. DOMAIN g.called = {}
        BY <2>7
      <3>2. IsInjective(g.called)
        BY <3>1 DEF IsInjective
      <3>3. Known(g)
        BY <2>2, <2>3, <2>7, <3>1 DEF Known
      <3>4. Passed(g) /\ Fallen(g) /\ Falling(g)
        BY <3>1, <3>2 DEF Passed, Fallen, Falling
      <3>5. Served(g)
        <4> SUFFICES ASSUME NEW x \in due PROVE /\ Matches(x, g) /\ g.next # 0
                                                /\ \A i, j \in DOMAIN list : list[j] = g.next => j <= i
          BY <2>7 DEF Served
        <4>1. Matches(x, g)
          BY <2>8
        <4>2. ASSUME NEW i \in DOMAIN list, NEW j \in DOMAIN list, list[j] = g.next PROVE j <= i
          <5>1. j = 1
            BY <1>2, <2>2, <2>7, <4>2, Lists
          <5>2. i \in 1..Len(list) /\ Len(list) \in Nat
            BY <1>2, Lists
          <5> QED BY <5>1, <5>2
        <4> QED BY <2>2, <2>7, <4>1, <4>2
      <3> QED BY <3>3, <3>4, <3>5 DEF Sound
    <2>10. Allocated(g.next)
      BY <2>2, <2>7 DEF Allocated
    <2>11. /\ Live(h) /\ h \in DOMAIN blocks /\ c \in Frame /\ Sound(c) /\ c.kind = "run" /\ c.pl = blocks[h].pl
           /\ c.next # 0 => Allocated(c.next)
      BY <1>2, <1>5, <2>7, <2>8, <2>9, <2>10, SoundCalls
    <2> HIDE DEF c
    <2>12. Fine(c)
      BY <2>11 DEF Fine, Kept
    <2>13. stack' = Append(stack, c) /\ list' = list /\ nested' = nested
      BY <1>1, <1>5, <2>7
    <2>14. stack' \in Seq(Frame) /\ In(stack') = In(stack) \cup {c}
      BY <1>2, <2>11, <2>13, Pushed DEF Typed
    <2>15. Typed'
      BY <1>1, <1>2, <2>13, <2>14 DEF Typed
    <2>16. /\ Tidy' /\ \A f : Fine(f) => Fine(f)'
           /\ UnloadedHasNoHooks' /\ TimeoutsAreHooked'
      BY <1>1, <1>3, <2>13, <2>15, SameHooks
    <2>17. \A f \in In(stack') : Fine(f)'
      BY <1>2, <2>12, <2>14, <2>16
    <2>18. c.pl \in loaded
      BY <1>2, <2>11 DEF UnloadedHasNoHooks
    <2>19. Stands(Append(stack, c), loaded)
      BY <1>2, <2>11, <2>18, StandsPushed DEF Typed
    <2>20. (fault = "none" => Stands(stack, loaded))'
      BY <1>1, <2>13, <2>19 DEF Stands
    <2> QED BY <1>3, <2>15, <2>16, <2>17, <2>20 DEF Inv, In
  <1> QED BY <1>4, <1>5

\* a step that only changes the stack and the plugins
LEMMA StackStep ==
    ASSUME Inv, list' = list, blocks' = blocks, sources' = sources, fault' = "none",
           nested' = nested, recycled' = recycled, fault = "none",
           loaded \subseteq loaded', loaded' \subseteq Plugins,
           stack' \in Seq(Frame), \A f \in In(stack') : Fine(f), Stands(stack', loaded')
    PROVE  Inv'
  <1>1. Typed'
    BY DEF Inv, Typed
  <1>2. /\ Tidy' /\ \A f : Fine(f) => Fine(f)'
        /\ UnloadedHasNoHooks' /\ TimeoutsAreHooked'
    BY <1>1, SameHooks
  <1>3. \A f \in In(stack') : Fine(f)'
    BY <1>2
  <1> QED BY <1>1, <1>2, <1>3 DEF Inv, In, OnlyNestedRunsDangle, Stands

\* a call returns and changes nothing
LEMMA Returning ==
    ASSUME Inv, stack # <<>>, stack' = Front(stack), fault = "none",
           UNCHANGED <<list, blocks, loaded, sources, fault, nested, recycled>>
    PROVE  Inv'
  <1>1. Typed /\ loaded \subseteq Plugins /\ Stands(stack, loaded)
    BY DEF Inv, Typed
  <1>2. stack' \in Seq(Frame) /\ In(stack') \subseteq In(stack)
    BY <1>1, Popped
  <1>3. Stands(stack', loaded)
    BY <1>1, StandsPopped
  <1>4. \A f \in In(stack') : Fine(f)
    BY <1>2 DEF Inv
  <1> QED BY <1>1, <1>2, <1>3, <1>4, StackStep

LEMMA StepRunGoesOn == ASSUME Inv, RunGoesOn PROVE Inv'
  <1> DEFINE c == Calling(Top, NextHook)
  <1>1. /\ fault = "none" /\ stack # <<>> /\ Top.kind = "run" /\ NextHook # 0
        /\ stack' = Append(Front(stack), c)
        /\ UNCHANGED <<list, blocks, loaded, sources, fault, nested, recycled>>
    BY DEF RunGoesOn, InRun
  <1>2. Typed /\ Tidy /\ loaded \subseteq Plugins /\ Stands(stack, loaded) /\ UnloadedHasNoHooks
    BY <1>1 DEF Inv, Typed
  <1>3. Top \in Frame /\ Top \in In(stack) /\ Front(stack) \in Seq(Frame) /\ In(Front(stack)) \subseteq In(stack)
    BY <1>1, <1>2, Popped
  <1>4. Sound(Top) /\ Top \in AnyFrame
    BY <1>3, FrameIsAny DEF Inv, Fine
  <1>5. Allocated(Top.next) /\ NextHook = Find(Top.next, Top)
    BY <1>1 DEF NextHook
  <1>6. /\ Live(NextHook) /\ NextHook \in DOMAIN blocks /\ c \in Frame /\ Sound(c) /\ c.kind = "run"
        /\ c.pl = blocks[NextHook].pl
        /\ c.next # 0 => Allocated(c.next)
    <2> DEFINE t == Top
    <2>1. t \in AnyFrame /\ Sound(t) /\ t.kind = "run" /\ Allocated(t.next) /\ Find(t.next, t) # 0
      BY <1>1, <1>4, <1>5
    <2> HIDE DEF t
    <2>2. LET h == Find(t.next, t)
          IN  /\ Live(h) /\ h \in DOMAIN blocks
              /\ Calling(t, h) \in Frame /\ Sound(Calling(t, h))
              /\ Calling(t, h).kind = "run" /\ Calling(t, h).pl = blocks[h].pl
              /\ Calling(t, h).next # 0 => Allocated(Calling(t, h).next)
      BY <1>2, <2>1, SoundCalls
    <2> QED BY <1>5, <2>2 DEF t
  <1> HIDE DEF c
  <1>7. Fine(c)
    BY <1>6 DEF Fine, Kept
  <1>8. stack' \in Seq(Frame) /\ In(stack') = In(Front(stack)) \cup {c}
    BY <1>1, <1>3, <1>6, Pushed
  <1>9. Stands(Front(stack), loaded)
    BY <1>1, <1>2, StandsPopped
  <1>10. c.pl \in loaded
    BY <1>2, <1>6 DEF UnloadedHasNoHooks
  <1>11. Stands(stack', loaded)
    BY <1>1, <1>3, <1>6, <1>9, <1>10, StandsPushed
  <1>12. \A f \in In(stack') : Fine(f)
    BY <1>3, <1>7, <1>8 DEF Inv
  <1> QED BY <1>1, <1>2, <1>8, <1>11, <1>12, StackStep

LEMMA StepRunEnds == ASSUME Inv, NEW eaten \in BOOLEAN, RunEnds(eaten) PROVE Inv'
  <1>1. /\ fault = "none" /\ stack # <<>> /\ list' = Purged /\ stack' = Front(stack)
        /\ nested' = FreedInside(Front(stack))
        /\ UNCHANGED <<blocks, loaded, sources, fault, recycled>>
    BY DEF RunEnds, InRun
  <1>2. Typed /\ Stands(stack, loaded)
    BY <1>1 DEF Inv
  <1>3. Front(stack) \in Seq(Frame) /\ In(Front(stack)) \subseteq In(stack)
    BY <1>1, <1>2, Popped
  <1>4. Typed'
    <2>1. list' \in Seq(DOMAIN blocks') /\ IsInjective(list')
      BY <1>1, <1>2, PurgedIs
    <2>2. nested' \in BOOLEAN
      BY <1>1, <1>2 DEF FreedInside, Typed
    <2> QED BY <1>1, <1>2, <1>3, <2>1, <2>2 DEF Typed
  <1>5. fault' # "dangling" /\ fault' # "stray" /\ OnlyNestedRunsDangle'
    BY <1>1 DEF OnlyNestedRunsDangle
  <1>6. /\ Tidy' /\ UnloadedHasNoHooks' /\ TimeoutsAreHooked'
        /\ \A f : Fine(f) /\ (~nested' => ~nested /\ (f.next = 0 \/ list' = list)) => Fine(f)'
    BY <1>1, <1>4, <1>5, Purging
  <1>7. ASSUME NEW f \in In(stack') PROVE Fine(f)'
    <2>1. PICK i \in DOMAIN Front(stack) : f = Front(stack)[i]
      BY <1>1 DEF In
    <2>2. Fine(f)
      BY <1>1, <1>3 DEF Inv
    <2>3. f.next # 0 => f.kind = "run"
      BY <2>2 DEF Fine, Sound, Known
    <2>4. ~nested' => ~nested /\ (f.next = 0 \/ list' = list)
      BY <1>1, <2>1, <2>3 DEF FreedInside
    <2> QED BY <1>6, <2>2, <2>4
  <1>8. Stands(Front(stack), loaded)
    BY <1>1, <1>2, StandsPopped
  <1>9. (fault = "none" => Stands(stack, loaded))'
    BY <1>1, <1>8 DEF Stands
  <1> QED BY <1>4, <1>5, <1>6, <1>7, <1>9 DEF Inv, In

LEMMA StepRunDangles == ASSUME Inv, RunDangles PROVE Inv'
  <1>1. /\ fault = "none" /\ stack # <<>> /\ Top.next # 0 /\ ~Allocated(Top.next) /\ fault' = "dangling"
        /\ UNCHANGED <<list, blocks, loaded, sources, stack, nested, recycled>>
    BY DEF RunDangles, InRun
  <1>2. Typed
    BY DEF Inv
  <1>3. Top \in In(stack)
    BY <1>1, <1>2, Popped
  <1>4. nested
    BY <1>1, <1>3 DEF Inv, Fine, Kept
  <1>5. Typed'
    BY <1>1, <1>2 DEF Typed
  <1>6. /\ Tidy' /\ \A f : Fine(f) => Fine(f)'
        /\ UnloadedHasNoHooks' /\ TimeoutsAreHooked'
    BY <1>1, <1>5, SameHooks
  <1>7. \A f \in In(stack') : Fine(f)'
    BY <1>1, <1>6 DEF Inv
  <1>8. fault' # "none"
    BY <1>1
  <1>9. OnlyNestedRunsDangle'
    BY <1>1, <1>4 DEF OnlyNestedRunsDangle
  <1> QED BY <1>5, <1>6, <1>7, <1>8, <1>9 DEF Inv, In

LEMMA StepFire == ASSUME Inv, NEW s \in sources, Fire(s) PROVE Inv'
  <1>1. /\ fault = "none" /\ stack = <<>>
        /\ UNCHANGED <<list, blocks, loaded, sources, nested, recycled>>
    BY DEF Fire
  <1>2. Typed /\ Tidy /\ loaded \subseteq Plugins /\ Stands(stack, loaded) /\ UnloadedHasNoHooks
    BY <1>1 DEF Inv, Typed
  <1>3. CASE Live(s.tag)
    <2> DEFINE h == s.tag
               f == [Call("timer", blocks[h].pl) EXCEPT !.hook = h]
    <2>1. stack' = <<f>> /\ fault' = fault
      BY <1>3 DEF Fire
    <2>2. h \in DOMAIN blocks /\ h \in Ids /\ blocks[h].pl \in Plugins
      <3>1. h \in DOMAIN blocks
        BY <1>2, <1>3, Lists DEF Live, Allocated
      <3> QED BY <1>2, <3>1, Lists DEF HookRec
    <2> HIDE DEF h
    <2>3. /\ f \in Frame /\ f.kind = "timer" /\ f.pl = blocks[h].pl /\ f.hook = h /\ f.next = 0
          /\ f.called = <<>> /\ f.due = {}
      <3> DEFINE c == Call("timer", blocks[h].pl)
      <3>1. /\ c \in Frame /\ c.kind = "timer" /\ c.pl = blocks[h].pl /\ c.next = 0
            /\ c.called = <<>> /\ c.due = {}
        BY <2>2, CallIs
      <3> HIDE DEF c
      <3>2. f = [c EXCEPT !.hook = h]
        BY DEF c
      <3> HIDE DEF f
      <3> QED BY <2>2, <3>1, <3>2 DEF Frame
    <2> HIDE DEF f
    <2>4. Fine(f)
      <3>1. DOMAIN f.called = {}
        BY <2>3
      <3>2. IsInjective(f.called)
        BY <3>1 DEF IsInjective
      <3>3. Known(f) /\ Passed(f) /\ Served(f) /\ Fallen(f) /\ Falling(f)
        BY <2>2, <2>3, <3>1, <3>2 DEF Known, Passed, Served, Fallen, Falling
      <3>4. OwnAddress(f)
        <4> SUFFICES ASSUME NEW x, Live(x), blocks[x].addr = blocks[h].addr PROVE x = h
          BY <2>3 DEF OwnAddress
        <4>1. PICK i, j \in DOMAIN list : list[i] = x /\ list[j] = h
          BY <1>3 DEF Live, Allocated, h
        <4>2. i = j
          BY <1>2, <4>1 DEF Tidy, Placed
        <4> QED BY <4>1, <4>2
      <3> QED BY <2>3, <3>3, <3>4 DEF Fine, Sound, Kept
    <2>5. stack' \in Seq(Frame) /\ In(stack') = {f} /\ DOMAIN stack' = {1} /\ stack'[1] = f
      <3>1. stack' \in Seq(Frame) /\ DOMAIN stack' = 1..1 /\ stack'[1] = f
        BY <2>1, <2>3
      <3>2. 1..1 = {1}
        OBVIOUS
      <3> QED BY <3>1, <3>2 DEF In
    <2>6. f.pl \in loaded
      BY <1>2, <1>3, <2>2, <2>3 DEF UnloadedHasNoHooks, h
    <2>7. Stands(stack', loaded')
      BY <1>1, <2>5, <2>6 DEF Stands
    <2>8. \A x \in In(stack') : Fine(x)
      BY <2>4, <2>5
    <2> QED BY <1>1, <1>2, <2>1, <2>5, <2>7, <2>8, StackStep
  <1>4. CASE ~Live(s.tag)
    <2>1. stack' = stack /\ fault' = "stray"
      BY <1>4 DEF Fire
    <2>2. recycled
      <3>1. s.tag \in {x.tag : x \in sources}
        OBVIOUS
      <3> QED BY <1>4, <3>1 DEF Inv, TimeoutsAreHooked
    <2>3. Typed'
      BY <1>1, <1>2, <2>1 DEF Typed
    <2>4. Tidy' /\ (\A f : Fine(f) => Fine(f)') /\ UnloadedHasNoHooks'
      BY <1>1, <2>3, SameHooks
    <2>5. \A f \in In(stack') : Fine(f)'
      BY <2>1, <2>4 DEF Inv
    <2>6. TimeoutsAreHooked' /\ OnlyNestedRunsDangle' /\ fault' # "none"
      BY <1>1, <2>1, <2>2 DEF TimeoutsAreHooked, OnlyNestedRunsDangle
    <2> QED BY <2>3, <2>4, <2>5, <2>6 DEF Inv, In
  <1> QED BY <1>3, <1>4

LEMMA StepTimerEnds == ASSUME Inv, NEW again \in BOOLEAN, TimerEnds(again) PROVE Inv'
  <1> DEFINE hs   == HookAt(blocks[Top.hook].addr)
             gone == {Top.hook}
             none == {}
  <1>1. /\ fault = "none" /\ stack # <<>> /\ Top.kind = "timer" /\ stack' = Front(stack)
        /\ blocks' = (IF again THEN blocks ELSE Marked(hs)) /\ list' = list
        /\ sources' = IF again /\ hs # {} THEN sources ELSE Disarmed(gone)
        /\ UNCHANGED <<loaded, fault, nested, recycled>>
    BY DEF TimerEnds, Expunge
  <1>2. Typed /\ Stands(stack, loaded) /\ UnloadedHasNoHooks
    BY <1>1 DEF Inv
  <1>3. /\ Top \in In(stack) /\ Front(stack) \in Seq(Frame) /\ In(Front(stack)) \subseteq In(stack)
        /\ stack' \in Seq(Frame)
    BY <1>1, <1>2, Popped
  <1>4. Top.hook \in DOMAIN blocks
    BY <1>1, <1>3 DEF Inv, Fine, Sound, Known
  <1>5. ASSUME ~recycled, NEW h \in DOMAIN blocks, Live(h) PROVE h \in hs <=> h = Top.hook
    <2>1. OwnAddress(Top)
      BY <1>1, <1>3, <1>5 DEF Inv, Fine
    <2> QED BY <1>5, <2>1 DEF HookAt, OwnAddress
  <1>6. Marked({}) = blocks
    <2>1. \A h \in DOMAIN blocks : h \notin {}
      OBVIOUS
    <2>2. Marked({}) = [h \in DOMAIN blocks |-> blocks[h]]
      BY <2>1 DEF Marked
    <2> QED BY <1>2, <2>2 DEF Typed
  <1>7. Disarmed({}) = sources
    BY DEF Disarmed
  <1>8. PICK m, g : /\ blocks' = Marked(m) /\ sources' = Disarmed(g)
                    /\ ~recycled => \A h \in DOMAIN blocks : Live(h) => (h \in m <=> h \in g)
    <2>1. CASE again /\ hs # {}
      <3>1. blocks' = Marked({}) /\ sources' = Disarmed({})
        BY <1>1, <1>6, <1>7, <2>1
      <3> QED BY <3>1
    <2>2. CASE again /\ hs = {}
      <3>1. blocks' = Marked({}) /\ sources' = Disarmed(gone)
        BY <1>1, <1>6, <2>2
      <3>2. ~recycled => \A h \in DOMAIN blocks : Live(h) => (h \in {} <=> h \in gone)
        BY <1>5, <2>2
      <3> QED BY <3>1, <3>2
    <2>3. CASE ~again
      <3>1. blocks' = Marked(hs) /\ sources' = Disarmed(gone)
        BY <1>1, <2>3
      <3>2. ~recycled => \A h \in DOMAIN blocks : Live(h) => (h \in hs <=> h \in gone)
        BY <1>5
      <3> HIDE DEF hs, gone
      <3> QED BY <3>1, <3>2
    <2> QED BY <2>1, <2>2, <2>3
  <1> HIDE DEF hs, gone
  <1>9. Typed'
    <2>1. blocks' \in Seq(HookRec) /\ Len(blocks') = Len(blocks) /\ DOMAIN blocks' = DOMAIN blocks
      BY <1>1, <1>2, <1>8, MarkedIs
    <2>2. sources' \subseteq sources
      BY <1>8 DEF Disarmed
    <2> QED BY <1>1, <1>2, <1>3, <2>1, <2>2 DEF Typed
  <1>10. /\ Tidy' /\ \A f : Fine(f) => Fine(f)'
         /\ \A x \in DOMAIN blocks : (Live(x)' <=> Live(x) /\ x \notin m) /\ blocks'[x].pl = blocks[x].pl
         /\ DOMAIN blocks' = DOMAIN blocks
         /\ TimeoutsAreHooked'
    BY <1>1, <1>8, <1>9, Marking
  <1>11. UnloadedHasNoHooks'
    BY <1>1, <1>2, <1>10 DEF UnloadedHasNoHooks
  <1>12. \A f \in In(stack') : Fine(f)'
    BY <1>1, <1>3, <1>10 DEF Inv
  <1>13. Stands(Front(stack), loaded)
    BY <1>1, <1>2, StandsPopped
  <1>14. (fault = "none" => Stands(stack, loaded))'
    BY <1>1, <1>13 DEF Stands
  <1>15. OnlyNestedRunsDangle'
    BY <1>1 DEF OnlyNestedRunsDangle
  <1> QED BY <1>9, <1>10, <1>11, <1>12, <1>14, <1>15 DEF Inv, In

LEMMA StepLoad == ASSUME Inv, NEW p \in Plugins, Load(p) PROVE Inv'
  <1> DEFINE f == Call("init", p)
  <1>1. /\ fault = "none" /\ p \notin loaded /\ loaded' = loaded \cup {p} /\ stack' = Append(stack, f)
        /\ UNCHANGED <<list, blocks, sources, fault, nested, recycled>>
    BY DEF Load, Deeper
  <1>2. Typed /\ stack \in Seq(Frame) /\ loaded \subseteq Plugins /\ Stands(stack, loaded)
    BY <1>1 DEF Inv, Typed
  <1>3. f \in Frame /\ f.kind = "init" /\ f.pl = p /\ f.next = 0 /\ f.called = <<>> /\ f.due = {}
    BY CallIs
  <1> HIDE DEF f
  <1>4. Fine(f)
    BY <1>3, CallIsFine
  <1>5. stack' \in Seq(Frame) /\ In(stack') = In(stack) \cup {f}
    BY <1>1, <1>2, <1>3, Pushed
  <1>6. Stands(stack, loaded') /\ \A i \in DOMAIN stack : stack[i].pl # p
    BY <1>1, <1>2 DEF Stands
  <1>7. Stands(stack', loaded')
    BY <1>1, <1>2, <1>3, <1>6, StandsPushed
  <1>8. \A x \in In(stack') : Fine(x)
    BY <1>4, <1>5 DEF Inv
  <1> QED BY <1>1, <1>2, <1>5, <1>7, <1>8, StackStep

LEMMA StepUnload ==
    ASSUME Inv, NEW p \in Plugins, NEW why \in {"unload", "reload", "shutdown"}, Unload(p, why)
    PROVE  Inv'
  <1> DEFINE f == Call(why, p)
  <1>1. /\ fault = "none" /\ p \in loaded /\ stack' = Append(stack, f)
        /\ UNCHANGED <<list, blocks, loaded, sources, fault, nested, recycled>>
    BY DEF Unload, Deeper
  <1>2. Typed /\ stack \in Seq(Frame) /\ loaded \subseteq Plugins /\ Stands(stack, loaded)
    BY <1>1 DEF Inv, Typed
  <1>3. f \in Frame /\ f.kind = why /\ f.pl = p /\ f.next = 0 /\ f.called = <<>> /\ f.due = {}
    BY CallIs
  <1> HIDE DEF f
  <1>4. Fine(f)
    BY <1>3, CallIsFine
  <1>5. stack' \in Seq(Frame) /\ In(stack') = In(stack) \cup {f}
    BY <1>1, <1>2, <1>3, Pushed
  <1>6. Stands(stack', loaded)
    BY <1>1, <1>2, <1>3, StandsPushed
  <1>7. \A x \in In(stack') : Fine(x)
    BY <1>4, <1>5 DEF Inv
  <1> QED BY <1>1, <1>2, <1>5, <1>6, <1>7, StackStep

\* the hooks of a plugin go with it
LEMMA Freeing ==
    ASSUME Inv, NEW p, Freed(p), nested' = nested, recycled' = recycled, fault' # "stray", fault' # "dangling",
           loaded' \in {loaded, loaded \ {p}}, stack' \in Seq(Frame), fault' \in {"none", "unloaded"},
           \A f \in In(stack') : Fine(f), fault' = "none" => Stands(stack', loaded')
    PROVE  Inv'
  <1> DEFINE hs == HooksOf(p)
  <1>1. blocks' = Marked(hs) /\ list' = list /\ sources' = Disarmed(hs)
    BY DEF Freed, Expunge
  <1>2. Typed
    BY DEF Inv
  <1> HIDE DEF hs
  <1>3. Typed'
    <2>1. blocks' \in Seq(HookRec) /\ Len(blocks') = Len(blocks) /\ DOMAIN blocks' = DOMAIN blocks
      BY <1>1, <1>2, MarkedIs
    <2>2. sources' \subseteq sources /\ loaded' \subseteq loaded
      BY <1>1 DEF Disarmed
    <2> QED BY <1>1, <1>2, <2>1, <2>2 DEF Typed
  <1>4. /\ Tidy' /\ \A f : Fine(f) => Fine(f)'
        /\ \A x \in DOMAIN blocks : (Live(x)' <=> Live(x) /\ x \notin hs) /\ blocks'[x].pl = blocks[x].pl
        /\ DOMAIN blocks' = DOMAIN blocks
        /\ TimeoutsAreHooked'
    BY <1>1, <1>3, Marking
  <1>5. UnloadedHasNoHooks'
    <2> SUFFICES ASSUME NEW x \in DOMAIN blocks, Live(x)' PROVE blocks'[x].pl \in loaded'
      BY <1>4 DEF UnloadedHasNoHooks
    <2>1. Live(x) /\ x \notin hs
      BY <1>4
    <2>2. blocks[x].pl # p
      BY <2>1 DEF HooksOf, hs
    <2>3. blocks[x].pl \in loaded
      BY <2>1 DEF UnloadedHasNoHooks, Inv
    <2> QED BY <1>4, <2>2, <2>3
  <1>6. \A f \in In(stack') : Fine(f)'
    BY <1>4
  <1>7. OnlyNestedRunsDangle'
    BY DEF OnlyNestedRunsDangle
  <1> QED BY <1>3, <1>4, <1>5, <1>6, <1>7 DEF Inv, In, Stands

LEMMA StepInitEnds == ASSUME Inv, NEW ok \in BOOLEAN, InitEnds(ok) PROVE Inv'
  <1>1. /\ fault = "none" /\ stack # <<>> /\ Top.kind = "init" /\ stack' = Front(stack)
        /\ UNCHANGED <<fault, nested, recycled>>
    BY DEF InitEnds
  <1>2. CASE ok
    <2>1. UNCHANGED <<list, blocks, sources, loaded>>
      BY <1>2 DEF InitEnds
    <2> QED BY <1>1, <2>1, Returning
  <1>3. CASE ~ok
    <2>1. Freed(Top.pl) /\ loaded' = loaded \ {Top.pl}
      BY <1>3 DEF InitEnds
    <2>2. Typed /\ Stands(stack, loaded)
      BY <1>1 DEF Inv
    <2> DEFINE s == Front(stack)
               n == Len(stack)
    <2>3. /\ n \in Nat /\ n >= 1 /\ n \in DOMAIN stack /\ DOMAIN stack = 1..n /\ Top = stack[n]
          /\ s \in Seq(Frame) /\ DOMAIN s = 1..(n - 1) /\ \A i \in 1..(n - 1) : s[i] = stack[i]
          /\ In(s) \subseteq In(stack)
      BY <1>1, <2>2, Popped
    <2> HIDE DEF s, n
    <2>4. \A i \in DOMAIN s : s[i].pl \in loaded \ {Top.pl}
      <3> SUFFICES ASSUME NEW i \in 1..(n - 1) PROVE stack[i].pl \in loaded /\ stack[i].pl # stack[n].pl
        BY <2>3
      <3>1. i \in 1..n /\ i < n
        BY <2>3
      <3> QED BY <1>1, <2>2, <2>3, <3>1 DEF Stands
    <2>5. Stands(s, loaded)
      BY <1>1, <2>2, StandsPopped DEF s
    <2>6. Stands(stack', loaded') /\ stack' = s
      BY <1>1, <2>1, <2>4, <2>5 DEF Stands, s
    <2>7. \A f \in In(stack') : Fine(f)
      BY <2>3, <2>6 DEF Inv
    <2> QED BY <1>1, <2>1, <2>3, <2>6, <2>7, Freeing
  <1> QED BY <1>2, <1>3

LEMMA StepDeinitRefuses == ASSUME Inv, DeinitRefuses PROVE Inv'
  BY Returning DEF DeinitRefuses

LEMMA StepDeinitEnds == ASSUME Inv, DeinitEnds PROVE Inv'
  <1> DEFINE s == Front(stack)
             p == Top.pl
             f == Call("init", p)
  <1>1. /\ fault = "none" /\ stack # <<>> /\ Freed(p) /\ nested' = nested /\ recycled' = recycled
        /\ fault' = IF \E i \in DOMAIN s : s[i].pl = p THEN "unloaded" ELSE "none"
        /\ \/ stack' = Append(s, f) /\ loaded' = loaded
           \/ stack' = s /\ loaded' = loaded \ {p}
    BY DEF DeinitEnds
  <1>2. Typed /\ Stands(stack, loaded)
    BY <1>1 DEF Inv
  <1>3. /\ s \in Seq(Frame) /\ In(s) \subseteq In(stack) /\ Top \in Frame
        /\ Len(stack) \in DOMAIN stack /\ Top = stack[Len(stack)]
    BY <1>1, <1>2, Popped
  <1>4. p \in Plugins /\ p \in loaded
    BY <1>2, <1>3, Frames DEF Stands
  <1>5. Stands(s, loaded)
    BY <1>1, <1>2, StandsPopped
  <1> HIDE DEF s, p
  <1>6. f \in Frame /\ f.kind = "init" /\ f.pl = p /\ f.next = 0 /\ f.called = <<>> /\ f.due = {}
    BY <1>4, CallIs
  <1> HIDE DEF f
  <1>7. Fine(f)
    BY <1>6, CallIsFine
  <1>8. Append(s, f) \in Seq(Frame) /\ In(Append(s, f)) = In(s) \cup {f}
    BY <1>3, <1>6, Pushed
  <1>9. \A x \in In(stack') : Fine(x)
    BY <1>1, <1>3, <1>7, <1>8 DEF Inv
  <1>10. ASSUME fault' = "none" PROVE Stands(stack', loaded')
    <2>1. \A i \in DOMAIN s : s[i].pl # p
      BY <1>1, <1>10
    <2>2. CASE stack' = Append(s, f) /\ loaded' = loaded
      BY <1>3, <1>4, <1>5, <1>6, <2>1, <2>2, StandsPushed
    <2>3. CASE stack' = s /\ loaded' = loaded \ {p}
      BY <1>5, <2>1, <2>3 DEF Stands
    <2> QED BY <1>1, <2>2, <2>3
  <1>11. stack' \in Seq(Frame) /\ loaded' \in {loaded, loaded \ {p}}
    BY <1>1, <1>3, <1>8
  <1> QED BY <1>1, <1>9, <1>10, <1>11, Freeing

-----------------------------------------------------------------------------
LEMMA StepInv == Inv /\ [Next]_vars => Inv'
  <1> SUFFICES ASSUME Inv, [Next]_vars PROVE Inv'
    OBVIOUS
  <1>1. ASSUME NEW k \in Kinds, NEW a \in Addresses, Hook(k, a) PROVE Inv'
    BY <1>1, StepHook
  <1>2. ASSUME NEW h \in DOMAIN blocks, Unhook(h) PROVE Inv'
    BY <1>2, StepUnhook
  <1>3. ASSUME NEW e \in Events, RunHooks(e) PROVE Inv'
    BY <1>3, StepRunHooks
  <1>4. CASE RunGoesOn
    BY <1>4, StepRunGoesOn
  <1>5. CASE RunDangles
    BY <1>5, StepRunDangles
  <1>6. ASSUME NEW b \in BOOLEAN, RunEnds(b) PROVE Inv'
    BY <1>6, StepRunEnds
  <1>7. ASSUME NEW b \in BOOLEAN, TimerEnds(b) PROVE Inv'
    BY <1>7, StepTimerEnds
  <1>8. ASSUME NEW b \in BOOLEAN, InitEnds(b) PROVE Inv'
    BY <1>8, StepInitEnds
  <1>9. ASSUME NEW s \in sources, Fire(s) PROVE Inv'
    BY <1>9, StepFire
  <1>10. ASSUME NEW p \in Plugins, Load(p) PROVE Inv'
    BY <1>10, StepLoad
  <1>11. ASSUME NEW p \in Plugins, NEW why \in {"unload", "reload", "shutdown"}, Unload(p, why) PROVE Inv'
    BY <1>11, StepUnload
  <1>12. CASE DeinitRefuses
    BY <1>12, StepDeinitRefuses
  <1>13. CASE DeinitEnds
    BY <1>13, StepDeinitEnds
  <1>14. CASE UNCHANGED vars
    <2>1. /\ list' = list /\ blocks' = blocks /\ loaded' = loaded /\ sources' = sources /\ stack' = stack
          /\ fault' = fault /\ nested' = nested /\ recycled' = recycled
      BY <1>14 DEF vars
    <2>2. Typed'
      BY <2>1 DEF Inv, Typed
    <2>3. Tidy' /\ (\A f : Fine(f) => Fine(f)') /\ UnloadedHasNoHooks'
      BY <2>1, <2>2, SameHooks
    <2>4. \A h \in DOMAIN blocks : Live(h)' <=> Live(h)
      BY <2>1 DEF Live, Allocated, Deleted
    <2>5. TimeoutsAreHooked'
      BY <2>1, <2>4 DEF TimeoutsAreHooked, Inv
    <2>6. \A f \in In(stack') : Fine(f)'
      BY <2>1, <2>3 DEF Inv
    <2> QED BY <2>1, <2>2, <2>3, <2>5, <2>6 DEF Inv, In, Stands, OnlyNestedRunsDangle
  <1> QED BY <1>1, <1>2, <1>3, <1>4, <1>5, <1>6, <1>7, <1>8, <1>9, <1>10, <1>11, <1>12, <1>13, <1>14 DEF Next

(* Inv holds in every state: whatever plugin_hook_run, hexchat_unhook and  *)
(* plugin_free do to hook_list inside one another, every run in progress   *)
(* finds what it relies on.                                                *)
THEOREM Invariant == Spec => []Inv
  BY InitInv, StepInv, PTL DEF Spec

(* Whatever callbacks do, the list, the blocks and the calls in progress   *)
(* are what the types say, and no hook is in the list twice.               *)
THEOREM WellTyped == Spec => []TypeOK
  <1>1. Inv => TypeOK
    BY TypedIs DEF Inv
  <1> QED BY <1>1, Invariant, PTL

(* A run calls no hook twice, and by falling priorities (RunsInOrder).     *)
THEOREM OrderIsKept == Spec => []RunsInOrder
  <1>1. Inv => RunsInOrder
    <2> SUFFICES ASSUME Inv, NEW i \in DOMAIN stack
                 PROVE  LET run == stack[i]  found == {n \in DOMAIN run.called : run.called[n] \in run.due}
                        IN  /\ IsInjective(run.called)
                            /\ "SERVER" \notin run.mask =>
                                 \A m, n \in found : m < n =>
                                    blocks[run.called[m]].pri >= blocks[run.called[n]].pri
      BY DEF RunsInOrder
    <2>1. Sound(stack[i])
      BY DEF Inv, Fine, In
    <2> DEFINE run == stack[i]
    <2> HIDE DEF run
    <2>2. Sound(run)
      BY <2>1 DEF run
    <2>3. IsInjective(run.called) /\ ("SERVER" \notin run.mask => Fallen(run))
      BY <2>2 DEF Sound, Passed
    <2>4. \A m, n \in {n \in DOMAIN run.called : run.called[n] \in run.due} :
             "SERVER" \notin run.mask /\ m < n => blocks[run.called[m]].pri >= blocks[run.called[n]].pri
      BY <2>3 DEF Fallen
    <2> QED BY <2>3, <2>4 DEF run
  <1> QED BY <1>1, Invariant, PTL

(* Nothing of a plugin that is gone is called again, no timer that was     *)
(* taken back fires, and only runs inside runs make a run go on with a     *)
(* hook that was freed (RemovedIsNotCalled).                               *)
THEOREM RemovedStaysSilent == Spec => []RemovedIsNotCalled
  <1>1. Inv => RemovedIsNotCalled
    BY DEF Inv, RemovedIsNotCalled
  <1> QED BY <1>1, Invariant, PTL

(* A run that nobody cuts short leaves out no hook that was there from its *)
(* beginning to its end (EveryHookServed).                                 *)
THEOREM EveryoneServed == Spec => EveryHookServed
  <1>1. ASSUME Inv, InRun, NoneLeft, NEW h \in Top.due, Live(h) PROVE \E i \in DOMAIN Top.called : Top.called[i] = h
    <2> DEFINE t == Top
    <2>1. Typed /\ stack # <<>> /\ t \in In(stack)
      <3>1. Typed /\ stack # <<>>
        BY <1>1 DEF Inv, InRun
      <3> QED BY <3>1, Popped
    <2>2. Served(t) /\ h \in t.due /\ (t.next # 0 => Allocated(t.next)) /\ NextHook = 0
      BY <1>1, <2>1 DEF Inv, Fine, Sound, NoneLeft
    <2>3. t.next # 0 /\ Allocated(t.next) => Find(t.next, t) = 0
      BY <2>2 DEF NextHook
    <2> HIDE DEF t
    <2>4. SUFFICES ASSUME t.next # 0, \A i, j \in DOMAIN list : list[i] = h /\ list[j] = t.next => j <= i, Matches(h, t)
                   PROVE  FALSE
      BY <1>1, <2>2 DEF Served, t
    <2>5. PICK p \in DOMAIN list : list[p] = t.next
      BY <2>2, <2>4 DEF Allocated
    <2>6. PICK i \in DOMAIN list : list[i] = h
      BY <1>1 DEF Live, Allocated
    <2>7. p <= i /\ i \in p..Len(list) /\ \A q \in DOMAIN list : list[q] # 0
      <3>1. p <= i
        BY <2>4, <2>5, <2>6
      <3>2. p \in Nat /\ i \in Nat /\ i <= Len(list) /\ Len(list) \in Nat
        BY <2>1, Lists
      <3>3. \A q \in DOMAIN list : list[q] # 0
        BY <2>1, Lists
      <3> QED BY <3>1, <3>2, <3>3
    <2>8. Find(list[p], t) = 0
      BY <2>2, <2>3, <2>4, <2>5
    <2>9. \A q \in p..Len(list) : ~Matches(list[q], t)
      BY <2>1, <2>7, <2>8, FindIs
    <2> QED BY <2>4, <2>6, <2>7, <2>9
  <1>2. Inv => \A n \in {Len(stack)} :
           (n > 0 /\ Len(stack') < n /\ InRun /\ NoneLeft)
              => \A h \in Top.due : Live(h) => \E i \in DOMAIN Top.called : Top.called[i] = h
    BY <1>1
  <1> QED BY <1>2, Invariant, PTL DEF EveryHookServed
=============================================================================
