---------------------------- MODULE ServerProofs ----------------------------
(***************************************************************************)
(* Proofs about Server, for whatever is said, any limit, any number of     *)
(* connections and a clock set back by anything.                           *)
(*                                                                         *)
(* The first part is about the connection.  What it does next depends on   *)
(* three of its fields only: conn, tag and timers.  Sending does not touch *)
(* them, and as long as nothing was armed beside an attempt or a           *)
(* connection, all timeouts bear the tag.                                  *)
(*                                                                         *)
(* The second part is about the queue.  What tcp_send_queue takes from it  *)
(* is of each priority the front, and leaves in order (Moved): so Outbox's *)
(* steps are found.  What is owed and the time since the last message left *)
(* add up to what one message can add below the limit, whatever the clock  *)
(* does (Debts): so silence is bounded.  Timeouts no tag names are as many *)
(* as attempts have ended, at most (Tagged): so there is a tag for each.   *)
(***************************************************************************)
EXTENDS Server, FiniteSetTheorems, SequenceTheorems, WellFoundedInduction, TLAPS

-----------------------------------------------------------------------------
(* A set of natural numbers that is not empty has a least element.         *)
LEMMA Least ==
    ASSUME NEW S \in SUBSET Nat, S # {}
    PROVE  \E m \in S : \A k \in S : m <= k
  <1>1. IsWellFoundedOn(OpToRel(<, Nat), Nat)
    BY NatLessThanWellFounded
  <1>2. PICK m \in S : \A k \in S : ~(<<k, m>> \in OpToRel(<, Nat))
    BY <1>1, WFMin
  <1>3. \A k \in S : ~(k < m)
    BY <1>2 DEF OpToRel
  <1> QED BY <1>3

(* One that is bounded has a greatest.                                     *)
LEMMA Greatest ==
    ASSUME NEW n \in Nat, NEW S \in SUBSET (0..n), S # {}
    PROVE  \E m \in S : \A k \in S : m >= k
  <1> DEFINE T == {j \in 0..n : n - j \in S}
  <1>1. \A k \in S : n - k \in T
    OBVIOUS
  <1>2. T \in SUBSET Nat /\ T # {}
    <2>1. T \subseteq Nat
      OBVIOUS
    <2>2. PICK k \in S : TRUE
      OBVIOUS
    <2>3. n - k \in T
      BY <1>1
    <2> QED BY <2>1, <2>3
  <1>3. PICK m \in T : \A k \in T : m <= k
    BY <1>2, Least
  <1>4. \A k \in S : n - m >= k
    BY <1>1, <1>3
  <1> QED BY <1>3, <1>4

(* What follows from one number to the next, from 0 on, holds of all.      *)
LEMMA Inductive ==
    ASSUME NEW S, 0 \in S, \A n \in Nat : n \in S => n + 1 \in S
    PROVE  Nat \subseteq S
  <1> DEFINE T == {n \in Nat : n \notin S}
  <1>1. SUFFICES ASSUME T # {} PROVE FALSE
    OBVIOUS
  <1>2. PICK m \in T : \A k \in T : m <= k
    BY <1>1, Least
  <1>3. m # 0 /\ m \in Nat
    BY <1>2
  <1>4. m - 1 \in Nat /\ m - 1 \notin T
    BY <1>2, <1>3
  <1>5. m - 1 \in S /\ m = (m - 1) + 1
    BY <1>4
  <1>6. m \in S
    BY <1>4, <1>5
  <1> QED BY <1>2, <1>6

(* Parts of a sequence: the i-th of n positions is there, the order is     *)
(* theirs, and every position is the i-th for some i.                      *)

LEMMA NthIs ==
    ASSUME NEW n \in Nat, NEW I \in SUBSET (1..n)
    PROVE  /\ Cardinality(I) \in Nat
           /\ \A i \in 1..Cardinality(I) : Nth(I, i) \in I
           /\ \A i, j \in 1..Cardinality(I) : i < j => Nth(I, i) < Nth(I, j)
           /\ \A j \in I : \E i \in 1..Cardinality(I) : Nth(I, i) = j
  <1> DEFINE Below(j) == {k \in I : k <= j}
             rank == [j \in I |-> Cardinality(Below(j))]
             c == Cardinality(I)
  <1>1. IsFiniteSet(I) /\ c \in Nat /\ I \subseteq Nat
    <2>1. IsFiniteSet(1..n)
      BY FS_Interval
    <2>2. IsFiniteSet(I)
      BY <2>1, FS_Subset
    <2>3. Cardinality(I) \in Nat
      BY <2>2, FS_CardinalityType
    <2> QED BY <2>2, <2>3
  <1>2. \A j \in I : IsFiniteSet(Below(j)) /\ rank[j] \in 1..c
    <2> SUFFICES ASSUME NEW j \in I PROVE IsFiniteSet(Below(j)) /\ rank[j] \in 1..c
      OBVIOUS
    <2>1. Below(j) \in SUBSET I /\ j \in Below(j)
      BY <1>1
    <2>2. IsFiniteSet(Below(j)) /\ Cardinality(Below(j)) <= c /\ Cardinality(Below(j)) \in Nat
      BY <1>1, <2>1, FS_Subset, FS_CardinalityType
    <2>3. Cardinality(Below(j)) # 0
      BY <2>1, <2>2, FS_EmptySet
    <2> QED BY <1>1, <2>2, <2>3
  <1>3. \A j, k \in I : j < k => rank[j] < rank[k]
    <2> SUFFICES ASSUME NEW j \in I, NEW k \in I, j < k PROVE rank[j] < rank[k]
      OBVIOUS
    <2>1. Below(j) \in SUBSET Below(k) /\ k \in Below(k) /\ k \notin Below(j)
      <3>1. \A i \in I : i <= j => i <= k
        BY <1>1
      <3>2. k <= k /\ ~(k <= j)
        BY <1>1
      <3> QED BY <3>1, <3>2
    <2>2. Cardinality(Below(j)) <= Cardinality(Below(k)) /\ Cardinality(Below(j)) # Cardinality(Below(k))
      BY <1>2, <2>1, FS_Subset
    <2> QED BY <1>1, <1>2, <2>2
  <1>4. rank \in Injection(I, 1..c)
    <2>1. rank \in [I -> 1..c]
      BY <1>2
    <2>2. ASSUME NEW j \in I, NEW k \in I, rank[j] = rank[k] PROVE j = k
      <3>1. rank[j] \in Nat /\ rank[k] \in Nat /\ j \in Nat /\ k \in Nat
        BY <1>1, <1>2
      <3>2. ~(j < k) /\ ~(k < j)
        BY <1>3, <2>2, <3>1
      <3> QED BY <3>1, <3>2
    <2> QED BY <2>1, <2>2 DEF Injection, IsInjective
  <1>5. IsFiniteSet(1..c) /\ Cardinality(1..c) = c
    BY <1>1, FS_Interval
  <1>6. rank \in Surjection(I, 1..c)
    BY <1>1, <1>4, <1>5, FS_Injection
  <1>7. \A i \in 1..c : Nth(I, i) \in I /\ rank[Nth(I, i)] = i
    <2> TAKE i \in 1..c
    <2>1. \E j \in I : rank[j] = i
      BY <1>6 DEF Surjection
    <2>2. \E j \in I : Cardinality({k \in I : k <= j}) = i
      BY <2>1
    <2> QED BY <2>2 DEF Nth
  <1>8. \A j \in I : Nth(I, rank[j]) = j
    <2> TAKE j \in I
    <2>1. rank[j] \in 1..c
      BY <1>2
    <2>2. Nth(I, rank[j]) \in I /\ rank[Nth(I, rank[j])] = rank[j]
      BY <1>7, <2>1
    <2> QED BY <1>4, <2>2 DEF Injection, IsInjective
  <1>9. \A i, j \in 1..c : i < j => Nth(I, i) < Nth(I, j)
    <2> SUFFICES ASSUME NEW i \in 1..c, NEW j \in 1..c, i < j PROVE Nth(I, i) < Nth(I, j)
      OBVIOUS
    <2> DEFINE x == Nth(I, i)
               y == Nth(I, j)
    <2>1. x \in I /\ y \in I /\ rank[x] = i /\ rank[y] = j
      BY <1>7
    <2> HIDE DEF x, y, rank
    <2>2. ~(x = y) /\ ~(y < x)
      BY <1>1, <1>3, <2>1
    <2>3. x < y
      BY <1>1, <2>1, <2>2
    <2> QED BY <2>3 DEF x, y
  <1> QED BY <1>1, <1>2, <1>7, <1>8, <1>9

LEMMA PickedIs ==
    ASSUME NEW S, NEW s \in Seq(S), NEW I \in SUBSET (DOMAIN s)
    PROVE  /\ Picked(s, I) \in Seq(S) /\ DOMAIN Picked(s, I) = 1..Cardinality(I)
           /\ Len(Picked(s, I)) = Cardinality(I) /\ Cardinality(I) \in Nat
           /\ \A i \in 1..Cardinality(I) : Nth(I, i) \in I /\ Picked(s, I)[i] = s[Nth(I, i)]
           /\ \A i, j \in 1..Cardinality(I) : i < j => Nth(I, i) < Nth(I, j)
           /\ \A j \in I : \E i \in 1..Cardinality(I) : Nth(I, i) = j
  <1>1. DOMAIN s = 1..Len(s) /\ Len(s) \in Nat /\ \A j \in 1..Len(s) : s[j] \in S
    OBVIOUS
  <1>2. /\ Cardinality(I) \in Nat
        /\ \A i \in 1..Cardinality(I) : Nth(I, i) \in I
        /\ \A i, j \in 1..Cardinality(I) : i < j => Nth(I, i) < Nth(I, j)
        /\ \A j \in I : \E i \in 1..Cardinality(I) : Nth(I, i) = j
    BY <1>1, NthIs
  <1> DEFINE c == Cardinality(I)
             p == [i \in 1..c |-> s[Nth(I, i)]]
  <1>3. p \in Seq(S) /\ DOMAIN p = 1..c /\ Len(p) = c
    <2>1. \A i \in 1..c : s[Nth(I, i)] \in S
      BY <1>1, <1>2
    <2>2. c \in Nat
      BY <1>2
    <2> HIDE DEF c
    <2> QED BY <2>1, <2>2
  <1>4. Picked(s, I) = p
    BY DEF Picked
  <1> QED BY <1>2, <1>3, <1>4


Fields == {"conn", "motd", "tag", "timers", "handlers", "said", "born", "out"}

IsServer(s) == DOMAIN s = Fields /\ s = [f \in Fields |-> s[f]]

Keeps(s, t) == IsServer(t) /\ t.conn = s.conn /\ t.tag = s.tag /\ t.timers = s.timers

(* There is one timeout at most, it bears the tag, and there is none       *)
(* beside a connection.                                                    *)
Named(s) ==
    /\ s.timers \subseteq Timeouts /\ s.tag \in Ids \cup {0}
    /\ \A t \in s.timers : t.id = s.tag
    /\ \A t, u \in s.timers : t = u
Apart(s) == Named(s) /\ (Active(s) => s.tag = 0)

Inv ==
    /\ IsServer(serv) /\ serv.conn \in {"off", "connecting", "connected", "freed"}
    /\ wanted \in BOOLEAN /\ crossed \in BOOLEAN /\ inside \in BOOLEAN /\ fault \in BOOLEAN
    /\ ~crossed => Apart(serv)
    /\ ~(wanted \/ crossed \/ inside) => ~Active(serv) /\ serv.timers = {} /\ reading = 0
    /\ wanted /\ ~fault => Active(serv) \/ serv.timers # {}
    /\ fault => inside \/ crossed
    /\ serv.conn = "freed" => ~wanted

-----------------------------------------------------------------------------
(* What the functions do to the three fields.                              *)

LEMMA Said ==
    ASSUME NEW s, NEW out, NEW said, IsServer(s)
    PROVE  Keeps(s, [s EXCEPT !.out = out, !.said = said])
  BY DEF IsServer, Fields, Keeps

LEMMA SendQueueKeeps ==
    ASSUME NEW s, IsServer(s)
    PROVE  Keeps(s, tcp_send_queue(s))
  BY DEF IsServer, Fields, Keeps, tcp_send_queue

LEMMA FlushKeeps ==
    ASSUME NEW s, IsServer(s)
    PROVE  Keeps(s, server_flush_queue(s))
  BY DEF IsServer, Fields, Keeps, server_flush_queue

LEMMA SendKeeps ==
    ASSUME NEW s, NEW k, IsServer(s)
    PROVE  Keeps(s, tcp_send_len(s, k))
  <1> DEFINE m == [n |-> s.said + 1, pri |-> k.pri, cost |-> k.cost, of |-> s.born]
             q == [s EXCEPT !.out.queue = Append(@, m), !.said = @ + 1]
             r == tcp_send_queue(q)
  <1>1. Keeps(s, q)
    <2> HIDE DEF m
    <2> QED BY Said
  <1>2. Keeps(q, r)
    BY <1>1, SendQueueKeeps DEF Keeps
  <1>3. tcp_send_len(s, k) = [r EXCEPT !.handlers = IF Armed(s, r) THEN @ + 1 ELSE @]
    BY DEF tcp_send_len
  <1> HIDE DEF r, q
  <1> QED BY <1>1, <1>2, <1>3 DEF IsServer, Fields, Keeps

LEMMA DisarmedIs ==
    ASSUME NEW s, IsServer(s)
    PROVE  LET d == Disarmed(s)
           IN  /\ IsServer(d) /\ d.conn = s.conn /\ d.tag = 0
               /\ d.timers = {t \in s.timers : t.id # s.tag}
               /\ Named(s) => d.timers = {}
  <1> DEFINE left == {t \in s.timers : t.id # s.tag}
  <1>1. Disarmed(s) = [s EXCEPT !.timers = left, !.tag = 0]
    BY DEF Disarmed
  <1>2. Named(s) => left = {}
    BY DEF Named
  <1> HIDE DEF left
  <1>3. /\ IsServer(Disarmed(s)) /\ Disarmed(s).conn = s.conn
        /\ Disarmed(s).timers = left /\ Disarmed(s).tag = 0
    BY <1>1 DEF IsServer, Fields
  <1> QED BY <1>2, <1>3 DEF left

LEMMA ArmIs ==
    ASSUME NEW s, NEW kind \in {"reconnect", "cycle"}, IsServer(s)
    PROVE  LET a == Arm(s, kind)
           IN  /\ IsServer(a) /\ a.conn = s.conn /\ a.timers # {}
               /\ s.timers = {} /\ s.tag = 0 => Named(a) /\ a.tag # 0
  <1>1. /\ IsServer(Arm(s, kind)) /\ Arm(s, kind).conn = s.conn
        /\ Arm(s, kind).timers = s.timers \cup {[id |-> FreeId(s), kind |-> kind]}
        /\ Arm(s, kind).tag = FreeId(s)
    <2> DEFINE more == s.timers \cup {[id |-> FreeId(s), kind |-> kind]}
    <2>1. Arm(s, kind) = [s EXCEPT !.timers = more, !.tag = FreeId(s)]
      BY DEF Arm
    <2> HIDE DEF more
    <2>2. /\ IsServer(Arm(s, kind)) /\ Arm(s, kind).conn = s.conn
          /\ Arm(s, kind).timers = more /\ Arm(s, kind).tag = FreeId(s)
      BY <2>1 DEF IsServer, Fields
    <2> QED BY <2>2 DEF more
  <1>2. ASSUME s.timers = {}, s.tag = 0
        PROVE  FreeId(s) \in Ids
    <2>1. 1 \in Ids /\ 1 # s.tag /\ \A t \in s.timers : t.id # 1
      BY <1>2, ServerAssumption DEF Ids
    <2> QED BY <2>1 DEF FreeId
  <1>3. ASSUME s.timers = {}, s.tag = 0
        PROVE  Named(Arm(s, kind)) /\ Arm(s, kind).tag # 0
    BY <1>1, <1>2, <1>3 DEF Named, Timeouts, Ids
  <1> QED BY <1>1, <1>3

LEMMA CleanupIs ==
    ASSUME NEW s, IsServer(s)
    PROVE  LET c == server_cleanup(s)
           IN  /\ IsServer(c)
               /\ Active(s) => c.conn = "off" /\ c.tag = s.tag /\ c.timers = s.timers
               /\ ~Active(s) => /\ c.conn = s.conn /\ c.tag = 0
                                /\ Named(s) => c.timers = {}
  <1>1. CASE s.conn = "connecting"
    BY <1>1 DEF server_cleanup, IsServer, Fields, Active
  <1>2. CASE s.conn = "connected"
    BY <1>2 DEF server_cleanup, IsServer, Fields, Active
  <1>3. CASE ~Active(s)
    <2>1. server_cleanup(s) = Disarmed(s)
      BY <1>3 DEF server_cleanup, Active
    <2> QED BY <1>3, <2>1, DisarmedIs
  <1> QED BY <1>1, <1>2, <1>3 DEF Active

LEMMA DisconnectIs ==
    ASSUME NEW s, NEW sendquit \in BOOLEAN, IsServer(s)
    PROVE  LET d == server_disconnect(s, sendquit)
           IN  /\ IsServer(d)
               /\ Active(s) => d.conn = "off" /\ d.tag = s.tag /\ d.timers = s.timers
               /\ ~Active(s) => /\ d.conn = s.conn /\ d.tag = 0
                                /\ Named(s) => d.timers = {}
  <1> DEFINE q == IF sendquit /\ s.conn = "connected" THEN tcp_send_len(s, Quit) ELSE s
             c == server_cleanup(q)
  <1>1. Keeps(s, q)
    BY SendKeeps DEF Keeps
  <1>2. Active(q) = Active(s) /\ (Named(s) => Named(q))
    BY <1>1 DEF Keeps, Active, Named
  <1>3. /\ IsServer(c)
        /\ Active(s) => c.conn = "off" /\ c.tag = s.tag /\ c.timers = s.timers
        /\ ~Active(s) => c.conn = s.conn /\ c.tag = 0 /\ (Named(s) => c.timers = {})
    <2> HIDE DEF q
    <2> QED BY <1>1, <1>2, CleanupIs DEF Keeps
  <1>4. Keeps(c, server_flush_queue(c))
    BY <1>3, FlushKeeps
  <1>5. server_disconnect(s, sendquit) = c \/ server_disconnect(s, sendquit) = server_flush_queue(c)
    BY DEF server_disconnect
  <1> HIDE DEF c
  <1> QED BY <1>3, <1>4, <1>5 DEF Keeps

(* A timeout of its own is armed, and no other.                            *)
LEMMA ReconnectIs ==
    ASSUME NEW s, NEW sendquit \in BOOLEAN, IsServer(s)
    PROVE  LET a == auto_reconnect(s, sendquit)
           IN  /\ IsServer(a) /\ a.timers # {}
               /\ a.conn = IF s.conn = "connected" THEN "off" ELSE s.conn
               /\ Named(s) => Named(a)
  <1> DEFINE q == IF s.conn = "connected" THEN server_disconnect(s, sendquit) ELSE s
             d == Disarmed(q)
  <1>1. /\ IsServer(q) /\ q.tag = s.tag /\ q.timers = s.timers
        /\ q.conn = IF s.conn = "connected" THEN "off" ELSE s.conn
    BY DisconnectIs DEF Active
  <1>2. IsServer(d) /\ d.conn = q.conn /\ d.tag = 0 /\ (Named(s) => d.timers = {})
    <2>1. Named(s) => Named(q)
      BY <1>1 DEF Named
    <2> HIDE DEF q
    <2> QED BY <1>1, <2>1, DisarmedIs
  <1>3. auto_reconnect(s, sendquit) = Arm(d, "reconnect")
    BY DEF auto_reconnect
  <1> HIDE DEF q, d
  <1> QED BY <1>1, <1>2, <1>3, ArmIs

LEMMA ConnectIs ==
    ASSUME NEW s, IsServer(s)
    PROVE  LET c == server_connect(s)
           IN  /\ IsServer(c) /\ c.conn = "connecting"
               /\ Apart(s) => c.timers = {} /\ c.tag = 0
  <1> DEFINE i == IF s.conn \in {"connected", "connecting"} \/ s.tag # 0
                  THEN server_disconnect(s, TRUE) ELSE s
             f == server_flush_queue(i)
  <1>1. IsServer(i) /\ (Apart(s) => i.timers = {} /\ i.tag = 0)
    <2>1. Apart(s) /\ s.tag = 0 => s.timers = {}
      BY DEF Apart, Named, Timeouts, Ids
    <2>2. CASE Active(s)
      BY <2>1, <2>2, DisconnectIs DEF Active, Apart
    <2>3. CASE ~Active(s) /\ s.tag # 0
      BY <2>3, DisconnectIs DEF Apart
    <2>4. CASE ~Active(s) /\ s.tag = 0
      BY <2>1, <2>4 DEF Active
    <2> QED BY <2>2, <2>3, <2>4
  <1>2. Keeps(i, f)
    BY <1>1, FlushKeeps
  <1>3. server_connect(s) = [f EXCEPT !.conn = "connecting", !.motd = FALSE,
                                      !.born = @ + 1, !.out.sent = <<>>, !.said = 0]
    BY DEF server_connect
  <1> HIDE DEF f, i
  <1> QED BY <1>1, <1>2, <1>3 DEF Keeps, IsServer, Fields

-----------------------------------------------------------------------------
(* The actions.                                                            *)

LEMMA InitInv == Init => Inv
  <1> SUFFICES ASSUME Init PROVE Inv
    OBVIOUS
  <1>1. IsServer(serv) /\ serv.conn = "off" /\ serv.tag = 0 /\ serv.timers = {}
    BY DEF Init, IsServer, Fields
  <1>2. Apart(serv) /\ ~Active(serv)
    BY <1>1 DEF Apart, Named, Active
  <1> QED BY <1>1, <1>2 DEF Init, Inv

(* The three fields stay, and so does the rest.                            *)
LEMMA QuietInv ==
    ASSUME Inv, NEW s, Keeps(serv, s), Becomes(s), UNCHANGED <<wanted, inside, fault>>,
           reading' = reading \/ (reading' = 0)
    PROVE  Inv'
  <1>1. serv' = s /\ crossed' = (crossed \/ (s.tag # 0 /\ Active(s)))
    BY DEF Becomes
  <1>2. Active(s) = Active(serv) /\ (Apart(serv) => Apart(s))
    BY DEF Keeps, Active, Apart, Named
  <1>3. crossed' \in BOOLEAN /\ (~crossed' => ~crossed)
    BY <1>1 DEF Inv
  <1>4. serv'.timers = serv.timers /\ serv'.conn = serv.conn /\ IsServer(serv')
    BY <1>1 DEF Keeps
  <1> QED BY <1>1, <1>2, <1>3, <1>4 DEF Inv

(* What a connection without a timeout looks like.                         *)
LEMMA ApartIs ==
    ASSUME NEW s, Apart(s), Active(s) \/ s.tag = 0
    PROVE  s.timers = {} /\ s.tag = 0
  BY DEF Apart, Named, Timeouts, Ids

LEMMA ConnectInv == ASSUME Inv, Connect PROVE Inv'
  <1> DEFINE s == server_connect(serv)
  <1>1. /\ serv' = s /\ crossed' = (crossed \/ (s.tag # 0 /\ Active(s))) /\ wanted' = TRUE
        /\ inside' = (inside \/ reading # 0) /\ UNCHANGED fault /\ ~fault
    BY DEF Connect, Command, Becomes, Alive
  <1>2. IsServer(s) /\ s.conn = "connecting" /\ (~crossed => s.timers = {} /\ s.tag = 0)
    BY ConnectIs DEF Inv
  <1> HIDE DEF s
  <1>3. crossed' \in BOOLEAN /\ (~crossed' => ~crossed) /\ inside' \in BOOLEAN
    BY <1>1 DEF Inv
  <1>4. ~crossed' => Apart(serv')
    BY <1>1, <1>2, <1>3 DEF Apart, Named
  <1> QED BY <1>1, <1>2, <1>3, <1>4 DEF Inv, Active

LEMMA DisconnectInv == ASSUME Inv, Disconnect PROVE Inv'
  <1> DEFINE s == server_disconnect(serv, TRUE)
  <1>1. /\ serv' = s /\ crossed' = (crossed \/ (s.tag # 0 /\ Active(s))) /\ wanted' = FALSE
        /\ inside' = (inside \/ reading # 0) /\ UNCHANGED <<reading, fault>> /\ ~fault
    BY DEF Disconnect, Command, Becomes, Alive
  <1>2. /\ IsServer(s)
        /\ Active(serv) => s.conn = "off" /\ s.tag = serv.tag /\ s.timers = serv.timers
        /\ ~Active(serv) => s.conn = serv.conn /\ s.tag = 0 /\ (Named(serv) => s.timers = {})
    BY DisconnectIs DEF Inv
  <1> HIDE DEF s
  <1>3. ~Active(s) /\ s.conn \in {"off", "freed"}
    BY <1>2 DEF Inv, Active
  <1>4. ~crossed => s.timers = {} /\ s.tag = 0
    BY <1>2, ApartIs DEF Inv, Apart
  <1>5. crossed' \in BOOLEAN /\ (~crossed' => ~crossed) /\ inside' \in BOOLEAN
        /\ (~inside' => reading = 0 /\ ~inside)
    BY <1>1 DEF Inv
  <1>6. ~crossed' => Apart(serv')
    BY <1>1, <1>4, <1>5 DEF Apart, Named
  <1> QED BY <1>1, <1>2, <1>3, <1>4, <1>5, <1>6 DEF Inv

LEMMA ReconnectInv == ASSUME Inv, Reconnect PROVE Inv'
  <1> DEFINE s == auto_reconnect(serv, TRUE)
  <1>1. /\ serv' = s /\ crossed' = (crossed \/ (s.tag # 0 /\ Active(s))) /\ wanted' = TRUE
        /\ inside' = (inside \/ reading # 0) /\ UNCHANGED fault /\ ~fault /\ serv.conn # "freed"
    BY DEF Reconnect, Command, Becomes, Alive
  <1>2. /\ IsServer(s) /\ s.timers # {} /\ (Named(serv) => Named(s))
        /\ s.conn = IF serv.conn = "connected" THEN "off" ELSE serv.conn
    BY ReconnectIs DEF Inv
  <1> HIDE DEF s
  <1>3. crossed' \in BOOLEAN /\ (~crossed' => ~crossed /\ (Active(s) => s.tag = 0)) /\ inside' \in BOOLEAN
    BY <1>1 DEF Inv
  <1>4. ~crossed' => Apart(serv')
    BY <1>1, <1>2, <1>3 DEF Apart, Inv
  <1> QED BY <1>1, <1>2, <1>3, <1>4 DEF Inv

LEMMA CloseInv == ASSUME Inv, Close PROVE Inv'
  <1> DEFINE q == IF serv.conn = "connected" THEN tcp_send_len(server_flush_queue(serv), Quit) ELSE serv
             c == server_cleanup(q)
             f == server_flush_queue(c)
             s == [f EXCEPT !.conn = "freed"]
  <1>1. /\ serv' = s /\ crossed' = (crossed \/ (s.tag # 0 /\ Active(s))) /\ wanted' = FALSE
        /\ inside' = (inside \/ reading # 0) /\ UNCHANGED <<reading, fault>> /\ ~fault
    BY DEF Close, Command, Becomes, Alive
  <1>2. Keeps(serv, q)
    <2>1. Keeps(serv, server_flush_queue(serv))
      BY FlushKeeps DEF Inv
    <2>2. Keeps(server_flush_queue(serv), tcp_send_len(server_flush_queue(serv), Quit))
      BY <2>1, SendKeeps DEF Keeps
    <2>3. Keeps(serv, serv)
      BY DEF Keeps, Inv
    <2> QED BY <2>1, <2>2, <2>3 DEF Keeps
  <1>3. IsServer(c) /\ (~crossed => c.timers = {} /\ c.tag = 0)
    <2> HIDE DEF q
    <2>1. IsServer(q) /\ (~crossed => Apart(q))
      BY <1>2 DEF Keeps, Inv, Apart, Named, Active
    <2> QED BY <2>1, CleanupIs, ApartIs DEF Apart
  <1> HIDE DEF c
  <1>4. Keeps(c, f)
    BY <1>3, FlushKeeps
  <1> HIDE DEF f
  <1>5. IsServer(s) /\ s.conn = "freed" /\ s.tag = f.tag /\ s.timers = f.timers
    BY <1>4 DEF Keeps, IsServer, Fields
  <1> HIDE DEF s
  <1>6. ~crossed => s.timers = {} /\ s.tag = 0
    BY <1>3, <1>4, <1>5 DEF Keeps
  <1>7. crossed' \in BOOLEAN /\ (~crossed' => ~crossed) /\ inside' \in BOOLEAN
        /\ (~inside' => reading = 0 /\ ~inside) /\ ~Active(s)
    BY <1>1, <1>5 DEF Inv, Active
  <1>8. ~crossed' => Apart(serv')
    BY <1>1, <1>6, <1>7 DEF Apart, Named
  <1> QED BY <1>1, <1>5, <1>6, <1>7, <1>8 DEF Inv

(* Something that is wanted, or was not settled, waits for its timeout.    *)
LEMMA ArmedInv ==
    ASSUME Inv, NEW s, IsServer(s), Becomes(s), s.conn \in {"off", "connecting", "connected"},
           s.timers # {}, Apart(serv) => Named(s), wanted \/ crossed \/ inside,
           reading' = reading \/ reading' = 0, UNCHANGED <<wanted, inside, fault>>
    PROVE  Inv'
  <1>1. serv' = s /\ crossed' = (crossed \/ (s.tag # 0 /\ Active(s)))
    BY DEF Becomes
  <1>2. crossed' \in BOOLEAN /\ (~crossed' => ~crossed /\ (Active(s) => s.tag = 0))
    BY <1>1 DEF Inv
  <1>3. crossed => crossed'
    BY <1>1 DEF Inv
  <1>4. ~crossed' => Apart(serv')
    BY <1>1, <1>2 DEF Apart, Inv
  <1> QED BY <1>1, <1>2, <1>3, <1>4 DEF Inv

LEMMA SayInv == ASSUME Inv, NEW k \in Kinds, Say(k) PROVE Inv'
  <1>1. Keeps(serv, tcp_send_len(serv, k))
    BY SendKeeps DEF Inv
  <1> QED BY <1>1, QuietInv DEF Say

LEMMA ChildFailsInv == ASSUME Inv, ChildFails PROVE Inv'
  <1> DEFINE o == [serv EXCEPT !.conn = "off"]
             s == Arm(o, "cycle")
  <1>1. Becomes(s) /\ UNCHANGED <<reading, wanted, inside, fault>> /\ serv.conn = "connecting"
    BY DEF ChildFails, servlist_cycle
  <1>2. IsServer(o) /\ o.conn = "off" /\ o.tag = serv.tag /\ o.timers = serv.timers
    BY DEF Inv, IsServer, Fields
  <1>3. Active(serv)
    BY <1>1 DEF Active
  <1>4. Apart(serv) => o.timers = {} /\ o.tag = 0
    BY <1>2, <1>3, ApartIs
  <1> HIDE DEF o
  <1>5. IsServer(s) /\ s.conn = "off" /\ s.timers # {} /\ (Apart(serv) => Named(s))
    BY <1>2, <1>4, ArmIs
  <1>6. wanted \/ crossed \/ inside
    BY <1>3 DEF Inv
  <1> HIDE DEF s
  <1> QED BY <1>1, <1>5, <1>6, ArmedInv

LEMMA ChildSucceedsInv == ASSUME Inv, ChildSucceeds PROVE Inv'
  <1> DEFINE o == [serv EXCEPT !.conn = "connected"]
             s == tcp_send_len(o, Login)
  <1>1. /\ serv' = s /\ crossed' = (crossed \/ (s.tag # 0 /\ Active(s)))
        /\ UNCHANGED <<reading, wanted, inside, fault>> /\ serv.conn = "connecting"
    BY DEF ChildSucceeds, Becomes
  <1>2. IsServer(o) /\ o.conn = "connected" /\ o.tag = serv.tag /\ o.timers = serv.timers
    BY DEF Inv, IsServer, Fields
  <1> HIDE DEF o
  <1>3. IsServer(s) /\ s.conn = "connected" /\ s.tag = serv.tag /\ s.timers = serv.timers
    BY <1>2, SendKeeps DEF Keeps
  <1> HIDE DEF s
  <1>4. Active(serv) /\ Active(s)
    BY <1>1, <1>3 DEF Active
  <1>5. crossed' \in BOOLEAN /\ (~crossed' => ~crossed) /\ (crossed => crossed')
    BY <1>1 DEF Inv
  <1>6. ~crossed' => Apart(serv')
    BY <1>1, <1>3, <1>4, <1>5 DEF Inv, Apart, Named
  <1> QED BY <1>1, <1>3, <1>4, <1>5, <1>6 DEF Inv

LEMMA ProxyFailsInv == ASSUME Inv, ProxyFails PROVE Inv'
  <1> DEFINE s == server_disconnect(serv, FALSE)
  <1>1. /\ serv' = s /\ crossed' = (crossed \/ (s.tag # 0 /\ Active(s))) /\ wanted' = FALSE
        /\ UNCHANGED <<reading, inside, fault>> /\ reading = 0 /\ serv.conn = "connecting" /\ ~fault
    BY DEF ProxyFails, Becomes, Idle
  <1>2. Active(serv)
    BY <1>1 DEF Active
  <1>3. IsServer(s) /\ s.conn = "off" /\ s.tag = serv.tag /\ s.timers = serv.timers
    BY <1>2, DisconnectIs DEF Inv
  <1> HIDE DEF s
  <1>4. ~crossed => s.timers = {} /\ s.tag = 0
    BY <1>2, <1>3, ApartIs DEF Inv
  <1>5. crossed' \in BOOLEAN /\ (~crossed' => ~crossed) /\ ~Active(s)
    BY <1>1, <1>3 DEF Inv, Active
  <1>6. ~crossed' => Apart(serv')
    BY <1>1, <1>4, <1>5 DEF Apart, Named
  <1> QED BY <1>1, <1>3, <1>4, <1>5, <1>6 DEF Inv

LEMMA ReadBeginsInv == ASSUME Inv, ReadBegins PROVE Inv'
  <1>1. UNCHANGED <<serv, wanted, crossed, inside, fault>> /\ serv.conn = "connected"
    BY DEF ReadBegins
  <1>2. Active(serv)
    BY <1>1 DEF Active
  <1>3. Active(serv)' = Active(serv) /\ Apart(serv)' = Apart(serv) /\ IsServer(serv)' = IsServer(serv)
    BY <1>1 DEF Active, Apart, Named, IsServer
  <1> QED BY <1>1, <1>2, <1>3 DEF Inv

LEMMA MotdEndsInv == ASSUME Inv, MotdEnds PROVE Inv'
  <1> DEFINE s == [serv EXCEPT !.motd = TRUE]
  <1>1. Keeps(serv, s)
    BY DEF Inv, Keeps, IsServer, Fields
  <1>2. Becomes(s) /\ UNCHANGED <<reading, wanted, inside, fault>>
    BY DEF MotdEnds
  <1> HIDE DEF s
  <1> QED BY <1>1, <1>2, QuietInv

LEMMA ReadEndsInv == ASSUME Inv, NEW eof \in BOOLEAN, ReadEnds(eof) PROVE Inv'
  <1>1. ~fault /\ reading # 0 /\ reading' = 0 /\ UNCHANGED <<wanted, inside>>
    BY DEF ReadEnds
  <1>2. wanted \/ crossed \/ inside
    BY <1>1 DEF Inv
  <1>3. CASE UNCHANGED <<serv, crossed>>
    <2>1. fault' \in BOOLEAN /\ (fault' => inside \/ crossed)
      BY <1>1, <1>2 DEF ReadEnds, Inv
    <2>2. Active(serv)' = Active(serv) /\ Apart(serv)' = Apart(serv) /\ IsServer(serv)' = IsServer(serv)
      BY <1>3 DEF Active, Apart, Named, IsServer
    <2> QED BY <1>1, <1>2, <1>3, <2>1, <2>2 DEF Inv
  <1>4. CASE serv.conn # "freed" /\ fault' = fault /\ Becomes(auto_reconnect(serv, FALSE))
    <2> DEFINE s == auto_reconnect(serv, FALSE)
    <2>1. /\ IsServer(s) /\ s.timers # {} /\ (Named(serv) => Named(s))
          /\ s.conn = IF serv.conn = "connected" THEN "off" ELSE serv.conn
      BY ReconnectIs DEF Inv
    <2>2. Becomes(s)
      BY <1>4
    <2> HIDE DEF s
    <2>3. s.conn \in {"off", "connecting", "connected"} /\ (Apart(serv) => Named(s))
      BY <1>4, <2>1 DEF Inv, Apart
    <2> QED BY <1>1, <1>2, <1>4, <2>1, <2>2, <2>3, ArmedInv
  <1>5. CASE /\ serv.conn # "freed" /\ fault' = fault
             /\ Becomes(servlist_cycle(server_disconnect(serv, FALSE)))
    <2> DEFINE d == server_disconnect(serv, FALSE)
               s == Arm(d, "cycle")
    <2>1. /\ IsServer(d)
          /\ Active(serv) => d.conn = "off" /\ d.tag = serv.tag /\ d.timers = serv.timers
          /\ ~Active(serv) => d.conn = serv.conn /\ d.tag = 0 /\ (Named(serv) => d.timers = {})
      BY DisconnectIs DEF Inv
    <2>2. Becomes(s)
      BY <1>5 DEF servlist_cycle
    <2> HIDE DEF d
    <2>3. d.conn = "off" /\ (Apart(serv) => d.timers = {} /\ d.tag = 0)
      BY <1>5, <2>1, ApartIs DEF Inv, Active, Apart
    <2>4. IsServer(s) /\ s.conn = "off" /\ s.timers # {} /\ (Apart(serv) => Named(s))
      BY <2>1, <2>3, ArmIs
    <2> HIDE DEF s
    <2> QED BY <1>1, <1>2, <1>5, <2>2, <2>4, ArmedInv
  <1> QED BY <1>3, <1>4, <1>5 DEF ReadEnds

LEMMA PingTimesOutInv == ASSUME Inv, PingTimesOut PROVE Inv'
  <1> DEFINE s == auto_reconnect(serv, FALSE)
  <1>1. Becomes(s) /\ UNCHANGED <<reading, wanted, inside, fault>> /\ serv.conn = "connected"
    BY DEF PingTimesOut
  <1>2. IsServer(s) /\ s.timers # {} /\ (Named(serv) => Named(s)) /\ s.conn = "off"
    BY <1>1, ReconnectIs DEF Inv
  <1> HIDE DEF s
  <1>3. wanted \/ crossed \/ inside
    BY <1>1 DEF Inv, Active
  <1>4. Apart(serv) => Named(s)
    BY <1>2 DEF Apart
  <1> QED BY <1>1, <1>2, <1>3, <1>4, ArmedInv

LEMMA TimeoutFiresInv == ASSUME Inv, NEW t \in serv.timers, TimeoutFires(t) PROVE Inv'
  <1> DEFINE rest == serv.timers \ {t}
             without == [serv EXCEPT !.timers = rest]
             free == IF t.kind = "reconnect" THEN [without EXCEPT !.tag = 0] ELSE without
  <1>1. ~fault /\ reading = 0 /\ UNCHANGED <<reading, wanted, inside>>
    BY DEF TimeoutFires, Idle
  <1>2. wanted \/ crossed \/ inside
    BY DEF Inv
  <1>3. ~crossed => Apart(serv) /\ ~Active(serv) /\ rest = {}
    BY ApartIs DEF Inv, Apart, Named
  <1>4. /\ serv.conn = "freed" => Becomes(without) /\ fault' = (t.kind = "cycle")
        /\ serv.conn # "freed" => fault' = fault
        /\ serv.conn # "freed" => Becomes(server_connect(free)) \/ (Active(serv) /\ Becomes(free))
    BY DEF TimeoutFires
  <1> HIDE DEF rest
  <1>5. IsServer(without) /\ without.conn = serv.conn /\ without.tag = serv.tag /\ without.timers = rest
    BY DEF Inv, IsServer, Fields
  <1> HIDE DEF without
  <1>6. IsServer(free) /\ free.conn = serv.conn /\ free.tag \in {0, serv.tag} /\ free.timers = rest
    BY <1>5 DEF IsServer, Fields
  <1> HIDE DEF free
  <1>7. ~crossed => Apart(without) /\ Apart(free)
    BY <1>3, <1>5, <1>6 DEF Apart, Named, Active
  <1>8. CASE serv.conn = "freed"
    <2>1. serv' = without /\ crossed' = (crossed \/ (without.tag # 0 /\ Active(without)))
      BY <1>4, <1>8 DEF Becomes
    <2>2. ~Active(without) /\ ~wanted
      BY <1>5, <1>8 DEF Active, Inv
    <2>3. crossed' = crossed
      BY <2>1, <2>2 DEF Inv
    <2>4. fault' \in BOOLEAN
      BY <1>4, <1>8
    <2> QED BY <1>1, <1>2, <1>5, <1>7, <1>8, <2>1, <2>2, <2>3, <2>4 DEF Inv
  <1>9. CASE serv.conn # "freed" /\ Active(serv) /\ Becomes(free)
    <2>1. serv' = free /\ crossed' = TRUE /\ fault' = fault
      BY <1>3, <1>4, <1>9 DEF Becomes, Inv
    <2>2. Active(free)
      BY <1>6, <1>9 DEF Active
    <2> QED BY <1>1, <1>6, <1>9, <2>1, <2>2 DEF Inv
  <1>10. CASE serv.conn # "freed" /\ Becomes(server_connect(free))
    <2> DEFINE s == server_connect(free)
    <2>1. /\ serv' = s /\ crossed' = (crossed \/ (s.tag # 0 /\ Active(s))) /\ fault' = fault
      BY <1>4, <1>10 DEF Becomes
    <2>2. IsServer(s) /\ s.conn = "connecting" /\ (~crossed => s.timers = {} /\ s.tag = 0)
      BY <1>6, <1>7, ConnectIs
    <2> HIDE DEF s
    <2>3. crossed' \in BOOLEAN /\ (~crossed' => ~crossed) /\ (crossed => crossed')
      BY <2>1 DEF Inv
    <2>4. Apart(serv') \/ crossed'
      BY <2>1, <2>2, <2>3 DEF Apart, Named
    <2>5. Active(serv')
      BY <2>1, <2>2 DEF Active
    <2> QED BY <1>1, <1>2, <2>1, <2>2, <2>3, <2>4, <2>5 DEF Inv
  <1> QED BY <1>4, <1>8, <1>9, <1>10

LEMMA HandlerFiresInv == ASSUME Inv, HandlerFires PROVE Inv'
  <1> DEFINE r == tcp_send_queue(serv)
             a == [serv EXCEPT !.handlers = @ - 1]
             b == [r EXCEPT !.handlers = @ - 1]
  <1>1. Becomes(a) \/ Becomes(r) \/ Becomes(b)
    BY DEF HandlerFires
  <1>2. UNCHANGED <<reading, wanted, inside, fault>>
    BY DEF HandlerFires
  <1>3. Keeps(serv, a)
    BY DEF Inv, Keeps, IsServer, Fields
  <1>4. Keeps(serv, r)
    BY SendQueueKeeps DEF Inv
  <1> HIDE DEF r, a
  <1>5. Keeps(serv, b)
    BY <1>4 DEF Keeps, IsServer, Fields
  <1> HIDE DEF b
  <1> QED BY <1>1, <1>2, <1>3, <1>4, <1>5, QuietInv

LEMMA ClockInv == ASSUME Inv, Clock \/ \E by \in 1..MaxJump : SetBack(by) PROVE Inv'
  <1>1. PICK out : Becomes([serv EXCEPT !.out = out])
    BY DEF Clock, SetBack
  <1>2. Keeps(serv, [serv EXCEPT !.out = out])
    BY DEF Inv, Keeps, IsServer, Fields
  <1>3. UNCHANGED <<reading, wanted, inside, fault>>
    BY DEF Clock, SetBack
  <1> QED BY <1>1, <1>2, <1>3, QuietInv

LEMMA NextInv == ASSUME Inv, [Next]_vars PROVE Inv'
  <1>1. CASE UNCHANGED vars
    <2>1. UNCHANGED <<serv, reading, wanted, crossed, inside, fault>>
      BY <1>1 DEF vars
    <2>2. Active(serv)' = Active(serv) /\ Apart(serv)' = Apart(serv) /\ IsServer(serv)' = IsServer(serv)
      BY <2>1 DEF Active, Apart, Named, IsServer
    <2> QED BY <2>1, <2>2 DEF Inv
  <1>2. CASE Connect \/ Disconnect \/ Reconnect \/ Close
    BY <1>2, ConnectInv, DisconnectInv, ReconnectInv, CloseInv
  <1>3. CASE \E k \in Kinds : Say(k)
    BY <1>3, SayInv
  <1>4. CASE ChildFails \/ ChildSucceeds \/ ProxyFails
    BY <1>4, ChildFailsInv, ChildSucceedsInv, ProxyFailsInv
  <1>5. CASE ReadBegins \/ MotdEnds \/ \E eof \in BOOLEAN : ReadEnds(eof)
    BY <1>5, ReadBeginsInv, MotdEndsInv, ReadEndsInv
  <1>6. CASE PingTimesOut \/ \E t \in serv.timers : TimeoutFires(t)
    BY <1>6, PingTimesOutInv, TimeoutFiresInv
  <1>7. CASE HandlerFires \/ Clock \/ \E by \in 1..MaxJump : SetBack(by)
    BY <1>7, HandlerFiresInv, ClockInv
  <1> QED BY <1>1, <1>2, <1>3, <1>4, <1>5, <1>6, <1>7 DEF Next

LEMMA InvImplies == Inv => ReconnectsAsWanted
  BY DEF Inv, ReconnectsAsWanted, StaysOff, KeepsTrying, TimeoutsAreNamed, FreedIsNotUsed, Apart, Named

(* A connection that is wanted is there or on its way, one that is not     *)
(* stays closed, and the timeouts that connect can be taken back and find  *)
(* their server (server.c:663-726, 897-955, servlist.c:544-590): for any   *)
(* number of connections and whatever is sent in them.                     *)
THEOREM ReconnectsOnlyAsWanted == Spec => []ReconnectsAsWanted
  <1>1. Inv /\ [Next]_vars => Inv'
    BY NextInv
  <1> QED BY InitInv, <1>1, InvImplies, PTL DEF Spec
-----------------------------------------------------------------------------
(* The queue.  What every step of tcp_send_queue keeps, all of it keeps:   *)
(* the loop is a function on the number of its steps, which exists because *)
(* one of n steps is extended to one of n + 1.                             *)

IsLoop(f, o, n) ==
    f = [i \in 0..n |-> IF i = 0 THEN o ELSE CHOOSE b \in {OneMore(a) : a \in {f[i - 1]}} : TRUE]

LEMMA SendingIsLoop ==
    ASSUME NEW o
    PROVE  Sending(o) = (CHOOSE f : IsLoop(f, o, Len(o.queue)))[Len(o.queue)]
  BY DEF Sending, IsLoop

LEMMA LoopExists ==
    ASSUME NEW o, NEW n \in Nat
    PROVE  \E f : IsLoop(f, o, n)
  <1> DEFINE S == {k \in Nat : \E f : IsLoop(f, o, k)}
  <1>1. 0 \in S
    <2>1. IsLoop([i \in 0..0 |-> o], o, 0)
      BY DEF IsLoop
    <2> QED BY <2>1
  <1>2. ASSUME NEW k \in Nat, k \in S PROVE k + 1 \in S
    <2>1. PICK f : IsLoop(f, o, k)
      BY <1>2
    <2> DEFINE g == [i \in 0..(k + 1) |-> IF i <= k THEN f[i] ELSE CHOOSE b \in {OneMore(a) : a \in {f[k]}} : TRUE]
    <2>2. ASSUME NEW i \in 0..(k + 1)
          PROVE  g[i] = IF i = 0 THEN o ELSE CHOOSE b \in {OneMore(a) : a \in {g[i - 1]}} : TRUE
      <3>1. CASE i <= k
        <4>1. i \in 0..k /\ g[i] = f[i] /\ (i # 0 => g[i - 1] = f[i - 1])
          BY <3>1
        <4>2. f[i] = IF i = 0 THEN o ELSE CHOOSE b \in {OneMore(a) : a \in {f[i - 1]}} : TRUE
          BY <2>1, <4>1 DEF IsLoop
        <4> QED BY <4>1, <4>2
      <3>2. CASE i = k + 1
        <4>1. i # 0 /\ ~(i <= k) /\ g[i - 1] = f[k]
          BY <3>2
        <4> QED BY <4>1
      <3> QED BY <3>1, <3>2
    <2>3. IsLoop(g, o, k + 1)
      BY <2>2 DEF IsLoop
    <2> QED BY <2>3
  <1>3. Nat \subseteq S
    <2> HIDE DEF S
    <2> QED BY <1>1, <1>2, Inductive
  <1> QED BY <1>3

LEMMA SendingIs ==
    ASSUME NEW S, NEW o, Len(o.queue) \in Nat, Len(o.queue) = 0 => OneMore(o) = o,
           OneMore(o) \in S, \A b \in S : OneMore(b) \in S
    PROVE  Sending(o) \in S
  <1> DEFINE n == Len(o.queue)
             after == CHOOSE f : IsLoop(f, o, n)
  <1>1. IsLoop(after, o, n)
    BY LoopExists
  <1>2. Sending(o) = after[n] /\ n \in Nat
    BY SendingIsLoop
  <1>3. \A i \in 0..n : after[i] = IF i = 0 THEN o ELSE CHOOSE b \in {OneMore(a) : a \in {after[i - 1]}} : TRUE
    <2> HIDE DEF after, n
    <2> QED BY <1>1 DEF IsLoop
  <1> HIDE DEF after
  <1>4. ASSUME NEW k \in Nat, k + 1 <= n PROVE after[k + 1] = OneMore(after[k])
    <2>1. k + 1 \in 0..n /\ k + 1 # 0 /\ (k + 1) - 1 = k
      BY <1>2, <1>4
    <2>2. after[k + 1] = CHOOSE b \in {OneMore(a) : a \in {after[k]}} : TRUE
      BY <1>3, <2>1
    <2>3. {OneMore(a) : a \in {after[k]}} = {OneMore(after[k])}
      OBVIOUS
    <2> QED BY <2>2, <2>3
  <1>5. after[0] = o
    BY <1>2, <1>3
  <1>6. CASE n = 0
    BY <1>2, <1>5, <1>6
  <1>7. CASE n # 0
    <2> DEFINE T == {i \in Nat : i + 1 <= n => after[i + 1] \in S}
    <2>1. 0 \in T
      <3>1. 0 + 1 <= n => after[0 + 1] = OneMore(after[0])
        BY <1>4
      <3> QED BY <1>5, <3>1
    <2>2. ASSUME NEW k \in Nat, k \in T PROVE k + 1 \in T
      <3> SUFFICES ASSUME (k + 1) + 1 <= n PROVE after[(k + 1) + 1] \in S
        OBVIOUS
      <3>1. k + 1 <= n /\ k + 1 \in Nat
        BY <1>2
      <3>2. after[k + 1] \in S
        BY <2>2, <3>1
      <3>3. after[(k + 1) + 1] = OneMore(after[k + 1])
        BY <1>4, <3>1
      <3> QED BY <3>2, <3>3
    <2>3. n - 1 \in Nat
      BY <1>2, <1>7
    <2>4. Nat \subseteq T
      <3> HIDE DEF T
      <3> QED BY <2>1, <2>2, Inductive
    <2>5. (n - 1) + 1 <= n => after[(n - 1) + 1] \in S
      BY <2>3, <2>4
    <2>6. (n - 1) + 1 = n /\ n <= n
      BY <1>2
    <2> HIDE DEF n
    <2> QED BY <1>2, <2>5, <2>6
  <1> QED BY <1>6, <1>7

-----------------------------------------------------------------------------
(* Of each priority, what waits.                                           *)

At(p, q) == {i \in DOMAIN q : q[i].pri = p}

(* Positions that an increasing function counts are the ones Nth counts.   *)
Counts(f, c, I) ==
    /\ f \in [1..c -> I]
    /\ \A i, j \in 1..c : i < j => f[i] < f[j]
    /\ \A k \in I : \E i \in 1..c : f[i] = k

LEMMA PickedBy ==
    ASSUME NEW S, NEW s \in Seq(S), NEW I \in SUBSET (DOMAIN s), NEW c \in Nat, NEW f, Counts(f, c, I)
    PROVE  Picked(s, I) = [i \in 1..c |-> s[f[i]]]
  <1> USE DEF Counts
  <1>1. DOMAIN s = 1..Len(s) /\ Len(s) \in Nat
    OBVIOUS
  <1>2. \A i \in 1..c : f[i] \in I /\ f[i] \in Nat
    BY <1>1
  <1>3. \A i, j \in 1..c : f[i] = f[j] => i = j
    <2> SUFFICES ASSUME NEW i \in 1..c, NEW j \in 1..c, f[i] = f[j], i # j PROVE FALSE
      OBVIOUS
    <2>1. i < j \/ j < i
      OBVIOUS
    <2>2. f[i] < f[j] \/ f[j] < f[i]
      BY <2>1
    <2> QED BY <1>2, <2>2
  <1>4. \A i, j \in 1..c : f[i] <= f[j] <=> i <= j
    <2> SUFFICES ASSUME NEW i \in 1..c, NEW j \in 1..c PROVE f[i] <= f[j] <=> i <= j
      OBVIOUS
    <2>1. i = j \/ i < j \/ j < i
      OBVIOUS
    <2>2. i = j \/ (i < j /\ f[i] < f[j]) \/ (j < i /\ f[j] < f[i])
      BY <2>1
    <2> QED BY <1>2, <2>2
  <1>5. \A i \in 1..c : Cardinality({k \in I : k <= f[i]}) = i
    <2> TAKE i \in 1..c
    <2> DEFINE B == {k \in I : k <= f[i]}
               g == [j \in 1..i |-> f[j]]
    <2>1. g \in Bijection(1..i, B)
      <3>1. g \in [1..i -> B]
        BY <1>4
      <3>2. \A j, k \in 1..i : g[j] = g[k] => j = k
        BY <1>3
      <3>3. ASSUME NEW k \in B PROVE \E j \in 1..i : g[j] = k
        <4>1. PICK j \in 1..c : f[j] = k
          OBVIOUS
        <4>2. j <= i
          BY <1>4, <4>1
        <4> QED BY <4>1, <4>2
      <3> HIDE DEF g, B
      <3> QED BY <3>1, <3>2, <3>3 DEF Bijection, Injection, IsInjective, Surjection
    <2>2. IsFiniteSet(1..i) /\ Cardinality(1..i) = i
      BY FS_Interval
    <2> HIDE DEF B, g
    <2>3. ExistsBijection(1..i, B)
      BY <2>1 DEF ExistsBijection
    <2>4. Cardinality(B) = Cardinality(1..i)
      BY <2>2, <2>3, FS_Bijection
    <2> QED BY <2>2, <2>4 DEF B
  <1>6. Cardinality(I) = c
    <2>1. f \in Bijection(1..c, I)
      BY <1>3 DEF Bijection, Injection, IsInjective, Surjection
    <2>3. ExistsBijection(1..c, I)
      BY <2>1 DEF ExistsBijection
    <2>2. IsFiniteSet(1..c) /\ Cardinality(1..c) = c
      BY FS_Interval
    <2> QED BY <2>2, <2>3, FS_Bijection
  <1>7. \A i \in 1..c : Nth(I, i) = f[i]
    <2> TAKE i \in 1..c
    <2>1. \E j \in I : Cardinality({k \in I : k <= j}) = i
      BY <1>2, <1>5
    <2>2. Nth(I, i) \in I /\ Cardinality({k \in I : k <= Nth(I, i)}) = i
      BY <2>1 DEF Nth
    <2>3. PICK j \in 1..c : f[j] = Nth(I, i)
      BY <2>2
    <2>4. Cardinality({k \in I : k <= f[j]}) = j
      BY <1>5
    <2>5. j = i
      BY <2>2, <2>3, <2>4
    <2> QED BY <2>3, <2>5
  <1>8. Picked(s, I) = [i \in 1..c |-> s[Nth(I, i)]]
    BY <1>6 DEF Picked
  <1> QED BY <1>7, <1>8

LEMMA WaitingIs ==
    ASSUME NEW q \in Seq(Messages), NEW p
    PROVE  /\ At(p, q) \in SUBSET (DOMAIN q) /\ Waiting(p, q) = Picked(q, At(p, q))
           /\ Cardinality(At(p, q)) \in Nat /\ Waiting(p, q) \in Seq(Messages)
           /\ DOMAIN Waiting(p, q) = 1..Cardinality(At(p, q)) /\ Len(Waiting(p, q)) = Cardinality(At(p, q))
           /\ \A i \in 1..Cardinality(At(p, q)) : Nth(At(p, q), i) \in At(p, q) /\ Waiting(p, q)[i] = q[Nth(At(p, q), i)]
           /\ \A i, j \in 1..Cardinality(At(p, q)) : i < j => Nth(At(p, q), i) < Nth(At(p, q), j)
           /\ \A j \in At(p, q) : \E i \in 1..Cardinality(At(p, q)) : Nth(At(p, q), i) = j
  <1>1. Waiting(p, q) = Picked(q, At(p, q)) /\ At(p, q) \in SUBSET (DOMAIN q)
    BY DEF Waiting, At
  <1> QED BY <1>1, PickedIs

LEMMA WaitingNone ==
    ASSUME NEW p
    PROVE  Waiting(p, <<>>) = <<>>
  <1>1. <<>> \in Seq(Messages) /\ DOMAIN <<>> = {}
    OBVIOUS
  <1>2. At(p, <<>>) = {}
    BY <1>1 DEF At
  <1>3. Cardinality({}) = 0
    BY FS_EmptySet
  <1>4. Waiting(p, <<>>) \in Seq(Messages) /\ Len(Waiting(p, <<>>)) = 0
    BY <1>1, <1>2, <1>3, WaitingIs
  <1> QED BY <1>4, EmptySeq

LEMMA AppendIs ==
    ASSUME NEW q \in Seq(Messages), NEW m \in Messages
    PROVE  /\ Append(q, m) \in Seq(Messages) /\ Len(q) \in Nat /\ DOMAIN q = 1..Len(q)
           /\ DOMAIN Append(q, m) = 1..(Len(q) + 1) /\ Len(Append(q, m)) = Len(q) + 1
           /\ \A i \in 1..Len(q) : Append(q, m)[i] = q[i]
           /\ Append(q, m)[Len(q) + 1] = m
  OBVIOUS

LEMMA WaitingAppend ==
    ASSUME NEW q \in Seq(Messages), NEW m \in Messages, NEW p
    PROVE  Waiting(p, Append(q, m)) = IF m.pri = p THEN Append(Waiting(p, q), m) ELSE Waiting(p, q)
  <1> DEFINE I == At(p, q)
             c == Cardinality(I)
             n == Len(q)
             r == Append(q, m)
             w == Waiting(p, q)
  <1>1. /\ r \in Seq(Messages) /\ n \in Nat /\ DOMAIN q = 1..n /\ DOMAIN r = 1..(n + 1)
        /\ \A i \in 1..n : r[i] = q[i]
        /\ r[n + 1] = m
    BY AppendIs
  <1>2. /\ I \in SUBSET (1..n) /\ c \in Nat /\ w \in Seq(Messages)
        /\ DOMAIN w = 1..c /\ Len(w) = c
        /\ \A i \in 1..c : Nth(I, i) \in I /\ w[i] = q[Nth(I, i)]
        /\ \A i, j \in 1..c : i < j => Nth(I, i) < Nth(I, j)
        /\ \A j \in I : \E i \in 1..c : Nth(I, i) = j
    BY <1>1, WaitingIs
  <1>3. At(p, r) = IF m.pri = p THEN I \cup {n + 1} ELSE I
    <2>1. \A i \in 1..(n + 1) : i \in 1..n \/ i = n + 1
      BY <1>1
    <2>2. \A i \in 1..n : i \in 1..(n + 1) /\ (i \in At(p, r) <=> i \in I)
      BY <1>1 DEF At
    <2>3. n + 1 \in At(p, r) <=> m.pri = p
      BY <1>1 DEF At
    <2>4. At(p, r) \subseteq 1..(n + 1) /\ I \subseteq 1..n
      BY <1>1 DEF At
    <2> HIDE DEF I, r, n
    <2>5. CASE m.pri = p
      BY <2>1, <2>2, <2>3, <2>4, <2>5
    <2>6. CASE m.pri # p
      <3>1. At(p, r) = I
        BY <2>1, <2>2, <2>3, <2>4, <2>6
      <3> QED BY <2>6, <3>1
    <2> QED BY <2>5, <2>6
  <1>4. Waiting(p, r) = Picked(r, At(p, r)) /\ At(p, r) \in SUBSET (DOMAIN r)
    BY <1>1, WaitingIs
  <1> HIDE DEF I, c, n, r, w
  <1>5. CASE m.pri # p
    <2> DEFINE f == [i \in 1..c |-> Nth(I, i)]
    <2>1. Counts(f, c, I)
      BY <1>2 DEF Counts
    <2>2. At(p, r) = I /\ I \in SUBSET (DOMAIN r)
      BY <1>3, <1>4, <1>5
    <2> HIDE DEF f
    <2>3. Picked(r, I) = [i \in 1..c |-> r[f[i]]]
      <3>1. r \in Seq(Messages) /\ c \in Nat /\ I \in SUBSET (DOMAIN r)
        BY <1>1, <1>2, <2>2
      <3> QED BY <2>1, <3>1, PickedBy
    <2>4. \A i \in 1..c : r[f[i]] = w[i]
      BY <1>1, <1>2 DEF f
    <2>5. [i \in 1..c |-> r[f[i]]] = w
      BY <1>2, <2>4
    <2> QED BY <1>4, <1>5, <2>2, <2>3, <2>5 DEF r, w
  <1>6. CASE m.pri = p
    <2> DEFINE f == [i \in 1..(c + 1) |-> IF i = c + 1 THEN n + 1 ELSE Nth(I, i)]
               J == I \cup {n + 1}
    <2>1. f \in [1..(c + 1) -> J]
      <3>1. \A i \in 1..(c + 1) : i # c + 1 => i \in 1..c
        BY <1>2
      <3> QED BY <1>2, <3>1
    <2>2. ASSUME NEW i \in 1..(c + 1), NEW j \in 1..(c + 1), i < j PROVE f[i] < f[j]
      <3>1. i \in 1..c /\ (j \in 1..c \/ j = c + 1)
        BY <1>2, <2>2
      <3>2. Nth(I, i) \in 1..n /\ f[i] = Nth(I, i)
        <4>1. Nth(I, i) \in 1..n /\ c \in Nat /\ i \in 1..c
          BY <1>2, <3>1
        <4>2. i # c + 1
          BY <4>1
        <4> QED BY <4>1, <4>2
      <3>3. CASE j = c + 1
        <4>1. f[j] = n + 1
          BY <3>3
        <4> QED BY <1>1, <3>2, <4>1
      <3>4. CASE j \in 1..c
        <4>1. f[j] = Nth(I, j)
          <5>1. j # c + 1
            BY <1>2, <3>4
          <5> QED BY <5>1
        <4> QED BY <1>2, <2>2, <3>1, <3>2, <3>4, <4>1
      <3> QED BY <3>1, <3>3, <3>4
    <2>3. ASSUME NEW k \in J PROVE \E i \in 1..(c + 1) : f[i] = k
      <3>1. CASE k = n + 1
        <4>1. c + 1 \in 1..(c + 1) /\ f[c + 1] = n + 1
          BY <1>2
        <4> QED BY <3>1, <4>1
      <3>2. CASE k \in I
        <4>1. PICK i \in 1..c : Nth(I, i) = k
          BY <1>2, <3>2
        <4>2. i \in 1..(c + 1) /\ i # c + 1
          BY <1>2
        <4>3. f[i] = k
          BY <4>1, <4>2
        <4> QED BY <4>2, <4>3
      <3> QED BY <3>1, <3>2
    <2>4. At(p, r) = J /\ J \in SUBSET (DOMAIN r) /\ c + 1 \in Nat
      BY <1>2, <1>3, <1>4, <1>6
    <2> HIDE DEF f, J
    <2>5. Picked(r, J) = [i \in 1..(c + 1) |-> r[f[i]]]
      <3>1. Counts(f, c + 1, J)
        BY <2>1, <2>2, <2>3 DEF Counts
      <3> QED BY <1>1, <2>4, <3>1, PickedBy
    <2>6. /\ \A i \in 1..c : r[f[i]] = w[i]
          /\ r[f[c + 1]] = m
      <3>1. \A i \in 1..c : i \in 1..(c + 1) /\ i # c + 1 /\ f[i] = Nth(I, i)
        BY <1>2 DEF f
      <3>2. f[c + 1] = n + 1
        BY <1>2 DEF f
      <3>3. \A i \in 1..c : Nth(I, i) \in 1..n /\ r[Nth(I, i)] = q[Nth(I, i)]
        BY <1>1, <1>2
      <3> QED BY <1>1, <1>2, <3>1, <3>2, <3>3
    <2>7. [i \in 1..(c + 1) |-> r[f[i]]] = Append(w, m)
      <3>1. Append(w, m) \in Seq(Messages) /\ Len(Append(w, m)) = c + 1 /\ DOMAIN Append(w, m) = 1..(c + 1)
            /\ (\A i \in 1..c : Append(w, m)[i] = w[i]) /\ Append(w, m)[c + 1] = m
        BY <1>2, AppendIs
      <3>2. \A i \in 1..(c + 1) : Append(w, m)[i] = r[f[i]]
        <4> TAKE i \in 1..(c + 1)
        <4>1. i \in 1..c \/ i = c + 1
          BY <1>2
        <4> QED BY <2>6, <3>1, <4>1
      <3>3. Append(w, m) = [i \in 1..(c + 1) |-> Append(w, m)[i]]
        BY <3>1, LenProperties
      <3> HIDE DEF f
      <3> QED BY <3>2, <3>3
    <2> QED BY <1>4, <1>6, <2>4, <2>5, <2>7 DEF r, w
  <1> QED BY <1>5, <1>6 DEF r, w

-----------------------------------------------------------------------------
(* One message is taken out.                                               *)

Onward(k, i) == IF k < i THEN k ELSE k + 1

LEMMA ForemostIs ==
    ASSUME NEW q \in Seq(Messages), q # <<>>
    PROVE  /\ Foremost(q) \in DOMAIN q
           /\ \A j \in DOMAIN q : \/ q[j].pri < q[Foremost(q)].pri
                                  \/ q[j].pri = q[Foremost(q)].pri /\ Foremost(q) <= j
  <1>1. /\ DOMAIN q = 1..Len(q) /\ Len(q) \in Nat \ {0}
        /\ \A j \in DOMAIN q : q[j].pri \in 0..2
    <2>1. DOMAIN q = 1..Len(q) /\ Len(q) \in Nat \ {0} /\ \A j \in DOMAIN q : q[j] \in Messages
      OBVIOUS
    <2>2. \A m \in Messages : m.pri \in 0..2
      BY DEF Messages
    <2> QED BY <2>1, <2>2
  <1> DEFINE P == {q[j].pri : j \in DOMAIN q}
  <1>2. P \in SUBSET (0..2) /\ P # {}
    <2>1. 1 \in DOMAIN q
      BY <1>1
    <2> QED BY <1>1, <2>1
  <1>3. PICK p \in P : \A k \in P : p >= k
    <2> HIDE DEF P
    <2> QED BY <1>2, Greatest
  <1>4. At(p, q) \in SUBSET Nat /\ At(p, q) # {}
    BY <1>1 DEF At
  <1>5. PICK i \in At(p, q) : \A k \in At(p, q) : i <= k
    BY <1>4, Least
  <1>6. i \in DOMAIN q /\ q[i].pri = p
    BY DEF At
  <1>7. ASSUME NEW j \in DOMAIN q PROVE q[j].pri < q[i].pri \/ (q[j].pri = q[i].pri /\ i <= j)
    <2>1. p >= q[j].pri /\ q[j].pri \in 0..2 /\ p \in 0..2
      BY <1>1, <1>2, <1>3
    <2>2. CASE q[j].pri = p
      BY <1>5, <1>6, <2>2 DEF At
    <2>3. CASE q[j].pri # p
      BY <1>6, <2>1, <2>3
    <2> QED BY <2>2, <2>3
  <1> QED BY <1>6, <1>7 DEF Foremost

LEMMA WithoutIs ==
    ASSUME NEW q \in Seq(Messages), NEW i \in DOMAIN q
    PROVE  /\ Without(q, i) \in Seq(Messages) /\ DOMAIN Without(q, i) = 1..(Len(q) - 1)
           /\ \A k \in DOMAIN Without(q, i) :
                 /\ Onward(k, i) \in DOMAIN q /\ Onward(k, i) # i
                 /\ Without(q, i)[k] = q[Onward(k, i)]
           /\ \A k, l \in DOMAIN Without(q, i) : k < l => Onward(k, i) < Onward(l, i)
           /\ \A j \in DOMAIN q : j # i => \E k \in DOMAIN Without(q, i) : Onward(k, i) = j
  <1>1. DOMAIN q = 1..Len(q) /\ Len(q) \in Nat /\ Len(q) - 1 \in Nat /\ i \in Nat
    OBVIOUS
  <1> DEFINE n == Len(q) - 1
  <1>2. Without(q, i) = [k \in 1..n |-> q[Onward(k, i)]]
    BY DEF Without, Onward
  <1>3. \A k \in 1..n : Onward(k, i) \in DOMAIN q /\ Onward(k, i) # i
    BY <1>1 DEF Onward
  <1>4. \A k, l \in 1..n : k < l => Onward(k, i) < Onward(l, i)
    BY <1>1 DEF Onward
  <1>5. ASSUME NEW j \in DOMAIN q, j # i PROVE \E k \in 1..n : Onward(k, i) = j
    <2>1. CASE j < i
      <3>1. j \in 1..n /\ Onward(j, i) = j
        BY <1>1, <2>1 DEF Onward
      <3> QED BY <3>1
    <2>2. CASE j > i
      <3>1. j - 1 \in 1..n /\ Onward(j - 1, i) = j
        BY <1>1, <2>2 DEF Onward
      <3> QED BY <3>1
    <2> QED BY <1>1, <1>5, <2>1, <2>2
  <1>6. \A k \in 1..n : q[Onward(k, i)] \in Messages
    BY <1>1, <1>3
  <1>7. n \in Nat
    BY <1>1
  <1>8. Without(q, i) \in Seq(Messages) /\ DOMAIN Without(q, i) = 1..n
    <2> HIDE DEF n
    <2> QED BY <1>2, <1>6, <1>7
  <1>9. \A k \in 1..n : Without(q, i)[k] = q[Onward(k, i)]
    <2> HIDE DEF n
    <2> QED BY <1>2
  <1> HIDE DEF n
  <1>10. DOMAIN Without(q, i) = 1..(Len(q) - 1)
    BY <1>8 DEF n
  <1> QED BY <1>3, <1>4, <1>5, <1>8, <1>9, <1>10

(* The first of its priority: it was the head of those that wait.          *)
LEMMA WaitingFirst ==
    ASSUME NEW q \in Seq(Messages), NEW i \in DOMAIN q,
           \A j \in DOMAIN q : q[j].pri = q[i].pri => i <= j
    PROVE  Waiting(q[i].pri, q) = <<q[i]>> \o Waiting(q[i].pri, Without(q, i))
  <1> DEFINE r == Without(q, i)
             p == q[i].pri
             I == At(p, r)
             c == Cardinality(I)
             w == Waiting(p, r)
             J == At(p, q)
             f == [k \in 1..(c + 1) |-> IF k = 1 THEN i ELSE Onward(Nth(I, k - 1), i)]
  <1>1. /\ r \in Seq(Messages)
        /\ \A k \in DOMAIN r : Onward(k, i) \in DOMAIN q /\ Onward(k, i) # i /\ r[k] = q[Onward(k, i)]
        /\ \A k, l \in DOMAIN r : k < l => Onward(k, i) < Onward(l, i)
        /\ \A j \in DOMAIN q : j # i => \E k \in DOMAIN r : Onward(k, i) = j
    BY WithoutIs
  <1>2. /\ I \in SUBSET (DOMAIN r) /\ c \in Nat /\ w \in Seq(Messages)
        /\ DOMAIN w = 1..c /\ Len(w) = c
        /\ \A k \in 1..c : Nth(I, k) \in I /\ w[k] = r[Nth(I, k)]
        /\ \A k, l \in 1..c : k < l => Nth(I, k) < Nth(I, l)
        /\ \A j \in I : \E k \in 1..c : Nth(I, k) = j
    BY <1>1, WaitingIs
  <1>3. Waiting(p, q) = Picked(q, J) /\ J \in SUBSET (DOMAIN q) /\ DOMAIN q = 1..Len(q) /\ Len(q) \in Nat
    BY WaitingIs
  <1>4. i \in J /\ \A j \in J : i <= j
    BY DEF At
  <1>5. \A k \in I : Onward(k, i) \in J /\ Onward(k, i) # i
    BY <1>1 DEF At
  <1>6. \A j \in J : j # i => \E k \in I : Onward(k, i) = j
    <2> SUFFICES ASSUME NEW j \in J, j # i PROVE \E k \in I : Onward(k, i) = j
      OBVIOUS
    <2>1. PICK k \in DOMAIN r : Onward(k, i) = j
      BY <1>1, <1>3
    <2>2. k \in I
      BY <1>1, <2>1 DEF At
    <2> QED BY <2>1, <2>2
  <1> HIDE DEF r, p, I, c, w, J
  <1>7. \A k \in 1..(c + 1) : k # 1 => k - 1 \in 1..c
    BY <1>2
  <1>8. Counts(f, c + 1, J)
    <2>1. f \in [1..(c + 1) -> J]
      BY <1>2, <1>4, <1>5, <1>7
    <2>2. ASSUME NEW k \in 1..(c + 1), NEW l \in 1..(c + 1), k < l PROVE f[k] < f[l]
      <3>1. l # 1 /\ l - 1 \in 1..c /\ f[l] = Onward(Nth(I, l - 1), i)
        BY <1>2, <1>7, <2>2
      <3>2. Nth(I, l - 1) \in I
        BY <1>2, <3>1
      <3>3. CASE k = 1
        <4>1. f[k] = i /\ f[l] \in J /\ f[l] # i
          BY <1>2, <1>5, <3>1, <3>2, <3>3
        <4>2. i <= f[l] /\ i \in Nat /\ f[l] \in Nat
          BY <1>3, <1>4, <4>1
        <4> HIDE DEF f
        <4> QED BY <4>1, <4>2
      <3>4. CASE k # 1
        <4>1. k - 1 \in 1..c /\ f[k] = Onward(Nth(I, k - 1), i)
          BY <1>2, <1>7, <3>4
        <4>2. k - 1 < l - 1
          BY <1>2, <2>2
        <4>3. Nth(I, k - 1) < Nth(I, l - 1) /\ Nth(I, k - 1) \in DOMAIN r /\ Nth(I, l - 1) \in DOMAIN r
          BY <1>2, <3>1, <4>1, <4>2
        <4> HIDE DEF f
        <4> QED BY <1>1, <3>1, <4>1, <4>3
      <3> QED BY <3>3, <3>4
    <2>3. ASSUME NEW j \in J PROVE \E k \in 1..(c + 1) : f[k] = j
      <3>1. CASE j = i
        <4>1. 1 \in 1..(c + 1) /\ f[1] = i
          BY <1>2
        <4> QED BY <3>1, <4>1
      <3>2. CASE j # i
        <4>1. PICK m \in I : Onward(m, i) = j
          BY <1>6, <3>2
        <4>2. PICK k \in 1..c : Nth(I, k) = m
          BY <1>2
        <4>3. k + 1 \in 1..(c + 1) /\ k + 1 # 1 /\ (k + 1) - 1 = k
          BY <1>2
        <4>4. f[k + 1] = j
          BY <4>1, <4>2, <4>3
        <4> QED BY <4>3, <4>4
      <3> QED BY <3>1, <3>2
    <2> HIDE DEF f
    <2> QED BY <2>1, <2>2, <2>3 DEF Counts
  <1>9. Picked(q, J) = [k \in 1..(c + 1) |-> q[f[k]]]
    <2>1. c + 1 \in Nat
      BY <1>2
    <2> HIDE DEF f
    <2> QED BY <1>3, <1>8, <2>1, PickedBy
  <1>10. /\ f[1] = i
         /\ \A k \in 1..(c + 1) : k # 1 => q[f[k]] = w[k - 1]
    <2>1. f[1] = i
      BY <1>2
    <2>2. ASSUME NEW k \in 1..(c + 1), k # 1 PROVE q[f[k]] = w[k - 1]
      <3>1. k - 1 \in 1..c /\ f[k] = Onward(Nth(I, k - 1), i)
        BY <1>7, <2>2
      <3>2. Nth(I, k - 1) \in DOMAIN r /\ w[k - 1] = r[Nth(I, k - 1)]
        BY <1>2, <3>1
      <3> HIDE DEF f
      <3> QED BY <1>1, <3>1, <3>2
    <2> HIDE DEF f
    <2> QED BY <2>1, <2>2
  <1> HIDE DEF f
  <1>11. q[i] \in Messages
    BY <1>3
  <1>12. LET v == <<q[i]>> \o w IN
         /\ DOMAIN v = 1..(c + 1) /\ v \in Seq(Messages) /\ v[1] = q[i]
         /\ \A k \in 1..(c + 1) : k # 1 => v[k] = w[k - 1]
    <2>1. <<q[i]>> \in Seq(Messages) /\ Len(<<q[i]>>) = 1 /\ <<q[i]>>[1] = q[i]
      BY <1>11
    <2>2. /\ <<q[i]>> \o w \in Seq(Messages) /\ Len(<<q[i]>> \o w) = 1 + c
          /\ \A k \in 1..(1 + c) : (<<q[i]>> \o w)[k] = IF k <= 1 THEN <<q[i]>>[k] ELSE w[k - 1]
      BY <1>2, <2>1, ConcatProperties
    <2>3. DOMAIN (<<q[i]>> \o w) = 1..(c + 1)
      BY <1>2, <2>2, LenProperties
    <2>4. (<<q[i]>> \o w)[1] = q[i]
      <3>1. 1 \in 1..(1 + c)
        BY <1>2
      <3> QED BY <2>1, <2>2, <3>1
    <2>5. ASSUME NEW k \in 1..(c + 1), k # 1 PROVE (<<q[i]>> \o w)[k] = w[k - 1]
      <3>1. k \in 1..(1 + c) /\ ~(k <= 1)
        BY <1>2, <2>5
      <3> QED BY <2>2, <3>1
    <2> QED BY <2>2, <2>3, <2>4, <2>5
  <1>13. \A k \in 1..(c + 1) : (<<q[i]>> \o w)[k] = q[f[k]]
    BY <1>10, <1>12
  <1>14. <<q[i]>> \o w = [k \in 1..(c + 1) |-> (<<q[i]>> \o w)[k]]
    <2>1. <<q[i]>> \o w \in [1..Len(<<q[i]>> \o w) -> Messages]
      BY <1>12, LenProperties
    <2> QED BY <1>12, <2>1
  <1>15. Waiting(p, q) = <<q[i]>> \o w
    BY <1>3, <1>9, <1>13, <1>14
  <1> QED BY <1>15 DEF w, p, r

(* Those of another priority do not notice.                                *)
LEMMA WaitingOther ==
    ASSUME NEW q \in Seq(Messages), NEW i \in DOMAIN q, NEW p, q[i].pri # p
    PROVE  Waiting(p, q) = Waiting(p, Without(q, i))
  <1> DEFINE r == Without(q, i)
             I == At(p, r)
             c == Cardinality(I)
             w == Waiting(p, r)
             J == At(p, q)
             f == [k \in 1..c |-> Onward(Nth(I, k), i)]
  <1>1. /\ r \in Seq(Messages)
        /\ \A k \in DOMAIN r : Onward(k, i) \in DOMAIN q /\ Onward(k, i) # i /\ r[k] = q[Onward(k, i)]
        /\ \A k, l \in DOMAIN r : k < l => Onward(k, i) < Onward(l, i)
        /\ \A j \in DOMAIN q : j # i => \E k \in DOMAIN r : Onward(k, i) = j
    BY WithoutIs
  <1>2. /\ I \in SUBSET (DOMAIN r) /\ c \in Nat /\ w \in Seq(Messages)
        /\ DOMAIN w = 1..c /\ Len(w) = c
        /\ \A k \in 1..c : Nth(I, k) \in I /\ w[k] = r[Nth(I, k)]
        /\ \A k, l \in 1..c : k < l => Nth(I, k) < Nth(I, l)
        /\ \A j \in I : \E k \in 1..c : Nth(I, k) = j
    BY <1>1, WaitingIs
  <1>3. Waiting(p, q) = Picked(q, J) /\ J \in SUBSET (DOMAIN q) /\ i \notin J
    BY WaitingIs DEF At
  <1>4. \A k \in I : Onward(k, i) \in J
    BY <1>1 DEF At
  <1>5. \A j \in J : \E k \in I : Onward(k, i) = j
    <2> SUFFICES ASSUME NEW j \in J PROVE \E k \in I : Onward(k, i) = j
      OBVIOUS
    <2>1. PICK k \in DOMAIN r : Onward(k, i) = j
      BY <1>1, <1>3
    <2>2. k \in I
      BY <1>1, <2>1 DEF At
    <2> QED BY <2>1, <2>2
  <1> HIDE DEF r, I, c, w, J
  <1>6. Counts(f, c, J)
    <2>1. f \in [1..c -> J]
      BY <1>2, <1>4
    <2>2. \A k, l \in 1..c : k < l => f[k] < f[l]
      <3> SUFFICES ASSUME NEW k \in 1..c, NEW l \in 1..c, k < l PROVE f[k] < f[l]
        OBVIOUS
      <3>1. Nth(I, k) < Nth(I, l) /\ Nth(I, k) \in DOMAIN r /\ Nth(I, l) \in DOMAIN r
        BY <1>2
      <3>2. f[k] = Onward(Nth(I, k), i) /\ f[l] = Onward(Nth(I, l), i)
        OBVIOUS
      <3> HIDE DEF f
      <3> QED BY <1>1, <3>1, <3>2
    <2>3. \A j \in J : \E k \in 1..c : f[k] = j
      <3> SUFFICES ASSUME NEW j \in J PROVE \E k \in 1..c : f[k] = j
        OBVIOUS
      <3>1. PICK m \in I : Onward(m, i) = j
        BY <1>5
      <3>2. PICK k \in 1..c : Nth(I, k) = m
        BY <1>2
      <3> QED BY <3>1, <3>2
    <2> HIDE DEF f
    <2> QED BY <2>1, <2>2, <2>3 DEF Counts
  <1>7. Picked(q, J) = [k \in 1..c |-> q[f[k]]]
    <2> HIDE DEF f
    <2> QED BY <1>2, <1>3, <1>6, PickedBy
  <1>8. \A k \in 1..c : q[f[k]] = w[k]
    <2> TAKE k \in 1..c
    <2>1. f[k] = Onward(Nth(I, k), i) /\ Nth(I, k) \in DOMAIN r /\ w[k] = r[Nth(I, k)]
      BY <1>2
    <2> HIDE DEF f
    <2> QED BY <1>1, <2>1
  <1> HIDE DEF f
  <1>9. w = [k \in 1..c |-> w[k]]
    BY <1>2, LenProperties
  <1>10. Waiting(p, q) = w
    BY <1>3, <1>7, <1>8, <1>9
  <1> QED BY <1>10 DEF w, r

-----------------------------------------------------------------------------
(* What tcp_send_queue does to the box o: out leaves, b remains.           *)

Boxes == [queue : Seq(Messages), owed : Int, since : Int, sent : Seq(Messages)]
Peak  == Limit - 1 + MaxCost

\* What is owed has been owed since the last message left, at least.
Debts(o) == o.owed + o.since <= Peak

InOrder(out)   == \A i, j \in DOMAIN out : i < j => out[i].pri >= out[j].pri
Before(out, q) == \A i \in DOMAIN out, j \in DOMAIN q : out[i].pri >= q[j].pri
Among(r, q)    == \A j \in DOMAIN r : \E i \in DOMAIN q : r[j] = q[i]
Split(q, out, r) == \A p \in 0..2 : Waiting(p, q) = Waiting(p, out) \o Waiting(p, r)

Moved(o, out, b) ==
    /\ out \in Seq(Messages) /\ b \in Boxes /\ b.sent = o.sent \o out
    /\ InOrder(out) /\ Before(out, b.queue) /\ Split(o.queue, out, b.queue) /\ Among(b.queue, o.queue)
    /\ Debts(b)
    /\ out = <<>> => b = o
    /\ out # <<>> => b.owed <= Peak

Stuck(o) == o.queue = <<>> \/ Stops(o)

LEMMA MessageIs ==
    ASSUME NEW m \in Messages
    PROVE  m.pri \in 0..2 /\ m.cost \in 2..MaxCost /\ m.cost \in Nat /\ m.n \in Nat
  BY ServerAssumption DEF Messages

LEMMA BoxIs ==
    ASSUME NEW o \in Boxes
    PROVE  /\ o.queue \in Seq(Messages) /\ o.owed \in Int /\ o.since \in Int /\ o.sent \in Seq(Messages)
           /\ o = [queue |-> o.queue, owed |-> o.owed, since |-> o.since, sent |-> o.sent]
  BY DEF Boxes

LEMMA PeakIs == Peak \in Nat /\ MaxCost <= Peak /\ Limit \in Nat /\ MaxCost \in Nat
  BY ServerAssumption DEF Peak

LEMMA Associate ==
    ASSUME NEW u \in Seq(Messages), NEW v \in Seq(Messages), NEW w \in Seq(Messages)
    PROVE  (u \o v) \o w = u \o (v \o w)
  BY ConcatAssociative

LEMMA NoneIs ==
    ASSUME NEW q \in Seq(Messages), DOMAIN q = {}
    PROVE  q = <<>>
  <1>1. 1 \notin 1..Len(q) /\ Len(q) \in Nat
    OBVIOUS
  <1>2. Len(q) = 0
    BY <1>1
  <1> QED BY <1>2, EmptySeq

LEMMA SplitMore ==
    ASSUME NEW q, NEW out \in Seq(Messages), NEW r \in Seq(Messages), Split(q, out, r),
           NEW i \in DOMAIN r, \A j \in DOMAIN r : r[j].pri = r[i].pri => i <= j
    PROVE  Split(q, Append(out, r[i]), Without(r, i))
  <1> DEFINE m == r[i]
             left == Without(r, i)
  <1>1. m \in Messages /\ left \in Seq(Messages)
    BY WithoutIs
  <1> SUFFICES ASSUME NEW p \in 0..2
               PROVE  Waiting(p, q) = Waiting(p, Append(out, m)) \o Waiting(p, left)
    BY DEF Split
  <1>2. Waiting(p, q) = Waiting(p, out) \o Waiting(p, r)
    BY DEF Split
  <1>3. Waiting(p, Append(out, m)) = IF m.pri = p THEN Append(Waiting(p, out), m) ELSE Waiting(p, out)
    BY <1>1, WaitingAppend
  <1>4. CASE m.pri = p
    <2>1. Waiting(p, r) = <<m>> \o Waiting(p, left)
      BY <1>4, WaitingFirst
    <2>2. Waiting(p, out) \in Seq(Messages) /\ Waiting(p, left) \in Seq(Messages) /\ <<m>> \in Seq(Messages)
      BY <1>1, WaitingIs
    <2> HIDE DEF m, left
    <2>3. Append(Waiting(p, out), m) = Waiting(p, out) \o <<m>>
      BY <1>1, <2>2, AppendIsConcat
    <2>4. (Waiting(p, out) \o <<m>>) \o Waiting(p, left) = Waiting(p, out) \o (<<m>> \o Waiting(p, left))
      BY <2>2, ConcatAssociative
    <2> QED BY <1>2, <1>3, <1>4, <2>1, <2>3, <2>4
  <1>5. CASE m.pri # p
    <2>1. Waiting(p, r) = Waiting(p, left)
      BY <1>5, WaitingOther
    <2> QED BY <1>2, <1>3, <1>5, <2>1
  <1> QED BY <1>4, <1>5

LEMMA SendOneMoves ==
    ASSUME NEW o \in Boxes, NEW b, NEW out, Moved(o, out, b), ~Stuck(b)
    PROVE  \E more : Moved(o, more, SendOne(b)) /\ more # <<>>
  <1> DEFINE q == b.queue
             i == Foremost(q)
             m == q[i]
             left == Without(q, i)
             more == Append(out, m)
             c == SendOne(b)
  <1>1. /\ b \in Boxes /\ q \in Seq(Messages) /\ q # <<>> /\ out \in Seq(Messages)
        /\ b.owed \in Int /\ b.since \in Int /\ b.sent \in Seq(Messages)
    BY BoxIs DEF Moved, Stuck
  <1>2. i \in DOMAIN q /\ \A j \in DOMAIN q : q[j].pri < m.pri \/ (q[j].pri = m.pri /\ i <= j)
    BY <1>1, ForemostIs
  <1>3. m \in Messages /\ left \in Seq(Messages)
    BY <1>1, <1>2, WithoutIs
  <1>4. \A j \in DOMAIN q : q[j] \in Messages /\ q[j].pri \in 0..2
    BY <1>1, MessageIs
  <1>5. \A j \in DOMAIN left : \E k \in DOMAIN q : left[j] = q[k]
    BY <1>1, <1>2, WithoutIs
  <1>6. c = [queue |-> left, owed |-> (IF Owing(b) >= Limit THEN 0 ELSE Owing(b)) + m.cost,
             since |-> 0, sent |-> Append(b.sent, m)]
    BY DEF SendOne
  <1>7. (IF Owing(b) >= Limit THEN 0 ELSE Owing(b)) + m.cost <= Peak
        /\ (IF Owing(b) >= Limit THEN 0 ELSE Owing(b)) + m.cost \in Int
    <2>1. Owing(b) \in Nat
      BY <1>1 DEF Owing
    <2>2. m.cost \in 2..MaxCost /\ MaxCost \in Nat /\ Limit \in Nat \ {0}
      BY <1>3, MessageIs, ServerAssumption
    <2> HIDE DEF m
    <2> QED BY <2>1, <2>2 DEF Peak
  <1>8. more \in Seq(Messages) /\ more # <<>> /\ DOMAIN out = 1..Len(out) /\ DOMAIN more = 1..(Len(out) + 1) /\ Len(out) \in Nat
        /\ (\A k \in 1..Len(out) : more[k] = out[k]) /\ more[Len(out) + 1] = m
    <2> HIDE DEF m
    <2> QED BY <1>1, <1>3, AppendIs, AppendProperties
  <1>9. c \in Boxes /\ c.queue = left /\ c.owed <= Peak /\ Debts(c) /\ c.sent = Append(b.sent, m)
    <2>1. Append(b.sent, m) \in Seq(Messages)
      BY <1>1, <1>3, AppendIs
    <2>2. c \in Boxes /\ c.queue = left /\ c.owed <= Peak /\ c.since = 0 /\ c.sent = Append(b.sent, m) /\ c.owed \in Int
      <3> HIDE DEF c, m, left
      <3> QED BY <1>3, <1>6, <1>7, <2>1 DEF Boxes
    <2> HIDE DEF c
    <2> QED BY <2>2 DEF Debts
  <1>10. Split(o.queue, more, left)
    <2>1. \A j \in DOMAIN q : q[j].pri = q[i].pri => i <= j
      BY <1>2, <1>4
    <2>2. Split(o.queue, out, q)
      BY DEF Moved
    <2> QED BY <1>1, <1>2, <2>1, <2>2, SplitMore
  <1>11. InOrder(out) /\ Before(out, q) /\ Among(q, o.queue) /\ b.sent = o.sent \o out
    BY DEF Moved
  <1> HIDE DEF c, left, more
  <1>12. InOrder(more)
    <2> SUFFICES ASSUME NEW k \in DOMAIN more, NEW l \in DOMAIN more, k < l
                 PROVE  more[k].pri >= more[l].pri
      BY DEF InOrder
    <2>1. k \in 1..Len(out) /\ (l \in 1..Len(out) \/ l = Len(out) + 1)
      BY <1>8
    <2>2. CASE l \in 1..Len(out)
      <3>1. out[k].pri >= out[l].pri
        BY <1>8, <1>11, <2>1, <2>2 DEF InOrder
      <3> QED BY <1>8, <2>1, <2>2, <3>1
    <2>3. CASE l = Len(out) + 1
      <3>1. out[k].pri >= m.pri
        BY <1>2, <1>8, <1>11, <2>1 DEF Before
      <3> QED BY <1>8, <2>1, <2>3, <3>1
    <2> QED BY <2>1, <2>2, <2>3
  <1>13. Before(more, left)
    <2> SUFFICES ASSUME NEW k \in DOMAIN more, NEW j \in DOMAIN left
                 PROVE  more[k].pri >= left[j].pri
      BY DEF Before
    <2>1. PICK l \in DOMAIN q : left[j] = q[l]
      BY <1>5
    <2>2. k \in 1..Len(out) \/ k = Len(out) + 1
      BY <1>8
    <2>3. CASE k \in 1..Len(out)
      <3>1. out[k].pri >= q[l].pri
        BY <1>8, <1>11, <2>3 DEF Before
      <3> QED BY <1>8, <2>1, <2>3, <3>1
    <2>4. CASE k = Len(out) + 1
      <3>1. m.pri >= q[l].pri
        BY <1>2, <1>4
      <3> QED BY <1>8, <2>1, <2>4, <3>1
    <2> QED BY <2>2, <2>3, <2>4
  <1>14. Among(left, o.queue)
    <2> SUFFICES ASSUME NEW j \in DOMAIN left PROVE \E l \in DOMAIN o.queue : left[j] = o.queue[l]
      BY DEF Among
    <2>1. PICK k \in DOMAIN q : left[j] = q[k]
      BY <1>5
    <2>2. PICK l \in DOMAIN o.queue : q[k] = o.queue[l]
      BY <1>11 DEF Among
    <2> QED BY <2>1, <2>2
  <1>15. c.sent = o.sent \o more
    <2> DEFINE one == <<m>>
    <2>1. o.sent \in Seq(Messages) /\ out \in Seq(Messages) /\ one \in Seq(Messages)
      BY <1>1, <1>3, BoxIs
    <2> HIDE DEF m
    <2>2. Append(b.sent, m) = b.sent \o one /\ more = out \o one
      BY <1>1, <1>3, AppendIsConcat DEF more
    <2> HIDE DEF one
    <2>3. (o.sent \o out) \o one = o.sent \o (out \o one)
      BY <2>1, Associate
    <2> QED BY <1>9, <1>11, <2>2, <2>3
  <1>16. Moved(o, more, c)
    BY <1>8, <1>9, <1>10, <1>12, <1>13, <1>14, <1>15 DEF Moved
  <1> QED BY <1>8, <1>16 DEF c

(* Nothing has left yet.                                                   *)
LEMMA NothingMoved ==
    ASSUME NEW o \in Boxes, Debts(o)
    PROVE  Moved(o, <<>>, o)
  <1>1. <<>> \in Seq(Messages) /\ DOMAIN <<>> = {} /\ o.queue \in Seq(Messages) /\ o.sent \in Seq(Messages)
    BY BoxIs
  <1>2. InOrder(<<>>) /\ Before(<<>>, o.queue) /\ Among(o.queue, o.queue)
    BY <1>1 DEF InOrder, Before, Among
  <1>3. Split(o.queue, <<>>, o.queue)
    <2> SUFFICES ASSUME NEW p \in 0..2 PROVE Waiting(p, o.queue) = Waiting(p, <<>>) \o Waiting(p, o.queue)
      BY DEF Split
    <2>1. Waiting(p, <<>>) = <<>> /\ Waiting(p, o.queue) \in Seq(Messages)
      BY <1>1, WaitingNone, WaitingIs
    <2> QED BY <2>1, ConcatEmptySeq
  <1>4. o.sent = o.sent \o <<>>
    BY <1>1, ConcatEmptySeq
  <1> QED BY <1>1, <1>2, <1>3, <1>4 DEF Moved

(* The whole loop: what leaves is the front of each priority, and nothing  *)
(* leaves only if there is nothing, or it has to wait.                     *)
LEMMA SendingMoves ==
    ASSUME NEW o \in Boxes, Debts(o)
    PROVE  \E out : Moved(o, out, Sending(o)) /\ (out = <<>> => Stuck(o))
  <1> DEFINE S == {b \in Boxes : \E out : Moved(o, out, b) /\ (out = <<>> => Stuck(o))}
  <1>1. Moved(o, <<>>, o)
    BY NothingMoved
  <1>2. o.queue \in Seq(Messages) /\ Len(o.queue) \in Nat /\ (Len(o.queue) = 0 => o.queue = <<>>)
    <2>1. o.queue \in Seq(Messages)
      BY BoxIs
    <2> QED BY <2>1, EmptySeq
  <1>3. \A b : OneMore(b) = IF Stuck(b) THEN b ELSE SendOne(b)
    BY DEF OneMore, Stuck
  <1>4. OneMore(o) \in S
    <2>1. CASE Stuck(o)
      <3>1. OneMore(o) = o
        BY <1>3, <2>1
      <3> QED BY <1>1, <2>1, <3>1
    <2>2. CASE ~Stuck(o)
      <3>1. OneMore(o) = SendOne(o)
        BY <1>3, <2>2
      <3>2. PICK more : Moved(o, more, SendOne(o)) /\ more # <<>>
        BY <1>1, <2>2, SendOneMoves
      <3>3. SendOne(o) \in Boxes
        BY <3>2 DEF Moved
      <3> QED BY <3>1, <3>2, <3>3
    <2> QED BY <2>1, <2>2
  <1>5. ASSUME NEW b \in S PROVE OneMore(b) \in S
    <2>1. CASE Stuck(b)
      <3>1. OneMore(b) = b
        BY <1>3, <2>1
      <3> QED BY <3>1
    <2>2. CASE ~Stuck(b)
      <3>1. OneMore(b) = SendOne(b)
        BY <1>3, <2>2
      <3>2. PICK out : Moved(o, out, b)
        OBVIOUS
      <3>3. PICK more : Moved(o, more, SendOne(b)) /\ more # <<>>
        BY <2>2, <3>2, SendOneMoves
      <3>4. SendOne(b) \in Boxes
        BY <3>3 DEF Moved
      <3> QED BY <3>1, <3>3, <3>4
    <2> QED BY <2>1, <2>2
  <1>6. Len(o.queue) = 0 => OneMore(o) = o
    BY <1>2, <1>3 DEF Stuck
  <1>7. Sending(o) \in S
    <2> HIDE DEF S
    <2> QED BY <1>2, <1>4, <1>5, <1>6, SendingIs
  <1> QED BY <1>7

-----------------------------------------------------------------------------
(* The tags.  Of the timeouts that are pending, those no tag names are at  *)
(* most as many as attempts have ended, so that there is a tag for the     *)
(* next one.                                                               *)

IdsOf(T) == {t.id : t \in T}
Tagged(T, g, n) ==
    /\ T \subseteq Timeouts /\ g \in Ids \cup {0}
    /\ \A t, u \in T : t.id = u.id => t = u
    /\ Cardinality(IdsOf(T) \ {g}) <= n

LEMMA IdsIs == IsFiniteSet(Ids) /\ Cardinality(Ids) = MaxConnects + 1 /\ 0 \notin Ids
  <1>1. MaxConnects + 1 \in Nat
    BY ServerAssumption
  <1> QED BY <1>1, FS_Interval DEF Ids

LEMMA IdsOfIs ==
    ASSUME NEW T \in SUBSET Timeouts
    PROVE  /\ IdsOf(T) \subseteq Ids /\ IsFiniteSet(IdsOf(T)) /\ Cardinality(IdsOf(T)) \in Nat
           /\ \A g : IsFiniteSet(IdsOf(T) \ {g}) /\ Cardinality(IdsOf(T) \ {g}) \in Nat
           /\ \A g : Cardinality(IdsOf(T)) = Cardinality(IdsOf(T) \ {g}) + (IF g \in IdsOf(T) THEN 1 ELSE 0)
  <1>1. IdsOf(T) \subseteq Ids
    BY DEF IdsOf, Timeouts
  <1>2. IsFiniteSet(IdsOf(T))
    BY <1>1, IdsIs, FS_Subset
  <1>3. Cardinality(IdsOf(T)) \in Nat
    BY <1>2, FS_CardinalityType
  <1>4. ASSUME NEW g
        PROVE  IsFiniteSet(IdsOf(T) \ {g}) /\ Cardinality(IdsOf(T) \ {g}) \in Nat
               /\ Cardinality(IdsOf(T)) = Cardinality(IdsOf(T) \ {g}) + (IF g \in IdsOf(T) THEN 1 ELSE 0)
    <2>1. IsFiniteSet(IdsOf(T) \ {g}) /\ Cardinality(IdsOf(T) \ {g}) = IF g \in IdsOf(T) THEN Cardinality(IdsOf(T)) - 1 ELSE Cardinality(IdsOf(T))
      BY <1>2, FS_RemoveElement
    <2>2. Cardinality(IdsOf(T) \ {g}) \in Nat
      BY <2>1, FS_CardinalityType
    <2> QED BY <1>3, <2>1, <2>2
  <1> QED BY <1>1, <1>2, <1>3, <1>4

\* A tag is left, if there are not too many.
LEMMA FreeIs ==
    ASSUME NEW s, NEW n \in Nat, Tagged(s.timers, s.tag, n),
           n <= MaxConnects, s.tag = 0 \/ n < MaxConnects
    PROVE  FreeId(s) \in Ids /\ FreeId(s) # s.tag /\ FreeId(s) \notin IdsOf(s.timers)
  <1> DEFINE X == (IdsOf(s.timers) \ {s.tag}) \cup (IF s.tag = 0 THEN {} ELSE {s.tag})
  <1>1. /\ IsFiniteSet(IdsOf(s.timers) \ {s.tag}) /\ Cardinality(IdsOf(s.timers) \ {s.tag}) \in Nat
        /\ Cardinality(IdsOf(s.timers) \ {s.tag}) <= n /\ IdsOf(s.timers) \subseteq Ids
    BY IdsOfIs DEF Tagged
  <1>2. IsFiniteSet(X) /\ Cardinality(X) <= MaxConnects /\ Cardinality(X) \in Nat
    <2>1. CASE s.tag = 0
      <3>1. X = IdsOf(s.timers) \ {s.tag}
        BY <2>1
      <3>2. Cardinality(IdsOf(s.timers) \ {s.tag}) <= MaxConnects
        BY <1>1, ServerAssumption
      <3> QED BY <1>1, <3>1, <3>2
    <2>2. CASE s.tag # 0
      <3>1. X = (IdsOf(s.timers) \ {s.tag}) \cup {s.tag} /\ s.tag \notin (IdsOf(s.timers) \ {s.tag})
        BY <2>2
      <3>2. IsFiniteSet(X) /\ Cardinality(X) = Cardinality(IdsOf(s.timers) \ {s.tag}) + 1
        BY <1>1, <3>1, FS_AddElement
      <3>3. n < MaxConnects
        BY <2>2
      <3> HIDE DEF X
      <3> QED BY <1>1, <3>2, <3>3, ServerAssumption
    <2> QED BY <2>1, <2>2
  <1>3. \E i \in Ids : i \notin X
    <2> SUFFICES ASSUME Ids \subseteq X PROVE FALSE
      OBVIOUS
    <2>1. Cardinality(Ids) <= Cardinality(X)
      <3> HIDE DEF X
      <3> QED BY <1>2, FS_Subset
    <2> HIDE DEF X
    <2> QED BY <1>2, <2>1, IdsIs, ServerAssumption
  <1>4. PICK i \in Ids : i \notin X
    BY <1>3
  <1>5. i # s.tag /\ i \notin IdsOf(s.timers)
    BY <1>4, IdsIs
  <1>6. \E j \in Ids : j # s.tag /\ \A t \in s.timers : t.id # j
    BY <1>5 DEF IdsOf
  <1>7. FreeId(s) \in Ids /\ FreeId(s) # s.tag /\ \A t \in s.timers : t.id # FreeId(s)
    BY <1>6 DEF FreeId
  <1> QED BY <1>7 DEF IdsOf

LEMMA TaggedArm ==
    ASSUME NEW s, NEW n \in Nat, Tagged(s.timers, s.tag, n), NEW kind \in {"reconnect", "cycle"}, IsServer(s),
           n <= MaxConnects, s.tag = 0 \/ n < MaxConnects
    PROVE  LET a == Arm(s, kind)
           IN  Tagged(a.timers, a.tag, IF s.tag = 0 THEN n ELSE n + 1)
  <1> DEFINE i == FreeId(s)
             T == s.timers
             U == T \cup {[id |-> i, kind |-> kind]}
  <1>1. i \in Ids /\ i # s.tag /\ i \notin IdsOf(T)
    BY FreeIs
  <1>2. Arm(s, kind).timers = U /\ Arm(s, kind).tag = i
    <2>1. Arm(s, kind) = [s EXCEPT !.timers = U, !.tag = i]
      BY DEF Arm
    <2> HIDE DEF U, i
    <2> QED BY <2>1 DEF IsServer, Fields
  <1> HIDE DEF i
  <1>3. T \in SUBSET Timeouts /\ (\A t, u \in T : t.id = u.id => t = u)
        /\ Cardinality(IdsOf(T) \ {s.tag}) <= n /\ s.tag \in Ids \cup {0}
    BY DEF Tagged
  <1>4. U \subseteq Timeouts
    BY <1>1, <1>3 DEF Timeouts
  <1>5. \A t, u \in U : t.id = u.id => t = u
    BY <1>1, <1>3 DEF IdsOf
  <1>6. IdsOf(U) \ {i} = IdsOf(T)
    BY <1>1 DEF IdsOf
  <1>7. Cardinality(IdsOf(T)) <= IF s.tag = 0 THEN n ELSE n + 1
    <2>1. IdsOf(T) \subseteq Ids /\ Cardinality(IdsOf(T)) \in Nat /\ Cardinality(IdsOf(T) \ {s.tag}) \in Nat
          /\ Cardinality(IdsOf(T)) = Cardinality(IdsOf(T) \ {s.tag}) + (IF s.tag \in IdsOf(T) THEN 1 ELSE 0)
      BY <1>3, IdsOfIs
    <2>2. s.tag = 0 => s.tag \notin IdsOf(T)
      BY <2>1, IdsIs
    <2> HIDE DEF T
    <2> QED BY <1>3, <2>1, <2>2
  <1> HIDE DEF U
  <1> QED BY <1>1, <1>2, <1>4, <1>5, <1>6, <1>7 DEF Tagged

LEMMA TaggedLess ==
    ASSUME NEW T, NEW U \in SUBSET T, NEW g, NEW n \in Nat, Tagged(T, g, n)
    PROVE  Tagged(U, g, n)
  <1>1. T \in SUBSET Timeouts
    BY DEF Tagged
  <1>2. IdsOf(U) \ {g} \in SUBSET (IdsOf(T) \ {g})
    BY DEF IdsOf
  <1>3. IsFiniteSet(IdsOf(T) \ {g}) /\ Cardinality(IdsOf(T) \ {g}) \in Nat /\ Cardinality(IdsOf(T) \ {g}) <= n
    BY <1>1, IdsOfIs DEF Tagged
  <1>4. Cardinality(IdsOf(U) \ {g}) <= Cardinality(IdsOf(T) \ {g}) /\ IsFiniteSet(IdsOf(U) \ {g})
    BY <1>2, <1>3, FS_Subset
  <1>5. Cardinality(IdsOf(U) \ {g}) \in Nat
    BY <1>4, FS_CardinalityType
  <1>6. Cardinality(IdsOf(U) \ {g}) <= n
    BY <1>3, <1>4, <1>5
  <1> QED BY <1>6 DEF Tagged

\* The one that is named goes, with its name.
LEMMA TaggedDisarmed ==
    ASSUME NEW s, NEW n \in Nat, Tagged(s.timers, s.tag, n), IsServer(s)
    PROVE  Disarmed(s).tag = 0 /\ Tagged(Disarmed(s).timers, 0, n)
  <1> DEFINE T == {t \in s.timers : t.id # s.tag}
  <1>1. Disarmed(s).timers = T /\ Disarmed(s).tag = 0
    BY DisarmedIs
  <1>2. IdsOf(T) \ {0} = IdsOf(s.timers) \ {s.tag}
    <2>1. s.timers \in SUBSET Timeouts
      BY DEF Tagged
    <2>2. 0 \notin IdsOf(s.timers)
      BY <2>1, IdsOfIs, IdsIs
    <2> QED BY <2>2 DEF IdsOf
  <1>3. T \subseteq s.timers
    OBVIOUS
  <1> HIDE DEF T
  <1> QED BY <1>1, <1>2, <1>3 DEF Tagged

\* One fires and takes the name with it, whichever it was.
LEMMA TaggedFired ==
    ASSUME NEW T, NEW t \in T, NEW g, NEW n \in Nat, Tagged(T, g, n)
    PROVE  Tagged(T \ {t}, 0, n)
  <1> DEFINE U == T \ {t}
  <1>1. T \in SUBSET Timeouts /\ U \in SUBSET Timeouts /\ (\A u \in T : u.id = t.id => u = t) /\ g \in Ids \cup {0}
        /\ Cardinality(IdsOf(T) \ {g}) <= n /\ (\A v, u \in T : v.id = u.id => v = u)
    BY DEF Tagged
  <1>2. IdsOf(U) = IdsOf(T) \ {t.id} /\ t.id \in IdsOf(T)
    BY <1>1 DEF IdsOf
  <1>3. IdsOf(U) \ {0} = IdsOf(U)
    <2>1. 0 \notin IdsOf(U)
      BY <1>1, IdsOfIs, IdsIs
    <2> QED BY <2>1
  <1>4. /\ Cardinality(IdsOf(T)) \in Nat /\ Cardinality(IdsOf(U)) \in Nat /\ Cardinality(IdsOf(T) \ {g}) \in Nat
        /\ Cardinality(IdsOf(T)) = Cardinality(IdsOf(T) \ {g}) + (IF g \in IdsOf(T) THEN 1 ELSE 0)
        /\ Cardinality(IdsOf(T)) = Cardinality(IdsOf(T) \ {t.id}) + (IF t.id \in IdsOf(T) THEN 1 ELSE 0)
    BY <1>1, IdsOfIs
  <1>5. Cardinality(IdsOf(U)) <= n
    <2> HIDE DEF U
    <2> QED BY <1>1, <1>2, <1>4
  <1> HIDE DEF U
  <1>6. Cardinality(IdsOf(U) \ {0}) <= n
    BY <1>3, <1>5
  <1>7. Tagged(U, 0, n)
    BY <1>1, <1>6 DEF Tagged, U
  <1> QED BY <1>7 DEF U

-----------------------------------------------------------------------------
(* What each function makes of a server.                                   *)

Plain(s) ==
    /\ IsServer(s) /\ s.conn \in {"off", "connecting", "connected", "freed"} /\ s.motd \in BOOLEAN
    /\ s.handlers \in Nat /\ s.said \in 0..(MaxSaid + 2) /\ s.born \in 0..MaxConnects
    /\ s.out \in Boxes /\ Debts(s.out)
    /\ s.out.queue # <<>> => s.handlers > 0
    /\ \A i \in DOMAIN s.out.queue : s.out.queue[i].n <= s.said

Busy(s) == IF Active(s) THEN 1 ELSE 0
Tags(s) == Tagged(s.timers, s.tag, s.born - Busy(s))

Sound(s) ==
    /\ Plain(s) /\ Tags(s)
    /\ s.conn # "connected" => s.out.queue = <<>>
    /\ Active(s) => s.born >= 1
    /\ s.conn = "connecting" => s.said = 0
    /\ s.conn = "connected" => s.said <= MaxSaid + 1

\* The fields that the queue does not know.
SameLife(s, t) ==
    IsServer(t) /\ t.conn = s.conn /\ t.motd = s.motd /\ t.tag = s.tag /\ t.timers = s.timers /\ t.born = s.born

LEMMA Emptied ==
    ASSUME NEW o \in Boxes, Debts(o)
    PROVE  LET e == [o EXCEPT !.queue = <<>>]
           IN  e \in Boxes /\ Debts(e) /\ e.queue = <<>> /\ e.sent = o.sent
  <1> DEFINE e == [o EXCEPT !.queue = <<>>]
  <1>1. o.queue \in Seq(Messages) /\ o.owed \in Int /\ o.since \in Int /\ o.sent \in Seq(Messages) /\ <<>> \in Seq(Messages)
        /\ o = [queue |-> o.queue, owed |-> o.owed, since |-> o.since, sent |-> o.sent]
    BY BoxIs
  <1>2. e = [queue |-> <<>>, owed |-> o.owed, since |-> o.since, sent |-> o.sent]
    BY <1>1
  <1> HIDE DEF e
  <1>3. e \in Boxes /\ e.queue = <<>> /\ e.sent = o.sent /\ e.owed = o.owed /\ e.since = o.since
    BY <1>1, <1>2 DEF Boxes
  <1>4. Debts(e)
    BY <1>3 DEF Debts
  <1> QED BY <1>3, <1>4 DEF e

LEMMA FlushIs ==
    ASSUME NEW s, Plain(s)
    PROVE  LET f == server_flush_queue(s)
           IN  /\ Plain(f) /\ SameLife(s, f) /\ f.said = s.said /\ f.handlers = s.handlers
               /\ f.out.queue = <<>> /\ f.out.sent = s.out.sent
  <1> DEFINE e == [s.out EXCEPT !.queue = <<>>]
             f == server_flush_queue(s)
  <1>1. e \in Boxes /\ Debts(e) /\ e.queue = <<>> /\ e.sent = s.out.sent
    BY Emptied DEF Plain
  <1>2. f = [s EXCEPT !.out = e]
    BY DEF server_flush_queue
  <1> HIDE DEF e, f
  <1>3. SameLife(s, f) /\ f.said = s.said /\ f.handlers = s.handlers /\ f.out = e
    BY <1>2 DEF Plain, IsServer, Fields, SameLife
  <1>4. DOMAIN f.out.queue = {}
    BY <1>1, <1>3
  <1>5. Plain(f)
    BY <1>1, <1>3, <1>4 DEF Plain, SameLife
  <1> QED BY <1>1, <1>3, <1>5 DEF f

LEMMA SendQueueIs ==
    ASSUME NEW s, Plain(s)
    PROVE  LET r == tcp_send_queue(s)
           IN  /\ Plain(r) /\ SameLife(s, r) /\ r.said = s.said /\ r.handlers = s.handlers
               /\ \E out : Moved(s.out, out, r.out) /\ (out = <<>> => Stuck(s.out))
  <1> DEFINE r == tcp_send_queue(s)
             b == Sending(s.out)
  <1>1. PICK out : Moved(s.out, out, b) /\ (out = <<>> => Stuck(s.out))
    BY SendingMoves DEF Plain
  <1>2. r = [s EXCEPT !.out = b]
    BY DEF tcp_send_queue
  <1> HIDE DEF b, r
  <1>3. SameLife(s, r) /\ r.said = s.said /\ r.handlers = s.handlers /\ r.out = b
    BY <1>2 DEF Plain, IsServer, Fields, SameLife
  <1>4. b \in Boxes /\ Debts(b) /\ Among(b.queue, s.out.queue)
    BY <1>1 DEF Moved
  <1>5. b.queue # <<>> => s.out.queue # <<>>
    <2> SUFFICES ASSUME s.out.queue = <<>> PROVE b.queue = <<>>
      OBVIOUS
    <2>1. b.queue \in Seq(Messages) /\ DOMAIN s.out.queue = {}
      BY <1>4, BoxIs
    <2>2. DOMAIN b.queue = {}
      BY <1>4, <2>1 DEF Among
    <2> QED BY <2>1, <2>2, NoneIs
  <1>6. \A i \in DOMAIN b.queue : b.queue[i].n <= s.said
    BY <1>4 DEF Plain, Among
  <1>7. Plain(r)
    BY <1>3, <1>4, <1>5, <1>6 DEF Plain, SameLife
  <1> QED BY <1>1, <1>3, <1>7 DEF r

Message(s, k) == [n |-> s.said + 1, pri |-> k.pri, cost |-> k.cost, of |-> s.born]
Given(s, k)   == [s.out EXCEPT !.queue = Append(@, Message(s, k))]

LEMMA GivenIs ==
    ASSUME NEW s, Plain(s), NEW k, k.pri \in 0..2, k.cost \in 2..MaxCost, s.said <= MaxSaid + 1, s.born >= 1
    PROVE  /\ Message(s, k) \in Messages
           /\ Given(s, k) \in Boxes /\ Debts(Given(s, k)) /\ Given(s, k).sent = s.out.sent
           /\ Given(s, k).queue = Append(s.out.queue, Message(s, k)) /\ Given(s, k).queue # <<>>
           /\ \A i \in DOMAIN Given(s, k).queue : Given(s, k).queue[i].n <= s.said + 1
  <1> DEFINE o == s.out
             m == Message(s, k)
             q == Append(o.queue, m)
             g == Given(s, k)
  <1>1. m \in Messages /\ m.n = s.said + 1
    <2>1. s.said + 1 \in 1..(MaxSaid + 2) /\ s.born \in 1..MaxConnects
      BY ServerAssumption DEF Plain
    <2> QED BY <2>1 DEF Messages, Message
  <1> HIDE DEF m
  <1>2. o.queue \in Seq(Messages) /\ o.owed \in Int /\ o.since \in Int /\ o.sent \in Seq(Messages)
        /\ o = [queue |-> o.queue, owed |-> o.owed, since |-> o.since, sent |-> o.sent]
    BY BoxIs DEF Plain
  <1>3. q \in Seq(Messages) /\ q # <<>>
    BY <1>1, <1>2, AppendProperties
  <1>4. \A i \in DOMAIN q : q[i].n <= s.said + 1
    <2>1. /\ DOMAIN o.queue = 1..Len(o.queue) /\ DOMAIN q = 1..(Len(o.queue) + 1) /\ Len(o.queue) \in Nat
          /\ \A i \in 1..Len(o.queue) : q[i] = o.queue[i]
          /\ q[Len(o.queue) + 1] = m
      BY <1>1, <1>2, AppendIs
    <2>2. s.said \in Nat /\ \A i \in DOMAIN o.queue : o.queue[i].n <= s.said /\ o.queue[i].n \in Nat
      BY <1>2, MessageIs, ServerAssumption DEF Plain
    <2> SUFFICES ASSUME NEW i \in DOMAIN q PROVE q[i].n <= s.said + 1
      OBVIOUS
    <2>3. CASE i \in 1..Len(o.queue)
      <3>1. q[i].n <= s.said /\ q[i].n \in Nat
        BY <2>1, <2>2, <2>3
      <3> QED BY <2>2, <3>1
    <2>4. CASE i = Len(o.queue) + 1
      BY <1>1, <2>1, <2>2, <2>4
    <2>5. i \in 1..Len(o.queue) \/ i = Len(o.queue) + 1
      BY <2>1
    <2> QED BY <2>3, <2>4, <2>5
  <1>5. g = [queue |-> q, owed |-> o.owed, since |-> o.since, sent |-> o.sent]
    <2>1. g = [o EXCEPT !.queue = q]
      BY DEF Given, m
    <2> HIDE DEF q, g
    <2> QED BY <1>2, <2>1
  <1>6. g \in Boxes /\ g.sent = o.sent /\ g.queue = q /\ g.owed = o.owed /\ g.since = o.since
    <2> HIDE DEF g, q
    <2> QED BY <1>2, <1>3, <1>5 DEF Boxes
  <1>7. Debts(g)
    <2> HIDE DEF g
    <2> QED BY <1>6 DEF Plain, Debts
  <1> QED BY <1>1, <1>3, <1>4, <1>6, <1>7 DEF m

LEMMA SendLenIs ==
    ASSUME NEW s, Plain(s), NEW k, k.pri \in 0..2, k.cost \in 2..MaxCost, s.said <= MaxSaid + 1, s.born >= 1
    PROVE  LET r == tcp_send_len(s, k)
           IN  /\ Plain(r) /\ SameLife(s, r) /\ r.said = s.said + 1
               /\ \E out : Moved(Given(s, k), out, r.out) /\ (out = <<>> => Stuck(Given(s, k)))
  <1> DEFINE g == Given(s, k)
             b == Sending(g)
             q == [s EXCEPT !.out.queue = Append(@, Message(s, k)), !.said = @ + 1]
             r == tcp_send_queue(q)
             t == tcp_send_len(s, k)
  <1>1. /\ g \in Boxes /\ Debts(g) /\ g.sent = s.out.sent /\ g.queue # <<>>
        /\ \A i \in DOMAIN g.queue : g.queue[i].n <= s.said + 1
    BY GivenIs
  <1>2. PICK out : Moved(g, out, b) /\ (out = <<>> => Stuck(g))
    BY <1>1, SendingMoves
  <1>3. IsServer(q) /\ SameLife(s, q) /\ q.out = g /\ q.said = s.said + 1 /\ q.handlers = s.handlers
    <2>1. q = [s EXCEPT !.out = g, !.said = s.said + 1]
      BY DEF Given, Plain, IsServer, Fields
    <2> HIDE DEF q, g
    <2> QED BY <2>1 DEF Plain, IsServer, Fields, SameLife
  <1>4. IsServer(r) /\ SameLife(s, r) /\ r.out = b /\ r.said = s.said + 1 /\ r.handlers = s.handlers
    <2>1. r = [q EXCEPT !.out = b]
      BY <1>3 DEF tcp_send_queue
    <2> HIDE DEF q, r, b
    <2> QED BY <1>3, <2>1 DEF IsServer, Fields, SameLife
  <1>5. t = [r EXCEPT !.handlers = IF Armed(s, r) THEN @ + 1 ELSE @]
    BY DEF tcp_send_len, Message
  <1> HIDE DEF r, q, b, g, t
  <1>6. IsServer(t) /\ SameLife(s, t) /\ t.out = b /\ t.said = s.said + 1
        /\ t.handlers = IF Armed(s, r) THEN s.handlers + 1 ELSE s.handlers
    BY <1>4, <1>5 DEF IsServer, Fields, SameLife
  <1>7. t.handlers \in Nat /\ (t.out.queue # <<>> => t.handlers > 0)
    <2>1. s.handlers \in Nat /\ (s.out.queue # <<>> => s.handlers > 0)
      BY DEF Plain
    <2>2. CASE s.out.queue # <<>>
      BY <1>6, <2>1, <2>2
    <2>3. CASE s.out.queue = <<>>
      <3>1. Armed(s, r) <=> b.queue # <<>>
        BY <1>4, <2>3 DEF Armed, Full
      <3> QED BY <1>6, <2>1, <3>1
    <2> QED BY <2>2, <2>3
  <1>8. b \in Boxes /\ Debts(b) /\ Among(b.queue, g.queue)
    BY <1>2 DEF Moved
  <1>9. \A i \in DOMAIN b.queue : b.queue[i].n <= s.said + 1
    BY <1>1, <1>8 DEF Among
  <1>10. s.said + 1 \in 0..(MaxSaid + 2)
    BY ServerAssumption DEF Plain
  <1>11. Plain(t)
    BY <1>6, <1>7, <1>8, <1>9, <1>10 DEF Plain, SameLife
  <1> QED BY <1>2, <1>6, <1>11 DEF t, g

-----------------------------------------------------------------------------
(* What Outbox promises, of two servers.                                   *)

Heads(u, w) == Len(u) <= Len(w) /\ u = SubSeq(w, 1, Len(u))

LEMMA HeadsIs ==
    ASSUME NEW u \in Seq(Messages), NEW w \in Seq(Messages), Len(u) <= Len(w),
           \A i \in 1..Len(u) : u[i] = w[i]
    PROVE  Heads(u, w)
  <1>1. Len(u) \in Nat /\ Len(w) \in Nat /\ u = [i \in 1..Len(u) |-> u[i]]
    BY LenProperties
  <1>2. SubSeq(w, 1, Len(u)) = [i \in 1..Len(u) |-> w[i]]
    <2> DEFINE n == Len(u)
    <2>1. n \in Nat /\ n <= Len(w)
      BY <1>1
    <2> HIDE DEF n
    <2>2. SubSeq(w, 1, n) = [i \in 1..n |-> w[i]]
      BY <2>1, SubSeqProperties
    <2> QED BY <2>2 DEF n
  <1>3. u = SubSeq(w, 1, Len(u))
    BY <1>1, <1>2
  <1> QED BY <1>3 DEF Heads

LEMMA ConcatIs ==
    ASSUME NEW u \in Seq(Messages), NEW v \in Seq(Messages)
    PROVE  /\ u \o v \in Seq(Messages) /\ Len(u) \in Nat /\ Len(v) \in Nat /\ Len(u \o v) = Len(u) + Len(v)
           /\ \A i \in 1..(Len(u) + Len(v)) : (u \o v)[i] = IF i <= Len(u) THEN u[i] ELSE v[i - Len(u)]
  BY ConcatProperties

LEMMA HeadOfConcat ==
    ASSUME NEW u \in Seq(Messages), NEW v \in Seq(Messages)
    PROVE  Heads(u, u \o v)
  <1>1. /\ u \o v \in Seq(Messages) /\ Len(u) \in Nat /\ Len(v) \in Nat /\ Len(u \o v) = Len(u) + Len(v)
        /\ \A i \in 1..(Len(u) + Len(v)) : (u \o v)[i] = IF i <= Len(u) THEN u[i] ELSE v[i - Len(u)]
    BY ConcatIs
  <1>2. Len(u) <= Len(u \o v) /\ \A i \in 1..Len(u) : u[i] = (u \o v)[i]
    BY <1>1
  <1> QED BY <1>1, <1>2, HeadsIs

LEMMA HeadOfAppend ==
    ASSUME NEW w \in Seq(Messages), NEW m \in Messages
    PROVE  Heads(w, Append(w, m))
  <1>1. Append(w, m) \in Seq(Messages) /\ Len(w) \in Nat /\ Len(Append(w, m)) = Len(w) + 1
        /\ \A i \in 1..Len(w) : Append(w, m)[i] = w[i]
    BY AppendIs
  <1>2. Len(w) <= Len(Append(w, m)) /\ \A i \in 1..Len(w) : w[i] = Append(w, m)[i]
    BY <1>1
  <1> QED BY <1>1, <1>2, HeadsIs

LEMMA HeadOfAny ==
    ASSUME NEW w \in Seq(Messages)
    PROVE  Heads(<<>>, w) /\ Heads(w, w)
  <1>1. <<>> \in Seq(Messages) /\ Len(<<>>) = 0 /\ Len(w) \in Nat
    OBVIOUS
  <1>2. Len(<<>>) <= Len(w) /\ Len(w) <= Len(w) /\ \A i \in 1..Len(<<>>) : FALSE
    BY <1>1
  <1>3. Heads(<<>>, w)
    <2>1. \A i \in 1..Len(<<>>) : <<>>[i] = w[i]
      BY <1>2
    <2> QED BY <1>1, <1>2, <2>1, HeadsIs
  <1>4. Heads(w, w)
    BY <1>2, HeadsIs
  <1> QED BY <1>3, <1>4

(* A last message was appended: all there was leaves, or what leaves was    *)
(* there.                                                                  *)
LEMMA AppendSplit ==
    ASSUME NEW w \in Seq(Messages), NEW m \in Messages, NEW u \in Seq(Messages), NEW v \in Seq(Messages),
           Append(w, m) = u \o v
    PROVE  Heads(w, u \o <<>>) \/ Heads(u, w)
  <1>1. /\ Len(u) \in Nat /\ Len(v) \in Nat /\ Len(u \o v) = Len(u) + Len(v)
        /\ \A i \in 1..(Len(u) + Len(v)) : (u \o v)[i] = IF i <= Len(u) THEN u[i] ELSE v[i - Len(u)]
    BY ConcatIs
  <1>2. Len(w) \in Nat /\ Len(u \o v) = Len(w) + 1 /\ \A i \in 1..Len(w) : (u \o v)[i] = w[i]
    BY AppendIs
  <1>3. CASE v = <<>>
    BY <1>3, HeadOfAppend
  <1>4. CASE v # <<>>
    <2>1. Len(v) # 0
      BY <1>4, EmptySeq
    <2>2. Len(u) <= Len(w)
      BY <1>1, <1>2, <2>1
    <2>3. \A i \in 1..Len(u) : u[i] = w[i]
      BY <1>1, <1>2, <2>2
    <2> QED BY <2>2, <2>3, HeadsIs
  <1> QED BY <1>3, <1>4

(* The last message was the only one.                                      *)
LEMMA OneSplit ==
    ASSUME NEW m \in Messages, NEW u \in Seq(Messages), NEW v \in Seq(Messages), Append(<<>>, m) = u \o v
    PROVE  u = <<>> \/ (Len(u) = 1 /\ u[1] = m)
  <1>1. /\ Len(u) \in Nat /\ Len(v) \in Nat /\ Len(u \o v) = Len(u) + Len(v)
        /\ \A i \in 1..(Len(u) + Len(v)) : (u \o v)[i] = IF i <= Len(u) THEN u[i] ELSE v[i - Len(u)]
    BY ConcatIs
  <1>2. <<>> \in Seq(Messages) /\ Len(<<>>) = 0
    OBVIOUS
  <1>3. Len(u \o v) = 1 /\ (u \o v)[1] = m
    BY <1>2, AppendIs
  <1>4. CASE u = <<>>
    BY <1>4
  <1>5. CASE u # <<>>
    <2>1. Len(u) # 0
      BY <1>5, EmptySeq
    <2>2. Len(u) = 1
      BY <1>1, <1>3, <2>1
    <2> QED BY <1>1, <1>3, <2>2
  <1> QED BY <1>4, <1>5

Lost(left, waiting) == Heads(left, waiting) \/ (Len(left) = 1 /\ \A i \in DOMAIN waiting : waiting[i] # left[1])

Delivers(s, t) ==
    \E out \in Seq(Messages) :
        /\ t.out.sent = s.out.sent \o out /\ InOrder(out)
        /\ \A p \in 0..2 :
              \/ Heads(Waiting(p, s.out.queue), Waiting(p, out) \o Waiting(p, t.out.queue))
              \/ /\ t.conn # "connected" /\ Waiting(p, t.out.queue) = <<>>
                 /\ Lost(Waiting(p, out), Waiting(p, s.out.queue))
Reopens(t) == t.out.sent = <<>> /\ t.out.queue = <<>>
Silence(s, t) == s.conn = "connected" /\ t.out.queue \notin {<<>>, s.out.queue} => t.out.owed <= Peak

Goes(s, t) == Sound(t) /\ (Delivers(s, t) \/ Reopens(t)) /\ Silence(s, t)

(* Nothing is sent: nothing waits any longer, or what waits stays.          *)
LEMMA NothingSent ==
    ASSUME NEW s, NEW t, s.out \in Boxes, t.out.sent = s.out.sent,
           t.out.queue = s.out.queue \/ (t.conn # "connected" /\ t.out.queue = <<>>)
    PROVE  Delivers(s, t)
  <1>1. <<>> \in Seq(Messages) /\ s.out.queue \in Seq(Messages) /\ s.out.sent \in Seq(Messages)
    BY BoxIs
  <1>2. t.out.sent = s.out.sent \o <<>> /\ InOrder(<<>>)
    BY <1>1, ConcatEmptySeq DEF InOrder
  <1>3. ASSUME NEW p \in 0..2
        PROVE  \/ Heads(Waiting(p, s.out.queue), Waiting(p, <<>>) \o Waiting(p, t.out.queue))
               \/ /\ t.conn # "connected" /\ Waiting(p, t.out.queue) = <<>>
                  /\ Lost(Waiting(p, <<>>), Waiting(p, s.out.queue))
    <2> DEFINE w == Waiting(p, s.out.queue)
    <2>1. w \in Seq(Messages) /\ Waiting(p, <<>>) = <<>>
      BY <1>1, WaitingIs, WaitingNone
    <2> HIDE DEF w
    <2>2. CASE t.out.queue = s.out.queue
      <3>1. Heads(w, w) /\ <<>> \o w = w
        BY <2>1, HeadOfAny, ConcatEmptySeq
      <3> QED BY <2>1, <2>2, <3>1 DEF w
    <2>3. CASE t.conn # "connected" /\ t.out.queue = <<>>
      <3>1. Heads(<<>>, w)
        BY <2>1, HeadOfAny
      <3> QED BY <2>1, <2>3, <3>1 DEF Lost, w
    <2> QED BY <2>2, <2>3
  <1> QED BY <1>1, <1>2, <1>3 DEF Delivers

(* The timeout sends.                                                      *)
LEMMA Sent ==
    ASSUME NEW s, NEW t, s.out \in Boxes, NEW out, Moved(s.out, out, t.out)
    PROVE  Delivers(s, t)
  <1>1. out \in Seq(Messages) /\ t.out.sent = s.out.sent \o out /\ InOrder(out) /\ t.out \in Boxes
        /\ Split(s.out.queue, out, t.out.queue)
    BY DEF Moved
  <1>2. s.out.queue \in Seq(Messages) /\ t.out.queue \in Seq(Messages)
    BY <1>1, BoxIs
  <1>3. ASSUME NEW p \in 0..2
        PROVE  Heads(Waiting(p, s.out.queue), Waiting(p, out) \o Waiting(p, t.out.queue))
    <2> DEFINE w == Waiting(p, s.out.queue)
    <2>1. w \in Seq(Messages) /\ w = Waiting(p, out) \o Waiting(p, t.out.queue)
      BY <1>1, <1>2, WaitingIs DEF Split
    <2> HIDE DEF w
    <2>2. Heads(w, w)
      BY <2>1, HeadOfAny
    <2> QED BY <2>1, <2>2 DEF w
  <1> QED BY <1>1, <1>3 DEF Delivers

(* A message was given to the queue, and what leaves did.                   *)
LEMMA SaidAndSent ==
    ASSUME NEW s, NEW t, NEW m \in Messages, NEW g, s.out \in Boxes, g \in Boxes, g.sent = s.out.sent,
           g.queue = Append(s.out.queue, m), NEW out, Moved(g, out, t.out)
    PROVE  Delivers(s, t)
  <1>1. out \in Seq(Messages) /\ t.out.sent = s.out.sent \o out /\ InOrder(out) /\ t.out \in Boxes
        /\ Split(g.queue, out, t.out.queue)
    BY DEF Moved
  <1>2. s.out.queue \in Seq(Messages) /\ t.out.queue \in Seq(Messages)
    BY <1>1, BoxIs
  <1>3. ASSUME NEW p \in 0..2
        PROVE  Heads(Waiting(p, s.out.queue), Waiting(p, out) \o Waiting(p, t.out.queue))
    <2> DEFINE w == Waiting(p, s.out.queue)
    <2>1. w \in Seq(Messages)
      BY <1>2, WaitingIs
    <2>2. Waiting(p, out) \o Waiting(p, t.out.queue) = IF m.pri = p THEN Append(w, m) ELSE w
      <3>1. Waiting(p, Append(s.out.queue, m)) = IF m.pri = p THEN Append(w, m) ELSE w
        BY <1>2, WaitingAppend
      <3>2. Waiting(p, Append(s.out.queue, m)) = Waiting(p, out) \o Waiting(p, t.out.queue)
        BY <1>1 DEF Split
      <3> HIDE DEF w
      <3> QED BY <3>1, <3>2
    <2> HIDE DEF w
    <2>3. Heads(w, w) /\ Heads(w, Append(w, m))
      BY <2>1, HeadOfAny, HeadOfAppend
    <2> QED BY <2>2, <2>3 DEF w
  <1> QED BY <1>1, <1>3 DEF Delivers

(* A last message was given to the queue, and then it was emptied.          *)
LEMMA SaidAndClosed ==
    ASSUME NEW s, NEW t, NEW m \in Messages, NEW g, s.out \in Boxes, g \in Boxes, g.sent = s.out.sent,
           g.queue = Append(s.out.queue, m), NEW out, NEW b, Moved(g, out, b),
           t.out.sent = b.sent, t.out.queue = <<>>, t.conn # "connected"
    PROVE  Delivers(s, t)
  <1>1. out \in Seq(Messages) /\ t.out.sent = s.out.sent \o out /\ InOrder(out) /\ b \in Boxes
        /\ Split(g.queue, out, b.queue)
    BY DEF Moved
  <1>2. s.out.queue \in Seq(Messages) /\ b.queue \in Seq(Messages)
    BY <1>1, BoxIs
  <1>3. ASSUME NEW p \in 0..2
        PROVE  \/ Heads(Waiting(p, s.out.queue), Waiting(p, out) \o Waiting(p, t.out.queue))
               \/ /\ t.conn # "connected" /\ Waiting(p, t.out.queue) = <<>>
                  /\ Lost(Waiting(p, out), Waiting(p, s.out.queue))
    <2> DEFINE w == Waiting(p, s.out.queue)
               u == Waiting(p, out)
               v == Waiting(p, b.queue)
    <2>1. w \in Seq(Messages) /\ u \in Seq(Messages) /\ v \in Seq(Messages)
      BY <1>1, <1>2, WaitingIs
    <2>2. u \o v = IF m.pri = p THEN Append(w, m) ELSE w
      <3>1. Waiting(p, Append(s.out.queue, m)) = IF m.pri = p THEN Append(w, m) ELSE w
        BY <1>2, WaitingAppend
      <3>2. Waiting(p, Append(s.out.queue, m)) = u \o v
        BY <1>1 DEF Split
      <3> HIDE DEF w, u, v
      <3> QED BY <3>1, <3>2
    <2>3. Waiting(p, t.out.queue) = <<>>
      BY WaitingNone
    <2> HIDE DEF w, u, v
    <2>4. CASE m.pri = p
      <3>1. Heads(w, u \o <<>>) \/ Heads(u, w)
        BY <2>1, <2>2, <2>4, AppendSplit
      <3> QED BY <2>3, <3>1 DEF Lost, w, u
    <2>5. CASE m.pri # p
      <3>1. Heads(u, w)
        BY <2>1, <2>2, <2>5, HeadOfConcat
      <3> QED BY <2>3, <3>1 DEF Lost, w, u
    <2> QED BY <2>4, <2>5
  <1> QED BY <1>1, <1>3 DEF Delivers

(* The queue was emptied, and then a last message was given to it.          *)
LEMMA ClosedAndSaid ==
    ASSUME NEW s, NEW t, NEW m \in Messages, NEW g, s.out \in Boxes, g \in Boxes, g.sent = s.out.sent,
           g.queue = Append(<<>>, m), NEW out, NEW b, Moved(g, out, b),
           \A i \in DOMAIN s.out.queue : s.out.queue[i] # m,
           t.out.sent = b.sent, t.out.queue = <<>>, t.conn # "connected"
    PROVE  Delivers(s, t)
  <1>1. out \in Seq(Messages) /\ t.out.sent = s.out.sent \o out /\ InOrder(out) /\ b \in Boxes
        /\ Split(g.queue, out, b.queue)
    BY DEF Moved
  <1>2. s.out.queue \in Seq(Messages) /\ b.queue \in Seq(Messages) /\ <<>> \in Seq(Messages)
    BY <1>1, BoxIs
  <1>3. ASSUME NEW p \in 0..2
        PROVE  t.conn # "connected" /\ Waiting(p, t.out.queue) = <<>>
               /\ Lost(Waiting(p, out), Waiting(p, s.out.queue))
    <2> DEFINE w == Waiting(p, s.out.queue)
               u == Waiting(p, out)
               v == Waiting(p, b.queue)
    <2>1. w \in Seq(Messages) /\ u \in Seq(Messages) /\ v \in Seq(Messages)
      BY <1>1, <1>2, WaitingIs
    <2>2. u \o v = IF m.pri = p THEN Append(<<>>, m) ELSE <<>>
      <3>1. Waiting(p, <<>>) = <<>>
        BY WaitingNone
      <3>2. Waiting(p, Append(<<>>, m)) = IF m.pri = p THEN Append(Waiting(p, <<>>), m) ELSE Waiting(p, <<>>)
        BY <1>2, WaitingAppend
      <3>3. u \o v = Waiting(p, Append(<<>>, m))
        BY <1>1 DEF Split
      <3> HIDE DEF u, v
      <3> QED BY <3>1, <3>2, <3>3
    <2>3. Waiting(p, t.out.queue) = <<>>
      BY WaitingNone
    <2>4. \A i \in DOMAIN w : w[i] # m
      <3>1. \A i \in DOMAIN w : Nth(At(p, s.out.queue), i) \in DOMAIN s.out.queue
                                /\ w[i] = s.out.queue[Nth(At(p, s.out.queue), i)]
        BY <1>2, WaitingIs
      <3> HIDE DEF w
      <3> QED BY <3>1
    <2> HIDE DEF w, u, v
    <2>5. Heads(<<>>, w)
      BY <2>1, HeadOfAny
    <2>6. u = <<>> \/ (Len(u) = 1 /\ u[1] = m)
      <3>1. CASE m.pri = p
        <4>1. Append(<<>>, m) = u \o v
          BY <2>2, <3>1
        <4> QED BY <2>1, <4>1, OneSplit
      <3>2. CASE m.pri # p
        <4>1. u \o v = <<>>
          BY <2>2, <3>2
        <4>2. Len(u) + Len(v) = 0 /\ Len(u) \in Nat /\ Len(v) \in Nat
          <5>1. Len(<<>>) = 0
            OBVIOUS
          <5> QED BY <2>1, <4>1, <5>1, ConcatIs
        <4>3. Len(u) = 0
          BY <4>2
        <4> QED BY <2>1, <4>3, EmptySeq
      <3> QED BY <3>1, <3>2
    <2>7. Lost(u, w)
      BY <2>4, <2>5, <2>6 DEF Lost
    <2> QED BY <2>3, <2>7 DEF u, w
  <1> QED BY <1>1, <1>3 DEF Delivers

-----------------------------------------------------------------------------
(* What the functions of the connection make of a server.                  *)

LEMMA TaggedMore ==
    ASSUME NEW T, NEW g, NEW n \in Nat, NEW m \in Nat, Tagged(T, g, n), n <= m
    PROVE  Tagged(T, g, m)
  <1>1. T \in SUBSET Timeouts /\ Cardinality(IdsOf(T) \ {g}) <= n
    BY DEF Tagged
  <1>2. Cardinality(IdsOf(T) \ {g}) \in Nat
    BY <1>1, IdsOfIs
  <1>3. Cardinality(IdsOf(T) \ {g}) <= m
    BY <1>1, <1>2
  <1> QED BY <1>3 DEF Tagged

SameQueue(s, t) == t.out = s.out /\ t.said = s.said /\ t.handlers = s.handlers /\ t.born = s.born

(* A field that the queue does not know changes.                           *)
LEMMA StaysPlain ==
    ASSUME NEW s, NEW t, Plain(s), IsServer(t), SameQueue(s, t),
           t.conn \in {"off", "connecting", "connected", "freed"}, t.motd \in BOOLEAN
    PROVE  Plain(t)
  BY DEF Plain, SameQueue

LEMMA CleanedIs ==
    ASSUME NEW s, Plain(s), NEW n \in Nat, Tagged(s.timers, s.tag, n)
    PROVE  LET c == server_cleanup(s)
           IN  /\ Plain(c) /\ SameQueue(s, c) /\ Tagged(c.timers, c.tag, n)
               /\ c.conn = IF Active(s) THEN "off" ELSE s.conn
               /\ ~Active(s) => c.tag = 0
  <1> DEFINE c == server_cleanup(s)
  <1>1. IsServer(s) /\ s.motd \in BOOLEAN /\ s.conn \in {"off", "connecting", "connected", "freed"}
    BY DEF Plain
  <1>2. CASE Active(s)
    <2>1. /\ IsServer(c) /\ SameQueue(s, c) /\ c.timers = s.timers /\ c.tag = s.tag /\ c.conn = "off"
          /\ c.motd \in BOOLEAN
      <3>1. c = [s EXCEPT !.conn = "off"] \/ c = [s EXCEPT !.conn = "off", !.motd = FALSE]
        BY <1>2 DEF server_cleanup, Active
      <3> HIDE DEF c
      <3> QED BY <1>1, <3>1 DEF IsServer, Fields, SameQueue
    <2> HIDE DEF c
    <2>2. Plain(c)
      BY <2>1, StaysPlain
    <2> QED BY <1>2, <2>1, <2>2 DEF c
  <1>3. CASE ~Active(s)
    <2>1. c = Disarmed(s)
      BY <1>3 DEF server_cleanup, Active
    <2>2. IsServer(c) /\ SameQueue(s, c) /\ c.conn = s.conn /\ c.motd = s.motd
      <3> DEFINE left == {t \in s.timers : t.id # s.tag}
      <3>1. c = [s EXCEPT !.timers = left, !.tag = 0]
        BY <2>1 DEF Disarmed
      <3> HIDE DEF c, left
      <3> QED BY <1>1, <3>1 DEF IsServer, Fields, SameQueue
    <2>3. c.tag = 0 /\ Tagged(c.timers, c.tag, n)
      BY <1>1, <2>1, TaggedDisarmed
    <2> HIDE DEF c
    <2>4. Plain(c)
      BY <1>1, <2>2, StaysPlain
    <2> QED BY <1>3, <2>2, <2>3, <2>4 DEF c
  <1> QED BY <1>2, <1>3

LEMMA QuitIs ==
    /\ Quit.pri \in 0..2 /\ Quit.cost \in 2..MaxCost
    /\ Login.pri \in 0..2 /\ Login.cost \in 2..MaxCost
  BY ServerAssumption DEF Quit, Login

LEMMA BusyIs ==
    ASSUME NEW s, Sound(s)
    PROVE  /\ s.born \in Nat /\ s.born <= MaxConnects /\ MaxConnects \in Nat /\ Busy(s) \in {0, 1}
           /\ s.born - Busy(s) \in Nat
           /\ Tagged(s.timers, s.tag, s.born - Busy(s))
           /\ Active(s) => s.born >= 1 /\ Busy(s) = 1
           /\ ~Active(s) => Busy(s) = 0
  <1>1. s.born \in Nat /\ s.born <= MaxConnects /\ MaxConnects \in Nat
    BY ServerAssumption DEF Sound, Plain
  <1>2. (Active(s) => s.born >= 1 /\ Busy(s) = 1) /\ (~Active(s) => Busy(s) = 0)
    BY DEF Sound, Busy
  <1>3. Tagged(s.timers, s.tag, s.born - Busy(s))
    BY DEF Sound, Tags
  <1>4. s.born - Busy(s) \in Nat /\ Busy(s) \in {0, 1}
    <2>1. CASE Active(s)
      BY <1>1, <1>2, <2>1
    <2>2. CASE ~Active(s)
      BY <1>1, <1>2, <2>2
    <2> QED BY <2>1, <2>2
  <1> QED BY <1>1, <1>2, <1>3, <1>4

LEMMA DisconnectedIs ==
    ASSUME NEW s, NEW sendquit \in BOOLEAN, Sound(s)
    PROVE  LET d == server_disconnect(s, sendquit)
           IN  /\ Plain(d) /\ d.born = s.born /\ d.out.queue = <<>>
               /\ d.conn = IF Active(s) THEN "off" ELSE s.conn
               /\ Tagged(d.timers, d.tag, s.born - Busy(s))
               /\ ~Active(s) => d.tag = 0
               /\ Delivers(s, d)
  <1> DEFINE q == IF sendquit /\ s.conn = "connected" THEN tcp_send_len(s, Quit) ELSE s
             c == server_cleanup(q)
             f == server_flush_queue(c)
             d == server_disconnect(s, sendquit)
             n == s.born - Busy(s)
  <1>1. Plain(s) /\ IsServer(s) /\ s.out \in Boxes /\ n \in Nat /\ Tagged(s.timers, s.tag, n)
        /\ (s.conn # "connected" => s.out.queue = <<>>)
    BY BusyIs DEF Sound, Plain
  <1>2. d = IF s.conn = "connecting" \/ (s.conn = "off" /\ s.tag = 0) THEN c ELSE f
    BY DEF server_disconnect
  <1>3. CASE ~(sendquit /\ s.conn = "connected")
    <2>1. q = s
      BY <1>3
    <2>2. /\ Plain(c) /\ SameQueue(s, c) /\ Tagged(c.timers, c.tag, n)
          /\ c.conn = (IF Active(s) THEN "off" ELSE s.conn) /\ (~Active(s) => c.tag = 0)
      <3> HIDE DEF n
      <3> QED BY <1>1, <2>1, CleanedIs
    <2> HIDE DEF c, q, d, n
    <2>3. /\ Plain(f) /\ SameLife(c, f) /\ f.out.queue = <<>> /\ f.out.sent = c.out.sent
      BY <2>2, FlushIs
    <2> HIDE DEF f
    <2>4. c.conn # "connected"
      BY <2>2 DEF Active
    <2>5. CASE d = c
      <3>1. d.out.queue = <<>>
        <4>1. s.conn = "connecting" \/ (s.conn = "off" /\ s.tag = 0) \/ d = f
          BY <1>2, <2>5
        <4> QED BY <1>1, <2>2, <2>3, <2>5, <4>1 DEF SameQueue
      <3>2. Delivers(s, d)
        BY <1>1, <2>2, <2>4, <2>5, <3>1, NothingSent DEF SameQueue
      <3> QED BY <2>2, <2>5, <3>1, <3>2 DEF SameQueue, d, n
    <2>6. CASE d = f
      <3>1. Delivers(s, d)
        BY <1>1, <2>2, <2>3, <2>4, <2>6, NothingSent DEF SameQueue, SameLife
      <3> QED BY <2>2, <2>3, <2>6, <3>1 DEF SameQueue, SameLife, d, n
    <2> QED BY <1>2, <2>5, <2>6
  <1>4. CASE sendquit /\ s.conn = "connected"
    <2>1. q = tcp_send_len(s, Quit) /\ d = f /\ Active(s)
      BY <1>2, <1>4 DEF Active
    <2>2. Quit.pri \in 0..2 /\ Quit.cost \in 2..MaxCost /\ s.said <= MaxSaid + 1 /\ s.born >= 1
      BY <1>4, QuitIs DEF Sound, Active
    <2>3. /\ Message(s, Quit) \in Messages /\ Given(s, Quit) \in Boxes /\ Given(s, Quit).sent = s.out.sent
          /\ Given(s, Quit).queue = Append(s.out.queue, Message(s, Quit))
      BY <1>1, <2>2, GivenIs
    <2>4. /\ Plain(q) /\ SameLife(s, q)
          /\ \E out : Moved(Given(s, Quit), out, q.out) /\ (out = <<>> => Stuck(Given(s, Quit)))
      BY <1>1, <2>1, <2>2, SendLenIs
    <2> HIDE DEF q, d, n
    <2>5. Tagged(q.timers, q.tag, n) /\ q.conn = "connected" /\ q.born = s.born /\ Active(q)
      BY <1>1, <1>4, <2>4 DEF SameLife, Active
    <2>6. Plain(c) /\ SameQueue(q, c) /\ Tagged(c.timers, c.tag, n) /\ c.conn = "off"
      BY <1>1, <2>4, <2>5, CleanedIs
    <2> HIDE DEF c
    <2>7. /\ Plain(f) /\ SameLife(c, f) /\ f.out.queue = <<>> /\ f.out.sent = c.out.sent
      BY <2>6, FlushIs
    <2> HIDE DEF f
    <2>8. PICK out : Moved(Given(s, Quit), out, q.out)
      BY <2>4
    <2>9. f.out.sent = q.out.sent /\ f.conn = "off" /\ f.conn # "connected"
      BY <2>6, <2>7 DEF SameQueue, SameLife
    <2>10. Delivers(s, f)
      BY <1>1, <2>3, <2>7, <2>8, <2>9, SaidAndClosed
    <2> QED BY <2>1, <2>5, <2>6, <2>7, <2>10 DEF SameQueue, SameLife, d, n
  <1> QED BY <1>3, <1>4

(* Nothing that is not a connection has a queue, and none that is not      *)
(* active need be counted.                                                 *)
LEMMA Soundly ==
    ASSUME NEW s, Plain(s), ~Active(s), s.out.queue = <<>>, NEW n \in Nat, n <= s.born, Tagged(s.timers, s.tag, n)
    PROVE  Sound(s)
  <1>1. s.born \in Nat /\ Busy(s) = 0 /\ s.born - Busy(s) = s.born
    BY ServerAssumption DEF Plain, Busy
  <1>2. Tags(s)
    BY <1>1, TaggedMore DEF Tags
  <1> QED BY <1>2 DEF Sound, Active

LEMMA Disconnected ==
    ASSUME NEW s, NEW sendquit \in BOOLEAN, Sound(s)
    PROVE  Goes(s, server_disconnect(s, sendquit))
  <1> DEFINE d == server_disconnect(s, sendquit)
             n == s.born - Busy(s)
  <1>1. /\ Plain(d) /\ d.born = s.born /\ d.out.queue = <<>>
        /\ d.conn = (IF Active(s) THEN "off" ELSE s.conn)
        /\ Tagged(d.timers, d.tag, n) /\ Delivers(s, d)
    BY DisconnectedIs
  <1>2. n \in Nat /\ n <= s.born
    BY BusyIs
  <1> HIDE DEF d, n
  <1>3. ~Active(d)
    BY <1>1 DEF Active
  <1>4. Sound(d)
    BY <1>1, <1>2, <1>3, Soundly
  <1>5. Silence(s, d)
    BY <1>1 DEF Silence
  <1> QED BY <1>1, <1>4, <1>5 DEF Goes, d

(* One is armed: beside an attempt it is one more that no tag will name.   *)
LEMMA ArmedIs ==
    ASSUME NEW s, NEW kind \in {"reconnect", "cycle"}, Plain(s), NEW n \in Nat, Tagged(s.timers, s.tag, n),
           n <= MaxConnects, s.tag = 0 \/ n < MaxConnects
    PROVE  LET a == Arm(s, kind)
           IN  /\ Plain(a) /\ SameQueue(s, a) /\ a.conn = s.conn
               /\ Tagged(a.timers, a.tag, IF s.tag = 0 THEN n ELSE n + 1)
  <1> DEFINE a == Arm(s, kind)
             more == s.timers \cup {[id |-> FreeId(s), kind |-> kind]}
  <1>1. IsServer(s) /\ s.motd \in BOOLEAN /\ s.conn \in {"off", "connecting", "connected", "freed"}
    BY DEF Plain
  <1>2. Tagged(a.timers, a.tag, IF s.tag = 0 THEN n ELSE n + 1)
    BY <1>1, TaggedArm
  <1>3. IsServer(a) /\ SameQueue(s, a) /\ a.conn = s.conn /\ a.motd = s.motd
    <2>1. a = [s EXCEPT !.timers = more, !.tag = FreeId(s)]
      BY DEF Arm
    <2> HIDE DEF more, a
    <2> QED BY <1>1, <2>1 DEF IsServer, Fields, SameQueue
  <1> HIDE DEF a
  <1>4. Plain(a)
    BY <1>1, <1>3, StaysPlain
  <1> QED BY <1>2, <1>3, <1>4 DEF a

LEMMA Reconnected ==
    ASSUME NEW s, NEW sendquit \in BOOLEAN, Sound(s)
    PROVE  Goes(s, auto_reconnect(s, sendquit))
  <1> DEFINE e == IF s.conn = "connected" THEN server_disconnect(s, sendquit) ELSE s
             d == Disarmed(e)
             a == Arm(d, "reconnect")
             n == s.born - Busy(s)
             left == {t \in e.timers : t.id # e.tag}
  <1>1. n \in Nat /\ n <= s.born /\ s.born <= MaxConnects /\ s.born \in Nat /\ MaxConnects \in Nat
        /\ Tagged(s.timers, s.tag, n) /\ Plain(s) /\ s.out \in Boxes /\ (s.conn # "connected" => s.out.queue = <<>>)
    BY BusyIs DEF Sound, Plain
  <1>2. /\ Plain(e) /\ e.born = s.born /\ e.out.queue = <<>> /\ Tagged(e.timers, e.tag, n) /\ Delivers(s, e)
        /\ e.conn = IF s.conn = "connected" THEN "off" ELSE s.conn
    <2>1. CASE s.conn = "connected"
      <3>1. e = server_disconnect(s, sendquit) /\ Active(s)
        BY <2>1 DEF Active
      <3> HIDE DEF e
      <3> QED BY <2>1, <3>1, DisconnectedIs
    <2>2. CASE s.conn # "connected"
      <3>1. e = s
        BY <2>2
      <3>2. Delivers(s, s)
        BY <1>1, NothingSent
      <3> HIDE DEF e, n
      <3> QED BY <1>1, <2>2, <3>1, <3>2
    <2> QED BY <2>1, <2>2
  <1> HIDE DEF e, n
  <1>3. Plain(d) /\ SameQueue(e, d) /\ d.conn = e.conn /\ d.tag = 0 /\ Tagged(d.timers, d.tag, n)
    <2>1. IsServer(e) /\ e.motd \in BOOLEAN /\ e.conn \in {"off", "connecting", "connected", "freed"}
      BY <1>2 DEF Plain
    <2>2. d.tag = 0 /\ Tagged(d.timers, d.tag, n)
      BY <1>1, <1>2, <2>1, TaggedDisarmed
    <2>3. IsServer(d) /\ SameQueue(e, d) /\ d.conn = e.conn /\ d.motd = e.motd
      <3>1. d = [e EXCEPT !.timers = left, !.tag = 0]
        BY DEF Disarmed
      <3> HIDE DEF left, d
      <3> QED BY <2>1, <3>1 DEF IsServer, Fields, SameQueue
    <2> HIDE DEF d
    <2>4. Plain(d)
      BY <1>2, <2>1, <2>3, StaysPlain
    <2> QED BY <2>2, <2>3, <2>4
  <1> HIDE DEF d
  <1>4. Plain(a) /\ SameQueue(d, a) /\ a.conn = d.conn /\ Tagged(a.timers, a.tag, n)
    <2>1. n <= MaxConnects
      BY <1>1
    <2>2. Tagged(a.timers, a.tag, IF d.tag = 0 THEN n ELSE n + 1)
      BY <1>1, <1>3, <2>1, ArmedIs
    <2>3. Plain(a) /\ SameQueue(d, a) /\ a.conn = d.conn
      BY <1>1, <1>3, <2>1, ArmedIs
    <2> HIDE DEF a
    <2> QED BY <1>3, <2>2, <2>3
  <1>5. auto_reconnect(s, sendquit) = a
    BY DEF auto_reconnect, a, d, e
  <1> HIDE DEF a
  <1>6. a.out = e.out /\ a.born = s.born /\ a.conn = e.conn
    BY <1>2, <1>3, <1>4 DEF SameQueue
  <1>7. Delivers(s, a)
    BY <1>2, <1>6 DEF Delivers
  <1>8. Sound(a)
    <2>1. CASE s.conn = "connecting"
      <3>1. Active(s) /\ Active(a) /\ a.conn = "connecting"
        BY <1>2, <1>6, <2>1 DEF Active
      <3>2. Busy(s) = Busy(a) /\ a.said = s.said /\ a.out.queue = <<>>
        <4>1. e = s
          BY <2>1 DEF e
        <4> QED BY <1>2, <1>3, <1>4, <3>1, <4>1 DEF Busy, SameQueue
      <3>3. Tags(a)
        BY <1>4, <1>6, <3>2 DEF Tags, n
      <3>4. s.born >= 1 /\ s.said = 0
        BY <2>1, <3>1 DEF Sound
      <3> QED BY <1>4, <1>6, <3>1, <3>2, <3>3, <3>4 DEF Sound
    <2>2. CASE s.conn # "connecting"
      <3>1. ~Active(a)
        BY <1>2, <1>6, <2>2 DEF Active
      <3> QED BY <1>1, <1>2, <1>4, <1>6, <3>1, Soundly
    <2> QED BY <2>1, <2>2
  <1>9. Silence(s, a)
    BY <1>2, <1>6 DEF Silence
  <1> QED BY <1>5, <1>7, <1>8, <1>9 DEF Goes

(* servlist_cycle of what is left when an attempt, or a connection, ended. *)
LEMMA CycledIs ==
    ASSUME NEW s, NEW e, s.out \in Boxes, Plain(e), ~Active(e), e.out.queue = <<>>, NEW n \in Nat,
           Tagged(e.timers, e.tag, n), n <= e.born, e.tag = 0 \/ n < e.born, Delivers(s, e)
    PROVE  Goes(s, servlist_cycle(e))
  <1> DEFINE a == Arm(e, "cycle")
  <1>1. e.born \in Nat /\ e.born <= MaxConnects /\ MaxConnects \in Nat
    BY ServerAssumption DEF Plain
  <1>2. n <= MaxConnects /\ (e.tag = 0 \/ n < MaxConnects)
    BY <1>1
  <1>3. Tagged(a.timers, a.tag, IF e.tag = 0 THEN n ELSE n + 1)
    BY <1>2, ArmedIs
  <1>4. Plain(a) /\ SameQueue(e, a) /\ a.conn = e.conn
    BY <1>2, ArmedIs
  <1>5. servlist_cycle(e) = a
    BY DEF servlist_cycle
  <1> HIDE DEF a
  <1>6. a.out = e.out /\ a.born = e.born /\ ~Active(a) /\ a.out.queue = <<>>
    BY <1>4 DEF SameQueue, Active
  <1>7. Sound(a)
    <2>1. CASE e.tag = 0
      <3>1. Tagged(a.timers, a.tag, n)
        BY <1>3, <2>1
      <3> QED BY <1>4, <1>6, <3>1, Soundly
    <2>2. CASE e.tag # 0
      <3>1. Tagged(a.timers, a.tag, n + 1) /\ n + 1 \in Nat /\ n + 1 <= a.born
        BY <1>1, <1>3, <1>6, <2>2
      <3> QED BY <1>4, <1>6, <3>1, Soundly
    <2> QED BY <2>1, <2>2
  <1>8. Delivers(s, a)
    BY <1>4, <1>6 DEF Delivers
  <1> QED BY <1>5, <1>6, <1>7, <1>8 DEF Goes, Silence

LEMMA Connected ==
    ASSUME NEW s, Sound(s), s.born < MaxConnects, s.conn # "freed"
    PROVE  Sound(server_connect(s)) /\ Reopens(server_connect(s))
  <1> DEFINE i == IF s.conn \in {"connected", "connecting"} \/ s.tag # 0 THEN server_disconnect(s, TRUE) ELSE s
             f == server_flush_queue(i)
             o == [f.out EXCEPT !.sent = <<>>]
             c == server_connect(s)
             n == s.born - Busy(s)
  <1>1. n \in Nat /\ n <= s.born /\ s.born \in Nat /\ MaxConnects \in Nat /\ Tagged(s.timers, s.tag, n) /\ Plain(s)
    BY BusyIs DEF Sound
  <1>2. Plain(i) /\ i.born = s.born /\ Tagged(i.timers, i.tag, n)
    <2>1. CASE i = server_disconnect(s, TRUE)
      <3> HIDE DEF i
      <3> QED BY <2>1, DisconnectedIs
    <2>2. CASE i = s
      <3> HIDE DEF i, n
      <3> QED BY <1>1, <2>2
    <2> QED BY <2>1, <2>2
  <1> HIDE DEF i, n
  <1>3. Plain(f) /\ SameLife(i, f) /\ f.out.queue = <<>>
    BY <1>2, FlushIs
  <1>4. c = [f EXCEPT !.conn = "connecting", !.motd = FALSE, !.born = @ + 1, !.out.sent = <<>>, !.said = 0]
    BY DEF server_connect, f, i
  <1> HIDE DEF f
  <1>5. IsServer(f) /\ f.out \in Boxes /\ Debts(f.out) /\ f.born = s.born
    BY <1>2, <1>3 DEF Plain, SameLife
  <1>6. o \in Boxes /\ Debts(o) /\ o.queue = <<>> /\ o.sent = <<>>
    <2>1. f.out.queue \in Seq(Messages) /\ f.out.owed \in Int /\ f.out.since \in Int /\ <<>> \in Seq(Messages)
          /\ f.out = [queue |-> f.out.queue, owed |-> f.out.owed, since |-> f.out.since, sent |-> f.out.sent]
      BY <1>5, BoxIs
    <2>2. o = [queue |-> f.out.queue, owed |-> f.out.owed, since |-> f.out.since, sent |-> <<>>]
      BY <2>1
    <2> HIDE DEF o
    <2>3. o \in Boxes /\ o.queue = f.out.queue /\ o.sent = <<>> /\ o.owed = f.out.owed /\ o.since = f.out.since
      BY <2>1, <2>2 DEF Boxes
    <2>4. Debts(o)
      BY <1>5, <2>3 DEF Debts
    <2> QED BY <1>3, <2>3, <2>4
  <1>7. /\ IsServer(c) /\ c.conn = "connecting" /\ c.motd = FALSE /\ c.born = s.born + 1 /\ c.out = o /\ c.said = 0
        /\ c.timers = f.timers /\ c.tag = f.tag /\ c.handlers = f.handlers
    <2>1. c = [f EXCEPT !.conn = "connecting", !.motd = FALSE, !.born = f.born + 1, !.out = o, !.said = 0]
      BY <1>4, <1>5 DEF IsServer, Fields
    <2> HIDE DEF o, c
    <2> QED BY <1>5, <2>1 DEF IsServer, Fields
  <1> HIDE DEF o, c
  <1>8. Plain(c)
    <2>1. s.born + 1 \in 0..MaxConnects /\ 0 \in 0..(MaxSaid + 2)
      BY <1>1, ServerAssumption
    <2>2. DOMAIN o.queue = {}
      BY <1>6
    <2>3. f.handlers \in Nat
      BY <1>3 DEF Plain
    <2> QED BY <1>6, <1>7, <2>1, <2>2, <2>3 DEF Plain
  <1>9. Tags(c)
    <2>1. Tagged(c.timers, c.tag, n)
      BY <1>2, <1>3, <1>7 DEF SameLife
    <2>2. Busy(c) = 1 /\ c.born - Busy(c) = s.born
      BY <1>1, <1>7 DEF Busy, Active
    <2>3. Tagged(c.timers, c.tag, s.born)
      BY <1>1, <2>1, TaggedMore
    <2> QED BY <2>2, <2>3 DEF Tags
  <1>10. c.born >= 1
    BY <1>1, <1>7
  <1>11. Sound(c) /\ Reopens(c)
    BY <1>6, <1>7, <1>8, <1>9, <1>10 DEF Sound, Reopens
  <1> QED BY <1>11 DEF c

-----------------------------------------------------------------------------
(* Every action.                                                           *)

(* The queue is not touched.                                               *)
LEMMA Stays ==
    ASSUME NEW s, NEW t, Sound(s), Sound(t), t.out.queue = s.out.queue, t.out.sent = s.out.sent
    PROVE  Goes(s, t)
  <1>1. s.out \in Boxes
    BY DEF Sound, Plain
  <1>2. Delivers(s, t)
    BY <1>1, NothingSent
  <1> QED BY <1>2 DEF Goes, Silence

(* What is said, and the login.  If messages are left behind, one has left *)
(* now, or sending stops because too much is owed: since the last message  *)
(* left, no less time has gone by than none.                               *)
LEMMA Saying ==
    ASSUME NEW s, NEW k, Sound(s), k.pri \in 0..2, k.cost \in 2..MaxCost, s.conn = "connected", s.said <= MaxSaid
    PROVE  Goes(s, tcp_send_len(s, k))
  <1> DEFINE r == tcp_send_len(s, k)
             g == Given(s, k)
  <1>1. Plain(s) /\ s.out \in Boxes /\ Active(s) /\ s.born >= 1 /\ s.said <= MaxSaid + 1 /\ s.said \in Nat /\ MaxSaid \in Nat
    <2>1. Plain(s) /\ s.out \in Boxes /\ Active(s) /\ s.born >= 1 /\ s.said <= MaxSaid + 1
      BY DEF Sound, Plain, Active
    <2>2. s.said \in Nat /\ MaxSaid \in Nat
      BY <2>1, ServerAssumption DEF Plain
    <2> QED BY <2>1, <2>2
  <1>2. /\ Message(s, k) \in Messages /\ g \in Boxes /\ Debts(g) /\ g.sent = s.out.sent
        /\ g.queue = Append(s.out.queue, Message(s, k)) /\ g.queue # <<>>
    BY <1>1, GivenIs
  <1>3. /\ Plain(r) /\ SameLife(s, r) /\ r.said = s.said + 1
        /\ \E out : Moved(g, out, r.out) /\ (out = <<>> => Stuck(g))
    BY <1>1, SendLenIs
  <1> HIDE DEF r, g
  <1>4. PICK out : Moved(g, out, r.out) /\ (out = <<>> => Stuck(g))
    BY <1>3
  <1>5. Delivers(s, r)
    BY <1>1, <1>2, <1>4, SaidAndSent
  <1>6. r.out.owed <= Peak
    <2>1. CASE out # <<>>
      BY <1>4, <2>1 DEF Moved
    <2>2. CASE out = <<>>
      <3>1. Stops(g) /\ r.out = g
        BY <1>2, <1>4, <2>2 DEF Moved, Stuck
      <3>2. g.since >= 0 /\ g.since \in Int /\ g.owed \in Int /\ Peak \in Nat
        BY <1>2, <3>1, BoxIs, PeakIs DEF Stops
      <3>3. g.owed + g.since <= Peak
        BY <1>2 DEF Debts
      <3>4. g.owed <= Peak
        BY <3>2, <3>3
      <3> QED BY <3>1, <3>4
    <2> QED BY <2>1, <2>2
  <1>7. Sound(r)
    <2>1. r.conn = "connected" /\ r.born = s.born /\ Active(r) /\ Busy(r) = Busy(s)
      BY <1>1, <1>3 DEF SameLife, Active, Busy
    <2>2. Tags(r)
      BY <1>3, <2>1 DEF SameLife, Tags, Sound
    <2>3. r.said <= MaxSaid + 1
      BY <1>1, <1>3
    <2> QED BY <1>1, <1>3, <2>1, <2>2, <2>3 DEF Sound
  <1>8. Silence(s, r)
    BY <1>6 DEF Silence
  <1> QED BY <1>5, <1>7, <1>8 DEF Goes, r

LEMMA CloseGoes == ASSUME Sound(serv), Close PROVE Goes(serv, serv')
  <1> DEFINE e == server_flush_queue(serv)
             q == IF serv.conn = "connected" THEN tcp_send_len(e, Quit) ELSE serv
             c == server_cleanup(q)
             f == server_flush_queue(c)
             s == [f EXCEPT !.conn = "freed"]
             n == serv.born - Busy(serv)
  <1>1. serv' = s
    BY DEF Close, Command, Becomes
  <1>2. Plain(serv) /\ IsServer(serv) /\ serv.out \in Boxes /\ n \in Nat /\ n <= serv.born /\ Tagged(serv.timers, serv.tag, n)
        /\ (serv.conn # "connected" => serv.out.queue = <<>>)
    BY BusyIs DEF Sound, Plain
  <1>3. Plain(e) /\ SameLife(serv, e) /\ e.said = serv.said /\ e.out.queue = <<>> /\ e.out.sent = serv.out.sent
    BY <1>2, FlushIs
  <1> HIDE DEF e, n
  <1>4. ASSUME Plain(q), SameLife(serv, q)
        PROVE  /\ Sound(s) /\ s.out.queue = <<>> /\ s.out.sent = q.out.sent /\ s.conn # "connected" /\ ~Active(s)
    <2> HIDE DEF q
    <2>1. Tagged(q.timers, q.tag, n)
      BY <1>2, <1>4 DEF SameLife
    <2>2. Plain(c) /\ SameQueue(q, c) /\ Tagged(c.timers, c.tag, n)
      BY <1>2, <1>4, <2>1, CleanedIs
    <2> HIDE DEF c
    <2>3. Plain(f) /\ SameLife(c, f) /\ f.out.queue = <<>> /\ f.out.sent = c.out.sent
      BY <2>2, FlushIs
    <2> HIDE DEF f
    <2>4. IsServer(f) /\ f.motd \in BOOLEAN
      BY <2>3 DEF Plain
    <2>5. IsServer(s) /\ SameQueue(f, s) /\ s.conn = "freed" /\ s.motd = f.motd /\ s.tag = f.tag /\ s.timers = f.timers
      BY <2>4 DEF IsServer, Fields, SameQueue
    <2> HIDE DEF s
    <2>6. Plain(s)
      BY <2>3, <2>4, <2>5, StaysPlain
    <2>7. s.out.queue = <<>> /\ s.out.sent = q.out.sent /\ s.born = serv.born /\ ~Active(s)
      BY <1>4, <2>2, <2>3, <2>5 DEF SameQueue, SameLife, Active
    <2>8. Tagged(s.timers, s.tag, n)
      BY <2>2, <2>3, <2>5 DEF SameLife
    <2>9. Sound(s)
      BY <1>2, <2>6, <2>7, <2>8, Soundly
    <2> QED BY <2>5, <2>7, <2>9
  <1>5. CASE serv.conn # "connected"
    <2>1. q = serv
      BY <1>5
    <2>2. Plain(q) /\ SameLife(serv, q) /\ q.out.sent = serv.out.sent
      <3> HIDE DEF q
      <3> QED BY <1>2, <2>1 DEF SameLife
    <2> HIDE DEF s, q
    <2>3. Delivers(serv, s)
      BY <1>2, <1>4, <2>2, NothingSent
    <2>4. Silence(serv, s)
      BY <1>4, <2>2 DEF Silence
    <2> QED BY <1>1, <1>4, <2>2, <2>3, <2>4 DEF Goes
  <1>6. CASE serv.conn = "connected"
    <2>1. q = tcp_send_len(e, Quit)
      BY <1>6
    <2>2. Quit.pri \in 0..2 /\ Quit.cost \in 2..MaxCost /\ e.said <= MaxSaid + 1 /\ e.born >= 1
      <3>1. serv.said <= MaxSaid + 1 /\ serv.born >= 1
        BY <1>6 DEF Sound, Active
      <3> QED BY <1>3, <3>1, QuitIs DEF SameLife
    <2> DEFINE m == Message(e, Quit)
               g == Given(e, Quit)
    <2>3. /\ m \in Messages /\ g \in Boxes /\ g.sent = e.out.sent /\ g.queue = Append(e.out.queue, m)
      BY <1>3, <2>2, GivenIs
    <2>4. Plain(q) /\ SameLife(e, q) /\ \E out : Moved(g, out, q.out) /\ (out = <<>> => Stuck(g))
      BY <1>3, <2>1, <2>2, SendLenIs
    <2>5. m.n = serv.said + 1
      BY <1>3 DEF Message
    <2>6. \A i \in DOMAIN serv.out.queue : serv.out.queue[i] # m
      <3>1. \A i \in DOMAIN serv.out.queue : serv.out.queue[i].n <= serv.said
        BY <1>2 DEF Plain
      <3>2. serv.said \in Nat
        BY <1>2, ServerAssumption DEF Plain
      <3> HIDE DEF m
      <3> SUFFICES ASSUME NEW i \in DOMAIN serv.out.queue, serv.out.queue[i] = m PROVE FALSE
        OBVIOUS
      <3>3. m.n <= serv.said
        BY <3>1
      <3> QED BY <2>5, <3>2, <3>3
    <2> HIDE DEF m, g, q
    <2>7. PICK out : Moved(g, out, q.out)
      BY <2>4
    <2>8. SameLife(serv, q)
      BY <1>3, <2>4 DEF SameLife
    <2> HIDE DEF s
    <2>9. Sound(s) /\ s.out.queue = <<>> /\ s.out.sent = q.out.sent /\ s.conn # "connected"
      BY <1>4, <2>4, <2>8
    <2>10. g.queue = Append(<<>>, m) /\ g.sent = serv.out.sent
      BY <1>3, <2>3
    <2>11. Delivers(serv, s)
      BY <1>2, <2>3, <2>6, <2>7, <2>9, <2>10, ClosedAndSaid
    <2>12. Silence(serv, s)
      BY <2>9 DEF Silence
    <2> QED BY <1>1, <2>9, <2>11, <2>12 DEF Goes
  <1> QED BY <1>5, <1>6

LEMMA ChildFailsGoes == ASSUME Sound(serv), ChildFails PROVE Goes(serv, serv')
  <1> DEFINE e == [serv EXCEPT !.conn = "off"]
             n == serv.born - Busy(serv)
  <1>1. serv' = servlist_cycle(e) /\ serv.conn = "connecting"
    BY DEF ChildFails, Becomes
  <1>2. Plain(serv) /\ IsServer(serv) /\ serv.out \in Boxes /\ serv.out.queue = <<>> /\ serv.motd \in BOOLEAN
        /\ Active(serv)
    BY <1>1 DEF Sound, Plain, Active
  <1>3. n \in Nat /\ n < serv.born /\ Tagged(serv.timers, serv.tag, n)
    BY <1>2, BusyIs
  <1>4. IsServer(e) /\ SameQueue(serv, e) /\ e.conn = "off" /\ e.motd = serv.motd /\ e.timers = serv.timers /\ e.tag = serv.tag
    BY <1>2 DEF IsServer, Fields, SameQueue
  <1> HIDE DEF e, n
  <1>5. Plain(e) /\ ~Active(e) /\ e.out = serv.out /\ e.born = serv.born
    <2>1. Plain(e)
      BY <1>2, <1>4, StaysPlain
    <2> QED BY <1>4, <2>1 DEF Active, SameQueue
  <1>6. Delivers(serv, e)
    BY <1>2, <1>5, NothingSent
  <1>7. n <= e.born /\ n < e.born /\ Tagged(e.timers, e.tag, n)
    <2>1. e.born \in Nat
      BY <1>5, ServerAssumption DEF Plain
    <2> QED BY <1>3, <1>4, <1>5, <2>1
  <1> QED BY <1>1, <1>2, <1>3, <1>5, <1>6, <1>7, CycledIs

LEMMA ChildSucceedsGoes == ASSUME Sound(serv), ChildSucceeds PROVE Goes(serv, serv')
  <1> DEFINE e == [serv EXCEPT !.conn = "connected"]
  <1>1. serv' = tcp_send_len(e, Login) /\ serv.conn = "connecting"
    BY DEF ChildSucceeds, Becomes
  <1>2. Plain(serv) /\ IsServer(serv) /\ serv.out \in Boxes /\ serv.motd \in BOOLEAN /\ Active(serv) /\ serv.said = 0
        /\ serv.born >= 1
    BY <1>1 DEF Sound, Plain, Active
  <1>3. IsServer(e) /\ SameQueue(serv, e) /\ e.conn = "connected" /\ e.motd = serv.motd /\ e.timers = serv.timers /\ e.tag = serv.tag
    BY <1>2 DEF IsServer, Fields, SameQueue
  <1> HIDE DEF e
  <1>4. Sound(e)
    <2>1. Plain(e)
      BY <1>2, <1>3, StaysPlain
    <2>2. Active(e) /\ Busy(e) = Busy(serv)
      BY <1>2, <1>3 DEF Active, Busy
    <2>3. Tags(e)
      BY <1>3, <2>2 DEF Tags, Sound, SameQueue
    <2>4. e.said <= MaxSaid + 1 /\ e.born >= 1
      BY <1>2, <1>3, ServerAssumption DEF SameQueue
    <2> QED BY <1>3, <2>1, <2>3, <2>4 DEF Sound
  <1>5. e.said <= MaxSaid
    BY <1>2, <1>3, ServerAssumption DEF SameQueue
  <1>6. Goes(e, tcp_send_len(e, Login))
    BY <1>3, <1>4, <1>5, QuitIs, Saying
  <1> DEFINE t == tcp_send_len(e, Login)
  <1>7. serv' = t
    BY <1>1
  <1> HIDE DEF t
  <1>8. Delivers(serv, t) \/ Reopens(t)
    BY <1>3, <1>6 DEF Goes, Delivers, SameQueue, t
  <1>9. Silence(serv, t)
    BY <1>1 DEF Silence
  <1> QED BY <1>6, <1>7, <1>8, <1>9 DEF Goes, t

LEMMA MotdEndsGoes == ASSUME Sound(serv), MotdEnds PROVE Goes(serv, serv')
  <1> DEFINE e == [serv EXCEPT !.motd = TRUE]
  <1>1. serv' = e
    BY DEF MotdEnds, Becomes
  <1>2. Plain(serv) /\ IsServer(serv) /\ serv.conn \in {"off", "connecting", "connected", "freed"}
    BY DEF Sound, Plain
  <1>3. IsServer(e) /\ SameQueue(serv, e) /\ e.conn = serv.conn /\ e.motd = TRUE /\ e.timers = serv.timers /\ e.tag = serv.tag
    BY <1>2 DEF IsServer, Fields, SameQueue
  <1> HIDE DEF e
  <1>4. Plain(e)
    BY <1>2, <1>3, StaysPlain
  <1>5. Tags(e) /\ Active(e) = Active(serv)
    BY <1>3 DEF Tags, Sound, SameQueue, Active, Busy
  <1>6. Sound(e)
    BY <1>3, <1>4, <1>5 DEF Sound, SameQueue
  <1> QED BY <1>1, <1>3, <1>6, Stays DEF SameQueue

LEMMA ReadEndsGoes == ASSUME Sound(serv), NEW eof \in BOOLEAN, ReadEnds(eof) PROVE Goes(serv, serv')
  <1> DEFINE d == server_disconnect(serv, FALSE)
             n == serv.born - Busy(serv)
  <1>1. \/ serv' = serv
        \/ serv' = auto_reconnect(serv, FALSE)
        \/ serv' = servlist_cycle(d)
    BY DEF ReadEnds, Becomes
  <1>2. CASE serv' = serv
    BY <1>2, Stays
  <1>3. CASE serv' = auto_reconnect(serv, FALSE)
    BY <1>3, Reconnected
  <1>4. CASE serv' = servlist_cycle(d)
    <2>1. /\ Plain(d) /\ d.born = serv.born /\ d.out.queue = <<>> /\ d.conn = (IF Active(serv) THEN "off" ELSE serv.conn)
          /\ Tagged(d.timers, d.tag, n) /\ (~Active(serv) => d.tag = 0) /\ Delivers(serv, d)
      BY DisconnectedIs
    <2>2. n \in Nat /\ n <= serv.born /\ (Active(serv) => n < serv.born) /\ serv.out \in Boxes
      <3>1. n \in Nat /\ n <= serv.born /\ (Active(serv) => n < serv.born)
        BY BusyIs
      <3> QED BY <3>1 DEF Sound, Plain
    <2> HIDE DEF d, n
    <2>3. ~Active(d)
      BY <2>1 DEF Active
    <2>4. n <= d.born /\ (d.tag = 0 \/ n < d.born)
      BY <2>1, <2>2
    <2> QED BY <1>4, <2>1, <2>2, <2>3, <2>4, CycledIs
  <1> QED BY <1>1, <1>2, <1>3, <1>4

LEMMA TimeoutFiresGoes == ASSUME Sound(serv), NEW t \in serv.timers, TimeoutFires(t) PROVE Goes(serv, serv')
  <1> DEFINE rest == serv.timers \ {t}
             without == [serv EXCEPT !.timers = rest]
             untagged == [without EXCEPT !.tag = 0]
             free == IF t.kind = "reconnect" THEN untagged ELSE without
             n == serv.born - Busy(serv)
  <1>1. \/ serv' = without
        \/ serv' = free
        \/ serv.conn # "freed" /\ serv.born < MaxConnects /\ serv' = server_connect(free)
    BY DEF TimeoutFires, Becomes
  <1>2. Plain(serv) /\ IsServer(serv) /\ serv.motd \in BOOLEAN
        /\ serv.conn \in {"off", "connecting", "connected", "freed"} /\ n \in Nat /\ Tagged(serv.timers, serv.tag, n)
    BY BusyIs DEF Sound, Plain
  <1>3. Tagged(rest, serv.tag, n) /\ Tagged(rest, 0, n)
    <2> HIDE DEF n
    <2>1. rest \in SUBSET serv.timers
      OBVIOUS
    <2>2. Tagged(rest, serv.tag, n)
      BY <1>2, <2>1, TaggedLess
    <2>3. Tagged(rest, 0, n)
      BY <1>2, TaggedFired
    <2> QED BY <2>2, <2>3
  <1> HIDE DEF rest
  <1>4. /\ IsServer(without) /\ SameQueue(serv, without) /\ without.conn = serv.conn /\ without.motd = serv.motd
        /\ without.timers = rest /\ without.tag = serv.tag
    BY <1>2 DEF IsServer, Fields, SameQueue
  <1> HIDE DEF without
  <1>5. /\ IsServer(untagged) /\ SameQueue(serv, untagged) /\ untagged.conn = serv.conn /\ untagged.motd = serv.motd
        /\ untagged.timers = rest /\ untagged.tag = 0
    BY <1>4 DEF IsServer, Fields, SameQueue
  <1> HIDE DEF untagged
  <1>6. ASSUME NEW s, IsServer(s), SameQueue(serv, s), s.conn = serv.conn, s.motd = serv.motd, Tagged(s.timers, s.tag, n)
        PROVE  Sound(s) /\ Goes(serv, s)
    <2>1. Plain(s)
      BY <1>2, <1>6, StaysPlain
    <2>2. Active(s) = Active(serv) /\ Busy(s) = Busy(serv) /\ s.born = serv.born
      BY <1>6 DEF Active, Busy, SameQueue
    <2>3. Tags(s)
      BY <1>6, <2>2 DEF Tags
    <2>4. Sound(s)
      BY <1>6, <2>1, <2>2, <2>3 DEF Sound, SameQueue
    <2>5. Goes(serv, s)
      BY <1>6, <2>4, Stays DEF SameQueue
    <2> QED BY <2>4, <2>5
  <1> HIDE DEF n
  <1>7. Sound(without) /\ Goes(serv, without)
    BY <1>3, <1>4, <1>6
  <1>8. Sound(untagged) /\ Goes(serv, untagged)
    BY <1>3, <1>5, <1>6
  <1>9. Sound(free) /\ Goes(serv, free) /\ free.conn = serv.conn /\ free.born = serv.born
    BY <1>4, <1>5, <1>7, <1>8 DEF SameQueue
  <1> HIDE DEF free
  <1>10. CASE serv.conn # "freed" /\ serv.born < MaxConnects /\ serv' = server_connect(free)
    <2>1. Sound(server_connect(free)) /\ Reopens(server_connect(free))
      BY <1>9, <1>10, Connected
    <2> QED BY <1>10, <2>1 DEF Goes, Reopens, Silence
  <1> QED BY <1>1, <1>7, <1>9, <1>10

LEMMA HandlerFiresGoes == ASSUME Sound(serv), HandlerFires PROVE Goes(serv, serv')
  <1> DEFINE r == tcp_send_queue(serv)
             a == [serv EXCEPT !.handlers = @ - 1]
             b == [r EXCEPT !.handlers = @ - 1]
  <1>1. /\ serv.handlers > 0
        /\ \/ serv.conn = "freed" /\ serv' = a
           \/ Full(r) /\ serv' = r
           \/ ~Full(r) /\ serv' = b
    BY DEF HandlerFires, Becomes
  <1>2. Plain(serv) /\ IsServer(serv) /\ serv.out \in Boxes /\ serv.handlers \in Nat /\ serv.motd \in BOOLEAN
        /\ serv.conn \in {"off", "connecting", "connected", "freed"}
        /\ (serv.conn # "connected" => serv.out.queue = <<>>) /\ Debts(serv.out)
    BY DEF Sound, Plain
  <1>3. serv.handlers - 1 \in Nat
    BY <1>1, <1>2
  <1>4. ASSUME NEW s, Plain(s), SameLife(serv, s), s.said = serv.said, s.conn # "connected" => s.out.queue = <<>>
        PROVE  Sound(s)
    <2>1. Active(s) = Active(serv) /\ Busy(s) = Busy(serv) /\ s.born = serv.born /\ s.conn = serv.conn
      BY <1>4 DEF Active, Busy, SameLife
    <2>2. Tags(s)
      BY <1>4, <2>1 DEF Tags, Sound, SameLife
    <2> QED BY <1>4, <2>1, <2>2 DEF Sound
  <1>5. CASE serv.conn = "freed" /\ serv' = a
    <2>1. SameLife(serv, a) /\ a.said = serv.said /\ a.out = serv.out /\ a.handlers = serv.handlers - 1
      BY <1>2 DEF IsServer, Fields, SameLife
    <2> HIDE DEF a
    <2>2. Plain(a)
      BY <1>2, <1>3, <1>5, <2>1 DEF Plain, SameLife
    <2>3. Sound(a)
      BY <1>2, <1>4, <1>5, <2>1, <2>2
    <2> QED BY <1>5, <2>1, <2>3, Stays
  <1>6. /\ Plain(r) /\ SameLife(serv, r) /\ r.said = serv.said /\ r.handlers = serv.handlers
        /\ \E out : Moved(serv.out, out, r.out) /\ (out = <<>> => Stuck(serv.out))
    BY <1>2, SendQueueIs
  <1> HIDE DEF r
  <1>7. PICK out : Moved(serv.out, out, r.out) /\ (out = <<>> => Stuck(serv.out))
    BY <1>6
  <1>8. r.conn # "connected" => r.out.queue = <<>>
    <2> SUFFICES ASSUME r.conn # "connected" PROVE r.out.queue = <<>>
      OBVIOUS
    <2>1. DOMAIN serv.out.queue = {} /\ r.out.queue \in Seq(Messages) /\ Among(r.out.queue, serv.out.queue)
      <3>1. serv.out.queue = <<>>
        BY <1>2, <1>6 DEF SameLife
      <3>2. r.out \in Boxes
        BY <1>7 DEF Moved
      <3> QED BY <1>7, <3>1, <3>2, BoxIs DEF Moved
    <2>2. DOMAIN r.out.queue = {}
      BY <2>1 DEF Among
    <2> QED BY <2>1, <2>2, NoneIs
  <1>9. r.out.queue # serv.out.queue => r.out.owed <= Peak
    <2>1. CASE out # <<>>
      BY <1>7, <2>1 DEF Moved
    <2>2. CASE out = <<>>
      BY <1>7, <2>2 DEF Moved
    <2> QED BY <2>1, <2>2
  <1>10. CASE Full(r) /\ serv' = r
    <2>1. Sound(r)
      BY <1>4, <1>6, <1>8
    <2>2. Delivers(serv, r)
      BY <1>2, <1>7, Sent
    <2> QED BY <1>9, <1>10, <2>1, <2>2 DEF Goes, Silence
  <1>11. CASE ~Full(r) /\ serv' = b
    <2>1. IsServer(r) /\ r.out.queue = <<>>
      BY <1>6, <1>11 DEF SameLife, Full
    <2>2. SameLife(r, b) /\ b.said = r.said /\ b.out = r.out /\ b.handlers = serv.handlers - 1
      BY <1>6, <2>1 DEF IsServer, Fields, SameLife
    <2> HIDE DEF b
    <2>3. Plain(b)
      BY <1>3, <1>6, <2>1, <2>2 DEF Plain, SameLife
    <2>4. Sound(b)
      <3>1. SameLife(serv, b) /\ b.said = serv.said
        BY <1>6, <2>2 DEF SameLife
      <3> QED BY <1>4, <2>1, <2>2, <2>3, <3>1
    <2>5. Delivers(serv, b)
      BY <1>2, <1>7, <2>2, Sent
    <2> QED BY <1>11, <2>1, <2>2, <2>4, <2>5 DEF Goes, Silence
  <1> QED BY <1>1, <1>5, <1>10, <1>11

(* The clock goes on, or is set back: what is owed counts from when the    *)
(* last message left.                                                      *)
LEMMA ClockGoes ==
    ASSUME Sound(serv), Clock \/ \E by \in 1..MaxJump : SetBack(by)
    PROVE  Goes(serv, serv')
  <1> DEFINE o == serv.out
  <1>1. Plain(serv) /\ IsServer(serv) /\ o \in Boxes /\ Debts(o) /\ MaxJump \in Nat /\ Peak \in Nat
    BY ServerAssumption, PeakIs DEF Sound, Plain
  <1>2. o.queue \in Seq(Messages) /\ o.owed \in Int /\ o.since \in Int /\ o.sent \in Seq(Messages)
        /\ o = [queue |-> o.queue, owed |-> o.owed, since |-> o.since, sent |-> o.sent]
    BY <1>1, BoxIs
  <1>3. o.owed + o.since <= Peak
    BY <1>1 DEF Debts
  <1> DEFINE Later(x, y) == [o EXCEPT !.owed = x, !.since = y]
  <1>4. \E x, y \in Int : x + y <= Peak /\ serv' = [serv EXCEPT !.out = Later(x, y)]
    <2>1. CASE Clock
      <3> DEFINE x == IF o.owed > -MaxJump THEN o.owed - 1 ELSE o.owed
                 y == IF o.since < MaxJump THEN o.since + 1 ELSE o.since
      <3>1. serv' = [serv EXCEPT !.out.owed = x, !.out.since = y]
        BY <2>1 DEF Clock, Becomes
      <3>2. x \in Int /\ y \in Int /\ x + y <= Peak
        <4>1. CASE o.owed > -MaxJump
          BY <1>1, <1>2, <1>3, <4>1
        <4>2. CASE ~(o.owed > -MaxJump)
          BY <1>1, <1>2, <1>3, <4>2
        <4> QED BY <4>1, <4>2
      <3> HIDE DEF x, y
      <3>3. [serv EXCEPT !.out.owed = x, !.out.since = y] = [serv EXCEPT !.out = Later(x, y)]
        BY <1>1 DEF IsServer, Fields
      <3> QED BY <3>1, <3>2, <3>3
    <2>2. CASE \E by \in 1..MaxJump : SetBack(by)
      <3>1. PICK by \in 1..MaxJump : SetBack(by)
        BY <2>2
      <3> DEFINE x == o.owed + by
                 y == o.since - by
      <3>2. serv' = [serv EXCEPT !.out.owed = x, !.out.since = y]
        BY <3>1 DEF SetBack, Becomes
      <3>3. x \in Int /\ y \in Int /\ x + y <= Peak
        BY <1>1, <1>2, <1>3
      <3> HIDE DEF x, y
      <3>4. [serv EXCEPT !.out.owed = x, !.out.since = y] = [serv EXCEPT !.out = Later(x, y)]
        BY <1>1 DEF IsServer, Fields
      <3> QED BY <3>2, <3>3, <3>4
    <2> QED BY <2>1, <2>2
  <1>5. PICK x \in Int, y \in Int : x + y <= Peak /\ serv' = [serv EXCEPT !.out = Later(x, y)]
    BY <1>4
  <1> DEFINE l == Later(x, y)
             s == [serv EXCEPT !.out = l]
  <1>6. l \in Boxes /\ l.queue = o.queue /\ l.sent = o.sent /\ Debts(l)
    <2>1. l = [queue |-> o.queue, owed |-> x, since |-> y, sent |-> o.sent]
      <3>1. l = [o EXCEPT !.owed = x, !.since = y]
        OBVIOUS
      <3> HIDE DEF o, l
      <3> QED BY <1>2, <3>1
    <2> HIDE DEF l
    <2>2. l \in Boxes /\ l.queue = o.queue /\ l.sent = o.sent /\ l.owed = x /\ l.since = y
      BY <1>2, <2>1 DEF Boxes
    <2>3. Debts(l)
      BY <1>5, <2>2 DEF Debts
    <2> QED BY <2>2, <2>3
  <1>7. serv' = s
    BY <1>5
  <1> HIDE DEF l, o
  <1>8. SameLife(serv, s) /\ s.said = serv.said /\ s.handlers = serv.handlers /\ s.out = l
    BY <1>1 DEF IsServer, Fields, SameLife
  <1> HIDE DEF s
  <1>9. Plain(s)
    BY <1>1, <1>6, <1>8 DEF Plain, SameLife, o
  <1>10. Sound(s)
    <2>1. Active(s) = Active(serv) /\ Busy(s) = Busy(serv) /\ s.born = serv.born /\ s.conn = serv.conn
      BY <1>8 DEF Active, Busy, SameLife
    <2>2. Tags(s)
      BY <1>8, <2>1 DEF Tags, Sound, SameLife
    <2> QED BY <1>6, <1>8, <1>9, <2>1, <2>2 DEF Sound, o
  <1> QED BY <1>6, <1>7, <1>8, <1>10, Stays DEF o

LEMMA StepGoes == ASSUME Sound(serv), [Next]_vars PROVE Goes(serv, serv')
  <1>1. CASE Connect
    <2>1. serv' = server_connect(serv) /\ serv.born < MaxConnects /\ serv.conn # "freed"
      BY <1>1 DEF Connect, Command, Becomes, Alive
    <2>2. Sound(server_connect(serv)) /\ Reopens(server_connect(serv))
      BY <2>1, Connected
    <2> QED BY <2>1, <2>2 DEF Goes, Reopens, Silence
  <1>2. CASE Disconnect
    <2>1. serv' = server_disconnect(serv, TRUE)
      BY <1>2 DEF Disconnect, Command, Becomes
    <2> QED BY <2>1, Disconnected
  <1>3. CASE Reconnect
    <2>1. serv' = auto_reconnect(serv, TRUE)
      BY <1>3 DEF Reconnect, Command, Becomes
    <2> QED BY <2>1, Reconnected
  <1>4. CASE Close
    BY <1>4, CloseGoes
  <1>5. CASE \E k \in Kinds : Say(k)
    <2>1. PICK k \in Kinds : Say(k)
      BY <1>5
    <2>2. serv' = tcp_send_len(serv, k) /\ serv.conn = "connected" /\ serv.said < MaxSaid
      BY <2>1 DEF Say, Becomes
    <2>3. k.pri \in 0..2 /\ k.cost \in 2..MaxCost
      BY ServerAssumption
    <2>4. serv.said <= MaxSaid
      <3>1. serv.said \in Nat /\ MaxSaid \in Nat
        BY ServerAssumption DEF Sound, Plain
      <3> QED BY <2>2, <3>1
    <2> QED BY <2>2, <2>3, <2>4, Saying
  <1>6. CASE ChildFails
    BY <1>6, ChildFailsGoes
  <1>7. CASE ChildSucceeds
    BY <1>7, ChildSucceedsGoes
  <1>8. CASE ProxyFails
    <2>1. serv' = server_disconnect(serv, FALSE)
      BY <1>8 DEF ProxyFails, Becomes
    <2> QED BY <2>1, Disconnected
  <1>9. CASE ReadBegins \/ UNCHANGED vars
    <2>1. serv' = serv
      BY <1>9 DEF ReadBegins, vars
    <2> QED BY <2>1, Stays
  <1>10. CASE MotdEnds
    BY <1>10, MotdEndsGoes
  <1>11. CASE \E eof \in BOOLEAN : ReadEnds(eof)
    BY <1>11, ReadEndsGoes
  <1>12. CASE PingTimesOut
    <2>1. serv' = auto_reconnect(serv, FALSE)
      BY <1>12 DEF PingTimesOut, Becomes
    <2> QED BY <2>1, Reconnected
  <1>13. CASE \E t \in serv.timers : TimeoutFires(t)
    BY <1>13, TimeoutFiresGoes
  <1>14. CASE HandlerFires
    BY <1>14, HandlerFiresGoes
  <1>15. CASE Clock \/ \E by \in 1..MaxJump : SetBack(by)
    BY <1>15, ClockGoes
  <1> QED BY <1>1, <1>2, <1>3, <1>4, <1>5, <1>6, <1>7, <1>8, <1>9, <1>10, <1>11, <1>12, <1>13, <1>14, <1>15 DEF Next

-----------------------------------------------------------------------------
(* The theorems.                                                           *)

WellMade == Sound(serv) /\ reading \in 0..MaxConnects /\ jumped \in BOOLEAN

LEMMA InitWellMade == Init => WellMade
  <1> SUFFICES ASSUME Init PROVE WellMade
    OBVIOUS
  <1> DEFINE o == serv.out
  <1>1. /\ IsServer(serv) /\ serv.conn = "off" /\ serv.motd = FALSE /\ serv.tag = 0 /\ serv.timers = {} /\ serv.handlers = 0
        /\ serv.said = 0 /\ serv.born = 0
        /\ o = [queue |-> <<>>, owed |-> -MaxJump, since |-> MaxJump, sent |-> <<>>]
    BY DEF Init, IsServer, Fields
  <1> HIDE DEF o
  <1>2. MaxJump \in Nat /\ MaxConnects \in Nat /\ MaxSaid \in Nat /\ Peak \in Nat /\ <<>> \in Seq(Messages)
    BY ServerAssumption, PeakIs
  <1>3. o \in Boxes /\ o.queue = <<>> /\ Debts(o)
    <2>1. o \in Boxes /\ o.queue = <<>> /\ o.owed = -MaxJump /\ o.since = MaxJump
      BY <1>1, <1>2 DEF Boxes
    <2> QED BY <1>2, <2>1 DEF Debts
  <1>4. DOMAIN o.queue = {}
    BY <1>3
  <1>5. Plain(serv)
    <2>1. 0 \in 0..(MaxSaid + 2) /\ 0 \in 0..MaxConnects
      BY <1>2
    <2>2. serv.out = o
      BY DEF o
    <2>3. serv.motd \in BOOLEAN
      BY <1>1
    <2>4. serv.handlers \in Nat /\ serv.said \in 0..(MaxSaid + 2) /\ serv.born \in 0..MaxConnects
      BY <1>1, <2>1
    <2>5. serv.out \in Boxes /\ Debts(serv.out) /\ serv.out.queue = <<>> /\ DOMAIN serv.out.queue = {}
      BY <1>3, <1>4, <2>2
    <2> QED BY <1>1, <2>3, <2>4, <2>5 DEF Plain
  <1>6. ~Active(serv)
    BY <1>1 DEF Active
  <1>7. Tagged(serv.timers, serv.tag, 0)
    <2>1. IdsOf({}) = {}
      BY DEF IdsOf
    <2>2. IdsOf({}) \ {0} = {}
      BY <2>1
    <2>3. Cardinality({}) = 0
      BY FS_EmptySet
    <2>4. Cardinality(IdsOf({}) \ {0}) <= 0
      BY <2>2, <2>3
    <2>5. Tagged({}, 0, 0)
      BY <2>4 DEF Tagged
    <2> QED BY <1>1, <2>5
  <1>8. Sound(serv)
    <2>1. 0 \in Nat /\ 0 <= serv.born /\ serv.out = o
      BY <1>1 DEF o
    <2> QED BY <1>3, <1>5, <1>6, <1>7, <2>1, Soundly
  <1>9. reading \in 0..MaxConnects
    BY <1>2 DEF Init
  <1>10. jumped \in BOOLEAN
    BY DEF Init
  <1> QED BY <1>8, <1>9, <1>10 DEF WellMade

LEMMA NextWellMade == ASSUME WellMade, [Next]_vars PROVE WellMade'
  <1>1. Sound(serv')
    BY StepGoes DEF WellMade, Goes
  <1>2. serv.born \in 0..MaxConnects /\ 0 \in 0..MaxConnects
    BY ServerAssumption DEF WellMade, Sound, Plain
  <1>3. reading' \in {reading, 0, serv.born}
    BY DEF Next, vars, Connect, Disconnect, Reconnect, Close, Command, Say, ChildFails, ChildSucceeds, ProxyFails,
           ReadBegins, MotdEnds, ReadEnds, PingTimesOut, TimeoutFires, HandlerFires, Clock, SetBack
  <1>4. jumped' = jumped \/ jumped' = TRUE
    BY DEF Next, vars, Connect, Disconnect, Reconnect, Close, Command, Say, ChildFails, ChildSucceeds, ProxyFails,
           ReadBegins, MotdEnds, ReadEnds, PingTimesOut, TimeoutFires, HandlerFires, Clock, SetBack
  <1>5. Sound(serv)'
    BY <1>1 DEF Sound, Plain, Tags, Busy, Active
  <1> QED BY <1>2, <1>3, <1>4, <1>5 DEF WellMade

LEMMA WellMadeIsTyped == ASSUME WellMade, Inv PROVE TypeOK
  <1>1. Plain(serv) /\ Tagged(serv.timers, serv.tag, serv.born - Busy(serv))
    BY DEF WellMade, Sound, Tags
  <1>2. serv.out.queue \in Seq(Messages) /\ serv.out.owed \in Int /\ serv.out.since \in Int /\ serv.out.sent \in Seq(Messages)
    BY <1>1, BoxIs DEF Plain
  <1> QED BY <1>1, <1>2 DEF TypeOK, WellMade, Inv, Plain, Tagged

(* Whatever happens, every field is what TypeOK says: there is a tag for   *)
(* every timeout (servlist.c:556-590), and while anything waits there is a *)
(* timeout that sends it (server.c:139-179, 277-345).                      *)
THEOREM WellTyped == Spec => []TypeOK
  <1>1. Inv /\ WellMade /\ [Next]_vars => Inv' /\ WellMade'
    BY NextInv, NextWellMade
  <1>2. Init => Inv /\ WellMade
    BY InitInv, InitWellMade
  <1>3. Inv /\ WellMade => TypeOK
    BY WellMadeIsTyped
  <1> QED BY <1>1, <1>2, <1>3, PTL DEF Spec

(* A clock that is set back by anything does not silence the client for    *)
(* longer than a full queue does (server.c:148-160).                       *)
THEOREM SilenceIsBounded == Spec => SilenceBounded
  <1> DEFINE Bounded == serv.conn = "connected" /\ serv'.out.queue \notin {<<>>, serv.out.queue}
                            => serv'.out.owed <= Limit - 1 + MaxCost
  <1>1. WellMade /\ [Next]_vars => [Bounded]_vars
    BY StepGoes DEF WellMade, Goes, Silence, Peak
  <1>2. Init => WellMade
    BY InitWellMade
  <1>3. WellMade /\ [Next]_vars => WellMade'
    BY NextWellMade
  <1>4. Spec => [][Bounded]_vars
    <2> HIDE DEF Bounded
    <2> QED BY <1>1, <1>2, <1>3, PTL DEF Spec
  <1> QED BY <1>4 DEF SilenceBounded

(* Outbox has its own instance of Filter, which is the same.                *)
LEMMA BoxPicks == \A q, I : Box!Picked(q, I) = Picked(q, I)
  <1>1. \A I : Box!Cardinality(I) = Cardinality(I)
    BY DEF Box!Cardinality, Cardinality
  <1>2. \A I, i : Box!Nth(I, i) = Nth(I, i)
    BY <1>1 DEF Box!Nth, Nth
  <1> QED BY <1>1, <1>2 DEF Box!Picked, Picked

LEMMA DeliverIs ==
    ASSUME Sound(serv), Sound(serv'), Delivers(serv, serv')
    PROVE  Box!Deliver
  <1> DEFINE a == serv.out.sent
             b == serv'.out.sent
  <1>1. PICK out \in Seq(Messages) :
            /\ b = a \o out /\ InOrder(out)
            /\ \A p \in 0..2 :
                  \/ Heads(Waiting(p, serv.out.queue), Waiting(p, out) \o Waiting(p, serv'.out.queue))
                  \/ /\ serv'.conn # "connected" /\ Waiting(p, serv'.out.queue) = <<>>
                     /\ Lost(Waiting(p, out), Waiting(p, serv.out.queue))
    BY DEF Delivers
  <1>2. a \in Seq(Messages) /\ b \in Seq(Messages)
    BY BoxIs DEF Sound, Plain
  <1> HIDE DEF a, b
  <1>3. Heads(a, b)
    BY <1>1, <1>2, HeadOfConcat
  <1>4. SubSeq(b, Len(a) + 1, Len(b)) = out
    <2> DEFINE k == Len(a)
               n == Len(out)
               z == SubSeq(b, k + 1, k + n)
    <2>1. k \in Nat /\ n \in Nat /\ Len(b) = k + n
          /\ \A i \in 1..(k + n) : b[i] = IF i <= k THEN a[i] ELSE out[i - k]
      BY <1>1, <1>2, ConcatIs
    <2> HIDE DEF k, n
    <2>2. \A i \in (k + 1)..(k + n) : b[i] \in Messages
      BY <1>2, <2>1
    <2>3. /\ z \in Seq(Messages) /\ Len(z) = (IF k + 1 <= k + n THEN (k + n) - (k + 1) + 1 ELSE 0)
          /\ \A i \in 1..((k + n) - (k + 1) + 1) : z[i] = b[(k + 1) + i - 1]
      <3>1. k + 1 \in Int /\ k + n \in Int
        BY <2>1
      <3> QED BY <2>2, <3>1, SubSeqProperties
    <2> HIDE DEF z
    <2>4. Len(z) = n /\ (k + n) - (k + 1) + 1 = n
      BY <2>1, <2>3
    <2>5. ASSUME NEW i \in 1..n PROVE z[i] = out[i]
      <3>1. z[i] = b[(k + 1) + i - 1] /\ (k + 1) + i - 1 = k + i
        BY <2>1, <2>3, <2>4
      <3>2. k + i \in 1..(k + n) /\ ~(k + i <= k) /\ (k + i) - k = i
        BY <2>1
      <3>3. b[k + i] = out[i]
        BY <2>1, <3>2
      <3> QED BY <3>1, <3>3
    <2>6. z = out
      BY <2>3, <2>4, <2>5, SeqEqual DEF n
    <2>7. SubSeq(b, k + 1, Len(b)) = out
      BY <2>1, <2>6 DEF z
    <2> QED BY <2>7 DEF k
  <1>5. \A p, q : Box!OfPriority(p, q) = Waiting(p, q)
    BY BoxPicks DEF Box!OfPriority, Waiting
  <1>6. \A u, w : Box!Leads(u, w) <=> Heads(u, w)
    BY DEF Box!Leads, Heads
  <1> QED BY <1>1, <1>3, <1>4, <1>5, <1>6 DEF Box!Deliver, InOrder, Lost, a, b

(* The queue keeps the promise of Outbox, step by step: within a priority  *)
(* in order and each once, none lost or left for the next connection       *)
(* (server.c:122-179, 307-345, 663-676).                                   *)
THEOREM SendsAsPromised == Spec => ImplementsOutbox
  <1>1. Init => Box!Init
    <2> SUFFICES ASSUME Init PROVE Box!Init
      OBVIOUS
    <2>1. serv.conn = "off" /\ serv.out.queue = <<>> /\ serv.out.sent = <<>>
      BY DEF Init
    <2> QED BY <2>1, WaitingNone DEF Box!Init
  <1>2. WellMade /\ [Next]_vars => [Box!Next]_(Box!vars)
    <2> SUFFICES ASSUME WellMade, [Next]_vars PROVE Box!Next
      OBVIOUS
    <2>1. Goes(serv, serv')
      BY StepGoes DEF WellMade
    <2>2. CASE Delivers(serv, serv')
      BY <2>1, <2>2, DeliverIs DEF WellMade, Goes, Box!Next
    <2>3. CASE Reopens(serv')
      BY <2>3, WaitingNone DEF Reopens, Box!Next, Box!Reopen
    <2> QED BY <2>1, <2>2, <2>3 DEF Goes
  <1>3. Init => WellMade
    BY InitWellMade
  <1>4. WellMade /\ [Next]_vars => WellMade'
    BY NextWellMade
  <1> QED BY <1>1, <1>2, <1>3, <1>4, PTL DEF Spec, ImplementsOutbox, Box!Spec
=============================================================================
