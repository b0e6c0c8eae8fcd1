----------------------------- MODULE DccProofs -----------------------------
(***************************************************************************)
(* Proofs about the file transfers of HexChat (Dcc).                       *)
(*                                                                         *)
(* The invariant has five parts.  Shape says what the records and the      *)
(* files are like, Talk what each transfer may still have under way on     *)
(* IRC.  Apart and Alone say that no two transfers write into one file     *)
(* unless one of them is spoilt, and Agreed, of every transfer that is not *)
(* spoilt, that its two ends begin at the same cell, that the cells on     *)
(* their way are the next ones, that what is acknowledged has been         *)
(* received, and that the file on the disk is whole as far as it goes.     *)
(***************************************************************************)
EXTENDS Dcc, FiniteSetTheorems, SequenceTheorems, WellFoundedInduction, TLAPS

Live  == {"queued"} \cup Underway
Early == {"none", "queued"}
Over  == {"done", "gone"}
Blank == [link |-> "none", cells |-> <<>>, acks |-> <<>>]

\* the place where the receiver goes on, and how much of destfile there is
Start(o) == IF rcv[o].open THEN rcv[o].pos ELSE rcv[o].resumable
OnDisk   == IF 0 \in DOMAIN disk THEN Len(disk[0]) ELSE 0

\* the messages of one kind about one offer
About(q, kind, o) == {i \in 1..Len(q) : q[i].kind = kind /\ q[i].offer = o}

-----------------------------------------------------------------------------
Sends == \A o \in Offers :
    /\ snd[o].pos <= size
    /\ snd[o].stat = "active" /\ snd[o].wiotag => snd[o].pos < size

OwnFile(o) ==
    /\ ~rcv[o].open => rcv[o].destfile = 0
    /\ rcv[o].open => rcv[o].destfile \in DOMAIN disk
    /\ rcv[o].open /\ rcv[o].resumable # 0 => rcv[o].destfile = 0
    /\ rcv[o].stat \in Early => ~rcv[o].open
    /\ rcv[o].stat = "none" => ~rcv[o].resume_sent

\* there are names left for the files that may still be opened
Free   == (0..MaxOffers) \ DOMAIN disk
ToOpen == {o \in Offers : rcv[o].stat \in Early \cup Underway /\ ~rcv[o].open}
Room   == Cardinality(Free) >= Cardinality(ToOpen)

Shape == TypeOK /\ Sends /\ Room /\ \A o \in Offers : OwnFile(o)

-----------------------------------------------------------------------------
Places(o) ==
    /\ \A i \in About(toSend, "RESUME", o) : toSend[i].pos \in 1..(size - 1) /\ toSend[i].pos <= OnDisk
    /\ \A i \in About(toRecv, "ACCEPT", o) : toRecv[i].pos \in 1..(size - 1)
    /\ snd[o].resumable < size /\ snd[o].resumable <= OnDisk
    /\ rcv[o].resumable < size /\ rcv[o].resumable <= OnDisk

Offered(o) ==
    /\ snd[o].stat = "none" => rcv[o].stat = "none" /\ About(toRecv, "SEND", o) = {}
    /\ About(toRecv, "SEND", o) # {} => rcv[o].stat = "none"
    /\ \A i, j \in About(toRecv, "SEND", o) : i = j
    /\ rcv[o].stat = "none" => About(toSend, "RESUME", o) = {}
    /\ snd[o].stat \in {"none", "queued", "connecting"} => wire[o].cells = <<>> /\ wire[o].acks = <<>>
    /\ rcv[o].stat \in Early \/ (rcv[o].stat = "connecting" /\ ~rcv[o].passive) =>
          snd[o].stat \notin Underway /\ About(toSend, "SEND", o) = {} /\ wire[o] = Blank

Talk == \A o \in Offers : Places(o) /\ Offered(o)

-----------------------------------------------------------------------------
Asked(o) ==
    /\ \A i, j \in About(toSend, "RESUME", o) : i < j => toSend[i].pos <= toSend[j].pos
    /\ snd[o].stat \in Live =>
          /\ \A i \in About(toSend, "RESUME", o) : snd[o].resumable <= toSend[i].pos
          /\ \A i \in About(toRecv, "ACCEPT", o) : toRecv[i].pos <= snd[o].resumable
    /\ rcv[o].stat = "queued" /\ rcv[o].resumable # 0 =>
          /\ \A i \in About(toSend, "RESUME", o) : toSend[i].pos <= rcv[o].resumable
          /\ snd[o].stat \in Live => snd[o].resumable <= rcv[o].resumable
    /\ rcv[o].stat \in Early /\ ~rcv[o].resume_sent =>
          /\ About(toSend, "RESUME", o) = {} /\ About(toRecv, "ACCEPT", o) = {}
          /\ snd[o].stat \in Live => snd[o].resumable = 0
    /\ snd[o].stat \in {"queued", "connecting"} => snd[o].pos = snd[o].resumable /\ snd[o].ack = snd[o].pos
    /\ rcv[o].stat \in Underway /\ snd[o].stat \in Live =>
          /\ snd[o].resumable = rcv[o].resumable
          /\ \A i \in About(toSend, "RESUME", o) : toSend[i].pos = rcv[o].resumable

Stream(o) ==
    rcv[o].stat \in Underway =>
        /\ wire[o].cells = Cells(Start(o), Len(wire[o].cells))
        /\ Start(o) + Len(wire[o].cells) <= size
        /\ snd[o].stat \in Live /\ wire[o].link # "cut" => snd[o].pos = Start(o) + Len(wire[o].cells)
        /\ rcv[o].resumable <= Start(o)
        /\ ~rcv[o].open /\ rcv[o].resumable = 0 => rcv[o].pos = 0

\* an acknowledged position, if a position is what it can hold
Sound(o, a) == a <= size /\ (a = size => rcv[o].stat \in Over)

Acks(o) ==
    size < Wrap =>
        /\ snd[o].stat \in Live =>
              /\ \A i \in 1..Len(wire[o].acks) : wire[o].acks[i] > snd[o].resumable /\ Sound(o, wire[o].acks[i])
              /\ ~snd[o].ackoffset /\ Sound(o, snd[o].ack)
        /\ snd[o].stat = "done" => rcv[o].stat \in Over

\* a transfer that writes into a file, or knows the one it will write into
Writer(o) == rcv[o].stat \in Underway /\ (rcv[o].open \/ rcv[o].resumable # 0)

\* a file of one's own is not the one that transfers are resumed into
Apart == \A o, q \in Offers :
    /\ rcv[q].stat = "queued" /\ rcv[q].resumable # 0
    /\ rcv[o].stat \in Underway /\ rcv[o].open /\ rcv[o].resumable = 0
    => rcv[o].destfile # 0

Alone == \A o, q \in Offers :
    o # q /\ Writer(o) /\ Writer(q) /\ rcv[o].destfile = rcv[q].destfile => o \in spoilt

Whole(o) == Writer(o) => disk[rcv[o].destfile] = Cells(0, Start(o))

Agreed == \A o \in Offers \ spoilt : Asked(o) /\ Stream(o) /\ Acks(o) /\ Whole(o)

IInv == Shape /\ Talk /\ Apart /\ Alone /\ Agreed

-----------------------------------------------------------------------------
(* The cells of the file, and what the operations make of a record.        *)

LEMMA SizeIs == TypeOK => size \in Nat \ {0} /\ file.offers \in 1..MaxOffers
  BY DccAssumption DEF TypeOK, size

LEMMA CellsAre ==
    ASSUME TypeOK, NEW pos \in Nat, NEW n \in Nat, pos + n <= size
    PROVE  Cells(pos, n) \in Seq(1..size) /\ Len(Cells(pos, n)) = n
  <1>1. size \in Nat
    BY SizeIs
  <1>2. \A i \in 1..n : pos + i \in 1..size
    BY <1>1
  <1> QED BY <1>2 DEF Cells

LEMMA CellsJoin ==
    ASSUME TypeOK, NEW pos \in Nat, NEW n \in Nat, NEW k \in Nat, pos + n + k <= size
    PROVE  Cells(pos, n) \o Cells(pos + n, k) = Cells(pos, n + k)
  <1>0. size \in Nat
    BY SizeIs
  <1>1. Cells(pos, n) \in Seq(1..size) /\ Len(Cells(pos, n)) = n
    BY <1>0, CellsAre
  <1>2. Cells(pos + n, k) \in Seq(1..size) /\ Len(Cells(pos + n, k)) = k
    BY <1>0, CellsAre
  <1>3. Cells(pos, n + k) \in Seq(1..size) /\ Len(Cells(pos, n + k)) = n + k
    BY <1>0, CellsAre
  <1>4. \A i \in 1..(n + k) : (Cells(pos, n) \o Cells(pos + n, k))[i] = Cells(pos, n + k)[i]
    <2> SUFFICES ASSUME NEW i \in 1..(n + k)
                 PROVE  (Cells(pos, n) \o Cells(pos + n, k))[i] = Cells(pos, n + k)[i]
      OBVIOUS
    <2>1. CASE i <= n
      BY <2>1, <1>1, <1>2 DEF Cells
    <2>2. CASE i > n
      <3>1. (Cells(pos, n) \o Cells(pos + n, k))[i] = Cells(pos + n, k)[i - n]
        BY <2>2, <1>1, <1>2
      <3> QED BY <2>2, <3>1 DEF Cells
    <2>3. i \in Nat /\ (i <= n \/ i > n)
      OBVIOUS
    <2> QED BY <2>1, <2>2, <2>3
  <1>5. Cells(pos, n) \o Cells(pos + n, k) \in Seq(1..size)
        /\ Len(Cells(pos, n) \o Cells(pos + n, k)) = n + k
    BY <1>1, <1>2, ConcatProperties
  <1> QED BY <1>3, <1>4, <1>5, SeqEqual

LEMMA CellsSplit ==
    ASSUME TypeOK, NEW pos \in Nat, NEW n \in Nat, NEW k \in 0..n, pos + n <= size
    PROVE  /\ SubSeq(Cells(pos, n), 1, k) = Cells(pos, k)
           /\ SubSeq(Cells(pos, n), k + 1, n) = Cells(pos + k, n - k)
  <1>0. size \in Nat
    BY SizeIs
  <1>1. Cells(pos, n) \in Seq(1..size) /\ Len(Cells(pos, n)) = n
    BY CellsAre
  <1>2. Cells(pos, k) \in Seq(1..size) /\ Len(Cells(pos, k)) = k
    BY <1>0, CellsAre
  <1>3. Cells(pos + k, n - k) \in Seq(1..size) /\ Len(Cells(pos + k, n - k)) = n - k
    <2>1. pos + k \in Nat /\ n - k \in Nat /\ (pos + k) + (n - k) <= size
      BY <1>0
    <2> QED BY <2>1, CellsAre
  <1>4. \A i \in 1..n : Cells(pos, n)[i] \in 1..size
    BY <1>0 DEF Cells
  <1>5. /\ SubSeq(Cells(pos, n), 1, k) \in Seq(1..size) /\ Len(SubSeq(Cells(pos, n), 1, k)) = k
        /\ \A i \in 1..k : SubSeq(Cells(pos, n), 1, k)[i] = Cells(pos, n)[i]
    BY <1>4, SubSeqProperties
  <1>6. /\ SubSeq(Cells(pos, n), k + 1, n) \in Seq(1..size) /\ Len(SubSeq(Cells(pos, n), k + 1, n)) = n - k
        /\ \A i \in 1..(n - k) : SubSeq(Cells(pos, n), k + 1, n)[i] = Cells(pos, n)[k + i]
    BY <1>4, SubSeqProperties
  <1>7. \A i \in 1..k : Cells(pos, n)[i] = Cells(pos, k)[i]
    BY DEF Cells
  <1>8. \A i \in 1..(n - k) : Cells(pos, n)[k + i] = Cells(pos + k, n - k)[i]
    BY DEF Cells
  <1>9. SubSeq(Cells(pos, n), 1, k) = Cells(pos, k)
    BY <1>2, <1>5, <1>7, SeqEqual
  <1>10. SubSeq(Cells(pos, n), k + 1, n) = Cells(pos + k, n - k)
    BY <1>3, <1>6, <1>8, SeqEqual
  <1> QED BY <1>9, <1>10

LEMMA NewRecords ==
    ASSUME NEW stat \in Stats, NEW passive \in BOOLEAN
    PROVE  NewSend(stat, passive) \in SendRec /\ NewRecv(stat, passive) \in RecvRec
  BY DEF NewSend, NewRecv, SendRec, RecvRec

LEMMA Shutting ==
    ASSUME NEW d \in SendRec, NEW stat \in Stats
    PROVE  /\ Shut(d, stat) \in SendRec
           /\ Shut(d, stat).stat = stat /\ ~Shut(d, stat).wiotag
           /\ Shut(d, stat).pos = d.pos /\ Shut(d, stat).ack = d.ack
           /\ Shut(d, stat).resumable = d.resumable /\ Shut(d, stat).ackoffset = d.ackoffset
  BY DEF Shut, Closed, SendRec

LEMMA Closing ==
    ASSUME NEW d \in RecvRec, NEW stat \in Stats
    PROVE  /\ Closed(d, stat) \in RecvRec
           /\ Closed(d, stat).stat = stat /\ Closed(d, stat).pos = d.pos
           /\ Closed(d, stat).resumable = d.resumable /\ Closed(d, stat).open = d.open
           /\ Closed(d, stat).destfile = d.destfile /\ Closed(d, stat).resume_sent = d.resume_sent
           /\ Closed(d, stat).passive = d.passive
  BY DEF Closed, RecvRec

\* what dcc_send_data makes of a transfer that is active
LEMMA SentIs ==
    ASSUME TypeOK, NEW d \in SendRec, d.stat = "active", d.pos <= size,
           d.wiotag => d.pos < size \/ prefs.fast, NEW r \in Sent(d)
    PROVE  /\ r.dcc \in SendRec /\ r.cells \in Nat
           /\ r.dcc.pos = d.pos + r.cells /\ d.pos + r.cells <= size
           /\ r.dcc.ack = d.ack /\ r.dcc.resumable = d.resumable /\ r.dcc.ackoffset = d.ackoffset
           /\ r.dcc.stat \in {"active", "failed"}
           /\ r.dcc.stat = "active" /\ r.dcc.wiotag => r.dcc.pos < size
           /\ r.dcc.stat = "failed" =>
                 r.cells = 0 /\ d.pos = size /\ ~d.throttled /\ (prefs.fast \/ ~(d.ack < d.pos % Wrap))
  <1>0. size \in Nat /\ prefs.fast \in BOOLEAN /\ Block \in Nat
    BY SizeIs, DccAssumption DEF TypeOK
  <1>1. CASE d.throttled
    <2>1. r = [dcc |-> [d EXCEPT !.wiotag = FALSE], cells |-> 0]
      BY <1>1 DEF Sent
    <2>2. r.dcc = [d EXCEPT !.wiotag = FALSE] /\ r.cells = 0
      BY <2>1
    <2>3. d.pos + 0 = d.pos /\ d.pos \in Nat
      BY DEF SendRec
    <2>4. r.dcc \in SendRec
      BY <2>2 DEF SendRec
    <2>5. /\ r.dcc.pos = d.pos /\ r.dcc.ack = d.ack /\ r.dcc.resumable = d.resumable
          /\ r.dcc.ackoffset = d.ackoffset /\ r.dcc.stat = d.stat /\ r.dcc.wiotag = FALSE
      BY <2>2 DEF SendRec
    <2> QED BY <1>0, <2>2, <2>3, <2>4, <2>5
  <1>2. CASE ~d.throttled /\ ~prefs.fast /\ d.ack < d.pos % Wrap
    <2>1. r = [dcc |-> d, cells |-> 0]
      BY <1>2 DEF Sent
    <2> QED BY <1>0, <1>2, <2>1 DEF SendRec
  <1>3. CASE ~d.throttled /\ ~(~prefs.fast /\ d.ack < d.pos % Wrap) /\ d.pos >= size
    <2>1. r = [dcc |-> Shut(d, "failed"), cells |-> 0]
      BY <1>3 DEF Sent
    <2>2. "failed" \in Stats
      BY DEF Stats, Finished
    <2>3. d.pos = size /\ d.pos \in Nat
      BY <1>0, <1>3 DEF SendRec
    <2>4. r.dcc = Shut(d, "failed") /\ r.cells = 0
      BY <2>1
    <2> QED BY <1>0, <1>3, <2>2, <2>3, <2>4, Shutting
  <1>4. CASE ~d.throttled /\ ~(~prefs.fast /\ d.ack < d.pos % Wrap) /\ ~(d.pos >= size)
    <2>1. PICK n \in {k \in 1..Block : d.pos + k <= size} :
             r = [dcc |-> [d EXCEPT !.pos = @ + n, !.wiotag = prefs.fast /\ d.pos + n < size], cells |-> n]
      BY <1>4 DEF Sent
    <2>2. n \in Nat /\ d.pos + n <= size /\ d.pos \in Nat
      BY <1>0, <2>1 DEF SendRec
    <2>3. r.dcc \in SendRec
      <3> DEFINE more == prefs.fast /\ d.pos + n < size
      <3>1. more \in BOOLEAN /\ d.pos + n \in Nat
        BY <1>0, <2>2
      <3>2. r.dcc = [d EXCEPT !.pos = @ + n, !.wiotag = more]
        BY <2>1
      <3> HIDE DEF more
      <3> QED BY <3>1, <3>2 DEF SendRec
    <2>4. /\ r.dcc.pos = d.pos + n /\ r.cells = n /\ r.dcc.ack = d.ack /\ r.dcc.resumable = d.resumable
          /\ r.dcc.ackoffset = d.ackoffset /\ r.dcc.stat = d.stat
          /\ r.dcc.wiotag = (prefs.fast /\ d.pos + n < size)
      BY <2>1 DEF SendRec
    <2> QED BY <1>0, <2>2, <2>3, <2>4
  <1> QED BY <1>1, <1>2, <1>3, <1>4

-----------------------------------------------------------------------------
(* The parts of a step that keep Shape: one end of one transfer changes.   *)

WireRec == [link : {"none", "up", "cut"}, cells : Seq(1..size), acks : Seq(0..(Wrap - 1))]

LEMMA Queues ==
    ASSUME NEW q \in Seq(Ctcp), NEW kind, Arrives(q, kind)
    PROVE  /\ Head(q) \in Ctcp /\ Tail(q) \in Seq(Ctcp) /\ Head(q).kind = kind
           /\ q # <<>> /\ Head(q) = q[1] /\ Len(q) \in Nat \ {0} /\ Len(Tail(q)) = Len(q) - 1
           /\ \A i \in 1..Len(Tail(q)) : Tail(q)[i] = q[i + 1]
  <1>1. q # <<>> /\ Head(q).kind = kind
    BY DEF Arrives
  <1>2. Len(q) \in Nat \ {0}
    BY <1>1, EmptySeq
  <1>3. Head(q) = q[1]
    BY <1>1
  <1> QED BY <1>1, <1>2, <1>3, HeadTailProperties

LEMMA Messages ==
    ASSUME NEW kind \in {"SEND", "RESUME", "ACCEPT"}, NEW o \in Offers, NEW passive \in BOOLEAN,
           NEW pos \in Nat, NEW q \in Seq(Ctcp)
    PROVE  /\ Message(kind, o, passive, pos) \in Ctcp
           /\ Message(kind, o, passive, pos).kind = kind /\ Message(kind, o, passive, pos).offer = o
           /\ Message(kind, o, passive, pos).pos = pos
           /\ Append(q, Message(kind, o, passive, pos)) \in Seq(Ctcp)
  BY DEF Message, Ctcp

LEMMA OffersFinite == IsFiniteSet(Offers) /\ Cardinality(Offers) = MaxOffers
  <1>1. MaxOffers \in Nat
    BY DccAssumption
  <1> QED BY <1>1, FS_Interval DEF Offers

LEMMA RoomCounts ==
    /\ IsFiniteSet(Free) /\ Cardinality(Free) \in Nat
    /\ IsFiniteSet(ToOpen) /\ Cardinality(ToOpen) \in Nat
  <1>1. MaxOffers \in Nat
    BY DccAssumption
  <1>2. IsFiniteSet(0..MaxOffers)
    BY <1>1, FS_Interval
  <1>3. IsFiniteSet(Free)
    BY <1>2, FS_Subset DEF Free
  <1>4. IsFiniteSet(ToOpen)
    BY OffersFinite, FS_Subset DEF ToOpen
  <1> QED BY <1>3, <1>4, FS_CardinalityType

LEMMA RoomKept ==
    ASSUME Room, ToOpen' \subseteq ToOpen, DOMAIN disk' = DOMAIN disk
    PROVE  Room'
  <1>1. Free' = Free
    BY DEF Free
  <1>2. Cardinality(ToOpen') <= Cardinality(ToOpen) /\ Cardinality(ToOpen') \in Nat
    BY RoomCounts, FS_Subset, FS_CardinalityType
  <1> QED BY <1>1, <1>2, RoomCounts DEF Room

LEMMA AFreeFile ==
    ASSUME Shape, NEW o \in Offers, rcv[o].stat \in Early \cup Underway, ~rcv[o].open
    PROVE  Free # {} /\ o \in ToOpen
  <1>1. o \in ToOpen
    BY DEF ToOpen
  <1>2. Cardinality(ToOpen) # 0
    BY <1>1, RoomCounts, FS_EmptySet
  <1>3. Cardinality(Free) # 0
    BY <1>2, RoomCounts DEF Shape, Room
  <1> QED BY <1>1, <1>3, FS_EmptySet

\* the sender's end changes
LEMMA SendSide ==
    ASSUME Shape, NEW o \in Offers, NEW s \in SendRec, NEW w \in WireRec,
           s.pos <= size, s.stat = "active" /\ s.wiotag => s.pos < size,
           snd' = [snd EXCEPT ![o] = s], wire' = [wire EXCEPT ![o] = w],
           UNCHANGED <<consts, rcv, disk>>,
           toRecv' \in Seq(Ctcp), toSend' \in Seq(Ctcp), inputs' \in 0..MaxInputs, spoilt' \subseteq Offers
    PROVE  Shape'
  <1>0. UNCHANGED <<file, prefs, rcv, disk>> /\ size' = size /\ WireRec' = WireRec
    BY DEF consts, size, WireRec
  <1>1. TypeOK'
    <2>1. snd' \in [Offers -> SendRec] /\ wire' \in [Offers -> WireRec]
      BY DEF Shape, TypeOK, WireRec
    <2> QED BY <1>0, <2>1 DEF Shape, TypeOK, WireRec
  <1>2. Sends'
    BY <1>0 DEF Shape, TypeOK, Sends
  <1>3. Room'
    BY <1>0, RoomKept DEF Shape, ToOpen
  <1>4. \A p \in Offers : OwnFile(p)'
    BY <1>0 DEF Shape, OwnFile
  <1> QED BY <1>1, <1>2, <1>3, <1>4 DEF Shape

\* the receiver's end changes while its file stays as it is
LEMMA RecvSide ==
    ASSUME Shape, NEW o \in Offers, NEW r \in RecvRec, NEW w \in WireRec,
           ~r.open => r.destfile = 0,
           r.open => rcv[o].open /\ r.destfile = rcv[o].destfile /\ r.resumable = rcv[o].resumable,
           r.stat \in Early \cup Underway => rcv[o].stat \in Early \cup Underway /\ r.open = rcv[o].open,
           r.stat \in Early => ~r.open, r.stat = "none" => ~r.resume_sent,
           rcv' = [rcv EXCEPT ![o] = r], wire' = [wire EXCEPT ![o] = w],
           UNCHANGED <<consts, snd, disk>>,
           toRecv' \in Seq(Ctcp), toSend' \in Seq(Ctcp), inputs' \in 0..MaxInputs, spoilt' \subseteq Offers
    PROVE  Shape'
  <1>0. UNCHANGED <<file, prefs, snd, disk>> /\ size' = size /\ WireRec' = WireRec
    BY DEF consts, size, WireRec
  <1>1. TypeOK'
    <2>1. rcv' \in [Offers -> RecvRec] /\ wire' \in [Offers -> WireRec]
      BY DEF Shape, TypeOK, WireRec
    <2> QED BY <1>0, <2>1 DEF Shape, TypeOK, WireRec
  <1>2. Sends'
    BY <1>0 DEF Shape, TypeOK, Sends
  <1>5. rcv'[o] = r /\ \A p \in Offers \ {o} : rcv'[p] = rcv[p]
    BY DEF Shape, TypeOK
  <1>3. Room'
    <2>1. \A p \in ToOpen' : p \in ToOpen
      BY <1>5 DEF ToOpen
    <2> QED BY <1>0, <2>1, RoomKept DEF Shape
  <1>4. \A p \in Offers : OwnFile(p)'
    <2> SUFFICES ASSUME NEW p \in Offers PROVE OwnFile(p)'
      OBVIOUS
    <2>1. OwnFile(p)
      BY DEF Shape
    <2>2. CASE p = o
      BY <1>0, <1>5, <2>1, <2>2 DEF OwnFile
    <2>3. CASE p # o
      BY <1>0, <1>5, <2>1, <2>3 DEF OwnFile
    <2> QED BY <2>2, <2>3
  <1> QED BY <1>1, <1>2, <1>3, <1>4 DEF Shape

-----------------------------------------------------------------------------
(* dcc_read: the file is opened, what has come is written.                 *)

LEMMA Least ==
    ASSUME NEW S \in SUBSET Nat, S # {}
    PROVE  \E m \in S : \A k \in S : m <= k
  <1>1. IsWellFoundedOn(OpToRel(<, Nat), Nat)
    BY NatLessThanWellFounded
  <1>2. PICK m \in S : \A k \in S : ~(<<k, m>> \in OpToRel(<, Nat))
    BY <1>1, WFMin
  <1>3. \A k \in S : ~(k < m)
    BY <1>2 DEF OpToRel
  <1> QED BY <1>3

LEMMA OpenedIs ==
    ASSUME Shape, NEW o \in Offers, rcv[o].stat \in Underway, NEW d \in RecvRec,
           d.open = rcv[o].open, d.destfile = rcv[o].destfile, d.resumable = rcv[o].resumable
    PROVE  /\ Opened(d) \in RecvRec
           /\ Opened(d).open /\ Opened(d).stat = d.stat /\ Opened(d).resumable = d.resumable
           /\ Opened(d).resume_sent = d.resume_sent /\ Opened(d).passive = d.passive
           /\ Opened(d).pos = IF ~d.open /\ d.resumable # 0 THEN d.resumable ELSE d.pos
           /\ d.open => Opened(d).destfile = d.destfile /\ d.destfile \in DOMAIN disk
           /\ ~d.open /\ d.resumable # 0 => Opened(d).destfile = 0
           /\ ~d.open /\ d.resumable = 0 => Opened(d).destfile \in Free /\ o \in ToOpen
           /\ Opened(d).destfile \in 0..MaxOffers
           /\ Opened(d).destfile = 0 \/ Opened(d).resumable = 0
  <1>0. OwnFile(o) /\ MaxOffers \in Nat /\ DOMAIN disk \subseteq 0..MaxOffers
    BY DccAssumption DEF Shape, TypeOK
  <1>1. CASE d.open
    <2>1. Opened(d) = d
      BY <1>1 DEF Opened
    <2> QED BY <1>0, <1>1, <2>1 DEF OwnFile, RecvRec
  <1>2. CASE ~d.open /\ d.resumable # 0
    <2>1. Opened(d) = [d EXCEPT !.open = TRUE, !.pos = d.resumable]
      BY <1>2 DEF Opened
    <2>2. d.destfile = 0
      BY <1>0, <1>2 DEF OwnFile
    <2>3. Opened(d) \in RecvRec
      BY <2>1 DEF RecvRec
    <2> QED BY <1>0, <1>2, <2>1, <2>2, <2>3 DEF RecvRec
  <1>3. CASE ~d.open /\ d.resumable = 0
    <2> DEFINE free == {f \in 0..MaxOffers : f \notin DOMAIN disk}
               n == CHOOSE f \in free : \A g \in free : f <= g
    <2>1. free = Free /\ free \subseteq Nat
      BY <1>0 DEF Free
    <2>2. Free # {} /\ o \in ToOpen
      BY <1>3, AFreeFile
    <2>3. \E f \in free : \A g \in free : f <= g
      BY <2>1, <2>2, Least
    <2>4. n \in free
      BY <2>3
    <2>5. Opened(d) = [d EXCEPT !.open = TRUE, !.destfile = n]
      BY <1>3 DEF Opened
    <2> HIDE DEF n, free
    <2>6. n \in Nat /\ n \in Free /\ n \in 0..MaxOffers
      BY <1>0, <2>1, <2>4 DEF Free
    <2>7. Opened(d) \in RecvRec
      BY <2>5, <2>6 DEF RecvRec
    <2> QED BY <1>3, <2>2, <2>5, <2>6, <2>7 DEF RecvRec
  <1> QED BY <1>1, <1>2, <1>3

LEMMA WrittenIs ==
    ASSUME TypeOK, NEW d \in RecvRec, d.destfile \in 0..MaxOffers, NEW cells \in Seq(1..size)
    PROVE  /\ DOMAIN Written(d, cells) = DOMAIN disk \cup {d.destfile}
           /\ \A f \in DOMAIN Written(d, cells) : Written(d, cells)[f] \in Seq(1..size)
           /\ \A f \in DOMAIN disk \ {d.destfile} : Written(d, cells)[f] = disk[f]
           /\ d.destfile \in DOMAIN disk => Written(d, cells)[d.destfile] = disk[d.destfile] \o cells
           /\ d.destfile \notin DOMAIN disk => Written(d, cells)[d.destfile] = cells
  <1> DEFINE dom == DOMAIN disk \cup {d.destfile}
             old(f) == IF f \in DOMAIN disk THEN disk[f] ELSE <<>>
             new(f) == IF f = d.destfile THEN cells ELSE <<>>
  <1>1. Written(d, cells) = [f \in dom |-> old(f) \o new(f)]
    BY DEF Written
  <1>2. \A f \in dom : old(f) \in Seq(1..size) /\ new(f) \in Seq(1..size)
    BY EmptySeq DEF TypeOK
  <1>3. \A f \in dom : old(f) \o new(f) \in Seq(1..size)
    BY <1>2, ConcatProperties
  <1>4. \A f \in DOMAIN disk \ {d.destfile} : old(f) \o new(f) = disk[f]
    <2> SUFFICES ASSUME NEW f \in DOMAIN disk \ {d.destfile} PROVE old(f) \o new(f) = disk[f]
      OBVIOUS
    <2>1. old(f) = disk[f] /\ new(f) = <<>> /\ old(f) \in Seq(1..size)
      BY <1>2
    <2> HIDE DEF old, new
    <2> QED BY <2>1, ConcatEmptySeq
  <1>5. d.destfile \notin DOMAIN disk => old(d.destfile) \o new(d.destfile) = cells
    <2> SUFFICES ASSUME d.destfile \notin DOMAIN disk PROVE old(d.destfile) \o new(d.destfile) = cells
      OBVIOUS
    <2>1. old(d.destfile) = <<>> /\ new(d.destfile) = cells
      OBVIOUS
    <2> HIDE DEF old, new
    <2> QED BY <2>1, ConcatEmptySeq
  <1>6. d.destfile \in DOMAIN disk => old(d.destfile) \o new(d.destfile) = disk[d.destfile] \o cells
    OBVIOUS
  <1> HIDE DEF old, new
  <1> QED BY <1>1, <1>3, <1>4, <1>5, <1>6

\* the receiver's end changes, and what it has opened is written
LEMMA ReadSide ==
    ASSUME Shape, NEW o \in Offers, rcv[o].stat \in Underway, NEW d \in RecvRec,
           d.open = rcv[o].open, d.destfile = rcv[o].destfile, d.resumable = rcv[o].resumable,
           NEW r \in RecvRec, r.open, r.destfile = Opened(d).destfile, r.resumable = d.resumable,
           r.stat \notin Early, NEW w \in WireRec, NEW cells \in Seq(1..size),
           disk' = Written(Opened(d), cells),
           rcv' = [rcv EXCEPT ![o] = r], wire' = [wire EXCEPT ![o] = w],
           UNCHANGED <<consts, snd>>,
           toRecv' \in Seq(Ctcp), toSend' \in Seq(Ctcp), inputs' \in 0..MaxInputs, spoilt' \subseteq Offers
    PROVE  Shape'
  <1>0. UNCHANGED <<file, prefs, snd>> /\ size' = size /\ WireRec' = WireRec
    BY DEF consts, size, WireRec
  <1> DEFINE f == Opened(d)
  <1>1. /\ f \in RecvRec /\ f.open /\ f.resumable = d.resumable /\ f.destfile \in 0..MaxOffers
        /\ d.open => f.destfile \in DOMAIN disk
        /\ f.destfile = 0 \/ f.resumable = 0
        /\ ~d.open /\ d.resumable = 0 => f.destfile \in Free /\ o \in ToOpen
    BY OpenedIs
  <1>2. /\ DOMAIN disk' = DOMAIN disk \cup {f.destfile}
        /\ \A g \in DOMAIN disk' : disk'[g] \in Seq(1..size)
    BY <1>1, WrittenIs DEF Shape
  <1> HIDE DEF f
  <1>3. rcv'[o] = r /\ \A p \in Offers \ {o} : rcv'[p] = rcv[p]
    BY DEF Shape, TypeOK
  <1>4. TypeOK'
    <2>1. rcv' \in [Offers -> RecvRec] /\ wire' \in [Offers -> WireRec]
      BY DEF Shape, TypeOK, WireRec
    <2>2. DOMAIN disk' \subseteq 0..MaxOffers
      BY <1>1, <1>2 DEF Shape, TypeOK
    <2> QED BY <1>0, <1>2, <2>1, <2>2 DEF Shape, TypeOK, WireRec
  <1>5. Sends'
    BY <1>0 DEF Shape, TypeOK, Sends
  <1>6. Room'
    <2>0. \A p \in ToOpen' : p \in ToOpen \ {o}
      BY <1>3 DEF ToOpen
    <2>1. CASE f.destfile \in DOMAIN disk
      <3>1. DOMAIN disk' = DOMAIN disk
        BY <1>2, <2>1
      <3> QED BY <2>0, <3>1, RoomKept DEF Shape
    <2>2. CASE f.destfile \notin DOMAIN disk
      <3>1. Free' = Free \ {f.destfile} /\ f.destfile \in Free
        BY <1>1, <1>2, <2>2 DEF Free
      <3>2. Cardinality(Free') = Cardinality(Free) - 1
        BY <3>1, RoomCounts, FS_RemoveElement
      <3>3. CASE o \in ToOpen
        <4>1. Cardinality(ToOpen \ {o}) = Cardinality(ToOpen) - 1 /\ IsFiniteSet(ToOpen \ {o})
          BY <3>3, RoomCounts, FS_RemoveElement
        <4>2. Cardinality(ToOpen') <= Cardinality(ToOpen \ {o}) /\ Cardinality(ToOpen') \in Nat
          BY <2>0, <4>1, FS_Subset, FS_CardinalityType
        <4> QED BY <3>2, <4>1, <4>2, RoomCounts DEF Shape, Room
      <3>4. CASE o \notin ToOpen
        <4>1. d.open
          BY <3>4 DEF ToOpen
        <4> QED BY <1>1, <2>2, <4>1
      <3> QED BY <3>3, <3>4
    <2> QED BY <2>1, <2>2
  <1>7. \A p \in Offers : OwnFile(p)'
    <2> SUFFICES ASSUME NEW p \in Offers PROVE OwnFile(p)'
      OBVIOUS
    <2>1. OwnFile(p)
      BY DEF Shape
    <2>2. CASE p = o
      <3>1. r.destfile = f.destfile
        BY DEF f
      <3>2. r.stat # "none"
        BY DEF Early
      <3> QED BY <1>1, <1>2, <1>3, <2>2, <3>1, <3>2 DEF OwnFile
    <2>3. CASE p # o
      BY <1>0, <1>2, <1>3, <2>1, <2>3 DEF OwnFile
    <2> QED BY <2>2, <2>3
  <1> QED BY <1>4, <1>5, <1>6, <1>7 DEF Shape

-----------------------------------------------------------------------------
(* The sender's steps keep Shape.                                          *)

LEMMA Wires ==
    ASSUME NEW w \in WireRec
    PROVE  /\ \A link \in {"none", "up", "cut"} : [w EXCEPT !.link = link] \in WireRec
           /\ \A c \in Seq(1..size) : [w EXCEPT !.cells = c] \in WireRec
           /\ \A a \in Seq(0..(Wrap - 1)) : [w EXCEPT !.acks = a] \in WireRec
           /\ w.cells \in Seq(1..size) /\ w.acks \in Seq(0..(Wrap - 1))
  BY DEF WireRec

LEMMA Fields ==
    ASSUME Shape, NEW o \in Offers
    PROVE  /\ snd[o] \in SendRec /\ rcv[o] \in RecvRec /\ wire[o] \in WireRec
           /\ snd[o].pos \in Nat /\ snd[o].ack \in Nat /\ snd[o].resumable \in Nat /\ snd[o].pos <= size
           /\ snd[o].stat \in Stats /\ snd[o].passive \in BOOLEAN
           /\ rcv[o].pos \in Nat /\ rcv[o].resumable \in Nat /\ rcv[o].destfile \in Nat
           /\ rcv[o].passive \in BOOLEAN
           /\ toRecv \in Seq(Ctcp) /\ toSend \in Seq(Ctcp)
           /\ size \in Nat \ {0} /\ Wrap \in Nat \ {0}
  BY SizeIs, DccAssumption DEF Shape, TypeOK, WireRec, SendRec, RecvRec, Sends

\* the records of the other transfers stay
LEMMA Others ==
    ASSUME Shape, NEW o \in Offers, NEW x
    PROVE  /\ snd' = [snd EXCEPT ![o] = x] => snd'[o] = x /\ \A p \in Offers \ {o} : snd'[p] = snd[p]
           /\ rcv' = [rcv EXCEPT ![o] = x] => rcv'[o] = x /\ \A p \in Offers \ {o} : rcv'[p] = rcv[p]
           /\ wire' = [wire EXCEPT ![o] = x] => wire'[o] = x /\ \A p \in Offers \ {o} : wire'[p] = wire[p]
  BY DEF Shape, TypeOK

LEMMA Same ==
    ASSUME Shape, NEW o \in Offers
    PROVE  /\ snd = [snd EXCEPT ![o] = snd[o]] /\ rcv = [rcv EXCEPT ![o] = rcv[o]]
           /\ wire = [wire EXCEPT ![o] = wire[o]]
  BY DEF Shape, TypeOK

LEMMA ConstsTyped ==
    ASSUME Shape
    PROVE  /\ UNCHANGED inputs => inputs' \in 0..MaxInputs
           /\ Input => inputs' \in 0..MaxInputs
           /\ UNCHANGED spoilt => spoilt' \subseteq Offers
           /\ UNCHANGED irc => toRecv' \in Seq(Ctcp) /\ toSend' \in Seq(Ctcp)
           /\ UNCHANGED toRecv => toRecv' \in Seq(Ctcp)
           /\ UNCHANGED toSend => toSend' \in Seq(Ctcp)
  BY DccAssumption DEF Shape, TypeOK, Input, irc

\* the cells that go out with dcc_send_data
LEMMA Joined ==
    ASSUME TypeOK, NEW w \in WireRec, NEW pos \in Nat, NEW n \in Nat, pos + n <= size
    PROVE  [w EXCEPT !.cells = @ \o Cells(pos, n)] \in WireRec
  <1>1. w.cells \o Cells(pos, n) \in Seq(1..size)
    BY CellsAre, ConcatProperties, Wires
  <1> QED BY <1>1, Wires

LEMMA SendingKeepsShape ==
    ASSUME Shape, NEW o \in Offers, NEW d \in SendRec, NEW w \in WireRec,
           d.stat = "active", d.pos <= size, d.wiotag => d.pos < size \/ prefs.fast,
           Sending(o, d, w), UNCHANGED <<consts, rcv, disk>>,
           toRecv' \in Seq(Ctcp), toSend' \in Seq(Ctcp), inputs' \in 0..MaxInputs, spoilt' \subseteq Offers
    PROVE  Shape'
  <1>1. PICK r \in Sent(d) :
           /\ snd' = [snd EXCEPT ![o] = r.dcc]
           /\ wire' = [wire EXCEPT ![o] = IF PeerIsGone(o, rcv) THEN w
                                          ELSE [w EXCEPT !.cells = @ \o Cells(d.pos, r.cells)]]
    BY DEF Sending
  <1>2. TypeOK /\ d.pos \in Nat
    BY DEF Shape, SendRec
  <1>3. /\ r.dcc \in SendRec /\ r.cells \in Nat /\ r.dcc.pos = d.pos + r.cells /\ d.pos + r.cells <= size
        /\ r.dcc.stat \in {"active", "failed"}
        /\ r.dcc.stat = "active" /\ r.dcc.wiotag => r.dcc.pos < size
    BY <1>2, SentIs
  <1>4. [w EXCEPT !.cells = @ \o Cells(d.pos, r.cells)] \in WireRec
    BY <1>2, <1>3, Joined
  <1> DEFINE v == IF PeerIsGone(o, rcv) THEN w ELSE [w EXCEPT !.cells = @ \o Cells(d.pos, r.cells)]
  <1>5. v \in WireRec /\ wire' = [wire EXCEPT ![o] = v]
    BY <1>1, <1>4
  <1>6. r.dcc.pos <= size
    BY <1>3
  <1> HIDE DEF v
  <1> QED BY <1>1, <1>3, <1>5, <1>6, SendSide

LEMMA BeginSendKeepsShape ==
    ASSUME Shape, NEW o \in Offers, BeginSend(o), UNCHANGED <<consts, rcv, disk, irc, inputs, spoilt>>
    PROVE  Shape'
  <1> DEFINE d == [snd[o] EXCEPT !.stat = "active", !.wiotag = prefs.fast]
             w == [wire[o] EXCEPT !.link = IF @ = "none" THEN "up" ELSE @]
  <1>1. Sending(o, d, w)
    BY DEF BeginSend
  <1>2. prefs.fast \in BOOLEAN /\ "active" \in Stats
    BY DccAssumption DEF Shape, TypeOK, Stats, Underway
  <1>3. d \in SendRec /\ d.stat = "active" /\ d.pos = snd[o].pos /\ d.wiotag = prefs.fast
    BY <1>2, Fields DEF SendRec
  <1>4. w \in WireRec
    BY Fields DEF WireRec
  <1>5. UNCHANGED <<irc, inputs, spoilt>>
    BY DEF irc
  <1> HIDE DEF d, w
  <1>6. d.pos <= size
    BY <1>3, Fields
  <1> QED BY <1>1, <1>3, <1>4, <1>5, <1>6, SendingKeepsShape, ConstsTyped

LEMMA dcc_sendKeepsShape ==
    ASSUME Shape, NEW o \in Offers, NEW passive \in BOOLEAN, dcc_send(o, passive)
    PROVE  Shape'
  <1> DEFINE s == NewSend("queued", passive)
  <1>1. s \in SendRec /\ s.pos <= size /\ s.stat = "queued"
    BY NewRecords, Fields DEF NewSend, Stats
  <1>2. toRecv' \in Seq(Ctcp)
    BY Messages, Fields DEF dcc_send
  <1>3. UNCHANGED <<consts, rcv, disk>> /\ UNCHANGED toSend /\ UNCHANGED wire /\ UNCHANGED inputs /\ UNCHANGED spoilt
        /\ snd' = [snd EXCEPT ![o] = s]
    BY DEF dcc_send
  <1> HIDE DEF s
  <1> QED BY <1>1, <1>2, <1>3, Fields, Same, SendSide, ConstsTyped

LEMMA HandleResumeKeepsShape ==
    ASSUME Shape, HandleResume
    PROVE  Shape'
  <1> DEFINE m == Head(toSend)
  <1>1. /\ m \in Ctcp /\ toSend' \in Seq(Ctcp) /\ m.pos \in Nat /\ m.offer \in Offers /\ m.passive \in BOOLEAN
    BY Queues, ConstsTyped DEF HandleResume, Shape, TypeOK, Ctcp
  <1>2. UNCHANGED <<consts, rcv, disk>> /\ UNCHANGED wire /\ UNCHANGED inputs
    BY DEF HandleResume
  <1>3. CASE ResumedBy(m) = {} /\ UNCHANGED <<snd, toRecv, spoilt>>
    BY <1>1, <1>2, <1>3 DEF Shape, TypeOK, Sends, Room, Free, ToOpen, OwnFile, size, consts
  <1>4. ASSUME NEW o \in ResumedBy(m),
               LET d == [snd[o] EXCEPT !.resumable = m.pos]
               IN  /\ IF d.resumable < size
                      THEN /\ snd' = [snd EXCEPT ![o] = [d EXCEPT !.pos = m.pos, !.ack = m.pos]]
                           /\ toRecv' = Append(toRecv,
                                 Message("ACCEPT", IF m.passive THEN o ELSE m.offer, m.passive, m.pos))
                      ELSE snd' = [snd EXCEPT ![o] = d] /\ UNCHANGED toRecv
                   /\ spoilt' = IF o = m.offer /\ d.stat = "queued" THEN spoilt
                                ELSE spoilt \cup {o, m.offer}
        PROVE  Shape'
    <2>1. o \in Offers
      BY <1>1, <1>4 DEF ResumedBy
    <2> DEFINE d == [snd[o] EXCEPT !.resumable = m.pos]
               e == [d EXCEPT !.pos = m.pos, !.ack = m.pos]
    <2>2. /\ d \in SendRec /\ d.resumable = m.pos /\ d.stat = snd[o].stat /\ d.pos = snd[o].pos
          /\ d.wiotag = snd[o].wiotag
          /\ e \in SendRec /\ e.pos = m.pos /\ e.stat = snd[o].stat /\ e.wiotag = snd[o].wiotag
      BY <1>1, <2>1, Fields DEF SendRec
    <2>3. spoilt' \subseteq Offers
      BY <1>1, <1>4, <2>1 DEF Shape, TypeOK
    <2>4. CASE d.resumable < size
      <3>1. toRecv' \in Seq(Ctcp)
        <4> DEFINE x == IF m.passive THEN o ELSE m.offer
        <4>1. x \in Offers /\ toRecv' = Append(toRecv, Message("ACCEPT", x, m.passive, m.pos))
          BY <1>1, <1>4, <2>1, <2>4
        <4> HIDE DEF x, m
        <4> QED BY <1>1, <2>1, <4>1, Messages, Fields
      <3>2. snd' = [snd EXCEPT ![o] = e]
        BY <1>4, <2>4
      <3> HIDE DEF d, e, m
      <3>3. e.pos <= size /\ e.pos < size
        BY <1>1, <2>1, <2>2, <2>4, Fields
      <3>4. wire[o] \in WireRec /\ wire' = [wire EXCEPT ![o] = wire[o]]
        BY <1>2, <2>1, Fields, Same
      <3> QED BY <1>1, <1>2, <2>1, <2>2, <2>3, <3>1, <3>2, <3>3, <3>4, SendSide, ConstsTyped
    <2>5. CASE ~(d.resumable < size)
      <3>2. snd' = [snd EXCEPT ![o] = d] /\ UNCHANGED toRecv
        BY <1>4, <2>5
      <3> HIDE DEF d, e, m
      <3>3. d.pos <= size /\ (d.stat = "active" /\ d.wiotag => d.pos < size)
        BY <2>1, <2>2, Fields DEF Shape, Sends
      <3>4. wire[o] \in WireRec /\ wire' = [wire EXCEPT ![o] = wire[o]]
        BY <1>2, <2>1, Fields, Same
      <3> QED BY <1>1, <1>2, <2>1, <2>2, <2>3, <3>2, <3>3, <3>4, SendSide, ConstsTyped
    <2> QED BY <2>4, <2>5
  <1> QED BY <1>3, <1>4 DEF HandleResume

LEMMA HandleSendReplyKeepsShape ==
    ASSUME Shape, HandleSendReply
    PROVE  Shape'
  <1> DEFINE o == Head(toSend).offer
             s == IF snd[o].stat = "queued" THEN [snd[o] EXCEPT !.stat = "connecting"] ELSE snd[o]
  <1>1. o \in Offers /\ toSend' \in Seq(Ctcp)
    BY Queues DEF HandleSendReply, Shape, TypeOK, Ctcp
  <1>2. UNCHANGED <<consts, rcv, disk>> /\ UNCHANGED toRecv /\ UNCHANGED wire /\ UNCHANGED inputs /\ UNCHANGED spoilt
    BY DEF HandleSendReply
  <1>3. snd' = [snd EXCEPT ![o] = s]
    BY <1>1, Same DEF HandleSendReply
  <1>4. s \in SendRec /\ s.pos = snd[o].pos /\ (s.stat = "active" => snd[o].stat = "active" /\ s.wiotag = snd[o].wiotag)
    <2>1. "connecting" \in Stats
      BY DEF Stats, Underway
    <2>2. snd[o] \in SendRec
      BY <1>1, Fields
    <2> QED BY <2>1, <2>2 DEF SendRec
  <1>5. s.pos <= size /\ (s.stat = "active" /\ s.wiotag => s.pos < size)
    BY <1>1, <1>4, Fields DEF Shape, Sends
  <1> HIDE DEF o, s
  <1>6. wire[o] \in WireRec /\ wire' = [wire EXCEPT ![o] = wire[o]]
    BY <1>1, <1>2, Fields, Same
  <1>7. toRecv' \in Seq(Ctcp) /\ inputs' \in 0..MaxInputs /\ spoilt' \subseteq Offers
    BY <1>2, ConstsTyped
  <1> QED BY <1>1, <1>2, <1>3, <1>4, <1>5, <1>6, <1>7, SendSide

LEMMA dcc_acceptKeepsShape ==
    ASSUME Shape, NEW o \in Offers, dcc_accept(o) PROVE Shape'
  BY BeginSendKeepsShape DEF dcc_accept

LEMMA SendConnectsKeepsShape ==
    ASSUME Shape, NEW o \in Offers, SendConnects(o) PROVE Shape'
  <1>1. CASE BeginSend(o)
    BY <1>1, BeginSendKeepsShape DEF SendConnects
  <1>2. CASE snd' = [snd EXCEPT ![o].stat = "failed"] /\ UNCHANGED wire
    <2> DEFINE s == [snd[o] EXCEPT !.stat = "failed"]
    <2>1. s \in SendRec /\ s.pos <= size /\ s.stat # "active"
      BY Fields DEF SendRec, Stats, Finished
    <2>2. snd' = [snd EXCEPT ![o] = s]
      BY <1>2
    <2>3. UNCHANGED <<consts, rcv, disk>> /\ UNCHANGED irc /\ UNCHANGED inputs /\ UNCHANGED spoilt
      BY DEF SendConnects
    <2> HIDE DEF s
    <2>4. wire[o] \in WireRec /\ wire' = [wire EXCEPT ![o] = wire[o]]
      BY <1>2, Fields, Same
    <2>5. toRecv' \in Seq(Ctcp) /\ toSend' \in Seq(Ctcp) /\ inputs' \in 0..MaxInputs /\ spoilt' \subseteq Offers
      BY <2>3, ConstsTyped
    <2> QED BY <2>1, <2>2, <2>3, <2>4, <2>5, SendSide
  <1> QED BY <1>1, <1>2 DEF SendConnects

LEMMA WritableKeepsShape ==
    ASSUME Shape, NEW o \in Offers, Writable(o) PROVE Shape'
  <1>1. Sending(o, snd[o], wire[o]) /\ snd[o].stat = "active" /\ snd[o].wiotag
    BY DEF Writable
  <1>2. UNCHANGED <<consts, rcv, disk>> /\ UNCHANGED irc /\ UNCHANGED inputs /\ UNCHANGED spoilt
    BY DEF Writable
  <1>3. snd[o].pos < size
    BY <1>1 DEF Shape, Sends
  <1> QED BY <1>1, <1>2, <1>3, Fields, SendingKeepsShape, ConstsTyped

\* the high part of a position and the low part of an acknowledged one
LEMMA HighIs ==
    ASSUME NEW pos \in Nat, NEW a \in Nat
    PROVE  /\ (pos \div Wrap) * Wrap + (a % Wrap) \in Nat
           /\ pos < Wrap /\ a < Wrap => (pos \div Wrap) * Wrap + (a % Wrap) = a
  <1> DEFINE q == pos \div Wrap
  <1>1. Wrap \in Nat \ {0}
    BY DccAssumption
  <1>2. q \in Nat /\ a % Wrap \in Nat
    BY <1>1
  <1>3. pos < Wrap => q = 0
    BY <1>1
  <1>4. a < Wrap => a % Wrap = a
    BY <1>1
  <1> HIDE DEF q
  <1>5. q * Wrap \in Nat
    BY <1>1, <1>2
  <1>6. q = 0 => q * Wrap = 0
    BY <1>1
  <1>7. q * Wrap + (a % Wrap) \in Nat
    BY <1>2, <1>5
  <1>8. pos < Wrap /\ a < Wrap => q * Wrap + (a % Wrap) = a
    BY <1>3, <1>4, <1>6
  <1> QED BY <1>7, <1>8 DEF q

\* the parts of a step that reads an acknowledgement: what is acknowledged, and what comes of it
AckRead(o) ==
    LET e == [snd[o] EXCEPT !.ackoffset = @ \/ (size < Wrap /\ Head(wire[o].acks) < snd[o].resumable)]
    IN  [e EXCEPT !.ack = IF e.ackoffset THEN Head(wire[o].acks) + e.resumable ELSE Head(wire[o].acks)]
Unread(o) == [wire[o] EXCEPT !.acks = Tail(@)]
High(s, d) == [s EXCEPT !.ack = (s.pos \div Wrap) * Wrap + (d.ack % Wrap)]
AckDone(o) == AckRead(o).pos >= size /\ AckRead(o).ack >= size % Wrap

LEMMA AckReadIs ==
    ASSUME Shape, NEW o \in Offers, wire[o].acks # <<>>
    PROVE  /\ AckRead(o) \in SendRec
           /\ Head(wire[o].acks) \in 0..(Wrap - 1) /\ Tail(wire[o].acks) \in Seq(0..(Wrap - 1))
           /\ AckRead(o).stat = snd[o].stat /\ AckRead(o).pos = snd[o].pos
           /\ AckRead(o).resumable = snd[o].resumable /\ AckRead(o).wiotag = snd[o].wiotag
           /\ AckRead(o).throttled = snd[o].throttled
           /\ AckRead(o).ackoffset =
                 (snd[o].ackoffset \/ (size < Wrap /\ Head(wire[o].acks) < snd[o].resumable))
           /\ AckRead(o).ack = IF AckRead(o).ackoffset THEN Head(wire[o].acks) + snd[o].resumable
                               ELSE Head(wire[o].acks)
           /\ Unread(o) \in WireRec
  <1> DEFINE a == Head(wire[o].acks)
             off == snd[o].ackoffset \/ (size < Wrap /\ a < snd[o].resumable)
             e == [snd[o] EXCEPT !.ackoffset = off]
             k == IF off THEN a + snd[o].resumable ELSE a
  <1>0. wire[o].acks \in Seq(0..(Wrap - 1)) /\ wire[o] \in WireRec /\ snd[o] \in SendRec
    BY Fields, Wires
  <1>1. a \in 0..(Wrap - 1) /\ Tail(wire[o].acks) \in Seq(0..(Wrap - 1))
    BY <1>0, HeadTailProperties
  <1>2. off \in BOOLEAN
    BY Fields DEF SendRec
  <1>3. k \in Nat
    BY <1>1, Fields
  <1>8. AckRead(o) = [e EXCEPT !.ack = IF e.ackoffset THEN a + e.resumable ELSE a]
    BY Zenon DEF AckRead
  <1> HIDE DEF off, k
  <1>4. e \in SendRec /\ e.ackoffset = off /\ e.resumable = snd[o].resumable /\ e.stat = snd[o].stat /\ e.pos = snd[o].pos
        /\ e.wiotag = snd[o].wiotag /\ e.throttled = snd[o].throttled
    BY <1>0, <1>2 DEF SendRec
  <1>5. AckRead(o) = [e EXCEPT !.ack = k]
    BY <1>4, <1>8 DEF k
  <1> HIDE DEF e, a
  <1>6. AckRead(o) \in SendRec /\ AckRead(o).ackoffset = off /\ AckRead(o).ack = k
        /\ AckRead(o).stat = snd[o].stat /\ AckRead(o).pos = snd[o].pos
        /\ AckRead(o).resumable = snd[o].resumable /\ AckRead(o).wiotag = snd[o].wiotag
        /\ AckRead(o).throttled = snd[o].throttled
    BY <1>3, <1>4, <1>5 DEF SendRec
  <1>7. Unread(o) \in WireRec
    BY <1>0, <1>1, Wires DEF Unread
  <1> QED BY <1>1, <1>6, <1>7 DEF off, k, a

LEMMA HighKeeps ==
    ASSUME NEW s \in SendRec, NEW d \in SendRec
    PROVE  /\ High(s, d) \in SendRec /\ High(s, d).stat = s.stat /\ High(s, d).pos = s.pos
           /\ High(s, d).wiotag = s.wiotag /\ High(s, d).resumable = s.resumable
           /\ High(s, d).ackoffset = s.ackoffset
           /\ s.pos < Wrap /\ d.ack < Wrap => High(s, d).ack = d.ack
  <1> DEFINE k == (s.pos \div Wrap) * Wrap + (d.ack % Wrap)
  <1>1. s.pos \in Nat /\ d.ack \in Nat
    BY DEF SendRec
  <1>2. k \in Nat /\ (s.pos < Wrap /\ d.ack < Wrap => k = d.ack)
    BY <1>1, HighIs
  <1>3. High(s, d) = [s EXCEPT !.ack = k]
    BY DEF High
  <1> HIDE DEF k
  <1> QED BY <1>2, <1>3 DEF SendRec

LEMMA ReadAckCases ==
    ASSUME Shape, NEW o \in Offers, ReadAck(o)
    PROVE  \/ /\ AckDone(o)
              /\ snd' = [snd EXCEPT ![o] = [Shut(AckRead(o), "done") EXCEPT !.ack = size]]
              /\ wire' = [wire EXCEPT ![o] = [Unread(o) EXCEPT !.acks = <<>>]]
           \/ /\ ~AckDone(o) /\ ~prefs.fast /\ AckRead(o).ack >= AckRead(o).pos % Wrap
              /\ \E r \in Sent(AckRead(o)) :
                    /\ snd' = [snd EXCEPT ![o] = High(r.dcc, AckRead(o))]
                    /\ wire' = [wire EXCEPT ![o] =
                          IF PeerIsGone(o, rcv) THEN Unread(o)
                          ELSE [Unread(o) EXCEPT !.cells = @ \o Cells(AckRead(o).pos, r.cells)]]
           \/ /\ ~AckDone(o)
              /\ snd' = [snd EXCEPT ![o] = High(AckRead(o), AckRead(o))]
              /\ wire' = [wire EXCEPT ![o] = Unread(o)]
  BY Zenon DEF ReadAck, AckRead, Unread, High, AckDone

LEMMA ReadAckKeepsShape ==
    ASSUME Shape, NEW o \in Offers, ReadAck(o) PROVE Shape'
  <1>0. wire[o].acks # <<>> /\ snd[o].stat = "active" /\ UNCHANGED <<consts, rcv, disk>> /\ UNCHANGED irc
        /\ UNCHANGED inputs /\ UNCHANGED spoilt
    BY DEF ReadAck
  <1> DEFINE d == AckRead(o)
             w == Unread(o)
  <1>1. d \in SendRec /\ d.stat = "active" /\ d.pos = snd[o].pos /\ d.wiotag = snd[o].wiotag /\ w \in WireRec
    BY <1>0, AckReadIs
  <1>2. d.pos <= size /\ (d.wiotag => d.pos < size) /\ d.pos \in Nat
    BY <1>0, <1>1, Fields DEF Shape, Sends
  <1> HIDE DEF d, w
  <1>3. CASE /\ snd' = [snd EXCEPT ![o] = [Shut(d, "done") EXCEPT !.ack = size]]
             /\ wire' = [wire EXCEPT ![o] = [w EXCEPT !.acks = <<>>]]
    <2> DEFINE s == [Shut(d, "done") EXCEPT !.ack = size]
    <2>1. s \in SendRec /\ s.stat = "done" /\ s.pos = d.pos
      <3>1. "done" \in Stats
        BY DEF Stats, Finished
      <3> QED BY <1>1, <3>1, Shutting, Fields DEF SendRec
    <2>2. [w EXCEPT !.acks = <<>>] \in WireRec
      BY <1>1, Wires, EmptySeq
    <2> HIDE DEF s
    <2> QED BY <1>0, <1>2, <1>3, <2>1, <2>2, SendSide, ConstsTyped DEF s
  <1>4. ASSUME NEW r \in Sent(d),
               snd' = [snd EXCEPT ![o] = High(r.dcc, d)],
               wire' = [wire EXCEPT ![o] = IF PeerIsGone(o, rcv) THEN w
                                           ELSE [w EXCEPT !.cells = @ \o Cells(d.pos, r.cells)]]
        PROVE  Shape'
    <2>1. /\ r.dcc \in SendRec /\ r.cells \in Nat /\ r.dcc.pos = d.pos + r.cells /\ d.pos + r.cells <= size
          /\ r.dcc.stat = "active" /\ r.dcc.wiotag => r.dcc.pos < size
      BY <1>1, <1>2, SentIs DEF Shape
    <2> DEFINE v == IF PeerIsGone(o, rcv) THEN w ELSE [w EXCEPT !.cells = @ \o Cells(d.pos, r.cells)]
    <2>2. v \in WireRec /\ wire' = [wire EXCEPT ![o] = v]
      BY <1>1, <1>2, <1>4, <2>1, Joined DEF Shape
    <2> DEFINE s == High(r.dcc, d)
    <2>3. s \in SendRec /\ s.pos <= size /\ (s.stat = "active" /\ s.wiotag => s.pos < size)
          /\ snd' = [snd EXCEPT ![o] = s]
      BY <1>1, <1>4, <2>1, HighKeeps
    <2> HIDE DEF v, s
    <2> QED BY <1>0, <2>2, <2>3, SendSide, ConstsTyped
  <1>5. CASE snd' = [snd EXCEPT ![o] = High(d, d)] /\ wire' = [wire EXCEPT ![o] = w]
    <2> DEFINE s == High(d, d)
    <2>3. s \in SendRec /\ s.pos <= size /\ (s.stat = "active" /\ s.wiotag => s.pos < size)
          /\ snd' = [snd EXCEPT ![o] = s]
      BY <1>1, <1>2, <1>5, HighKeeps
    <2> HIDE DEF s
    <2> QED BY <1>0, <1>1, <1>5, <2>3, SendSide, ConstsTyped
  <1> QED BY <1>3, <1>4, <1>5, ReadAckCases DEF d, w

LEMMA SendEOFKeepsShape ==
    ASSUME Shape, NEW o \in Offers, SendEOF(o) PROVE Shape'
  <1> DEFINE s == Shut(snd[o], "failed")
  <1>1. s \in SendRec /\ s.pos <= size /\ s.stat # "active"
    BY Shutting, Fields DEF Stats, Finished
  <1>2. snd' = [snd EXCEPT ![o] = s] /\ UNCHANGED <<consts, rcv, disk>> /\ UNCHANGED irc /\ UNCHANGED wire
        /\ UNCHANGED inputs /\ UNCHANGED spoilt
    BY DEF SendEOF
  <1> HIDE DEF s
  <1> QED BY <1>1, <1>2, Fields, Same, SendSide, ConstsTyped

LEMMA SendThrottledKeepsShape ==
    ASSUME Shape, NEW o \in Offers, SendThrottled(o) PROVE Shape'
  <1> DEFINE s == [snd[o] EXCEPT !.throttled = TRUE]
  <1>1. s \in SendRec /\ s.pos = snd[o].pos /\ s.stat = snd[o].stat /\ s.wiotag = snd[o].wiotag
    BY Fields DEF SendRec
  <1>2. snd' = [snd EXCEPT ![o] = s] /\ UNCHANGED <<consts, rcv, disk>> /\ UNCHANGED irc /\ UNCHANGED wire
        /\ Input /\ UNCHANGED spoilt
    BY DEF SendThrottled
  <1> HIDE DEF s
  <1>3. s.pos <= size /\ (s.stat = "active" /\ s.wiotag => s.pos < size)
    BY <1>1, Fields DEF Shape, Sends
  <1> QED BY <1>1, <1>2, <1>3, Fields, Same, SendSide, ConstsTyped

LEMMA SendUnthrottledKeepsShape ==
    ASSUME Shape, NEW o \in Offers, SendUnthrottled(o) PROVE Shape'
  <1> DEFINE s == [snd[o] EXCEPT !.throttled = FALSE]
  <1>1. s \in SendRec /\ s.pos = snd[o].pos /\ s.stat = snd[o].stat /\ s.wiotag = snd[o].wiotag
    BY Fields DEF SendRec
  <1>2. Sending(o, s, wire[o]) /\ UNCHANGED <<consts, rcv, disk>> /\ UNCHANGED irc /\ snd[o].stat = "active"
        /\ UNCHANGED inputs /\ UNCHANGED spoilt
    BY DEF SendUnthrottled
  <1> HIDE DEF s
  <1>3. s.pos <= size /\ (s.wiotag => s.pos < size) /\ s.stat = "active"
    BY <1>1, <1>2, Fields DEF Shape, Sends
  <1> QED BY <1>1, <1>2, <1>3, Fields, SendingKeepsShape, ConstsTyped

LEMMA SendAbortedKeepsShape ==
    ASSUME Shape, NEW o \in Offers, SendAborted(o) PROVE Shape'
  <1> DEFINE s == Shut(snd[o], "aborted")
             w == [wire[o] EXCEPT !.acks = <<>>]
  <1>0. "aborted" \in Stats
    BY DEF Stats, Finished
  <1>1. s \in SendRec /\ s.pos <= size /\ s.stat # "active"
    BY <1>0, Shutting, Fields
  <1>3. w \in WireRec
    BY Fields, Wires, EmptySeq
  <1>2. snd' = [snd EXCEPT ![o] = s] /\ wire' = [wire EXCEPT ![o] = w]
        /\ UNCHANGED <<consts, rcv, disk>> /\ UNCHANGED irc /\ Input /\ UNCHANGED spoilt
    BY DEF SendAborted
  <1> HIDE DEF s, w
  <1> QED BY <1>1, <1>2, <1>3, SendSide, ConstsTyped

LEMMA SendForgottenKeepsShape ==
    ASSUME Shape, NEW o \in Offers, SendForgotten(o) PROVE Shape'
  <1> DEFINE s == NewSend("gone", FALSE)
  <1>0. "gone" \in Stats
    BY DEF Stats
  <1>3. s \in SendRec
    BY <1>0, NewRecords
  <1>4. s.pos = 0 /\ s.stat = "gone"
    BY DEF NewSend
  <1>5. size \in Nat
    BY Fields
  <1> HIDE DEF s
  <1>1. s \in SendRec /\ s.pos <= size /\ s.stat # "active"
    BY <1>3, <1>4, <1>5
  <1>2. snd' = [snd EXCEPT ![o] = s] /\ UNCHANGED <<consts, rcv, disk>> /\ UNCHANGED irc /\ UNCHANGED wire
        /\ Input /\ UNCHANGED spoilt
    BY DEF SendForgotten, s
  <1> QED BY <1>1, <1>2, Fields, Same, SendSide, ConstsTyped

-----------------------------------------------------------------------------
(* The receiver's steps keep Shape.                                        *)

LEMMA ResumableIs ==
    ASSUME Shape, NEW o \in Offers, NEW d \in RecvRec, d.destfile = 0
    PROVE  /\ update_is_resumable(o, d) \in RecvRec
           /\ update_is_resumable(o, d).stat = d.stat /\ update_is_resumable(o, d).open = d.open
           /\ update_is_resumable(o, d).destfile = 0 /\ update_is_resumable(o, d).passive = d.passive
           /\ update_is_resumable(o, d).resume_sent = d.resume_sent
           /\ update_is_resumable(o, d).resumable < size
           /\ update_is_resumable(o, d).resumable # 0 =>
                 /\ update_is_resumable(o, d).resumable = OnDisk
                 /\ \A p \in Offers \ {o} : rcv[p].stat \in Underway => rcv[p].destfile # 0
  <1> DEFINE partly == d.destfile \in DOMAIN disk /\ Len(disk[d.destfile]) < size
             found  == IF partly THEN Len(disk[d.destfile]) ELSE 0
             u == update_is_resumable(o, d)
  <1>1. found \in Nat /\ found < size /\ (found # 0 => found = OnDisk)
    <2>1. size \in Nat \ {0}
      BY Fields
    <2>2. 0 \in DOMAIN disk => Len(disk[0]) \in Nat
      BY DEF Shape, TypeOK
    <2> QED BY <2>1, <2>2 DEF OnDisk
  <1>2. u = IF found # 0 /\ InProgress(o, d) # {} THEN [d EXCEPT !.resumable = 0, !.pos = 0]
            ELSE [d EXCEPT !.resumable = found, !.pos = IF partly THEN found ELSE @]
    BY DEF update_is_resumable
  <1>3. size \in Nat \ {0}
    BY Fields
  <1> HIDE DEF found, partly, u
  <1>4. CASE found # 0 /\ InProgress(o, d) # {}
    <2>1. u = [d EXCEPT !.resumable = 0, !.pos = 0]
      BY <1>2, <1>4
    <2>2. /\ u \in RecvRec /\ u.stat = d.stat /\ u.open = d.open /\ u.destfile = 0 /\ u.passive = d.passive
          /\ u.resume_sent = d.resume_sent /\ u.resumable = 0
      BY <2>1 DEF RecvRec
    <2> QED BY <1>3, <2>2 DEF u
  <1>5. CASE ~(found # 0 /\ InProgress(o, d) # {})
    <2>1. u = [d EXCEPT !.resumable = found, !.pos = IF partly THEN found ELSE @]
      BY <1>2, <1>5
    <2>2. /\ u \in RecvRec /\ u.stat = d.stat /\ u.open = d.open /\ u.destfile = 0 /\ u.passive = d.passive
          /\ u.resume_sent = d.resume_sent /\ u.resumable = found
      BY <1>1, <2>1 DEF RecvRec
    <2>3. found # 0 => \A p \in Offers \ {o} : rcv[p].stat \in Underway => rcv[p].destfile # 0
      BY <1>5 DEF InProgress
    <2> QED BY <1>1, <2>2, <2>3 DEF u
  <1> QED BY <1>4, <1>5

LEMMA ConnectKeepsShape ==
    ASSUME Shape, NEW o \in Offers, NEW d \in RecvRec, ~d.open, d.destfile = 0, rcv[o].stat \in Early,
           NEW agreed, dcc_connect(o, d, agreed),
           UNCHANGED <<consts, snd, disk>>, UNCHANGED wire, toRecv' \in Seq(Ctcp), inputs' \in 0..MaxInputs
    PROVE  Shape'
  <1> DEFINE r == [d EXCEPT !.stat = "connecting"]
  <1>1. r \in RecvRec /\ r.stat = "connecting" /\ ~r.open /\ r.destfile = 0
    BY DEF RecvRec, Stats, Underway
  <1>2. rcv' = [rcv EXCEPT ![o] = r]
    BY DEF dcc_connect
  <1>3. toSend' \in Seq(Ctcp)
    <2>1. Append(toSend, Message("SEND", o, TRUE, 0)) \in Seq(Ctcp)
      <3>1. 0 \in Nat /\ toSend \in Seq(Ctcp)
        BY Fields
      <3> QED BY <3>1, Messages
    <2> QED BY <2>1, Fields DEF dcc_connect
  <1>4. spoilt' \subseteq Offers
    BY DEF dcc_connect, InProgress, Shape, TypeOK
  <1>5. ~rcv[o].open
    BY DEF Shape, OwnFile
  <1>6. wire[o] \in WireRec /\ wire' = [wire EXCEPT ![o] = wire[o]]
    BY Fields, Same
  <1> HIDE DEF r
  <1>7. /\ ~r.open => r.destfile = 0
        /\ r.open => rcv[o].open /\ r.destfile = rcv[o].destfile /\ r.resumable = rcv[o].resumable
        /\ r.stat \in Early \cup Underway => rcv[o].stat \in Early \cup Underway /\ r.open = rcv[o].open
        /\ r.stat \in Early => ~r.open
        /\ r.stat = "none" => ~r.resume_sent
    BY <1>1, <1>5, Fields DEF Early, RecvRec
  <1> QED BY <1>1, <1>2, <1>3, <1>4, <1>5, <1>6, <1>7, RecvSide

LEMMA ResumeKeepsShape ==
    ASSUME Shape, NEW o \in Offers, NEW d \in RecvRec, d.stat = "queued", ~d.open, d.destfile = 0,
           rcv[o].stat \in Early, dcc_resume(o, d),
           UNCHANGED <<consts, snd, disk>>, UNCHANGED wire, toRecv' \in Seq(Ctcp), inputs' \in 0..MaxInputs
    PROVE  Shape'
  <1> DEFINE u == update_is_resumable(o, d)
             r == IF u.resumable # 0 THEN [u EXCEPT !.resume_sent = TRUE] ELSE u
  <1>1. u \in RecvRec /\ u.stat = "queued" /\ ~u.open /\ u.destfile = 0
    BY ResumableIs
  <1>2. rcv' = [rcv EXCEPT ![o] = r] /\ UNCHANGED spoilt
    BY DEF dcc_resume
  <1>3. toSend' \in Seq(Ctcp)
    <2>1. u.resumable \in Nat /\ d.passive \in BOOLEAN
      BY <1>1 DEF RecvRec
    <2> HIDE DEF u
    <2>2. Append(toSend, Message("RESUME", o, d.passive, u.resumable)) \in Seq(Ctcp)
      BY <2>1, Messages, Fields
    <2> QED BY <2>2, Fields DEF dcc_resume, u
  <1> HIDE DEF u
  <1>4. r \in RecvRec /\ r.stat = "queued" /\ ~r.open /\ r.destfile = 0
    BY <1>1 DEF RecvRec
  <1>5. ~rcv[o].open
    BY DEF Shape, OwnFile
  <1>6. wire[o] \in WireRec /\ wire' = [wire EXCEPT ![o] = wire[o]]
    BY Fields, Same
  <1> HIDE DEF r
  <1>7. /\ ~r.open => r.destfile = 0
        /\ r.open => rcv[o].open /\ r.destfile = rcv[o].destfile /\ r.resumable = rcv[o].resumable
        /\ r.stat \in Early \cup Underway => rcv[o].stat \in Early \cup Underway /\ r.open = rcv[o].open
        /\ r.stat \in Early => ~r.open
        /\ r.stat = "none" => ~r.resume_sent
    BY <1>4, <1>5, Fields DEF Early, RecvRec
  <1> QED BY <1>2, <1>3, <1>4, <1>5, <1>6, <1>7, RecvSide, ConstsTyped

LEMMA GetKeepsShape ==
    ASSUME Shape, NEW o \in Offers, NEW d \in RecvRec, d.stat = "queued", ~d.open, d.destfile = 0,
           rcv[o].stat \in Early, dcc_get(o, d),
           UNCHANGED <<consts, snd, disk>>, UNCHANGED wire, toRecv' \in Seq(Ctcp), inputs' \in 0..MaxInputs
    PROVE  Shape'
  <1>1. CASE prefs.resume /\ d.resumable # 0
    BY <1>1, ResumeKeepsShape DEF dcc_get
  <1>2. CASE ~(prefs.resume /\ d.resumable # 0)
    <2> DEFINE e == [d EXCEPT !.resumable = 0, !.pos = 0]
    <2>1. e \in RecvRec /\ ~e.open /\ e.destfile = 0
      BY DEF RecvRec
    <2>2. dcc_connect(o, e, ~d.resume_sent)
      BY <1>2 DEF dcc_get
    <2> HIDE DEF e
    <2> QED BY <2>1, <2>2, ConnectKeepsShape
  <1> QED BY <1>1, <1>2

\* what is known of an offer that has been taken down
LEMMA QueuedIs ==
    ASSUME Shape, NEW o \in Offers, rcv[o].stat = "queued"
    PROVE  rcv[o] \in RecvRec /\ ~rcv[o].open /\ rcv[o].destfile = 0 /\ rcv[o].stat \in Early
  BY Fields DEF Shape, OwnFile, Early

LEMMA NewRecvIs ==
    ASSUME NEW stat \in Stats, NEW passive \in BOOLEAN
    PROVE  /\ NewRecv(stat, passive) \in RecvRec /\ NewRecv(stat, passive).stat = stat
           /\ ~NewRecv(stat, passive).open /\ NewRecv(stat, passive).destfile = 0
           /\ NewRecv(stat, passive).resumable = 0 /\ ~NewRecv(stat, passive).resume_sent
           /\ NewRecv(stat, passive).pos = 0
  BY NewRecords DEF NewRecv

LEMMA HandleSendKeepsShape ==
    ASSUME Shape, HandleSend, rcv[Head(toRecv).offer].stat = "none" PROVE Shape'
  <1> DEFINE o == Head(toRecv).offer
             n == NewRecv("queued", Head(toRecv).passive)
             d == update_is_resumable(o, n)
  <1>1. o \in Offers /\ Head(toRecv).passive \in BOOLEAN /\ toRecv' \in Seq(Ctcp)
    BY Queues DEF HandleSend, Shape, TypeOK, Ctcp
  <1>2. n \in RecvRec /\ n.stat = "queued" /\ ~n.open /\ n.destfile = 0 /\ ~n.resume_sent
    BY <1>1, NewRecvIs DEF Stats
  <1>3. UNCHANGED <<consts, snd, disk>> /\ UNCHANGED wire /\ UNCHANGED inputs
    BY DEF HandleSend
  <1>4. rcv[o].stat \in Early
    BY DEF Early
  <1> HIDE DEF n
  <1>5. d \in RecvRec /\ d.stat = "queued" /\ ~d.open /\ d.destfile = 0 /\ d.resume_sent = n.resume_sent
    BY <1>1, <1>2, ResumableIs
  <1>6. CASE prefs.auto
    <2>1. dcc_get(o, d)
      BY <1>6 DEF HandleSend, n
    <2> HIDE DEF o, d
    <2> QED BY <1>1, <1>3, <1>4, <1>5, <2>1, GetKeepsShape, ConstsTyped
  <1>7. CASE ~prefs.auto
    <2>1. rcv' = [rcv EXCEPT ![o] = d] /\ UNCHANGED toSend /\ UNCHANGED spoilt
      BY <1>7 DEF HandleSend, n
    <2> HIDE DEF o, d
    <2>2. ~rcv[o].open
      BY <1>1, <1>4 DEF Shape, OwnFile
    <2>3. /\ ~d.open => d.destfile = 0
          /\ d.open => rcv[o].open /\ d.destfile = rcv[o].destfile /\ d.resumable = rcv[o].resumable
          /\ d.stat \in Early \cup Underway => rcv[o].stat \in Early \cup Underway /\ d.open = rcv[o].open
          /\ d.stat \in Early => ~d.open
          /\ d.stat = "none" => ~d.resume_sent
      BY <1>1, <1>4, <1>5, <2>2, Fields DEF RecvRec
    <2>4. wire[o] \in WireRec /\ wire' = [wire EXCEPT ![o] = wire[o]]
      BY <1>1, <1>3, Fields, Same
    <2> QED BY <1>1, <1>3, <1>5, <2>1, <2>3, <2>4, RecvSide, ConstsTyped
  <1> QED BY <1>6, <1>7

LEMMA HandleAcceptKeepsShape ==
    ASSUME Shape, HandleAccept PROVE Shape'
  <1> DEFINE m == Head(toRecv)
  <1>1. m \in Ctcp /\ toRecv' \in Seq(Ctcp) /\ UNCHANGED <<consts, snd, disk>> /\ UNCHANGED wire /\ UNCHANGED inputs
    BY Queues DEF HandleAccept, Shape, TypeOK
  <1>2. CASE AcceptedBy(m) = {} /\ UNCHANGED <<rcv, toSend, spoilt>>
    BY <1>1, <1>2 DEF Shape, TypeOK, Sends, Room, Free, ToOpen, OwnFile, size, consts
  <1>3. ASSUME NEW o \in AcceptedBy(m), dcc_connect(o, rcv[o], o = m.offer /\ m.pos = rcv[o].resumable)
        PROVE  Shape'
    <2>1. o \in Offers /\ rcv[o].stat = "queued"
      BY <1>3 DEF AcceptedBy
    <2> HIDE DEF m
    <2> QED BY <1>1, <1>3, <2>1, QueuedIs, ConnectKeepsShape, ConstsTyped
  <1> QED BY <1>2, <1>3 DEF HandleAccept

LEMMA GetActionKeepsShape ==
    ASSUME Shape, NEW o \in Offers, Get(o) PROVE Shape'
  <1>1. /\ rcv[o].stat = "queued" /\ dcc_get(o, rcv[o]) /\ UNCHANGED <<consts, snd, disk>> /\ UNCHANGED wire
        /\ UNCHANGED toRecv /\ Input
    BY DEF Get
  <1> QED BY <1>1, QueuedIs, GetKeepsShape, ConstsTyped

LEMMA ResumeActionKeepsShape ==
    ASSUME Shape, NEW o \in Offers, Resume(o) PROVE Shape'
  <1>1. /\ rcv[o].stat = "queued" /\ dcc_resume(o, rcv[o]) /\ UNCHANGED <<consts, snd, disk>> /\ UNCHANGED wire
        /\ UNCHANGED toRecv /\ Input
    BY DEF Resume
  <1> QED BY <1>1, QueuedIs, ResumeKeepsShape, ConstsTyped

LEMMA GetNickKeepsShape ==
    ASSUME Shape, dcc_get_nick PROVE Shape'
  <1>1. UNCHANGED <<consts, snd, disk>> /\ UNCHANGED wire /\ UNCHANGED toRecv /\ Input
    BY DEF dcc_get_nick
  <1>2. PICK o \in {p \in Offers : rcv[p].stat = "queued"} :
           /\ \A p \in Offers : rcv[p].stat = "queued" => p <= o
           /\ LET d == update_is_resumable(o, rcv[o])
              IN  IF prefs.resume /\ d.resumable # 0 THEN dcc_resume(o, d)
                  ELSE dcc_connect(o, [d EXCEPT !.pos = 0], ~d.resume_sent /\ d.resumable = 0)
    BY Zenon DEF dcc_get_nick
  <1> DEFINE d == update_is_resumable(o, rcv[o])
             e == [d EXCEPT !.pos = 0]
  <1>3. o \in Offers /\ rcv[o] \in RecvRec /\ rcv[o].stat = "queued" /\ ~rcv[o].open /\ rcv[o].destfile = 0
        /\ rcv[o].stat \in Early
    BY QueuedIs
  <1>4. d \in RecvRec /\ ~d.open /\ d.destfile = 0 /\ d.stat = "queued"
    BY <1>3, ResumableIs
  <1>5. CASE prefs.resume /\ d.resumable # 0
    <2>1. dcc_resume(o, d)
      BY <1>2, <1>5
    <2> HIDE DEF d
    <2> QED BY <1>1, <1>3, <1>4, <2>1, ResumeKeepsShape, ConstsTyped
  <1>6. CASE ~(prefs.resume /\ d.resumable # 0)
    <2>1. dcc_connect(o, e, ~d.resume_sent /\ d.resumable = 0)
      BY <1>2, <1>6
    <2> HIDE DEF d
    <2>2. e \in RecvRec /\ ~e.open /\ e.destfile = 0
      BY <1>4 DEF RecvRec
    <2> HIDE DEF e
    <2> QED BY <1>1, <1>3, <2>1, <2>2, ConnectKeepsShape, ConstsTyped
  <1> QED BY <1>5, <1>6

\* a step in which the receiver's record changes, but not its file
LEMMA RecordKeepsShape ==
    ASSUME Shape, NEW o \in Offers, NEW r \in RecvRec, NEW w \in WireRec,
           rcv[o].stat \in {"queued"} \cup Underway, r.stat \notin Early,
           r.open = rcv[o].open, r.destfile = rcv[o].destfile, r.resumable = rcv[o].resumable,
           rcv' = [rcv EXCEPT ![o] = r], wire' = [wire EXCEPT ![o] = w],
           UNCHANGED <<consts, snd, disk>>, UNCHANGED irc, UNCHANGED spoilt, inputs' \in 0..MaxInputs
    PROVE  Shape'
  <1>1. OwnFile(o)
    BY DEF Shape
  <1>2. /\ ~r.open => r.destfile = 0
        /\ r.open => rcv[o].open /\ r.destfile = rcv[o].destfile /\ r.resumable = rcv[o].resumable
        /\ r.stat \in Early \cup Underway => rcv[o].stat \in Early \cup Underway /\ r.open = rcv[o].open
        /\ r.stat \in Early => ~r.open
        /\ r.stat = "none" => ~r.resume_sent
    BY <1>1 DEF OwnFile, Early, Underway
  <1> QED BY <1>2, RecvSide, ConstsTyped

LEMMA RecvConnectsKeepsShape ==
    ASSUME Shape, NEW o \in Offers, RecvConnects(o) PROVE Shape'
  <1>1. UNCHANGED <<consts, snd, disk>> /\ UNCHANGED irc /\ UNCHANGED spoilt /\ UNCHANGED inputs
        /\ rcv[o].stat = "connecting"
    BY DEF RecvConnects
  <1>2. ASSUME NEW stat \in {"active", "failed"}, NEW w \in WireRec,
               rcv' = [rcv EXCEPT ![o].stat = stat], wire' = [wire EXCEPT ![o] = w]
        PROVE  Shape'
    <2> DEFINE r == [rcv[o] EXCEPT !.stat = stat]
    <2>1. r \in RecvRec /\ r.stat \notin Early /\ r.open = rcv[o].open /\ r.destfile = rcv[o].destfile
          /\ r.resumable = rcv[o].resumable
      BY Fields DEF RecvRec, Stats, Early, Underway, Finished
    <2>2. rcv' = [rcv EXCEPT ![o] = r] /\ rcv[o].stat \in {"queued"} \cup Underway
      BY <1>1, <1>2 DEF Underway
    <2> HIDE DEF r
    <2> QED BY <1>1, <1>2, <2>1, <2>2, RecordKeepsShape, ConstsTyped
  <1>3. CASE rcv' = [rcv EXCEPT ![o].stat = "active"] /\ wire' = [wire EXCEPT ![o].link = "up"]
    <2>1. [wire[o] EXCEPT !.link = "up"] \in WireRec
      BY Fields, Wires
    <2> QED BY <1>2, <1>3, <2>1
  <1>4. CASE rcv' = [rcv EXCEPT ![o].stat = "failed"] /\ UNCHANGED wire
    BY <1>2, <1>4, Fields, Same
  <1> QED BY <1>3, <1>4 DEF RecvConnects

LEMMA RecvAcceptsKeepsShape ==
    ASSUME Shape, NEW o \in Offers, RecvAccepts(o) PROVE Shape'
  <1>1. UNCHANGED <<consts, snd, disk>> /\ UNCHANGED irc /\ UNCHANGED spoilt /\ UNCHANGED inputs
        /\ rcv[o].stat = "connecting" /\ UNCHANGED wire
    BY DEF RecvAccepts
  <1> DEFINE r == [rcv[o] EXCEPT !.stat = "active"]
  <1>2. r \in RecvRec /\ r.stat \notin Early /\ r.open = rcv[o].open /\ r.destfile = rcv[o].destfile
        /\ r.resumable = rcv[o].resumable
    BY Fields DEF RecvRec, Stats, Early, Underway, Finished
  <1>3. rcv' = [rcv EXCEPT ![o] = r] /\ rcv[o].stat \in {"queued"} \cup Underway
    BY <1>1 DEF Underway, RecvAccepts
  <1> HIDE DEF r
  <1> QED BY <1>1, <1>2, <1>3, RecordKeepsShape, ConstsTyped, Fields, Same

\* what a call of dcc_read that k cells have come to makes of the transfer, d, and of its connection
Became(o, d, k, r, w) ==
    /\ rcv' = [rcv EXCEPT ![o] = r] /\ wire' = [wire EXCEPT ![o] = w]
    /\ disk' = Written(Opened(d), SubSeq(wire[o].cells, 1, k))
    /\ SubSeq(wire[o].cells, 1, k) \in Seq(1..size)
    /\ r.open /\ r.destfile = Opened(d).destfile /\ r.resumable = rcv[o].resumable
    /\ r.pos = Opened(d).pos + k /\ r.passive = rcv[o].passive
    /\ r.stat = (IF k > 0 /\ r.pos >= size THEN "done" ELSE "active")
    /\ w.link = wire[o].link
    /\ w.cells = IF r.stat = "done" THEN <<>> ELSE SubSeq(wire[o].cells, k + 1, Len(wire[o].cells))
    /\ w.acks = IF k = 0 \/ PeerIsGone(o, snd) THEN wire[o].acks
                ELSE Append(wire[o].acks, r.pos % Wrap)

LEMMA ReadingIs ==
    ASSUME Shape, NEW o \in Offers, rcv[o].stat = "active", NEW d \in RecvRec,
           d = [rcv[o] EXCEPT !.throttled = FALSE] \/ d = rcv[o],
           NEW k \in 0..Len(wire[o].cells), Reading(o, d, k)
    PROVE  \E r \in RecvRec, w \in WireRec : Became(o, d, k, r, w)
  <1> DEFINE c == wire[o].cells
             f == Opened(d)
             g == [f EXCEPT !.pos = @ + k]
             done == k > 0 /\ g.pos >= size
             w0 == [wire[o] EXCEPT !.cells = SubSeq(@, k + 1, Len(@))]
             a0 == IF PeerIsGone(o, snd) THEN w0 ELSE [w0 EXCEPT !.acks = Append(@, g.pos % Wrap)]
             r == IF done THEN Closed(g, "done") ELSE g
             w == IF k = 0 THEN w0 ELSE IF done THEN [a0 EXCEPT !.cells = <<>>] ELSE a0
  <1>1. disk' = Written(f, SubSeq(c, 1, k)) /\ rcv' = [rcv EXCEPT ![o] = r] /\ wire' = [wire EXCEPT ![o] = w]
    BY Zenon DEF Reading, Acked
  <1>2. /\ d.stat = "active" /\ d.open = rcv[o].open /\ d.destfile = rcv[o].destfile
        /\ d.resumable = rcv[o].resumable /\ d.passive = rcv[o].passive
    BY Fields DEF RecvRec
  <1>3. rcv[o].stat \in Underway
    BY DEF Underway
  <1>4. f \in RecvRec /\ f.open /\ f.stat = "active" /\ f.resumable = rcv[o].resumable /\ f.passive = rcv[o].passive
    BY <1>2, <1>3, OpenedIs
  <1>14. wire[o] \in WireRec /\ Wrap \in Nat \ {0} /\ size \in Nat
    BY Fields
  <1>15. c \in Seq(1..size) /\ wire[o].acks \in Seq(0..(Wrap - 1))
    BY <1>14, Wires
  <1>16. Len(c) \in Nat
    BY <1>15, LenProperties
  <1>5. c \in Seq(1..size) /\ Len(c) \in Nat /\ k \in Nat /\ wire[o] \in WireRec /\ Wrap \in Nat \ {0}
        /\ wire[o].acks \in Seq(0..(Wrap - 1)) /\ size \in Nat
    BY <1>14, <1>15, <1>16
  <1>6. SubSeq(c, 1, k) \in Seq(1..size) /\ SubSeq(c, k + 1, Len(c)) \in Seq(1..size)
    <2>1. \A i \in 1..Len(c) : c[i] \in 1..size
      BY <1>5
    <2>2. \A i \in 1..k : c[i] \in 1..size
      BY <1>5, <2>1
    <2>3. \A i \in (k + 1)..Len(c) : c[i] \in 1..size
      BY <1>5, <2>1
    <2>4. k + 1 \in Int /\ Len(c) \in Int /\ k \in Int
      BY <1>5
    <2>5. SubSeq(c, 1, k) \in Seq(1..size)
      BY <2>2, <2>4, SubSeqProperties
    <2>6. SubSeq(c, k + 1, Len(c)) \in Seq(1..size)
      BY <2>3, <2>4, SubSeqProperties
    <2> QED BY <2>5, <2>6
  <1> HIDE DEF f
  <1>7. g \in RecvRec /\ g.pos = f.pos + k /\ g.pos \in Nat /\ g.open = f.open /\ g.stat = f.stat
        /\ g.resumable = f.resumable /\ g.destfile = f.destfile /\ g.passive = f.passive
    <2>1. f.pos \in Nat /\ k \in Nat /\ f \in RecvRec
      BY <1>4, <1>5 DEF RecvRec
    <2>2. f.pos + k \in Nat
      BY <2>1
    <2> QED BY <2>1, <2>2 DEF RecvRec
  <1> HIDE DEF g
  <1>8. "done" \in Stats
    BY DEF Stats, Finished
  <1>9. /\ r \in RecvRec /\ r.open /\ r.destfile = f.destfile /\ r.resumable = rcv[o].resumable
        /\ r.pos = f.pos + k /\ r.passive = rcv[o].passive /\ r.pos = g.pos
        /\ r.stat = (IF k > 0 /\ r.pos >= size THEN "done" ELSE "active")
        /\ (r.stat = "done") = done
    BY <1>4, <1>7, <1>8, Closing
  <1> HIDE DEF r
  <1>10. w0 \in WireRec /\ w0.link = wire[o].link /\ w0.acks = wire[o].acks
         /\ w0.cells = SubSeq(c, k + 1, Len(c))
    BY <1>5, <1>6 DEF WireRec
  <1> HIDE DEF w0
  <1>11. /\ a0 \in WireRec /\ a0.link = wire[o].link /\ a0.cells = SubSeq(c, k + 1, Len(c))
         /\ a0.acks = IF PeerIsGone(o, snd) THEN wire[o].acks ELSE Append(wire[o].acks, g.pos % Wrap)
    <2>1. g.pos % Wrap \in 0..(Wrap - 1)
      BY <1>5, <1>7
    <2>2. Append(wire[o].acks, g.pos % Wrap) \in Seq(0..(Wrap - 1))
      BY <1>5, <2>1, AppendProperties
    <2> QED BY <1>10, <2>2 DEF WireRec
  <1> HIDE DEF a0
  <1>12. [a0 EXCEPT !.cells = <<>>] \in WireRec /\ [a0 EXCEPT !.cells = <<>>].link = a0.link
         /\ [a0 EXCEPT !.cells = <<>>].acks = a0.acks /\ [a0 EXCEPT !.cells = <<>>].cells = <<>>
    BY <1>11, EmptySeq DEF WireRec
  <1>13. /\ w \in WireRec /\ w.link = wire[o].link
         /\ w.cells = IF r.stat = "done" THEN <<>> ELSE SubSeq(c, k + 1, Len(c))
         /\ w.acks = IF k = 0 \/ PeerIsGone(o, snd) THEN wire[o].acks
                     ELSE Append(wire[o].acks, r.pos % Wrap)
    <2>1. CASE k = 0
      BY <1>9, <1>10, <2>1
    <2>2. CASE k # 0 /\ done
      BY <1>9, <1>11, <1>12, <2>2
    <2>3. CASE k # 0 /\ ~done
      BY <1>9, <1>11, <2>3
    <2> QED BY <2>1, <2>2, <2>3
  <1> HIDE DEF w
  <1>17. Became(o, d, k, r, w)
    BY <1>1, <1>6, <1>9, <1>13 DEF f, c, Became
  <1> QED BY <1>9, <1>13, <1>17

LEMMA ReadingKeepsShape ==
    ASSUME Shape, NEW o \in Offers, rcv[o].stat = "active", NEW d \in RecvRec,
           d = [rcv[o] EXCEPT !.throttled = FALSE] \/ d = rcv[o],
           NEW k \in 0..Len(wire[o].cells), Reading(o, d, k),
           UNCHANGED <<consts, snd>>, UNCHANGED irc, UNCHANGED inputs, UNCHANGED spoilt
    PROVE  Shape'
  <1>0. PICK r \in RecvRec, w \in WireRec : Became(o, d, k, r, w)
    BY ReadingIs
  <1>1. /\ rcv' = [rcv EXCEPT ![o] = r] /\ wire' = [wire EXCEPT ![o] = w]
        /\ disk' = Written(Opened(d), SubSeq(wire[o].cells, 1, k))
        /\ SubSeq(wire[o].cells, 1, k) \in Seq(1..size)
        /\ r.open /\ r.destfile = Opened(d).destfile /\ r.resumable = rcv[o].resumable
        /\ r.stat = (IF k > 0 /\ r.pos >= size THEN "done" ELSE "active")
    BY <1>0 DEF Became
  <1>2. d.open = rcv[o].open /\ d.destfile = rcv[o].destfile /\ d.resumable = rcv[o].resumable
    BY Fields DEF RecvRec
  <1>3. rcv[o].stat \in Underway /\ r.stat \notin Early
    BY <1>1 DEF Underway, Early
  <1> QED BY <1>1, <1>2, <1>3, ReadSide, ConstsTyped

LEMMA ReadKeepsShape ==
    ASSUME Shape, NEW o \in Offers, Read(o) PROVE Shape'
  <1>1. PICK k \in (IF rcv[o].throttled THEN {0} ELSE 1..Len(wire[o].cells)) : Reading(o, rcv[o], k)
    BY DEF Read
  <1>2. wire[o].cells \in Seq(1..size)
    BY Fields, Wires
  <1>3. k \in 0..Len(wire[o].cells)
    BY <1>2
  <1>4. rcv[o].stat = "active" /\ UNCHANGED <<consts, snd>> /\ UNCHANGED irc /\ UNCHANGED inputs /\ UNCHANGED spoilt
    BY DEF Read
  <1> QED BY <1>1, <1>3, <1>4, Fields, ReadingKeepsShape

LEMMA RecvUnthrottledKeepsShape ==
    ASSUME Shape, NEW o \in Offers, RecvUnthrottled(o) PROVE Shape'
  <1> DEFINE d == [rcv[o] EXCEPT !.throttled = FALSE]
  <1>1. PICK k \in 0..Len(wire[o].cells) : Reading(o, d, k)
    BY DEF RecvUnthrottled
  <1>2. d \in RecvRec
    BY Fields DEF RecvRec
  <1>4. rcv[o].stat = "active" /\ UNCHANGED <<consts, snd>> /\ UNCHANGED irc /\ UNCHANGED inputs /\ UNCHANGED spoilt
    BY DEF RecvUnthrottled
  <1>5. d = [rcv[o] EXCEPT !.throttled = FALSE]
    OBVIOUS
  <1> HIDE DEF d
  <1> QED BY <1>1, <1>2, <1>4, <1>5, ReadingKeepsShape

\* the file is opened, and the transfer fails
LEMMA FailingIs ==
    ASSUME Shape, NEW o \in Offers, rcv[o].stat = "active"
    PROVE  /\ Closed(Opened(rcv[o]), "failed") \in RecvRec
           /\ Closed(Opened(rcv[o]), "failed").stat = "failed"
           /\ Closed(Opened(rcv[o]), "failed").open
           /\ Closed(Opened(rcv[o]), "failed").destfile = Opened(rcv[o]).destfile
           /\ Closed(Opened(rcv[o]), "failed").resumable = rcv[o].resumable
           /\ rcv[o].stat \in Underway /\ <<>> \in Seq(1..size)
  <1>1. rcv[o].stat \in Underway /\ "failed" \in Stats /\ rcv[o] \in RecvRec
    BY Fields DEF Underway, Stats, Finished
  <1>2. Opened(rcv[o]) \in RecvRec /\ Opened(rcv[o]).open /\ Opened(rcv[o]).resumable = rcv[o].resumable
    BY <1>1, OpenedIs
  <1> QED BY <1>1, <1>2, Closing, EmptySeq

LEMMA FailingKeepsShape ==
    ASSUME Shape, NEW o \in Offers, rcv[o].stat = "active", NEW w \in WireRec,
           disk' = Written(Opened(rcv[o]), <<>>),
           rcv' = [rcv EXCEPT ![o] = Closed(Opened(rcv[o]), "failed")], wire' = [wire EXCEPT ![o] = w],
           UNCHANGED <<consts, snd>>, UNCHANGED irc, inputs' \in 0..MaxInputs, UNCHANGED spoilt
    PROVE  Shape'
  <1> DEFINE r == Closed(Opened(rcv[o]), "failed")
  <1>1. r \in RecvRec /\ r.stat = "failed" /\ r.open /\ r.destfile = Opened(rcv[o]).destfile
        /\ r.resumable = rcv[o].resumable /\ rcv[o].stat \in Underway /\ <<>> \in Seq(1..size)
    BY FailingIs
  <1>2. rcv' = [rcv EXCEPT ![o] = r] /\ r.stat \notin Early
    BY <1>1 DEF Early
  <1> HIDE DEF r
  <1> QED BY <1>1, <1>2, ReadSide, Fields, ConstsTyped

LEMMA RecvEOFKeepsShape ==
    ASSUME Shape, NEW o \in Offers, RecvEOF(o) PROVE Shape'
  <1>1. /\ rcv[o].stat = "active" /\ disk' = Written(Opened(rcv[o]), <<>>)
        /\ rcv' = [rcv EXCEPT ![o] = Closed(Opened(rcv[o]), "failed")]
        /\ UNCHANGED <<consts, snd>> /\ UNCHANGED irc /\ UNCHANGED wire /\ UNCHANGED inputs /\ UNCHANGED spoilt
    BY DEF RecvEOF
  <1> QED BY <1>1, Fields, Same, FailingKeepsShape, ConstsTyped

LEMMA DiskFullKeepsShape ==
    ASSUME Shape, NEW o \in Offers, DiskFull(o) PROVE Shape'
  <1> DEFINE w == [wire[o] EXCEPT !.cells = <<>>]
  <1>1. /\ rcv[o].stat = "active" /\ disk' = Written(Opened(rcv[o]), <<>>)
        /\ rcv' = [rcv EXCEPT ![o] = Closed(Opened(rcv[o]), "failed")] /\ wire' = [wire EXCEPT ![o] = w]
        /\ UNCHANGED <<consts, snd>> /\ UNCHANGED irc /\ Input /\ UNCHANGED spoilt
    BY DEF DiskFull
  <1>2. w \in WireRec
    BY Fields, Wires, EmptySeq
  <1> HIDE DEF w
  <1> QED BY <1>1, <1>2, FailingKeepsShape, ConstsTyped

LEMMA RecvThrottledKeepsShape ==
    ASSUME Shape, NEW o \in Offers, RecvThrottled(o) PROVE Shape'
  <1> DEFINE r == [rcv[o] EXCEPT !.throttled = TRUE]
  <1>1. /\ r \in RecvRec /\ r.stat = rcv[o].stat /\ r.open = rcv[o].open /\ r.destfile = rcv[o].destfile
        /\ r.resumable = rcv[o].resumable
    BY Fields DEF RecvRec
  <1>2. /\ rcv' = [rcv EXCEPT ![o] = r] /\ rcv[o].stat = "active"
        /\ UNCHANGED <<consts, snd, disk>> /\ UNCHANGED wire /\ UNCHANGED irc /\ Input /\ UNCHANGED spoilt
    BY DEF RecvThrottled
  <1>3. rcv[o].stat \in {"queued"} \cup Underway /\ r.stat \notin Early
    BY <1>1, <1>2 DEF Underway, Early
  <1> HIDE DEF r
  <1> QED BY <1>1, <1>2, <1>3, RecordKeepsShape, ConstsTyped, Fields, Same

LEMMA RecvAbortedKeepsShape ==
    ASSUME Shape, NEW o \in Offers, RecvAborted(o) PROVE Shape'
  <1> DEFINE r == Closed(rcv[o], "aborted")
             w == [wire[o] EXCEPT !.cells = <<>>]
  <1>1. "aborted" \in Stats
    BY DEF Stats, Finished
  <1>2. /\ r \in RecvRec /\ r.stat = "aborted" /\ r.open = rcv[o].open /\ r.destfile = rcv[o].destfile
        /\ r.resumable = rcv[o].resumable
    BY <1>1, Closing, Fields
  <1>3. w \in WireRec
    BY Fields, Wires, EmptySeq
  <1>4. /\ rcv' = [rcv EXCEPT ![o] = r] /\ wire' = [wire EXCEPT ![o] = w] /\ rcv[o].stat \in {"queued"} \cup Underway
        /\ UNCHANGED <<consts, snd, disk>> /\ UNCHANGED irc /\ Input /\ UNCHANGED spoilt
    BY DEF RecvAborted
  <1>5. r.stat \notin Early
    BY <1>2 DEF Early
  <1> HIDE DEF r, w
  <1> QED BY <1>2, <1>3, <1>4, <1>5, RecordKeepsShape, ConstsTyped

LEMMA RecvForgottenKeepsShape ==
    ASSUME Shape, NEW o \in Offers, RecvForgotten(o) PROVE Shape'
  <1> DEFINE r == NewRecv("gone", FALSE)
  <1>1. r \in RecvRec /\ r.stat = "gone" /\ ~r.open /\ r.destfile = 0
    BY NewRecvIs DEF Stats
  <1>2. /\ rcv' = [rcv EXCEPT ![o] = r]
        /\ UNCHANGED <<consts, snd, disk>> /\ UNCHANGED wire /\ UNCHANGED irc /\ Input /\ UNCHANGED spoilt
    BY DEF RecvForgotten
  <1> HIDE DEF r
  <1>3. /\ ~r.open => r.destfile = 0
        /\ r.open => rcv[o].open /\ r.destfile = rcv[o].destfile /\ r.resumable = rcv[o].resumable
        /\ r.stat \in Early \cup Underway => rcv[o].stat \in Early \cup Underway /\ r.open = rcv[o].open
        /\ r.stat \in Early => ~r.open
        /\ r.stat = "none" => ~r.resume_sent
    BY <1>1 DEF Early, Underway
  <1> QED BY <1>1, <1>2, <1>3, RecvSide, ConstsTyped, Fields, Same

LEMMA BreakKeepsShape ==
    ASSUME Shape, NEW o \in Offers, Break(o) PROVE Shape'
  <1> DEFINE w == [link |-> "cut", cells |-> <<>>, acks |-> <<>>]
  <1>1. w \in WireRec
    BY EmptySeq DEF WireRec
  <1>2. /\ wire' = [wire EXCEPT ![o] = w]
        /\ UNCHANGED <<consts, rcv, disk>> /\ UNCHANGED snd /\ UNCHANGED irc /\ Input /\ UNCHANGED spoilt
    BY DEF Break
  <1>3. snd[o].stat = "active" /\ snd[o].wiotag => snd[o].pos < size
    BY DEF Shape, Sends
  <1> HIDE DEF w
  <1> QED BY <1>1, <1>2, <1>3, SendSide, ConstsTyped, Fields, Same

LEMMA StutterKeepsShape ==
    ASSUME Shape, UNCHANGED vars PROVE Shape'
  BY DEF vars, consts, irc, Shape, TypeOK, Sends, Room, Free, ToOpen, OwnFile, size

LEMMA InitShape == Init => Shape
  <1> SUFFICES ASSUME Init PROVE Shape
    OBVIOUS
  <1>1. /\ file \in Files /\ size \in Nat \ {0} /\ file.partial \in Nat /\ file.partial < size
        /\ file.offers \in 1..MaxOffers /\ MaxOffers \in Nat \ {0}
    BY DccAssumption DEF Init, size
  <1> DEFINE dom == IF file.partial = 0 THEN {} ELSE {0}
  <1>2. DOMAIN disk = dom /\ \A f \in dom : disk[f] = Cells(0, file.partial)
    BY DEF Init
  <1>3. Cells(0, file.partial) \in Seq(1..size)
    <2>1. \A i \in 1..file.partial : 0 + i \in 1..size
      BY <1>1
    <2> QED BY <1>1, <2>1 DEF Cells
  <1>4. TypeOK
    <2>1. "none" \in Stats
      BY DEF Stats
    <2>2. snd \in [Offers -> SendRec] /\ rcv \in [Offers -> RecvRec]
      BY <2>1, NewRecords DEF Init
    <2>3. DOMAIN disk \subseteq 0..MaxOffers /\ \A f \in DOMAIN disk : disk[f] \in Seq(1..size)
      BY <1>1, <1>2, <1>3
    <2>4. toRecv \in Seq(Ctcp) /\ toSend \in Seq(Ctcp)
      BY EmptySeq DEF Init
    <2>5. wire \in [Offers -> [link : {"none", "up", "cut"}, cells : Seq(1..size), acks : Seq(0..(Wrap - 1))]]
      BY EmptySeq DEF Init
    <2>6. inputs \in 0..MaxInputs /\ spoilt \subseteq Offers /\ prefs \in Prefs
      BY DccAssumption DEF Init
    <2> QED BY <1>1, <2>2, <2>3, <2>4, <2>5, <2>6 DEF TypeOK
  <1>5. Sends
    BY <1>1 DEF Init, Sends, NewSend
  <1>6. \A o \in Offers : OwnFile(o)
    BY DEF Init, OwnFile, NewRecv
  <1>7. Room
    <2>1. IsFiniteSet(0..MaxOffers) /\ Cardinality(0..MaxOffers) = MaxOffers + 1
      BY <1>1, FS_Interval
    <2>2. Cardinality(Free) >= MaxOffers
      <3>1. CASE file.partial = 0
        <4>1. Free = 0..MaxOffers
          BY <1>2, <3>1 DEF Free
        <4> QED BY <1>1, <2>1, <4>1
      <3>2. CASE file.partial # 0
        <4>1. Free = (0..MaxOffers) \ {0} /\ 0 \in 0..MaxOffers
          BY <1>1, <1>2, <3>2 DEF Free
        <4>2. Cardinality((0..MaxOffers) \ {0}) = (MaxOffers + 1) - 1
          BY <2>1, <4>1, FS_RemoveElement
        <4> QED BY <1>1, <4>1, <4>2
      <3> QED BY <3>1, <3>2
    <2>3. Cardinality(ToOpen) <= MaxOffers
      BY OffersFinite, FS_Subset DEF ToOpen
    <2> QED BY <1>1, <2>2, <2>3, RoomCounts DEF Room
  <1> QED BY <1>4, <1>5, <1>6, <1>7 DEF Shape

LEMMA NextKeepsShape ==
    ASSUME Shape, HandleSend => rcv[Head(toRecv).offer].stat = "none", [Next]_vars
    PROVE  Shape'
  <1>1. CASE SenderLoop
    BY <1>1, HandleResumeKeepsShape, HandleSendReplyKeepsShape, dcc_acceptKeepsShape, SendConnectsKeepsShape,
       WritableKeepsShape, ReadAckKeepsShape, SendEOFKeepsShape, SendUnthrottledKeepsShape DEF SenderLoop
  <1>2. CASE ReceiverLoop
    BY <1>2, HandleSendKeepsShape, HandleAcceptKeepsShape, RecvConnectsKeepsShape, RecvAcceptsKeepsShape,
       ReadKeepsShape, RecvEOFKeepsShape, RecvUnthrottledKeepsShape DEF ReceiverLoop
  <1>3. CASE dcc_get_nick
    BY <1>3, GetNickKeepsShape
  <1>4. ASSUME NEW o \in Offers,
               \/ \E passive \in BOOLEAN : dcc_send(o, passive)
               \/ SendThrottled(o) \/ SendAborted(o) \/ SendForgotten(o)
               \/ Get(o) \/ Resume(o) \/ DiskFull(o) \/ RecvThrottled(o) \/ RecvAborted(o) \/ RecvForgotten(o)
               \/ Break(o)
        PROVE  Shape'
    BY <1>4, dcc_sendKeepsShape, SendThrottledKeepsShape, SendAbortedKeepsShape, SendForgottenKeepsShape,
       GetActionKeepsShape, ResumeActionKeepsShape, DiskFullKeepsShape, RecvThrottledKeepsShape,
       RecvAbortedKeepsShape, RecvForgottenKeepsShape, BreakKeepsShape
  <1>5. CASE UNCHANGED vars
    BY <1>5, StutterKeepsShape
  <1> QED BY <1>1, <1>2, <1>3, <1>4, <1>5 DEF Next

-----------------------------------------------------------------------------
(* What is said of an offer stays true of fewer messages about it.         *)

Kinds == {"SEND", "RESUME", "ACCEPT"}
Rest(q, r, o) ==
    \E c \in Nat : \A kind \in Kinds : \A i \in About(r, kind, o) : i + c \in About(q, kind, o) /\ r[i] = q[i + c]

LEMMA AboutIs ==
    ASSUME NEW q \in Seq(Ctcp), NEW kind, NEW o, NEW i \in About(q, kind, o)
    PROVE  i \in Nat /\ i \in 1..Len(q) /\ q[i] \in Ctcp /\ q[i].pos \in Nat /\ q[i].kind = kind /\ q[i].offer = o
  <1>1. i \in 1..Len(q) /\ q[i].kind = kind /\ q[i].offer = o
    BY DEF About
  <1>2. q[i] \in Ctcp
    BY <1>1, ElementOfSeq
  <1>3. q[i].pos \in Nat
    BY <1>2 DEF Ctcp
  <1>4. i \in Nat
    BY <1>1
  <1> QED BY <1>1, <1>2, <1>3, <1>4

LEMMA RestOfSame ==
    ASSUME NEW q \in Seq(Ctcp), NEW o
    PROVE  Rest(q, q, o)
  <1>1. \A kind \in Kinds : \A i \in About(q, kind, o) : i + 0 \in About(q, kind, o) /\ q[i] = q[i + 0]
    BY AboutIs
  <1> QED BY <1>1 DEF Rest

LEMMA RestOfTail ==
    ASSUME NEW q \in Seq(Ctcp), NEW kind, Arrives(q, kind), NEW o
    PROVE  Rest(q, Tail(q), o)
  <1>1. Len(Tail(q)) = Len(q) - 1 /\ Len(q) \in Nat \ {0} /\ \A i \in 1..Len(Tail(q)) : Tail(q)[i] = q[i + 1]
    BY Queues
  <1>2. \A k \in Kinds : \A i \in About(Tail(q), k, o) : i + 1 \in About(q, k, o) /\ Tail(q)[i] = q[i + 1]
    BY <1>1 DEF About
  <1> QED BY <1>2 DEF Rest

Grown(q, r, m) == r = Append(q, m)

LEMMA Appended ==
    ASSUME NEW q \in Seq(Ctcp), NEW m \in Ctcp, NEW r, Grown(q, r, m), NEW o, NEW kind
    PROVE  \A i \in About(r, kind, o) :
              \/ i \in About(q, kind, o) /\ r[i] = q[i]
              \/ i = Len(q) + 1 /\ r[i] = m /\ m.offer = o /\ m.kind = kind
  <1>1. Len(r) = Len(q) + 1 /\ Len(q) \in Nat /\ (\A i \in 1..Len(q) : r[i] = q[i]) /\ r[Len(q) + 1] = m
    BY AppendProperties DEF Grown
  <1> SUFFICES ASSUME NEW i \in About(r, kind, o)
               PROVE  \/ i \in About(q, kind, o) /\ r[i] = q[i]
                      \/ i = Len(q) + 1 /\ r[i] = m /\ m.offer = o /\ m.kind = kind
    OBVIOUS
  <1>2. i \in 1..(Len(q) + 1) /\ r[i].kind = kind /\ r[i].offer = o
    BY <1>1 DEF About
  <1>3. CASE i \in 1..Len(q)
    BY <1>1, <1>2, <1>3 DEF About
  <1>4. CASE i = Len(q) + 1
    BY <1>1, <1>2, <1>4
  <1> QED BY <1>1, <1>2, <1>3, <1>4

\* the messages of other kinds, and those about other offers
LEMMA AppendedOthers ==
    ASSUME NEW q \in Seq(Ctcp), NEW m \in Ctcp, NEW r, Grown(q, r, m), NEW o, NEW kind, kind # m.kind
    PROVE  /\ \A i \in About(r, kind, o) : i \in About(q, kind, o) /\ r[i] = q[i]
           /\ About(q, kind, o) = {} => About(r, kind, o) = {}
           /\ (\A i, j \in About(q, kind, o) : i = j) => (\A i, j \in About(r, kind, o) : i = j)
  <1>1. \A i \in About(r, kind, o) : i \in About(q, kind, o) /\ r[i] = q[i]
    BY Appended
  <1> QED BY <1>1

LEMMA AppendedElsewhere ==
    ASSUME NEW q \in Seq(Ctcp), NEW m \in Ctcp, NEW r, Grown(q, r, m), NEW o, m.offer # o
    PROVE  Rest(q, r, o)
  <1>1. \A kind \in Kinds : \A i \in About(r, kind, o) : i + 0 \in About(q, kind, o) /\ r[i] = q[i + 0]
    <2>1. \A kind \in Kinds : \A i \in About(r, kind, o) : i \in About(q, kind, o) /\ r[i] = q[i]
      BY Appended
    <2>2. \A kind \in Kinds : \A i \in About(r, kind, o) : i \in Nat
      BY <2>1, AboutIs
    <2> QED BY <2>1, <2>2
  <1> QED BY <1>1 DEF Rest

\* what the facts about offers say of the messages, for any queue
LEMMA RestKeeps ==
    ASSUME NEW q \in Seq(Ctcp), NEW r \in Seq(Ctcp), NEW o, Rest(q, r, o)
    PROVE  /\ \A kind \in Kinds : About(q, kind, o) = {} => About(r, kind, o) = {}
           /\ \A kind \in Kinds : \A i \in About(r, kind, o) : \E j \in About(q, kind, o) : r[i] = q[j]
           /\ \A kind \in Kinds : (\A i, j \in About(q, kind, o) : i = j) => (\A i, j \in About(r, kind, o) : i = j)
           /\ \A kind \in Kinds : (\A i, j \in About(q, kind, o) : i < j => q[i].pos <= q[j].pos)
                 => (\A i, j \in About(r, kind, o) : i < j => r[i].pos <= r[j].pos)
  <1>1. PICK c \in Nat : \A kind \in Kinds : \A i \in About(r, kind, o) : i + c \in About(q, kind, o) /\ r[i] = q[i + c]
    BY DEF Rest
  <1>2. \A kind \in Kinds : \A i \in About(r, kind, o) : i \in Nat
    BY AboutIs
  <1>3. \A kind \in Kinds : (\A i, j \in About(q, kind, o) : i = j) => (\A i, j \in About(r, kind, o) : i = j)
    <2> SUFFICES ASSUME NEW kind \in Kinds, \A i, j \in About(q, kind, o) : i = j,
                        NEW i \in About(r, kind, o), NEW j \in About(r, kind, o)
                 PROVE  i = j
      OBVIOUS
    <2>1. i + c = j + c
      BY <1>1
    <2> QED BY <1>2, <2>1
  <1>4. \A kind \in Kinds : (\A i, j \in About(q, kind, o) : i < j => q[i].pos <= q[j].pos)
                 => (\A i, j \in About(r, kind, o) : i < j => r[i].pos <= r[j].pos)
    <2> SUFFICES ASSUME NEW kind \in Kinds, \A i, j \in About(q, kind, o) : i < j => q[i].pos <= q[j].pos,
                        NEW i \in About(r, kind, o), NEW j \in About(r, kind, o), i < j
                 PROVE  r[i].pos <= r[j].pos
      OBVIOUS
    <2>1. i + c \in About(q, kind, o) /\ j + c \in About(q, kind, o) /\ r[i] = q[i + c] /\ r[j] = q[j + c]
      BY <1>1
    <2>2. i + c < j + c
      BY <1>2
    <2> QED BY <2>1, <2>2
  <1> QED BY <1>1, <1>3, <1>4

-----------------------------------------------------------------------------
(* How the facts about one offer survive a step, in general.               *)

Waiting(o) == rcv[o].stat \in Early \/ (rcv[o].stat = "connecting" /\ ~rcv[o].passive)
Fewer(o)   == Rest(toSend, toSend', o) /\ Rest(toRecv, toRecv', o)
Queued     == /\ toSend \in Seq(Ctcp) /\ toRecv \in Seq(Ctcp)
              /\ toSend' \in Seq(Ctcp) /\ toRecv' \in Seq(Ctcp)

LEMMA WaitingIs ==
    ASSUME NEW o \in Offers, Offered(o), Waiting(o)
    PROVE  snd[o].stat \notin Underway /\ About(toSend, "SEND", o) = {} /\ wire[o] = Blank
  BY DEF Offered, Waiting

LEMMA OfferedKept ==
    ASSUME NEW o \in Offers, Offered(o), Queued, Fewer(o),
           rcv'[o].stat = "none" <=> rcv[o].stat = "none",
           snd'[o].stat = "none" => snd[o].stat = "none",
           snd'[o].stat \in {"none", "queued", "connecting"} => wire'[o].cells = <<>> /\ wire'[o].acks = <<>>,
           Waiting(o)' => Waiting(o) /\ snd'[o].stat \notin Underway /\ wire'[o] = Blank
    PROVE  Offered(o)'
  <1>1. /\ About(toSend, "SEND", o) = {} => About(toSend', "SEND", o) = {}
        /\ About(toRecv, "SEND", o) = {} => About(toRecv', "SEND", o) = {}
        /\ About(toSend, "RESUME", o) = {} => About(toSend', "RESUME", o) = {}
        /\ (\A i, j \in About(toRecv, "SEND", o) : i = j) => (\A i, j \in About(toRecv', "SEND", o) : i = j)
    BY RestKeeps DEF Queued, Fewer, Kinds
  <1>2. About(toRecv, "SEND", o)' = About(toRecv', "SEND", o) /\ About(toSend, "SEND", o)' = About(toSend', "SEND", o)
        /\ About(toSend, "RESUME", o)' = About(toSend', "RESUME", o)
    BY DEF About
  <1>3. Waiting(o) => About(toSend, "SEND", o) = {}
    BY WaitingIs
  <1>4. snd'[o].stat = "none" => rcv'[o].stat = "none" /\ About(toRecv', "SEND", o) = {}
    BY <1>1 DEF Offered
  <1>5. About(toRecv', "SEND", o) # {} => rcv'[o].stat = "none"
    BY <1>1 DEF Offered
  <1>6. \A i, j \in About(toRecv', "SEND", o) : i = j
    BY <1>1 DEF Offered
  <1>7. rcv'[o].stat = "none" => About(toSend', "RESUME", o) = {}
    BY <1>1 DEF Offered
  <1>8. Waiting(o)' => snd'[o].stat \notin Underway /\ About(toSend', "SEND", o) = {} /\ wire'[o] = Blank
    BY <1>1, <1>3
  <1> QED BY <1>2, <1>4, <1>5, <1>6, <1>7, <1>8 DEF Offered, Waiting

LEMMA PlacesKept ==
    ASSUME Shape, NEW o \in Offers, Places(o), Queued, Fewer(o), UNCHANGED consts,
           OnDisk \in Nat, OnDisk' \in Nat, OnDisk <= OnDisk',
           snd'[o].resumable \in {snd[o].resumable, 0}, rcv'[o].resumable \in {rcv[o].resumable, 0}
    PROVE  Places(o)'
  <1>0. size' = size /\ size \in Nat \ {0}
    BY Fields DEF consts, size
  <1>1. /\ \A i \in About(toSend', "RESUME", o) : \E j \in About(toSend, "RESUME", o) : toSend'[i] = toSend[j]
        /\ \A i \in About(toRecv', "ACCEPT", o) : \E j \in About(toRecv, "ACCEPT", o) : toRecv'[i] = toRecv[j]
    BY RestKeeps DEF Queued, Fewer, Kinds
  <1>2. \A i \in About(toSend', "RESUME", o) : toSend'[i].pos \in 1..(size - 1) /\ toSend'[i].pos <= OnDisk'
    <2> SUFFICES ASSUME NEW i \in About(toSend', "RESUME", o)
                 PROVE  toSend'[i].pos \in 1..(size - 1) /\ toSend'[i].pos <= OnDisk'
      OBVIOUS
    <2>1. toSend'[i].pos \in 1..(size - 1) /\ toSend'[i].pos <= OnDisk
      BY <1>1 DEF Places
    <2> QED BY <1>0, <2>1
  <1>3. \A i \in About(toRecv', "ACCEPT", o) : toRecv'[i].pos \in 1..(size - 1)
    BY <1>1 DEF Places
  <1>4. snd[o].resumable \in Nat /\ rcv[o].resumable \in Nat
    BY Fields
  <1>5. snd'[o].resumable < size /\ snd'[o].resumable <= OnDisk' /\ rcv'[o].resumable < size /\ rcv'[o].resumable <= OnDisk'
    BY <1>0, <1>4 DEF Places
  <1>6. About(toRecv, "ACCEPT", o)' = About(toRecv', "ACCEPT", o) /\ About(toSend, "RESUME", o)' = About(toSend', "RESUME", o)
    BY DEF About
  <1> QED BY <1>0, <1>2, <1>3, <1>5, <1>6 DEF Places

LEMMA AskedKept ==
    ASSUME NEW o \in Offers, Asked(o), Queued, Fewer(o),
           snd'[o].stat \in Live => snd[o].stat \in Live /\ snd'[o].resumable = snd[o].resumable,
           rcv'[o].stat \in Early => rcv'[o] = rcv[o],
           snd'[o].stat \in {"queued", "connecting"} =>
              snd[o].stat \in {"queued", "connecting"} /\ snd'[o].pos = snd[o].pos /\ snd'[o].ack = snd[o].ack,
           rcv'[o].stat \in Underway => rcv[o].stat \in Underway /\ rcv'[o].resumable = rcv[o].resumable
    PROVE  Asked(o)'
  <1>1. /\ \A i \in About(toSend', "RESUME", o) : \E j \in About(toSend, "RESUME", o) : toSend'[i] = toSend[j]
        /\ \A i \in About(toRecv', "ACCEPT", o) : \E j \in About(toRecv, "ACCEPT", o) : toRecv'[i] = toRecv[j]
        /\ (\A i, j \in About(toSend, "RESUME", o) : i < j => toSend[i].pos <= toSend[j].pos)
              => (\A i, j \in About(toSend', "RESUME", o) : i < j => toSend'[i].pos <= toSend'[j].pos)
        /\ About(toSend, "RESUME", o) = {} => About(toSend', "RESUME", o) = {}
        /\ About(toRecv, "ACCEPT", o) = {} => About(toRecv', "ACCEPT", o) = {}
    BY RestKeeps DEF Queued, Fewer, Kinds
  <1>2. About(toRecv, "ACCEPT", o)' = About(toRecv', "ACCEPT", o) /\ About(toSend, "RESUME", o)' = About(toSend', "RESUME", o)
    BY DEF About
  <1>3. \A i, j \in About(toSend', "RESUME", o) : i < j => toSend'[i].pos <= toSend'[j].pos
    BY <1>1 DEF Asked
  <1>4. snd'[o].stat \in Live =>
          /\ \A i \in About(toSend', "RESUME", o) : snd'[o].resumable <= toSend'[i].pos
          /\ \A i \in About(toRecv', "ACCEPT", o) : toRecv'[i].pos <= snd'[o].resumable
    BY <1>1 DEF Asked
  <1>5. rcv'[o].stat = "queued" /\ rcv'[o].resumable # 0 =>
          /\ \A i \in About(toSend', "RESUME", o) : toSend'[i].pos <= rcv'[o].resumable
          /\ snd'[o].stat \in Live => snd'[o].resumable <= rcv'[o].resumable
    BY <1>1 DEF Asked, Early
  <1>6. rcv'[o].stat \in Early /\ ~rcv'[o].resume_sent =>
          /\ About(toSend', "RESUME", o) = {} /\ About(toRecv', "ACCEPT", o) = {}
          /\ snd'[o].stat \in Live => snd'[o].resumable = 0
    BY <1>1 DEF Asked
  <1>7. snd'[o].stat \in {"queued", "connecting"} => snd'[o].pos = snd'[o].resumable /\ snd'[o].ack = snd'[o].pos
    BY DEF Asked, Live, Underway
  <1>8. rcv'[o].stat \in Underway /\ snd'[o].stat \in Live =>
          /\ snd'[o].resumable = rcv'[o].resumable
          /\ \A i \in About(toSend', "RESUME", o) : toSend'[i].pos = rcv'[o].resumable
    BY <1>1 DEF Asked
  <1> QED BY <1>2, <1>3, <1>4, <1>5, <1>6, <1>7, <1>8 DEF Asked

LEMMA StreamKept ==
    ASSUME NEW o \in Offers, Stream(o), UNCHANGED consts,
           rcv'[o].stat \in Underway =>
              /\ rcv[o].stat \in Underway /\ rcv'[o].open = rcv[o].open /\ rcv'[o].pos = rcv[o].pos
              /\ rcv'[o].resumable = rcv[o].resumable /\ wire'[o].cells = wire[o].cells
              /\ snd'[o].stat \in Live /\ wire'[o].link # "cut" =>
                    snd[o].stat \in Live /\ wire[o].link # "cut" /\ snd'[o].pos = snd[o].pos
    PROVE  Stream(o)'
  <1> SUFFICES ASSUME rcv'[o].stat \in Underway PROVE Stream(o)'
    BY DEF Stream
  <1>1. size' = size
    BY DEF consts, size
  <1>2. Start(o)' = Start(o)
    BY DEF Start
  <1>3. Cells(Start(o), Len(wire[o].cells))' = Cells(Start(o), Len(wire[o].cells))
    BY <1>2 DEF Cells
  <1> QED BY <1>1, <1>2, <1>3 DEF Stream

\* dcc_send_data put the next cells on their way
LEMMA StreamSent ==
    ASSUME Shape, NEW o \in Offers, Stream(o), UNCHANGED consts, rcv'[o] = rcv[o], NEW n \in Nat,
           ~PeerIsGone(o, rcv), snd[o].stat \in Live,
           wire'[o].cells = wire[o].cells \o Cells(snd[o].pos, n), snd'[o].pos = snd[o].pos + n, snd'[o].pos <= size
    PROVE  Stream(o)'
  <1>0. size' = size /\ size \in Nat
    BY Fields DEF consts, size
  <1>1. rcv[o].stat \in Underway /\ wire[o].link # "cut"
    BY DEF PeerIsGone
  <1>2. Start(o)' = Start(o) /\ Start(o) \in Nat
    BY Fields DEF Start
  <1> DEFINE k == Len(wire[o].cells)
  <1>3. k \in Nat
    BY Fields, Wires, LenProperties
  <1>4. wire[o].cells = Cells(Start(o), k) /\ snd[o].pos = Start(o) + k
    BY <1>1 DEF Stream
  <1> HIDE DEF k
  <1>5. Start(o) + k + n <= size
    BY <1>2, <1>3, <1>4
  <1>6. wire'[o].cells = Cells(Start(o), k + n)
    <2>1. Cells(Start(o), k) \o Cells(Start(o) + k, n) = Cells(Start(o), k + n)
      BY <1>2, <1>3, <1>5, CellsJoin DEF Shape
    <2> QED BY <1>4, <2>1
  <1>7. Len(wire'[o].cells) = k + n
    <2>1. k + n \in Nat /\ Start(o) + (k + n) <= size
      BY <1>2, <1>3, <1>5, <1>0
    <2> QED BY <1>2, <1>6, <2>1, CellsAre DEF Shape
  <1>8. Cells(Start(o), Len(wire[o].cells))' = Cells(Start(o), k + n)
    BY <1>2, <1>7 DEF Cells
  <1>9. snd'[o].pos = Start(o) + (k + n) /\ Start(o) + (k + n) <= size
    BY <1>2, <1>3, <1>4, <1>5
  <1>10. rcv[o].resumable <= Start(o) /\ (~rcv[o].open /\ rcv[o].resumable = 0 => rcv[o].pos = 0)
    BY <1>1 DEF Stream
  <1> QED BY <1>0, <1>2, <1>6, <1>7, <1>8, <1>9, <1>10 DEF Stream

LEMMA AcksKept ==
    ASSUME NEW o \in Offers, Acks(o), UNCHANGED consts,
           rcv[o].stat \in Over => rcv'[o].stat \in Over,
           size < Wrap /\ snd'[o].stat \in Live =>
              /\ snd[o].stat \in Live /\ snd'[o].resumable = snd[o].resumable
              /\ snd'[o].ackoffset = snd[o].ackoffset
              /\ \/ snd'[o].ack = snd[o].ack
                 \/ \E i \in 1..Len(wire[o].acks) : snd'[o].ack = wire[o].acks[i]
              /\ \A i \in 1..Len(wire'[o].acks) : \E j \in 1..Len(wire[o].acks) : wire'[o].acks[i] = wire[o].acks[j],
           size < Wrap /\ snd'[o].stat = "done" => snd[o].stat = "done" \/ rcv[o].stat \in Over
    PROVE  Acks(o)'
  <1>1. size' = size
    BY DEF consts, size
  <1>2. \A a : Sound(o, a) => Sound(o, a)'
    BY <1>1 DEF Sound
  <1>3. ASSUME size < Wrap, snd'[o].stat \in Live
        PROVE  /\ \A i \in 1..Len(wire'[o].acks) :
                     wire'[o].acks[i] > snd'[o].resumable /\ Sound(o, wire[o].acks[i])'
               /\ ~snd'[o].ackoffset /\ Sound(o, snd[o].ack)'
    <2>1. \A j \in 1..Len(wire[o].acks) : wire[o].acks[j] > snd[o].resumable /\ Sound(o, wire[o].acks[j])
      BY <1>3 DEF Acks
    <2>2. Sound(o, snd[o].ack) /\ ~snd[o].ackoffset
      BY <1>3 DEF Acks
    <2>3. \A i \in 1..Len(wire'[o].acks) : wire'[o].acks[i] > snd'[o].resumable /\ Sound(o, wire'[o].acks[i])
      BY <1>3, <2>1
    <2>4. Sound(o, snd'[o].ack)
      BY <1>3, <2>1, <2>2
    <2> QED BY <1>1, <1>3, <2>2, <2>3, <2>4 DEF Sound
  <1>4. size < Wrap /\ snd'[o].stat = "done" => rcv'[o].stat \in Over
    BY DEF Acks
  <1> QED BY <1>1, <1>3, <1>4 DEF Acks

-----------------------------------------------------------------------------
(* The sender's steps: Talk and Agreed.                                    *)

LEMMA OnDiskIs == TypeOK => OnDisk \in Nat
  BY DEF TypeOK, OnDisk

LEMMA Untouched ==
    ASSUME Shape, NEW o \in Offers, Queued, Fewer(o), UNCHANGED consts,
           OnDisk' \in Nat, OnDisk <= OnDisk',
           snd'[o] = snd[o], rcv'[o] = rcv[o], wire'[o] = wire[o]
    PROVE  /\ Places(o) => Places(o)'
           /\ Offered(o) => Offered(o)'
           /\ Asked(o) => Asked(o)'
           /\ Stream(o) => Stream(o)'
           /\ Acks(o) => Acks(o)'
  <1>1. Places(o) => Places(o)'
    BY PlacesKept, OnDiskIs DEF Shape
  <1>2. Offered(o) => Offered(o)'
    <2> SUFFICES ASSUME Offered(o) PROVE Offered(o)'
      OBVIOUS
    <2>1. Waiting(o)' <=> Waiting(o)
      BY DEF Waiting
    <2>2. Waiting(o)' => snd'[o].stat \notin Underway /\ wire'[o] = Blank
      BY <2>1, WaitingIs
    <2>3. snd'[o].stat \in {"none", "queued", "connecting"} => wire'[o].cells = <<>> /\ wire'[o].acks = <<>>
      BY DEF Offered
    <2> QED BY <2>1, <2>2, <2>3, OfferedKept
  <1>3. Asked(o) => Asked(o)'
    BY AskedKept
  <1>4. Stream(o) => Stream(o)'
    BY StreamKept
  <1>5. Acks(o) => Acks(o)'
    BY AcksKept
  <1> QED BY <1>1, <1>2, <1>3, <1>4, <1>5

\* the files and their writers, when nothing is opened or written
LEMMA FilesKept ==
    ASSUME UNCHANGED disk, spoilt \subseteq spoilt',
           \A p \in Offers : rcv'[p].stat \in Underway =>
              /\ rcv[p].stat \in Underway /\ rcv'[p].open = rcv[p].open /\ rcv'[p].pos = rcv[p].pos
              /\ rcv'[p].resumable = rcv[p].resumable /\ rcv'[p].destfile = rcv[p].destfile,
           \A p \in Offers : rcv'[p].stat = "queued" => rcv'[p] = rcv[p]
    PROVE  /\ Apart => Apart'
           /\ Alone => Alone'
           /\ \A p \in Offers : Whole(p) => Whole(p)'
  <1>1. Apart => Apart'
    BY DEF Apart
  <1>2. \A p \in Offers : Writer(p)' => Writer(p) /\ rcv'[p].destfile = rcv[p].destfile /\ Start(p)' = Start(p)
    BY DEF Writer, Start
  <1>3. Alone => Alone'
    BY <1>2 DEF Alone
  <1>4. \A p \in Offers : Whole(p) => Whole(p)'
    <2> SUFFICES ASSUME NEW p \in Offers, Whole(p), Writer(p)'
                 PROVE  disk'[rcv'[p].destfile] = Cells(0, Start(p))'
      BY DEF Whole
    <2>1. Cells(0, Start(p))' = Cells(0, Start(p))
      BY <1>2 DEF Cells
    <2> QED BY <1>2, <2>1 DEF Whole
  <1> QED BY <1>1, <1>3, <1>4

LEMMA SenderStep ==
    ASSUME IInv, NEW o \in Offers, NEW s \in SendRec, NEW w \in WireRec,
           snd' = [snd EXCEPT ![o] = s], wire' = [wire EXCEPT ![o] = w],
           UNCHANGED <<consts, rcv, disk>>, UNCHANGED toRecv, UNCHANGED spoilt,
           Queued, \A p \in Offers : Rest(toSend, toSend', p),
           snd[o].stat # "none", s.stat # "none", s.resumable \in {snd[o].resumable, 0},
           s.stat \in {"queued", "connecting"} =>
              /\ snd[o].stat \in {"queued", "connecting"} /\ s.pos = snd[o].pos /\ s.ack = snd[o].ack
              /\ w = wire[o],
           s.stat \in Live => snd[o].stat \in Live /\ s.resumable = snd[o].resumable,
           Waiting(o) => s.stat \notin Underway /\ w = Blank,
           o \notin spoilt => Stream(o)' /\ Acks(o)'
    PROVE  Talk' /\ Apart' /\ Alone' /\ Agreed'
  <1>0. UNCHANGED <<rcv, disk>> /\ UNCHANGED consts
    OBVIOUS
  <1>1. \A p \in Offers : Fewer(p)
    BY RestOfSame DEF Fewer, Queued
  <1>2. OnDisk' = OnDisk /\ OnDisk \in Nat
    BY <1>0, OnDiskIs DEF OnDisk, IInv, Shape
  <1>3. snd'[o] = s /\ wire'[o] = w /\ \A p \in Offers \ {o} : snd'[p] = snd[p] /\ wire'[p] = wire[p]
    BY Others DEF IInv
  <1>4. Places(o) /\ Offered(o) /\ Shape
    BY DEF IInv, Talk
  <1>5. Places(o)'
    BY <1>0, <1>1, <1>2, <1>3, <1>4, PlacesKept
  <1>6. Offered(o)'
    <2>1. s.stat \in {"none", "queued", "connecting"} => w.cells = <<>> /\ w.acks = <<>>
      BY <1>4 DEF Offered
    <2>2. Waiting(o)' <=> Waiting(o)
      BY <1>0 DEF Waiting
    <2> QED BY <1>0, <1>1, <1>3, <1>4, <2>1, <2>2, OfferedKept
  <1>7. o \notin spoilt => Asked(o)' /\ Stream(o)' /\ Acks(o)'
    <2> SUFFICES ASSUME o \notin spoilt PROVE Asked(o)'
      OBVIOUS
    <2>1. Asked(o)
      BY DEF IInv, Agreed
    <2> QED BY <1>0, <1>1, <1>3, <2>1, AskedKept
  <1>8. \A p \in Offers \ {o} :
           /\ Places(p)' /\ Offered(p)'
           /\ p \notin spoilt => Asked(p)' /\ Stream(p)' /\ Acks(p)'
    BY <1>0, <1>1, <1>2, <1>3, <1>4, Untouched DEF IInv, Talk, Agreed
  <1>9. Apart' /\ Alone' /\ \A p \in Offers : Whole(p) => Whole(p)'
    BY <1>0, FilesKept DEF IInv
  <1>10. Talk'
    BY <1>5, <1>6, <1>8 DEF Talk
  <1>11. Agreed'
    BY <1>7, <1>8, <1>9 DEF Agreed, IInv
  <1> QED BY <1>9, <1>10, <1>11

\* a step that sends no cells
LEMMA SenderStays ==
    ASSUME IInv, NEW o \in Offers, NEW s \in SendRec, NEW w \in WireRec,
           snd' = [snd EXCEPT ![o] = s], wire' = [wire EXCEPT ![o] = w],
           UNCHANGED <<consts, rcv, disk>>, UNCHANGED toRecv, UNCHANGED spoilt,
           Queued, \A p \in Offers : Rest(toSend, toSend', p),
           snd[o].stat # "none", s.stat # "none", s.resumable \in {snd[o].resumable, 0},
           s.stat \in {"queued", "connecting"} =>
              snd[o].stat \in {"queued", "connecting"} /\ s.ack = snd[o].ack /\ w = wire[o],
           s.stat \in Live =>
              /\ snd[o].stat \in Live /\ s.resumable = snd[o].resumable /\ s.pos = snd[o].pos,
           Waiting(o) => s.stat \notin Underway,
           w.cells = wire[o].cells, w.link = wire[o].link, w.acks # wire[o].acks => wire[o].acks # <<>>,
           \A i \in 1..Len(w.acks) : \E j \in 1..Len(wire[o].acks) : w.acks[i] = wire[o].acks[j],
           o \notin spoilt /\ size < Wrap /\ s.stat \in Live =>
              /\ s.ackoffset = snd[o].ackoffset
              /\ s.ack = snd[o].ack \/ \E i \in 1..Len(wire[o].acks) : s.ack = wire[o].acks[i],
           o \notin spoilt /\ size < Wrap /\ s.stat = "done" => snd[o].stat = "done" \/ rcv[o].stat \in Over
    PROVE  Talk' /\ Apart' /\ Alone' /\ Agreed'
  <1>0. UNCHANGED <<rcv, disk>> /\ UNCHANGED consts
    OBVIOUS
  <1>3. snd'[o] = s /\ wire'[o] = w
    BY Others DEF IInv
  <1>4. Offered(o)
    BY DEF IInv, Talk
  <1>5. Waiting(o) => s.stat \notin Underway /\ w = Blank
    <2> SUFFICES ASSUME Waiting(o) PROVE w = Blank
      OBVIOUS
    <2>1. wire[o] = Blank
      BY <1>4, WaitingIs
    <2>2. w.acks = <<>> /\ w.cells = <<>> /\ w.link = "none"
      BY <2>1 DEF Blank
    <2> QED BY <2>2 DEF WireRec, Blank
  <1>6. s.stat \in {"queued", "connecting"} =>
              /\ snd[o].stat \in {"queued", "connecting"} /\ s.pos = snd[o].pos /\ s.ack = snd[o].ack
              /\ w = wire[o]
    BY DEF Live, Underway
  <1>7. o \notin spoilt => Stream(o)'
    <2> SUFFICES ASSUME o \notin spoilt PROVE Stream(o)'
      OBVIOUS
    <2>1. Stream(o)
      BY DEF IInv, Agreed
    <2> QED BY <1>0, <1>3, <2>1, StreamKept
  <1>8. o \notin spoilt => Acks(o)'
    <2> SUFFICES ASSUME o \notin spoilt PROVE Acks(o)'
      OBVIOUS
    <2>1. Acks(o)
      BY DEF IInv, Agreed
    <2> QED BY <1>0, <1>3, <2>1, AcksKept
  <1> QED BY <1>5, <1>6, <1>7, <1>8, SenderStep

\* the connection after a step that puts n cells on their way
Streamed(o, w, pos, n) == IF PeerIsGone(o, rcv) THEN w ELSE [w EXCEPT !.cells = @ \o Cells(pos, n)]

\* nothing new is acknowledged on the connection; x holds what is, and reads it as before
AcksLeft(o, w) == \A i \in 1..Len(w.acks) : \E j \in 1..Len(wire[o].acks) : w.acks[i] = wire[o].acks[j]
AckKnown(o, x) ==
    o \notin spoilt /\ size < Wrap =>
       /\ x.ackoffset = snd[o].ackoffset
       /\ x.ack = snd[o].ack \/ \E i \in 1..Len(wire[o].acks) : x.ack = wire[o].acks[i]

\* a step that gives d to dcc_send_data; x is what becomes of the record
LEMMA SenderSends ==
    ASSUME IInv, NEW o \in Offers, NEW d \in SendRec, NEW w \in WireRec, NEW r \in Sent(d), NEW x \in SendRec,
           d.stat = "active", d.pos = snd[o].pos, d.resumable = snd[o].resumable,
           d.wiotag => d.pos < size \/ prefs.fast,
           snd[o].stat \in Live, ~Waiting(o), w.cells = wire[o].cells, wire[o].link = "cut" => w.link = "cut",
           AcksLeft(o, w), AckKnown(o, x),
           x.stat = r.dcc.stat, x.pos = r.dcc.pos, x.resumable = r.dcc.resumable,
           snd' = [snd EXCEPT ![o] = x],
           wire' = [wire EXCEPT ![o] = Streamed(o, w, d.pos, r.cells)],
           UNCHANGED <<consts, rcv, disk>>, UNCHANGED irc, UNCHANGED spoilt
    PROVE  Talk' /\ Apart' /\ Alone' /\ Agreed'
  <1>0. UNCHANGED <<rcv, disk>> /\ UNCHANGED consts /\ UNCHANGED toRecv /\ UNCHANGED toSend /\ Shape /\ TypeOK
    BY DEF irc, IInv, Shape
  <1>1. d.pos <= size /\ d.pos \in Nat
    BY <1>0, Fields
  <1>2. /\ r.cells \in Nat /\ x.pos = snd[o].pos + r.cells /\ x.pos <= size
        /\ x.resumable = snd[o].resumable /\ x.stat \in {"active", "failed"}
    BY <1>0, <1>1, SentIs
  <1> DEFINE v == Streamed(o, w, d.pos, r.cells)
  <1>3. d.pos + r.cells <= size
    BY <1>2
  <1>4. [w EXCEPT !.cells = @ \o Cells(d.pos, r.cells)] \in WireRec
    BY <1>0, <1>1, <1>2, <1>3, Joined
  <1>5. v \in WireRec /\ v.acks = w.acks /\ v.link = w.link /\ wire' = [wire EXCEPT ![o] = v]
    BY <1>4 DEF WireRec, Streamed
  <1>6. v.cells = IF PeerIsGone(o, rcv) THEN wire[o].cells ELSE wire[o].cells \o Cells(snd[o].pos, r.cells)
    BY <1>4 DEF WireRec, Streamed
  <1> HIDE DEF v
  <1>7. snd'[o] = x /\ wire'[o] = v
    BY <1>0, <1>5, Others
  <1>8. o \notin spoilt => Stream(o)'
    <2> SUFFICES ASSUME o \notin spoilt PROVE Stream(o)'
      OBVIOUS
    <2>1. Stream(o)
      BY DEF IInv, Agreed
    <2>2. CASE PeerIsGone(o, rcv)
      <3>1. rcv[o].stat \in Underway => v.link = "cut"
        BY <1>5, <2>2 DEF PeerIsGone
      <3> QED BY <1>0, <1>5, <1>6, <1>7, <2>1, <2>2, <3>1, StreamKept
    <2>3. CASE ~PeerIsGone(o, rcv)
      BY <1>0, <1>2, <1>6, <1>7, <2>1, <2>3, StreamSent
    <2> QED BY <2>2, <2>3
  <1>9. o \notin spoilt => Acks(o)'
    <2> SUFFICES ASSUME o \notin spoilt PROVE Acks(o)'
      OBVIOUS
    <2>1. Acks(o)
      BY DEF IInv, Agreed
    <2> QED BY <1>0, <1>2, <1>5, <1>7, <2>1, AcksKept DEF AcksLeft, AckKnown
  <1>10. Queued /\ \A p \in Offers : Rest(toSend, toSend', p)
    BY <1>0, Fields, RestOfSame DEF Queued
  <1>11. snd[o].stat # "none" /\ x.stat # "none" /\ x.stat \notin {"queued", "connecting"}
    BY <1>2 DEF Live, Underway
  <1> QED BY <1>0, <1>2, <1>5, <1>8, <1>9, <1>10, <1>11, SenderStep

LEMMA QueuesSame ==
    ASSUME IInv, UNCHANGED irc
    PROVE  Queued /\ UNCHANGED toRecv /\ \A p \in Offers : Rest(toSend, toSend', p) /\ Fewer(p)
  <1>1. UNCHANGED toRecv /\ UNCHANGED toSend /\ toSend \in Seq(Ctcp) /\ toRecv \in Seq(Ctcp)
    BY DEF irc, IInv, Shape, TypeOK
  <1> QED BY <1>1, RestOfSame DEF Queued, Fewer

LEMMA BeginSendKeeps ==
    ASSUME IInv, NEW o \in Offers, BeginSend(o), ~Waiting(o), snd[o].stat \in Live,
           UNCHANGED <<consts, rcv, disk, irc, inputs, spoilt>>
    PROVE  Talk' /\ Apart' /\ Alone' /\ Agreed'
  <1> DEFINE d == [snd[o] EXCEPT !.stat = "active", !.wiotag = prefs.fast]
             w == [wire[o] EXCEPT !.link = IF @ = "none" THEN "up" ELSE @]
  <1>0. Shape /\ TypeOK
    BY DEF IInv, Shape
  <1>1. Sending(o, d, w)
    BY DEF BeginSend
  <1>2. prefs.fast \in BOOLEAN /\ "active" \in Stats
    BY <1>0, DccAssumption DEF TypeOK, Stats, Underway
  <1>3. d \in SendRec /\ d.stat = "active" /\ d.pos = snd[o].pos /\ d.wiotag = prefs.fast /\ d.ack = snd[o].ack
        /\ d.resumable = snd[o].resumable /\ d.ackoffset = snd[o].ackoffset
    BY <1>0, <1>2, Fields DEF SendRec
  <1>4. w \in WireRec /\ w.cells = wire[o].cells /\ w.acks = wire[o].acks /\ (wire[o].link = "cut" => w.link = "cut")
    BY <1>0, Fields DEF WireRec
  <1>5. UNCHANGED <<consts, rcv, disk>> /\ UNCHANGED irc /\ UNCHANGED spoilt
    BY DEF irc
  <1> HIDE DEF d, w
  <1>6. PICK r \in Sent(d) :
           /\ snd' = [snd EXCEPT ![o] = r.dcc]
           /\ wire' = [wire EXCEPT ![o] = Streamed(o, w, d.pos, r.cells)]
    BY <1>1 DEF Sending, Streamed
  <1>7. d.pos <= size
    BY <1>0, <1>3, Fields
  <1>8. r.dcc \in SendRec /\ r.dcc.ack = d.ack /\ r.dcc.ackoffset = d.ackoffset
    BY <1>0, <1>3, <1>7, SentIs
  <1>9. AcksLeft(o, w) /\ AckKnown(o, r.dcc)
    BY <1>3, <1>4, <1>8 DEF AcksLeft, AckKnown
  <1> QED BY <1>3, <1>4, <1>5, <1>6, <1>8, <1>9, SenderSends

LEMMA dcc_acceptKeeps ==
    ASSUME IInv, NEW o \in Offers, dcc_accept(o) PROVE Talk' /\ Apart' /\ Alone' /\ Agreed'
  <1>1. snd[o].stat \in Live
    BY DEF dcc_accept, Live
  <1>2. ~Waiting(o)
    BY WaitingIs DEF dcc_accept, IInv, Talk, Blank
  <1> QED BY <1>1, <1>2, BeginSendKeeps DEF dcc_accept

LEMMA SendConnectsKeeps ==
    ASSUME IInv, NEW o \in Offers, SendConnects(o) PROVE Talk' /\ Apart' /\ Alone' /\ Agreed'
  <1>0. Shape
    BY DEF IInv
  <1>1. snd[o].stat = "connecting"
    BY DEF SendConnects
  <1>2. ~Waiting(o) /\ snd[o].stat \in Live
    BY <1>1, WaitingIs DEF IInv, Talk, Underway, Live
  <1>3. CASE BeginSend(o)
    BY <1>2, <1>3, BeginSendKeeps DEF SendConnects
  <1>4. CASE snd' = [snd EXCEPT ![o].stat = "failed"] /\ UNCHANGED wire
    <2> DEFINE s == [snd[o] EXCEPT !.stat = "failed"]
    <2>1. s \in SendRec /\ s.stat = "failed" /\ s.resumable = snd[o].resumable
      BY <1>0, Fields DEF SendRec, Stats, Finished
    <2>2. snd' = [snd EXCEPT ![o] = s]
      BY <1>4
    <2>3. UNCHANGED <<consts, rcv, disk>> /\ UNCHANGED irc /\ UNCHANGED spoilt
      BY DEF SendConnects
    <2> HIDE DEF s
    <2>4. s.stat \notin Live /\ s.stat \notin Underway
      BY <2>1 DEF Live, Underway
    <2>5. Queued /\ UNCHANGED toRecv /\ \A p \in Offers : Rest(toSend, toSend', p)
      BY <2>3, QueuesSame
    <2>6. wire[o] \in WireRec /\ wire' = [wire EXCEPT ![o] = wire[o]]
      BY <1>0, <1>4, Fields, Same
    <2>7. snd[o].stat # "none" /\ s.stat # "none" /\ s.stat \notin {"queued", "connecting"} /\ s.stat # "done"
      BY <1>1, <2>1
    <2>8. \A i \in 1..Len(wire[o].acks) : \E j \in 1..Len(wire[o].acks) : wire[o].acks[i] = wire[o].acks[j]
      OBVIOUS
    <2> QED BY <2>1, <2>2, <2>3, <2>4, <2>5, <2>6, <2>7, <2>8, SenderStays
  <1> QED BY <1>3, <1>4 DEF SendConnects

LEMMA WritableKeeps ==
    ASSUME IInv, NEW o \in Offers, Writable(o) PROVE Talk' /\ Apart' /\ Alone' /\ Agreed'
  <1>0. Shape /\ TypeOK
    BY DEF IInv, Shape
  <1>1. Sending(o, snd[o], wire[o]) /\ snd[o].stat = "active" /\ snd[o].wiotag
        /\ UNCHANGED <<consts, rcv, disk>> /\ UNCHANGED irc /\ UNCHANGED spoilt
    BY DEF Writable
  <1>2. ~Waiting(o) /\ snd[o].stat \in Live
    BY <1>1, WaitingIs DEF IInv, Talk, Underway, Live
  <1>3. snd[o].pos < size /\ snd[o].pos <= size /\ snd[o] \in SendRec /\ wire[o] \in WireRec
    BY <1>0, <1>1, Fields DEF Shape, Sends
  <1>4. PICK r \in Sent(snd[o]) :
           /\ snd' = [snd EXCEPT ![o] = r.dcc]
           /\ wire' = [wire EXCEPT ![o] = Streamed(o, wire[o], snd[o].pos, r.cells)]
    BY <1>1 DEF Sending, Streamed
  <1>5. r.dcc \in SendRec /\ r.dcc.ack = snd[o].ack /\ r.dcc.ackoffset = snd[o].ackoffset
    BY <1>0, <1>1, <1>3, SentIs
  <1>6. AcksLeft(o, wire[o]) /\ AckKnown(o, r.dcc)
    BY <1>5 DEF AcksLeft, AckKnown
  <1>7. AcksLeft(o, wire[o]) /\ AckKnown(o, r.dcc)
    BY <1>3, <1>6 DEF AcksLeft, AckKnown
  <1> QED BY <1>1, <1>2, <1>3, <1>4, <1>5, <1>6, <1>7, SenderSends

LEMMA SendUnthrottledKeeps ==
    ASSUME IInv, NEW o \in Offers, SendUnthrottled(o) PROVE Talk' /\ Apart' /\ Alone' /\ Agreed'
  <1> DEFINE d == [snd[o] EXCEPT !.throttled = FALSE]
  <1>0. Shape /\ TypeOK
    BY DEF IInv, Shape
  <1>1. Sending(o, d, wire[o]) /\ snd[o].stat = "active"
        /\ UNCHANGED <<consts, rcv, disk>> /\ UNCHANGED irc /\ UNCHANGED spoilt
    BY DEF SendUnthrottled
  <1>2. ~Waiting(o) /\ snd[o].stat \in Live
    BY <1>1, WaitingIs DEF IInv, Talk, Underway, Live
  <1>3. d \in SendRec /\ d.stat = "active" /\ d.pos = snd[o].pos /\ d.wiotag = snd[o].wiotag /\ d.ack = snd[o].ack
        /\ d.resumable = snd[o].resumable /\ d.ackoffset = snd[o].ackoffset
    BY <1>0, <1>1, Fields DEF SendRec
  <1> HIDE DEF d
  <1>4. d.pos <= size /\ (d.wiotag => d.pos < size) /\ wire[o] \in WireRec
    BY <1>0, <1>1, <1>3, Fields DEF Shape, Sends
  <1>5. PICK r \in Sent(d) :
           /\ snd' = [snd EXCEPT ![o] = r.dcc]
           /\ wire' = [wire EXCEPT ![o] = Streamed(o, wire[o], d.pos, r.cells)]
    BY <1>1 DEF Sending, Streamed
  <1>6. r.dcc \in SendRec /\ r.dcc.ack = snd[o].ack /\ r.dcc.ackoffset = snd[o].ackoffset
    BY <1>0, <1>3, <1>4, SentIs
  <1>7. AcksLeft(o, wire[o]) /\ AckKnown(o, r.dcc)
    BY <1>3, <1>6 DEF AcksLeft, AckKnown
  <1> QED BY <1>1, <1>2, <1>3, <1>4, <1>5, <1>6, <1>7, SenderSends

LEMMA AckTail ==
    ASSUME Shape, NEW o \in Offers, wire[o].acks # <<>>
    PROVE  /\ \A i \in 1..Len(Tail(wire[o].acks)) : \E j \in 1..Len(wire[o].acks) : Tail(wire[o].acks)[i] = wire[o].acks[j]
           /\ 1 \in 1..Len(wire[o].acks) /\ Head(wire[o].acks) = wire[o].acks[1]
  <1>1. wire[o].acks \in Seq(0..(Wrap - 1))
    BY Fields, Wires
  <1>2. Len(Tail(wire[o].acks)) = Len(wire[o].acks) - 1 /\ Len(wire[o].acks) \in Nat \ {0}
        /\ \A i \in 1..Len(Tail(wire[o].acks)) : Tail(wire[o].acks)[i] = wire[o].acks[i + 1]
    BY <1>1, HeadTailProperties, EmptySeq
  <1>3. Head(wire[o].acks) = wire[o].acks[1]
    OBVIOUS
  <1>4. \A i \in 1..Len(Tail(wire[o].acks)) : i + 1 \in 1..Len(wire[o].acks)
    BY <1>2
  <1> QED BY <1>2, <1>3, <1>4

\* an acknowledgement of a position, if a position is what it can hold
LEMMA AckSound ==
    ASSUME IInv, NEW o \in Offers, o \notin spoilt, size < Wrap, snd[o].stat = "active", wire[o].acks # <<>>
    PROVE  /\ ~AckRead(o).ackoffset /\ ~snd[o].ackoffset
           /\ AckRead(o).ack = wire[o].acks[1] /\ Sound(o, wire[o].acks[1]) /\ AckRead(o).ack \in Nat
           /\ 1 \in 1..Len(wire[o].acks)
  <1>0. Shape /\ Acks(o) /\ snd[o].stat \in Live
    BY DEF IInv, Agreed, Live, Underway
  <1>1. 1 \in 1..Len(wire[o].acks) /\ Head(wire[o].acks) = wire[o].acks[1]
    BY <1>0, AckTail
  <1>2. wire[o].acks[1] > snd[o].resumable /\ Sound(o, wire[o].acks[1]) /\ ~snd[o].ackoffset
    BY <1>0, <1>1 DEF Acks
  <1>3. Head(wire[o].acks) \in 0..(Wrap - 1) /\ snd[o].resumable \in Nat /\ Wrap \in Nat
    BY <1>0, AckReadIs, Fields
  <1>4. ~(Head(wire[o].acks) < snd[o].resumable)
    BY <1>1, <1>2, <1>3
  <1>5. ~AckRead(o).ackoffset
    BY <1>0, <1>2, <1>4, AckReadIs
  <1>6. AckRead(o).ack = Head(wire[o].acks)
    BY <1>0, <1>5, AckReadIs
  <1> QED BY <1>1, <1>2, <1>3, <1>5, <1>6

LEMMA ReadAckKeeps ==
    ASSUME IInv, NEW o \in Offers, ReadAck(o) PROVE Talk' /\ Apart' /\ Alone' /\ Agreed'
  <1>0. Shape /\ TypeOK /\ size \in Nat /\ Wrap \in Nat \ {0}
    BY Fields DEF IInv, Shape
  <1>1. wire[o].acks # <<>> /\ snd[o].stat = "active" /\ UNCHANGED <<consts, rcv, disk>> /\ UNCHANGED irc
        /\ UNCHANGED spoilt
    BY DEF ReadAck
  <1>2. ~Waiting(o) /\ snd[o].stat \in Live /\ snd[o].stat # "none"
    BY <1>1, WaitingIs DEF IInv, Talk, Underway, Live
  <1> DEFINE d == AckRead(o)
             w == Unread(o)
  <1>3. d \in SendRec /\ d.stat = "active" /\ d.pos = snd[o].pos /\ d.wiotag = snd[o].wiotag
        /\ d.resumable = snd[o].resumable /\ w \in WireRec
    BY <1>0, <1>1, AckReadIs
  <1>4. d.pos <= size /\ (d.wiotag => d.pos < size) /\ d.pos \in Nat
    BY <1>0, <1>1, <1>3, Fields DEF Shape, Sends
  <1>5. w.cells = wire[o].cells /\ w.link = wire[o].link /\ w.acks = Tail(wire[o].acks)
    BY <1>0, Fields DEF Unread, WireRec
  <1>6. \A i \in 1..Len(w.acks) : \E j \in 1..Len(wire[o].acks) : w.acks[i] = wire[o].acks[j]
    BY <1>0, <1>1, <1>5, AckTail
  <1>7. o \notin spoilt /\ size < Wrap =>
           /\ d.ackoffset = snd[o].ackoffset /\ d.ack = wire[o].acks[1] /\ Sound(o, d.ack) /\ d.ack \in Nat
           /\ 1 \in 1..Len(wire[o].acks)
    BY <1>0, <1>1, <1>3, AckSound, Fields DEF SendRec
  <1>8. Queued /\ UNCHANGED toRecv /\ \A p \in Offers : Rest(toSend, toSend', p)
    BY <1>1, QueuesSame
  <1>9. AckDone(o) => d.pos >= size /\ d.ack >= size % Wrap
    BY DEF AckDone
  <1> HIDE DEF d, w
  <1>10. CASE /\ AckDone(o)
              /\ snd' = [snd EXCEPT ![o] = [Shut(d, "done") EXCEPT !.ack = size]]
              /\ wire' = [wire EXCEPT ![o] = [w EXCEPT !.acks = <<>>]]
    <2> DEFINE s == [Shut(d, "done") EXCEPT !.ack = size]
               v == [w EXCEPT !.acks = <<>>]
    <2>1. s \in SendRec /\ s.stat = "done" /\ s.resumable = snd[o].resumable
      <3>1. "done" \in Stats
        BY DEF Stats, Finished
      <3> QED BY <1>0, <1>3, <3>1, Shutting DEF SendRec
    <2>2. v \in WireRec /\ v.cells = wire[o].cells /\ v.link = wire[o].link /\ v.acks = <<>>
      BY <1>3, <1>5, EmptySeq DEF WireRec
    <2>3. snd' = [snd EXCEPT ![o] = s] /\ wire' = [wire EXCEPT ![o] = v]
      BY <1>10
    <2> HIDE DEF s, v
    <2>4. o \notin spoilt /\ size < Wrap => rcv[o].stat \in Over
      <3> SUFFICES ASSUME o \notin spoilt, size < Wrap PROVE rcv[o].stat \in Over
        OBVIOUS
      <3>1. size % Wrap = size
        BY <1>0
      <3>2. d.ack = size
        BY <1>0, <1>7, <1>9, <1>10, <3>1 DEF Sound
      <3> QED BY <1>7, <3>2 DEF Sound
    <2>5. s.stat \notin Live /\ s.stat \notin Underway /\ s.stat \notin {"none", "queued", "connecting"}
      BY <2>1 DEF Live, Underway
    <2>6. \A i \in 1..Len(v.acks) : \E j \in 1..Len(wire[o].acks) : v.acks[i] = wire[o].acks[j]
      BY <2>2
    <2>7. s.resumable \in {snd[o].resumable, 0} /\ (v.acks # wire[o].acks => wire[o].acks # <<>>)
      BY <1>1, <2>1
    <2>8. s.stat \in {"queued", "connecting"} =>
              snd[o].stat \in {"queued", "connecting"} /\ s.ack = snd[o].ack /\ v = wire[o]
      BY <2>5
    <2>9. s.stat \in Live =>
              /\ snd[o].stat \in Live /\ s.resumable = snd[o].resumable /\ s.pos = snd[o].pos
      BY <2>5
    <2>10. o \notin spoilt /\ size < Wrap /\ s.stat \in Live =>
              /\ s.ackoffset = snd[o].ackoffset
              /\ s.ack = snd[o].ack \/ \E i \in 1..Len(wire[o].acks) : s.ack = wire[o].acks[i]
      BY <2>5
    <2>11. o \notin spoilt /\ size < Wrap /\ s.stat = "done" => snd[o].stat = "done" \/ rcv[o].stat \in Over
      BY <2>4
    <2>12. Waiting(o) => s.stat \notin Underway
      BY <2>5
    <2>13. s.stat # "none" /\ s \in SendRec
      BY <2>1
    <2>14. v \in WireRec /\ v.cells = wire[o].cells /\ v.link = wire[o].link
      BY <2>2
    <2>15. UNCHANGED <<consts, rcv, disk>> /\ UNCHANGED toRecv /\ UNCHANGED spoilt /\ Queued
           /\ (\A p \in Offers : Rest(toSend, toSend', p)) /\ snd[o].stat # "none"
      BY <1>1, <1>2, <1>8
    <2> QED BY <2>3, <2>6, <2>7, <2>8, <2>9, <2>10, <2>11, <2>12, <2>13, <2>14, <2>15, SenderStays
  <1>11. ASSUME NEW r \in Sent(d),
                snd' = [snd EXCEPT ![o] = High(r.dcc, d)],
                wire' = [wire EXCEPT ![o] = IF PeerIsGone(o, rcv) THEN w
                                            ELSE [w EXCEPT !.cells = @ \o Cells(d.pos, r.cells)]]
        PROVE  Talk' /\ Apart' /\ Alone' /\ Agreed'
    <2>1. /\ r.dcc \in SendRec /\ r.dcc.pos = d.pos + r.cells /\ d.pos + r.cells <= size /\ r.cells \in Nat
          /\ r.dcc.ack = d.ack /\ r.dcc.ackoffset = d.ackoffset
      BY <1>0, <1>3, <1>4, SentIs
    <2> DEFINE x == High(r.dcc, d)
    <2>2. /\ x \in SendRec /\ x.stat = r.dcc.stat /\ x.pos = r.dcc.pos /\ x.resumable = r.dcc.resumable
          /\ x.ackoffset = d.ackoffset /\ snd' = [snd EXCEPT ![o] = x]
          /\ (r.dcc.pos < Wrap /\ d.ack < Wrap => x.ack = d.ack)
      BY <1>3, <1>11, <2>1, HighKeeps
    <2> HIDE DEF x
    <2>3. o \notin spoilt /\ size < Wrap =>
              /\ x.ackoffset = snd[o].ackoffset
              /\ x.ack = snd[o].ack \/ \E i \in 1..Len(wire[o].acks) : x.ack = wire[o].acks[i]
      <3> SUFFICES ASSUME o \notin spoilt, size < Wrap
                   PROVE  x.ackoffset = snd[o].ackoffset /\ x.ack = wire[o].acks[1] /\ 1 \in 1..Len(wire[o].acks)
        OBVIOUS
      <3>1. r.dcc.pos < Wrap /\ d.ack < Wrap
        BY <1>0, <1>4, <1>7, <2>1 DEF Sound
      <3> QED BY <1>7, <2>2, <3>1
    <2>4. x.stat = r.dcc.stat /\ x.pos = r.dcc.pos /\ x.resumable = r.dcc.resumable /\ x \in SendRec
          /\ snd' = [snd EXCEPT ![o] = x]
      BY <2>2
    <2>5. d \in SendRec /\ w \in WireRec /\ d.stat = "active" /\ d.pos = snd[o].pos /\ d.resumable = snd[o].resumable
          /\ (d.wiotag => d.pos < size \/ prefs.fast) /\ w.cells = wire[o].cells
          /\ (wire[o].link = "cut" => w.link = "cut")
      BY <1>3, <1>4, <1>5
    <2>6. UNCHANGED <<consts, rcv, disk>> /\ UNCHANGED irc /\ UNCHANGED spoilt /\ snd[o].stat \in Live /\ ~Waiting(o)
      BY <1>1, <1>2
    <2>7. wire' = [wire EXCEPT ![o] = Streamed(o, w, d.pos, r.cells)]
      BY <1>11 DEF Streamed
    <2>8. AcksLeft(o, w) /\ AckKnown(o, x)
      BY <1>6, <2>3 DEF AcksLeft, AckKnown
    <2> QED BY <2>4, <2>5, <2>6, <2>7, <2>8, SenderSends
  <1>12. CASE snd' = [snd EXCEPT ![o] = High(d, d)] /\ wire' = [wire EXCEPT ![o] = w]
    <2> DEFINE x == High(d, d)
    <2>2. /\ x \in SendRec /\ x.stat = "active" /\ x.pos = snd[o].pos /\ x.resumable = snd[o].resumable
          /\ x.ackoffset = d.ackoffset /\ snd' = [snd EXCEPT ![o] = x]
          /\ (d.pos < Wrap /\ d.ack < Wrap => x.ack = d.ack)
      BY <1>3, <1>12, HighKeeps
    <2> HIDE DEF x
    <2>3. o \notin spoilt /\ size < Wrap =>
              /\ x.ackoffset = snd[o].ackoffset
              /\ x.ack = snd[o].ack \/ \E i \in 1..Len(wire[o].acks) : x.ack = wire[o].acks[i]
      <3> SUFFICES ASSUME o \notin spoilt, size < Wrap
                   PROVE  x.ackoffset = snd[o].ackoffset /\ x.ack = wire[o].acks[1] /\ 1 \in 1..Len(wire[o].acks)
        OBVIOUS
      <3>1. d.pos < Wrap /\ d.ack < Wrap
        BY <1>0, <1>4, <1>7 DEF Sound
      <3> QED BY <1>7, <2>2, <3>1
    <2>4. x.stat \notin {"none", "queued", "connecting", "done"}
      BY <2>2
    <2> QED BY <1>1, <1>2, <1>3, <1>5, <1>6, <1>8, <1>12, <2>2, <2>3, <2>4, SenderStays
  <1> QED BY <1>0, <1>10, <1>11, <1>12, ReadAckCases DEF d, w

\* a step that ends the sender's part without a handshake
LEMMA SenderEnds ==
    ASSUME IInv, NEW o \in Offers, NEW s \in SendRec, NEW w \in WireRec, s.stat \in {"failed", "aborted", "gone"},
           s.resumable \in {snd[o].resumable, 0}, snd[o].stat # "none",
           w = wire[o] \/ w = [wire[o] EXCEPT !.acks = <<>>],
           snd' = [snd EXCEPT ![o] = s], wire' = [wire EXCEPT ![o] = w],
           UNCHANGED <<consts, rcv, disk>>, UNCHANGED irc, UNCHANGED spoilt
    PROVE  Talk' /\ Apart' /\ Alone' /\ Agreed'
  <1>1. s.stat \notin {"none", "queued", "connecting", "done"} /\ s.stat \notin Live /\ s.stat \notin Underway
    BY DEF Live, Underway
  <1>2. Queued /\ UNCHANGED toRecv /\ \A p \in Offers : Rest(toSend, toSend', p)
    BY QueuesSame
  <1>3. wire[o] \in WireRec
    BY Fields DEF IInv
  <1>4. w.cells = wire[o].cells /\ w.link = wire[o].link /\ w.acks \in {wire[o].acks, <<>>}
    BY <1>3 DEF WireRec
  <1>5. \A i \in 1..Len(w.acks) : \E j \in 1..Len(wire[o].acks) : w.acks[i] = wire[o].acks[j]
    BY <1>4
  <1>6. w.acks # wire[o].acks => wire[o].acks # <<>>
    BY <1>4
  <1> QED BY <1>1, <1>2, <1>4, <1>5, <1>6, SenderStays

LEMMA SendEOFKeeps ==
    ASSUME IInv, NEW o \in Offers, SendEOF(o) PROVE Talk' /\ Apart' /\ Alone' /\ Agreed'
  <1> DEFINE s == Shut(snd[o], "failed")
  <1>0. Shape /\ "failed" \in Stats
    BY DEF IInv, Stats, Finished
  <1>1. s \in SendRec /\ s.stat = "failed" /\ s.resumable = snd[o].resumable
    BY <1>0, Shutting, Fields
  <1>2. snd' = [snd EXCEPT ![o] = s] /\ UNCHANGED <<consts, rcv, disk>> /\ UNCHANGED irc /\ UNCHANGED wire
        /\ UNCHANGED spoilt /\ snd[o].stat # "none"
    BY DEF SendEOF
  <1> HIDE DEF s
  <1>3. wire[o] \in WireRec /\ wire' = [wire EXCEPT ![o] = wire[o]]
    BY <1>0, <1>2, Fields, Same
  <1> QED BY <1>1, <1>2, <1>3, SenderEnds

LEMMA SendAbortedKeeps ==
    ASSUME IInv, NEW o \in Offers, SendAborted(o) PROVE Talk' /\ Apart' /\ Alone' /\ Agreed'
  <1> DEFINE s == Shut(snd[o], "aborted")
             w == [wire[o] EXCEPT !.acks = <<>>]
  <1>0. Shape /\ "aborted" \in Stats
    BY DEF IInv, Stats, Finished
  <1>1. s \in SendRec /\ s.stat = "aborted" /\ s.resumable = snd[o].resumable
    BY <1>0, Shutting, Fields
  <1>2. snd' = [snd EXCEPT ![o] = s] /\ wire' = [wire EXCEPT ![o] = w]
        /\ UNCHANGED <<consts, rcv, disk>> /\ UNCHANGED irc /\ UNCHANGED spoilt
    BY DEF SendAborted
  <1>3. snd[o].stat # "none"
    BY DEF SendAborted, Underway
  <1>4. w \in WireRec
    BY <1>0, Fields, Wires, EmptySeq
  <1>5. w = [wire[o] EXCEPT !.acks = <<>>]
    OBVIOUS
  <1> HIDE DEF s, w
  <1> QED BY <1>1, <1>2, <1>3, <1>4, <1>5, SenderEnds

LEMMA SendForgottenKeeps ==
    ASSUME IInv, NEW o \in Offers, SendForgotten(o) PROVE Talk' /\ Apart' /\ Alone' /\ Agreed'
  <1> DEFINE s == NewSend("gone", FALSE)
  <1>0. Shape /\ "gone" \in Stats
    BY DEF IInv, Stats
  <1>1. s \in SendRec
    BY <1>0, NewRecords
  <1>2. s.stat = "gone" /\ s.resumable = 0
    BY DEF NewSend
  <1>3. snd' = [snd EXCEPT ![o] = s] /\ UNCHANGED <<consts, rcv, disk>> /\ UNCHANGED irc /\ UNCHANGED wire
        /\ UNCHANGED spoilt
    BY DEF SendForgotten
  <1>4. snd[o].stat # "none"
    BY DEF SendForgotten, Finished
  <1> HIDE DEF s
  <1>5. wire[o] \in WireRec /\ wire' = [wire EXCEPT ![o] = wire[o]]
    BY <1>0, <1>3, Fields, Same
  <1> QED BY <1>1, <1>2, <1>3, <1>4, <1>5, SenderEnds

LEMMA SendThrottledKeeps ==
    ASSUME IInv, NEW o \in Offers, SendThrottled(o) PROVE Talk' /\ Apart' /\ Alone' /\ Agreed'
  <1> DEFINE s == [snd[o] EXCEPT !.throttled = TRUE]
  <1>0. Shape
    BY DEF IInv
  <1>1. snd' = [snd EXCEPT ![o] = s] /\ UNCHANGED <<consts, rcv, disk>> /\ UNCHANGED irc /\ UNCHANGED wire
        /\ UNCHANGED spoilt /\ snd[o].stat = "active"
    BY DEF SendThrottled
  <1>2. s \in SendRec /\ s.pos = snd[o].pos /\ s.stat = "active" /\ s.ack = snd[o].ack /\ s.resumable = snd[o].resumable
        /\ s.ackoffset = snd[o].ackoffset
    BY <1>0, <1>1, Fields DEF SendRec
  <1> HIDE DEF s
  <1>3. ~Waiting(o) /\ snd[o].stat \in Live /\ snd[o].stat # "none"
    BY <1>1, WaitingIs DEF IInv, Talk, Underway, Live
  <1>4. Queued /\ UNCHANGED toRecv /\ \A p \in Offers : Rest(toSend, toSend', p)
    BY <1>1, QueuesSame
  <1>5. wire[o] \in WireRec /\ wire' = [wire EXCEPT ![o] = wire[o]]
    BY <1>0, <1>1, Fields, Same
  <1>6. s.stat \notin {"none", "queued", "connecting", "done"}
    BY <1>2
  <1>7. \A i \in 1..Len(wire[o].acks) : \E j \in 1..Len(wire[o].acks) : wire[o].acks[i] = wire[o].acks[j]
    OBVIOUS
  <1> QED BY <1>1, <1>2, <1>3, <1>4, <1>5, <1>6, <1>7, SenderStays

LEMMA HandleSendReplyKeeps ==
    ASSUME IInv, HandleSendReply PROVE Talk' /\ Apart' /\ Alone' /\ Agreed'
  <1> DEFINE o == Head(toSend).offer
             s == IF snd[o].stat = "queued" THEN [snd[o] EXCEPT !.stat = "connecting"] ELSE snd[o]
  <1>0. Shape /\ toSend \in Seq(Ctcp) /\ toRecv \in Seq(Ctcp)
    BY DEF IInv, Shape, TypeOK
  <1>1. Arrives(toSend, "SEND") /\ toSend' = Tail(toSend) /\ UNCHANGED <<consts, rcv, disk>> /\ UNCHANGED toRecv
        /\ UNCHANGED wire /\ UNCHANGED spoilt
    BY DEF HandleSendReply
  <1>2. Head(toSend) \in Ctcp /\ toSend' \in Seq(Ctcp) /\ Head(toSend).kind = "SEND" /\ Head(toSend) = toSend[1]
        /\ Len(toSend) \in Nat \ {0}
    BY <1>0, <1>1, Queues
  <1>3. o \in Offers /\ 1 \in About(toSend, "SEND", o)
    BY <1>2 DEF Ctcp, About
  <1>4. snd' = [snd EXCEPT ![o] = s]
    BY <1>0, <1>3, Same DEF HandleSendReply
  <1>5. /\ s \in SendRec /\ s.pos = snd[o].pos /\ s.ack = snd[o].ack /\ s.resumable = snd[o].resumable
        /\ s.ackoffset = snd[o].ackoffset /\ s.stat = (IF snd[o].stat = "queued" THEN "connecting" ELSE snd[o].stat)
    BY <1>0, <1>3, Fields DEF SendRec, Stats, Underway
  <1>6. Queued /\ \A p \in Offers : Rest(toSend, toSend', p)
    BY <1>0, <1>1, <1>2, RestOfTail DEF Queued
  <1>7. ~Waiting(o)
    BY <1>3, WaitingIs DEF IInv, Talk
  <1> HIDE DEF s, o
  <1>8. wire[o] \in WireRec /\ wire' = [wire EXCEPT ![o] = wire[o]]
    BY <1>0, <1>1, <1>3, Fields, Same
  <1>9. CASE snd[o].stat = "none"
    <2>1. rcv[o].stat = "none"
      BY <1>3, <1>9 DEF IInv, Talk, Offered
    <2> QED BY <1>7, <2>1 DEF Waiting, Early
  <1>10. CASE snd[o].stat # "none"
    <2>1. s.stat # "none" /\ (s.stat \in {"queued", "connecting"} => snd[o].stat \in {"queued", "connecting"})
          /\ (s.stat \in Live => snd[o].stat \in Live) /\ (s.stat = "done" => snd[o].stat = "done")
      BY <1>5, <1>10 DEF Live, Underway
    <2>2. \A i \in 1..Len(wire[o].acks) : \E j \in 1..Len(wire[o].acks) : wire[o].acks[i] = wire[o].acks[j]
      OBVIOUS
    <2> QED BY <1>1, <1>3, <1>4, <1>5, <1>6, <1>7, <1>8, <1>10, <2>1, <2>2, SenderStays
  <1> QED BY <1>9, <1>10

-----------------------------------------------------------------------------
(* The receiver's steps, and the network's.                                *)

LEMMA ReaderStep ==
    ASSUME IInv, NEW o \in Offers, NEW r \in RecvRec, NEW w \in WireRec,
           rcv' = [rcv EXCEPT ![o] = r], wire' = [wire EXCEPT ![o] = w],
           UNCHANGED <<consts, snd>>, UNCHANGED irc, UNCHANGED spoilt, OnDisk' \in Nat, OnDisk <= OnDisk',
           rcv[o].stat # "none", r.stat \notin Early, r.stat = "connecting" => r.passive,
           r.resumable \in {rcv[o].resumable, 0},
           r.stat \in Underway => rcv[o].stat \in Underway /\ r.resumable = rcv[o].resumable,
           snd[o].stat \in {"none", "queued", "connecting"} => w.cells = <<>> /\ w.acks = <<>>,
           o \notin spoilt => Stream(o)' /\ Acks(o)',
           Apart', Alone', \A p \in Offers : p \notin spoilt => Whole(p)'
    PROVE  Talk' /\ Apart' /\ Alone' /\ Agreed'
  <1>0. UNCHANGED snd /\ UNCHANGED consts /\ Shape /\ OnDisk \in Nat
    BY OnDiskIs DEF IInv, Shape
  <1>1. Queued /\ \A p \in Offers : Fewer(p)
    BY QueuesSame
  <1>2. rcv'[o] = r /\ wire'[o] = w /\ \A p \in Offers \ {o} : rcv'[p] = rcv[p] /\ wire'[p] = wire[p]
    BY <1>0, Others
  <1>3. Places(o) /\ Offered(o)
    BY DEF IInv, Talk
  <1>4. Places(o)'
    BY <1>0, <1>1, <1>2, <1>3, PlacesKept
  <1>5. Offered(o)'
    <2>1. ~Waiting(o)'
      BY <1>2 DEF Waiting
    <2>2. rcv'[o].stat # "none"
      BY <1>2 DEF Early
    <2> QED BY <1>0, <1>1, <1>2, <1>3, <2>1, <2>2, OfferedKept
  <1>6. o \notin spoilt => Asked(o)'
    <2> SUFFICES ASSUME o \notin spoilt PROVE Asked(o)'
      OBVIOUS
    <2>1. Asked(o)
      BY DEF IInv, Agreed
    <2>2. /\ snd'[o].stat \in Live => snd[o].stat \in Live /\ snd'[o].resumable = snd[o].resumable
          /\ snd'[o].stat \in {"queued", "connecting"} =>
               snd[o].stat \in {"queued", "connecting"} /\ snd'[o].pos = snd[o].pos /\ snd'[o].ack = snd[o].ack
      BY <1>0
    <2>3. rcv'[o].stat \in Early => rcv'[o] = rcv[o]
      BY <1>2
    <2>4. rcv'[o].stat \in Underway => rcv[o].stat \in Underway /\ rcv'[o].resumable = rcv[o].resumable
      BY <1>2
    <2> QED BY <1>1, <2>1, <2>2, <2>3, <2>4, AskedKept
  <1>7. \A p \in Offers \ {o} :
           /\ Places(p)' /\ Offered(p)'
           /\ p \notin spoilt => Asked(p)' /\ Stream(p)' /\ Acks(p)'
    BY <1>0, <1>1, <1>2, Untouched DEF IInv, Talk, Agreed
  <1>8. Talk'
    BY <1>4, <1>5, <1>7 DEF Talk
  <1>9. Agreed'
    BY <1>6, <1>7 DEF Agreed
  <1> QED BY <1>8, <1>9

\* a step that leaves the files alone, and what is on the way or nothing of it
LEMMA ReaderStays ==
    ASSUME IInv, NEW o \in Offers, NEW r \in RecvRec, NEW w \in WireRec,
           rcv' = [rcv EXCEPT ![o] = r], wire' = [wire EXCEPT ![o] = w],
           UNCHANGED <<consts, snd, disk>>, UNCHANGED irc, UNCHANGED spoilt,
           rcv[o].stat # "none", r.stat \notin Early, r.stat # "connecting",
           r.resumable \in {rcv[o].resumable, 0},
           r.stat \in Underway =>
              /\ rcv[o].stat \in Underway /\ r.open = rcv[o].open /\ r.pos = rcv[o].pos
              /\ r.resumable = rcv[o].resumable /\ r.destfile = rcv[o].destfile /\ w.cells = wire[o].cells,
           rcv[o].stat \in Over => r.stat \in Over,
           w.cells \in {wire[o].cells, <<>>}, w.acks = wire[o].acks, wire[o].link = "cut" => w.link = "cut"
    PROVE  Talk' /\ Apart' /\ Alone' /\ Agreed'
  <1>0. UNCHANGED <<consts, snd>> /\ UNCHANGED consts /\ UNCHANGED snd /\ UNCHANGED disk /\ Shape
    BY DEF IInv
  <1>1. rcv'[o] = r /\ wire'[o] = w /\ \A p \in Offers \ {o} : rcv'[p] = rcv[p] /\ wire'[p] = wire[p]
    BY <1>0, Others
  <1>2. OnDisk' \in Nat /\ OnDisk <= OnDisk'
    <2>1. OnDisk' = OnDisk /\ OnDisk \in Nat
      BY <1>0, OnDiskIs DEF OnDisk, Shape
    <2> QED BY <2>1
  <1>3. o \notin spoilt => Stream(o)'
    <2> SUFFICES ASSUME o \notin spoilt PROVE Stream(o)'
      OBVIOUS
    <2>1. Stream(o)
      BY DEF IInv, Agreed
    <2> QED BY <1>0, <1>1, <2>1, StreamKept
  <1>4. o \notin spoilt => Acks(o)'
    <2> SUFFICES ASSUME o \notin spoilt PROVE Acks(o)'
      OBVIOUS
    <2>1. Acks(o)
      BY DEF IInv, Agreed
    <2>2. snd'[o] = snd[o] /\ wire'[o].acks = wire[o].acks /\ (rcv[o].stat \in Over => rcv'[o].stat \in Over)
      BY <1>0, <1>1
    <2>3. size < Wrap /\ snd'[o].stat = "done" => snd[o].stat = "done" \/ rcv[o].stat \in Over
      BY <2>2
    <2> QED BY <1>0, <2>1, <2>2, <2>3, AcksKept
  <1>5. /\ \A p \in Offers : rcv'[p].stat \in Underway =>
              /\ rcv[p].stat \in Underway /\ rcv'[p].open = rcv[p].open /\ rcv'[p].pos = rcv[p].pos
              /\ rcv'[p].resumable = rcv[p].resumable /\ rcv'[p].destfile = rcv[p].destfile
        /\ \A p \in Offers : rcv'[p].stat = "queued" => rcv'[p] = rcv[p]
    BY <1>1 DEF Early
  <1>6. Apart' /\ Alone' /\ \A p \in Offers : Whole(p) => Whole(p)'
    BY <1>0, <1>5, FilesKept DEF IInv
  <1>7. \A p \in Offers : p \notin spoilt => Whole(p)'
    BY <1>6 DEF IInv, Agreed
  <1>8. snd[o].stat \in {"none", "queued", "connecting"} => w.cells = <<>> /\ w.acks = <<>>
    BY DEF IInv, Talk, Offered
  <1> QED BY <1>0, <1>2, <1>3, <1>4, <1>6, <1>7, <1>8, ReaderStep

LEMMA RecvConnectsKeeps ==
    ASSUME IInv, NEW o \in Offers, RecvConnects(o) PROVE Talk' /\ Apart' /\ Alone' /\ Agreed'
  <1>0. Shape
    BY DEF IInv
  <1>1. UNCHANGED <<consts, snd, disk>> /\ UNCHANGED irc /\ UNCHANGED spoilt /\ rcv[o].stat = "connecting"
        /\ ~rcv[o].passive
    BY DEF RecvConnects
  <1>2. wire[o] = Blank
    BY <1>1, WaitingIs DEF Waiting, IInv, Talk
  <1>3. ASSUME NEW stat \in {"active", "failed"}, NEW w \in WireRec, w.cells = wire[o].cells, w.acks = wire[o].acks,
               rcv' = [rcv EXCEPT ![o].stat = stat], wire' = [wire EXCEPT ![o] = w]
        PROVE  Talk' /\ Apart' /\ Alone' /\ Agreed'
    <2> DEFINE r == [rcv[o] EXCEPT !.stat = stat]
    <2>1. r \in RecvRec /\ r.stat = stat /\ r.open = rcv[o].open /\ r.pos = rcv[o].pos
          /\ r.resumable = rcv[o].resumable /\ r.destfile = rcv[o].destfile
      BY <1>0, Fields DEF RecvRec, Stats, Underway, Finished
    <2>2. rcv' = [rcv EXCEPT ![o] = r]
      BY <1>3
    <2> HIDE DEF r
    <2>3. r.stat \notin Early /\ r.stat # "connecting" /\ rcv[o].stat \in Underway /\ rcv[o].stat # "none"
          /\ rcv[o].stat \notin Over
      BY <1>1, <2>1 DEF Early, Underway, Over
    <2>4. wire[o].link # "cut"
      BY <1>2 DEF Blank
    <2> QED BY <1>1, <1>3, <2>1, <2>2, <2>3, <2>4, ReaderStays
  <1>4. CASE rcv' = [rcv EXCEPT ![o].stat = "active"] /\ wire' = [wire EXCEPT ![o].link = "up"]
    <2> DEFINE w == [wire[o] EXCEPT !.link = "up"]
    <2>1. w \in WireRec /\ w.cells = wire[o].cells /\ w.acks = wire[o].acks
      BY <1>0, Fields DEF WireRec
    <2>2. wire' = [wire EXCEPT ![o] = w]
      BY <1>4
    <2> HIDE DEF w
    <2> QED BY <1>3, <1>4, <2>1, <2>2
  <1>5. CASE rcv' = [rcv EXCEPT ![o].stat = "failed"] /\ UNCHANGED wire
    BY <1>0, <1>3, <1>5, Fields, Same
  <1> QED BY <1>4, <1>5 DEF RecvConnects

LEMMA RecvAcceptsKeeps ==
    ASSUME IInv, NEW o \in Offers, RecvAccepts(o) PROVE Talk' /\ Apart' /\ Alone' /\ Agreed'
  <1> DEFINE r == [rcv[o] EXCEPT !.stat = "active"]
  <1>0. Shape
    BY DEF IInv
  <1>1. UNCHANGED <<consts, snd, disk>> /\ UNCHANGED irc /\ UNCHANGED spoilt /\ rcv[o].stat = "connecting"
        /\ UNCHANGED wire /\ rcv' = [rcv EXCEPT ![o] = r]
    BY DEF RecvAccepts
  <1>2. r \in RecvRec /\ r.stat = "active" /\ r.open = rcv[o].open /\ r.pos = rcv[o].pos
        /\ r.resumable = rcv[o].resumable /\ r.destfile = rcv[o].destfile
    BY <1>0, Fields DEF RecvRec, Stats, Underway, Finished
  <1> HIDE DEF r
  <1>3. r.stat \notin Early /\ r.stat # "connecting" /\ rcv[o].stat \in Underway /\ rcv[o].stat # "none"
        /\ rcv[o].stat \notin Over
    BY <1>1, <1>2 DEF Early, Underway, Over
  <1>4. wire[o] \in WireRec /\ wire' = [wire EXCEPT ![o] = wire[o]]
    BY <1>0, <1>1, Fields, Same
  <1> QED BY <1>1, <1>2, <1>3, <1>4, ReaderStays

LEMMA RecvThrottledKeeps ==
    ASSUME IInv, NEW o \in Offers, RecvThrottled(o) PROVE Talk' /\ Apart' /\ Alone' /\ Agreed'
  <1> DEFINE r == [rcv[o] EXCEPT !.throttled = TRUE]
  <1>0. Shape
    BY DEF IInv
  <1>1. UNCHANGED <<consts, snd, disk>> /\ UNCHANGED irc /\ UNCHANGED spoilt /\ rcv[o].stat = "active"
        /\ UNCHANGED wire /\ rcv' = [rcv EXCEPT ![o] = r]
    BY DEF RecvThrottled
  <1>2. r \in RecvRec /\ r.stat = "active" /\ r.open = rcv[o].open /\ r.pos = rcv[o].pos
        /\ r.resumable = rcv[o].resumable /\ r.destfile = rcv[o].destfile
    BY <1>0, <1>1, Fields DEF RecvRec
  <1> HIDE DEF r
  <1>3. r.stat \notin Early /\ r.stat # "connecting" /\ rcv[o].stat \in Underway /\ rcv[o].stat # "none"
        /\ rcv[o].stat \notin Over
    BY <1>1, <1>2 DEF Early, Underway, Over
  <1>4. wire[o] \in WireRec /\ wire' = [wire EXCEPT ![o] = wire[o]]
    BY <1>0, <1>1, Fields, Same
  <1> QED BY <1>1, <1>2, <1>3, <1>4, ReaderStays

LEMMA RecvAbortedKeeps ==
    ASSUME IInv, NEW o \in Offers, RecvAborted(o) PROVE Talk' /\ Apart' /\ Alone' /\ Agreed'
  <1> DEFINE r == Closed(rcv[o], "aborted")
             w == [wire[o] EXCEPT !.cells = <<>>]
  <1>0. Shape /\ "aborted" \in Stats
    BY DEF IInv, Stats, Finished
  <1>1. UNCHANGED <<consts, snd, disk>> /\ UNCHANGED irc /\ UNCHANGED spoilt /\ rcv[o].stat \in {"queued"} \cup Underway
        /\ rcv' = [rcv EXCEPT ![o] = r] /\ wire' = [wire EXCEPT ![o] = w]
    BY DEF RecvAborted
  <1>2. r \in RecvRec /\ r.stat = "aborted" /\ r.resumable = rcv[o].resumable
    BY <1>0, Closing, Fields
  <1>3. w \in WireRec /\ w.cells = <<>> /\ w.acks = wire[o].acks /\ w.link = wire[o].link
    BY <1>0, Fields, EmptySeq DEF WireRec
  <1> HIDE DEF r, w
  <1>4. r.stat \notin Early /\ r.stat # "connecting" /\ r.stat \notin Underway /\ rcv[o].stat # "none"
        /\ rcv[o].stat \notin Over
    BY <1>1, <1>2 DEF Early, Underway, Over
  <1> QED BY <1>1, <1>2, <1>3, <1>4, ReaderStays

LEMMA RecvForgottenKeeps ==
    ASSUME IInv, NEW o \in Offers, RecvForgotten(o) PROVE Talk' /\ Apart' /\ Alone' /\ Agreed'
  <1> DEFINE r == NewRecv("gone", FALSE)
  <1>0. Shape /\ "gone" \in Stats
    BY DEF IInv, Stats
  <1>1. UNCHANGED <<consts, snd, disk>> /\ UNCHANGED irc /\ UNCHANGED spoilt /\ rcv[o].stat \in Finished
        /\ UNCHANGED wire /\ rcv' = [rcv EXCEPT ![o] = r]
    BY DEF RecvForgotten
  <1>2. r \in RecvRec /\ r.stat = "gone" /\ r.resumable = 0
    BY <1>0, NewRecvIs
  <1> HIDE DEF r
  <1>3. r.stat \notin Early /\ r.stat # "connecting" /\ r.stat \notin Underway /\ rcv[o].stat # "none"
        /\ r.stat \in Over
    BY <1>1, <1>2 DEF Early, Underway, Over, Finished
  <1>4. wire[o] \in WireRec /\ wire' = [wire EXCEPT ![o] = wire[o]]
    BY <1>0, <1>1, Fields, Same
  <1> QED BY <1>1, <1>2, <1>3, <1>4, ReaderStays

LEMMA BreakKeeps ==
    ASSUME IInv, NEW o \in Offers, Break(o) PROVE Talk' /\ Apart' /\ Alone' /\ Agreed'
  <1> DEFINE w == [link |-> "cut", cells |-> <<>>, acks |-> <<>>]
  <1>0. Shape
    BY DEF IInv
  <1>1. UNCHANGED <<consts, snd>> /\ UNCHANGED irc /\ UNCHANGED spoilt /\ UNCHANGED disk /\ UNCHANGED rcv
        /\ wire' = [wire EXCEPT ![o] = w] /\ wire[o].link = "up" /\ UNCHANGED consts /\ UNCHANGED snd
    BY DEF Break
  <1>2. w \in WireRec /\ w.link = "cut" /\ w.cells = <<>> /\ w.acks = <<>>
    BY EmptySeq DEF WireRec
  <1> HIDE DEF w
  <1>3. ~Waiting(o)
    BY <1>1, WaitingIs DEF IInv, Talk, Blank
  <1>4. rcv[o].stat # "none" /\ rcv[o].stat \notin Early /\ (rcv[o].stat = "connecting" => rcv[o].passive)
    BY <1>3 DEF Waiting, Early
  <1>5. rcv[o] \in RecvRec /\ rcv' = [rcv EXCEPT ![o] = rcv[o]] /\ size \in Nat
    BY <1>0, <1>1, Fields, Same
  <1>6. OnDisk' \in Nat /\ OnDisk <= OnDisk'
    <2>1. OnDisk' = OnDisk /\ OnDisk \in Nat
      BY <1>0, <1>1, OnDiskIs DEF OnDisk, Shape
    <2> QED BY <2>1
  <1>7. wire'[o] = w
    BY <1>0, <1>1, Others
  <1>8. o \notin spoilt => Stream(o)'
    <2> SUFFICES ASSUME o \notin spoilt PROVE Stream(o)'
      OBVIOUS
    <2>1. Stream(o)
      BY DEF IInv, Agreed
    <2>2. size' = size /\ Start(o)' = Start(o) /\ rcv'[o] = rcv[o] /\ Start(o) \in Nat
      BY <1>0, <1>1, Fields DEF size, consts, Start
    <2>3. wire'[o].cells = <<>> /\ Len(wire'[o].cells) = 0 /\ wire'[o].link = "cut"
      BY <1>2, <1>7
    <2>4. Cells(Start(o), Len(wire[o].cells))' = <<>>
      BY <2>3 DEF Cells
    <2>5. Len(wire[o].cells) \in Nat
      BY <1>0, Fields, Wires, LenProperties
    <2> QED BY <1>5, <2>1, <2>2, <2>3, <2>4, <2>5 DEF Stream
  <1>9. o \notin spoilt => Acks(o)'
    <2> SUFFICES ASSUME o \notin spoilt PROVE Acks(o)'
      OBVIOUS
    <2>1. Acks(o)
      BY DEF IInv, Agreed
    <2>2. \A i \in 1..Len(wire'[o].acks) : \E j \in 1..Len(wire[o].acks) : wire'[o].acks[i] = wire[o].acks[j]
      BY <1>2, <1>7
    <2>3. snd'[o] = snd[o] /\ rcv'[o] = rcv[o]
      BY <1>1
    <2> QED BY <1>1, <2>1, <2>2, <2>3, AcksKept
  <1>10. Apart' /\ Alone' /\ \A p \in Offers : Whole(p) => Whole(p)'
    BY <1>1, FilesKept DEF IInv
  <1>11. \A p \in Offers : p \notin spoilt => Whole(p)'
    BY <1>10 DEF IInv, Agreed
  <1> QED BY <1>1, <1>2, <1>4, <1>5, <1>6, <1>8, <1>9, <1>10, <1>11, ReaderStep

-----------------------------------------------------------------------------
(* dcc_read: what is written, and where the others write.                  *)

LEMMA WriterFile ==
    ASSUME Shape, NEW o \in Offers, Places(o), Writer(o)
    PROVE  rcv[o].destfile \in DOMAIN disk /\ disk[rcv[o].destfile] \in Seq(1..size)
           /\ Start(o) \in Nat /\ (~rcv[o].open => rcv[o].destfile = 0)
  <1>1. OwnFile(o) /\ TypeOK /\ rcv[o].resumable \in Nat /\ rcv[o].pos \in Nat
    BY Fields DEF Shape
  <1>2. CASE rcv[o].open
    BY <1>1, <1>2 DEF OwnFile, TypeOK, Start
  <1>3. CASE ~rcv[o].open
    <2>1. rcv[o].resumable # 0 /\ rcv[o].destfile = 0
      BY <1>1, <1>3 DEF Writer, OwnFile
    <2>2. rcv[o].resumable <= OnDisk
      BY DEF Places
    <2>3. 0 \in DOMAIN disk
      BY <1>1, <2>1, <2>2 DEF OnDisk
    <2> QED BY <1>1, <1>3, <2>1, <2>3 DEF TypeOK, Start
  <1> QED BY <1>2, <1>3

LEMMA DiskGrows ==
    ASSUME TypeOK, NEW d \in RecvRec, d.destfile \in 0..MaxOffers, NEW cells \in Seq(1..size), disk' = Written(d, cells)
    PROVE  OnDisk \in Nat /\ OnDisk' \in Nat /\ OnDisk <= OnDisk'
  <1>1. /\ DOMAIN disk' = DOMAIN disk \cup {d.destfile}
        /\ \A f \in DOMAIN disk' : disk'[f] \in Seq(1..size)
        /\ \A f \in DOMAIN disk \ {d.destfile} : disk'[f] = disk[f]
        /\ d.destfile \in DOMAIN disk => disk'[d.destfile] = disk[d.destfile] \o cells
    BY WrittenIs
  <1>2. OnDisk' = IF 0 \in DOMAIN disk' THEN Len(disk'[0]) ELSE 0
    BY DEF OnDisk
  <1>3. OnDisk \in Nat
    BY OnDiskIs
  <1>4. OnDisk' \in Nat
    BY <1>1, <1>2, LenProperties
  <1>5. CASE 0 \notin DOMAIN disk
    BY <1>3, <1>4, <1>5 DEF OnDisk
  <1>6. CASE 0 \in DOMAIN disk
    <2>1. disk[0] \in Seq(1..size) /\ Len(disk[0]) \in Nat /\ Len(cells) \in Nat
      BY <1>6, LenProperties DEF TypeOK
    <2>2. CASE d.destfile = 0
      <3>1. disk'[0] = disk[0] \o cells
        BY <1>1, <1>6, <2>2
      <3>2. Len(disk'[0]) = Len(disk[0]) + Len(cells)
        BY <2>1, <3>1, ConcatProperties
      <3> QED BY <1>1, <1>2, <1>6, <2>1, <3>2 DEF OnDisk
    <2>3. CASE d.destfile # 0
      BY <1>1, <1>2, <1>6, <2>1, <2>3 DEF OnDisk
    <2> QED BY <2>2, <2>3
  <1> QED BY <1>3, <1>4, <1>5, <1>6

\* where a transfer that is read from begins to write, if its ends agreed
LEMMA Begins ==
    ASSUME Shape, NEW o \in Offers, rcv[o].stat = "active", NEW d \in RecvRec,
           d = [rcv[o] EXCEPT !.throttled = FALSE] \/ d = rcv[o], Stream(o)
    PROVE  Opened(d).pos = Start(o) /\ Start(o) \in Nat
  <1>1. d.open = rcv[o].open /\ d.destfile = rcv[o].destfile /\ d.resumable = rcv[o].resumable /\ d.pos = rcv[o].pos
    BY Fields DEF RecvRec
  <1>2. rcv[o].stat \in Underway
    BY DEF Underway
  <1>3. Opened(d).pos = IF ~d.open /\ d.resumable # 0 THEN d.resumable ELSE d.pos
    BY <1>1, <1>2, OpenedIs
  <1>4. ~rcv[o].open /\ rcv[o].resumable = 0 => rcv[o].pos = 0
    BY <1>2 DEF Stream
  <1> QED BY <1>1, <1>3, <1>4, Fields DEF Start

LEMMA ReadFiles ==
    ASSUME IInv, NEW o \in Offers, rcv[o].stat = "active", NEW d \in RecvRec,
           d = [rcv[o] EXCEPT !.throttled = FALSE] \/ d = rcv[o],
           NEW r \in RecvRec, r.open, r.destfile = Opened(d).destfile, r.resumable = rcv[o].resumable,
           r.stat \notin Early, NEW cells \in Seq(1..size),
           disk' = Written(Opened(d), cells), rcv' = [rcv EXCEPT ![o] = r], UNCHANGED spoilt
    PROVE  /\ OnDisk \in Nat /\ OnDisk' \in Nat /\ OnDisk <= OnDisk'
           /\ Apart' /\ Alone' /\ \A p \in Offers \ {o} : p \notin spoilt => Whole(p)'
           /\ o \notin spoilt => disk'[r.destfile] = Cells(0, Start(o)) \o cells
  <1> DEFINE f == Opened(d)
  <1>0. Shape /\ TypeOK /\ rcv[o].stat \in Underway
    BY DEF IInv, Shape, Underway
  <1>1. d.open = rcv[o].open /\ d.destfile = rcv[o].destfile /\ d.resumable = rcv[o].resumable
    BY <1>0, Fields DEF RecvRec
  <1>2. /\ f \in RecvRec /\ f.destfile \in 0..MaxOffers
        /\ d.open => f.destfile = d.destfile
        /\ ~d.open /\ d.resumable # 0 => f.destfile = 0
        /\ ~d.open /\ d.resumable = 0 => f.destfile \in Free
    BY <1>0, <1>1, OpenedIs
  <1>3. \A p \in Offers : Writer(p) => rcv[p].destfile \in DOMAIN disk /\ (~rcv[p].open => rcv[p].destfile = 0)
    BY <1>0, WriterFile DEF IInv, Talk
  <1>4. rcv'[o] = r /\ \A p \in Offers \ {o} : rcv'[p] = rcv[p]
    BY <1>0, Others
  <1>5. Writer(o) => f.destfile = rcv[o].destfile
    BY <1>1, <1>2, <1>3 DEF Writer
  <1>6. ~Writer(o) => f.destfile \in Free /\ r.resumable = 0
    BY <1>0, <1>1, <1>2 DEF Writer
  <1>7. /\ DOMAIN disk' = DOMAIN disk \cup {f.destfile}
        /\ \A g \in DOMAIN disk \ {f.destfile} : disk'[g] = disk[g]
        /\ f.destfile \in DOMAIN disk => disk'[f.destfile] = disk[f.destfile] \o cells
        /\ f.destfile \notin DOMAIN disk => disk'[f.destfile] = cells
    <2>1. disk' = Written(f, cells)
      OBVIOUS
    <2> HIDE DEF f
    <2>2. TypeOK /\ f \in RecvRec /\ f.destfile \in 0..MaxOffers
      BY <1>0, <1>2
    <2>3. /\ DOMAIN Written(f, cells) = DOMAIN disk \cup {f.destfile}
          /\ \A g \in DOMAIN disk \ {f.destfile} : Written(f, cells)[g] = disk[g]
          /\ f.destfile \in DOMAIN disk => Written(f, cells)[f.destfile] = disk[f.destfile] \o cells
          /\ f.destfile \notin DOMAIN disk => Written(f, cells)[f.destfile] = cells
      BY <2>2, WrittenIs
    <2> QED BY <2>1, <2>3
  <1>8. OnDisk \in Nat /\ OnDisk' \in Nat /\ OnDisk <= OnDisk'
    BY <1>0, <1>2, DiskGrows
  <1>9. r.destfile = f.destfile
    OBVIOUS
  <1> HIDE DEF f
  <1>10. \A p \in Offers \ {o} : Writer(p)' = Writer(p) /\ rcv'[p].destfile = rcv[p].destfile /\ Start(p)' = Start(p)
    BY <1>4 DEF Writer, Start
  \* somebody else's file is not the one that is written to
  <1>11. \A p \in Offers \ {o} : Writer(p) /\ rcv[p].destfile = f.destfile => p \in spoilt /\ o \in spoilt /\ Writer(o)
    <2> SUFFICES ASSUME NEW p \in Offers \ {o}, Writer(p), rcv[p].destfile = f.destfile
                 PROVE  p \in spoilt /\ o \in spoilt /\ Writer(o)
      OBVIOUS
    <2>1. Writer(o)
      BY <1>3, <1>6 DEF Free
    <2> QED BY <1>5, <2>1 DEF IInv, Alone
  <1>12. Apart'
    <2> SUFFICES ASSUME NEW p \in Offers, NEW q \in Offers, rcv'[q].stat = "queued", rcv'[q].resumable # 0,
                        rcv'[p].stat \in Underway, rcv'[p].open, rcv'[p].resumable = 0
                 PROVE  rcv'[p].destfile # 0
      BY DEF Apart
    <2>1. q # o /\ rcv'[q] = rcv[q]
      BY <1>4 DEF Early
    <2>2. CASE p # o
      BY <1>4, <2>1, <2>2 DEF IInv, Apart
    <2>3. CASE p = o /\ rcv[o].open
      <3>1. rcv[o].resumable = 0 /\ f.destfile = rcv[o].destfile
        BY <1>1, <1>2, <1>4, <2>3
      <3>2. rcv[o].destfile # 0
        BY <1>0, <2>1, <2>3, <3>1 DEF IInv, Apart
      <3> QED BY <1>4, <1>9, <2>3, <3>1, <3>2
    <2>4. CASE p = o /\ ~rcv[o].open
      <3>1. f.destfile \in Free
        BY <1>1, <1>2, <1>4, <2>4
      <3>2. rcv[q].resumable <= OnDisk /\ rcv[q].resumable \in Nat
        BY <1>0, Fields DEF IInv, Talk, Places
      <3>3. 0 \in DOMAIN disk
        BY <1>8, <2>1, <3>2 DEF OnDisk
      <3> QED BY <1>4, <1>9, <2>4, <3>1, <3>3 DEF Free
    <2> QED BY <2>2, <2>3, <2>4
  <1>13. Alone'
    <2> SUFFICES ASSUME NEW p \in Offers, NEW q \in Offers, p # q, Writer(p)', Writer(q)',
                        rcv'[p].destfile = rcv'[q].destfile
                 PROVE  p \in spoilt'
      BY DEF Alone
    <2>1. CASE p # o /\ q # o
      BY <1>10, <2>1 DEF IInv, Alone
    <2>2. CASE p = o
      BY <1>4, <1>9, <1>10, <1>11, <2>2
    <2>3. CASE q = o
      BY <1>4, <1>9, <1>10, <1>11, <2>3
    <2> QED BY <2>1, <2>2, <2>3
  <1>14. \A p \in Offers \ {o} : p \notin spoilt => Whole(p)'
    <2> SUFFICES ASSUME NEW p \in Offers \ {o}, p \notin spoilt, Writer(p)'
                 PROVE  disk'[rcv'[p].destfile] = Cells(0, Start(p))'
      BY DEF Whole
    <2>1. Writer(p) /\ rcv'[p].destfile = rcv[p].destfile
      BY <1>10
    <2>2. rcv[p].destfile \in DOMAIN disk \ {f.destfile}
      BY <1>3, <1>11, <2>1
    <2>3. disk[rcv[p].destfile] = Cells(0, Start(p))
      BY <2>1 DEF IInv, Agreed, Whole
    <2>4. Cells(0, Start(p))' = Cells(0, Start(p))
      BY <1>10 DEF Cells
    <2> QED BY <1>7, <2>1, <2>2, <2>3, <2>4
  <1>15. o \notin spoilt => disk'[r.destfile] = Cells(0, Start(o)) \o cells
    <2> SUFFICES ASSUME o \notin spoilt PROVE disk'[f.destfile] = Cells(0, Start(o)) \o cells
      BY <1>9
    <2>1. CASE Writer(o)
      <3>1. disk[rcv[o].destfile] = Cells(0, Start(o))
        BY <2>1 DEF IInv, Agreed, Whole
      <3>2. f.destfile \in DOMAIN disk
        BY <1>3, <1>5, <2>1
      <3> QED BY <1>5, <1>7, <2>1, <3>1, <3>2
    <2>2. CASE ~Writer(o)
      <3>1. f.destfile \notin DOMAIN disk
        BY <1>6, <2>2 DEF Free
      <3>2. Start(o) = 0
        BY <1>0, <2>2 DEF Writer, Start
      <3>3. Cells(0, Start(o)) = <<>>
        BY <3>2 DEF Cells
      <3>4. <<>> \o cells = cells
        BY ConcatEmptySeq
      <3> QED BY <1>7, <3>1, <3>3, <3>4
    <2> QED BY <2>1, <2>2
  <1> QED BY <1>8, <1>12, <1>13, <1>14, <1>15

\* what a call of dcc_read leaves of the transfer: `Got' is what it has written
LEMMA ReadingGets ==
    ASSUME IInv, NEW o \in Offers, rcv[o].stat = "active", o \notin spoilt, NEW d \in RecvRec,
           d = [rcv[o] EXCEPT !.throttled = FALSE] \/ d = rcv[o],
           NEW k \in 0..Len(wire[o].cells)
    PROVE  /\ k \in Nat /\ Start(o) \in Nat /\ Len(wire[o].cells) \in Nat
           /\ Opened(d).pos = Start(o) /\ Start(o) + Len(wire[o].cells) <= size
           /\ SubSeq(wire[o].cells, 1, k) = Cells(Start(o), k)
           /\ SubSeq(wire[o].cells, k + 1, Len(wire[o].cells)) = Cells(Start(o) + k, Len(wire[o].cells) - k)
           /\ Cells(0, Start(o)) \o SubSeq(wire[o].cells, 1, k) = Cells(0, Start(o) + k)
  <1>0. Shape /\ TypeOK /\ rcv[o].stat \in Underway /\ size \in Nat
    BY Fields DEF IInv, Shape, Underway
  <1>1. Stream(o)
    BY DEF IInv, Agreed
  <1>2. Opened(d).pos = Start(o) /\ Start(o) \in Nat
    BY <1>0, <1>1, Begins
  <1> DEFINE n == Len(wire[o].cells)
  <1>3. n \in Nat
    BY <1>0, Fields, Wires, LenProperties
  <1>4. k \in Nat /\ k \in 0..n
    BY <1>3
  <1>5. wire[o].cells = Cells(Start(o), n) /\ Start(o) + n <= size
    BY <1>0, <1>1 DEF Stream
  <1> HIDE DEF n
  <1>6. SubSeq(Cells(Start(o), n), 1, k) = Cells(Start(o), k) /\ SubSeq(Cells(Start(o), n), k + 1, n) = Cells(Start(o) + k, n - k)
    BY <1>0, <1>2, <1>3, <1>4, <1>5, CellsSplit
  <1>7. 0 + Start(o) = Start(o) /\ 0 + Start(o) + k <= size /\ 0 \in Nat
    BY <1>0, <1>2, <1>3, <1>4, <1>5
  <1>8. Cells(0, Start(o)) \o Cells(0 + Start(o), k) = Cells(0, Start(o) + k)
    BY <1>0, <1>2, <1>4, <1>7, CellsJoin
  <1> QED BY <1>2, <1>3, <1>4, <1>5, <1>6, <1>7, <1>8 DEF n

LEMMA ReadingKeeps ==
    ASSUME IInv, NEW o \in Offers, rcv[o].stat = "active", NEW d \in RecvRec,
           d = [rcv[o] EXCEPT !.throttled = FALSE] \/ d = rcv[o],
           NEW k \in 0..Len(wire[o].cells), Reading(o, d, k),
           UNCHANGED <<consts, snd>>, UNCHANGED irc, UNCHANGED spoilt
    PROVE  /\ Talk' /\ Apart' /\ Alone' /\ Agreed'
           /\ o \notin spoilt /\ rcv'[o].stat = "done" => disk'[rcv'[o].destfile] = Cells(0, size)
  <1>0. Shape /\ TypeOK /\ rcv[o].stat \in Underway /\ size \in Nat /\ Wrap \in Nat \ {0}
    BY Fields DEF IInv, Shape, Underway
  <1>a. PICK r \in RecvRec, w \in WireRec : Became(o, d, k, r, w)
    BY <1>0, ReadingIs
  <1>1. /\ rcv' = [rcv EXCEPT ![o] = r] /\ wire' = [wire EXCEPT ![o] = w]
        /\ disk' = Written(Opened(d), SubSeq(wire[o].cells, 1, k))
        /\ SubSeq(wire[o].cells, 1, k) \in Seq(1..size)
        /\ r.open /\ r.destfile = Opened(d).destfile /\ r.resumable = rcv[o].resumable
        /\ r.pos = Opened(d).pos + k /\ r.passive = rcv[o].passive
        /\ r.stat = (IF k > 0 /\ r.pos >= size THEN "done" ELSE "active")
        /\ w.link = wire[o].link
        /\ w.cells = IF r.stat = "done" THEN <<>> ELSE SubSeq(wire[o].cells, k + 1, Len(wire[o].cells))
        /\ w.acks = IF k = 0 \/ PeerIsGone(o, snd) THEN wire[o].acks
                    ELSE Append(wire[o].acks, r.pos % Wrap)
    BY <1>a DEF Became
  <1> DEFINE cells == SubSeq(wire[o].cells, 1, k)
  <1>2. rcv'[o] = r /\ wire'[o] = w /\ UNCHANGED snd /\ UNCHANGED consts /\ size' = size
    <2>1. o \in DOMAIN rcv /\ o \in DOMAIN wire
      BY <1>0 DEF Shape, TypeOK
    <2>2. rcv' = [rcv EXCEPT ![o] = r] /\ wire' = [wire EXCEPT ![o] = w]
      BY <1>1
    <2>3. rcv'[o] = r /\ wire'[o] = w
      BY <2>1, <2>2
    <2> QED BY <2>3 DEF size, consts
  <1>3. r.stat \in {"active", "done"}
    BY <1>1
  <1>4. r.stat \notin Early /\ r.stat # "connecting" /\ rcv[o].stat # "none"
    BY <1>3 DEF Early
  <1>5. /\ OnDisk \in Nat /\ OnDisk' \in Nat /\ OnDisk <= OnDisk'
        /\ Apart' /\ Alone' /\ \A p \in Offers \ {o} : p \notin spoilt => Whole(p)'
        /\ o \notin spoilt => disk'[r.destfile] = Cells(0, Start(o)) \o cells
    BY <1>1, <1>4, ReadFiles
  <1> DEFINE n == Len(wire[o].cells)
  <1>6. o \notin spoilt =>
           /\ k \in Nat /\ Start(o) \in Nat /\ n \in Nat /\ k <= n
           /\ r.pos = Start(o) + k /\ Start(o) + n <= size
           /\ cells = Cells(Start(o), k)
           /\ SubSeq(wire[o].cells, k + 1, n) = Cells(Start(o) + k, n - k)
           /\ Cells(0, Start(o)) \o cells = Cells(0, Start(o) + k)
    <2> SUFFICES ASSUME o \notin spoilt
                 PROVE  /\ k \in Nat /\ Start(o) \in Nat /\ n \in Nat /\ k <= n
                        /\ r.pos = Start(o) + k /\ Start(o) + n <= size
                        /\ cells = Cells(Start(o), k)
                        /\ SubSeq(wire[o].cells, k + 1, n) = Cells(Start(o) + k, n - k)
                        /\ Cells(0, Start(o)) \o cells = Cells(0, Start(o) + k)
      OBVIOUS
    <2>1. /\ k \in Nat /\ Start(o) \in Nat /\ n \in Nat /\ Opened(d).pos = Start(o) /\ Start(o) + n <= size
          /\ cells = Cells(Start(o), k)
          /\ SubSeq(wire[o].cells, k + 1, n) = Cells(Start(o) + k, n - k)
          /\ Cells(0, Start(o)) \o cells = Cells(0, Start(o) + k)
      BY ReadingGets
    <2>2. k <= n
      BY <2>1
    <2>3. r.pos = Opened(d).pos + k
      BY <1>1
    <2> QED BY <2>1, <2>2, <2>3
  <1> HIDE DEF cells
  <1>7. Start(o)' = r.pos
    BY <1>1, <1>2 DEF Start
  <1>8. o \notin spoilt => disk'[r.destfile] = Cells(0, r.pos)
    BY <1>5, <1>6
  <1>9. o \notin spoilt /\ r.stat = "done" => r.pos = size
    <2> SUFFICES ASSUME o \notin spoilt, r.stat = "done" PROVE r.pos = size
      OBVIOUS
    <2>1. r.pos >= size /\ r.pos = Start(o) + k /\ Start(o) + n <= size /\ k <= n /\ k \in Nat /\ n \in Nat /\ Start(o) \in Nat
      BY <1>1, <1>6
    <2> HIDE DEF n
    <2> QED BY <1>0, <2>1
  <1>10. o \notin spoilt => Whole(o)'
    <2> SUFFICES ASSUME o \notin spoilt PROVE disk'[rcv'[o].destfile] = Cells(0, Start(o))'
      BY DEF Whole
    <2>1. Cells(0, Start(o))' = Cells(0, r.pos)
      BY <1>7 DEF Cells
    <2> QED BY <1>2, <1>8, <2>1
  <1>11. o \notin spoilt => Stream(o)'
    <2> SUFFICES ASSUME o \notin spoilt, r.stat \in Underway PROVE Stream(o)'
      BY <1>2 DEF Stream
    <2>1. r.stat # "done"
      BY DEF Underway
    <2>2. /\ k \in Nat /\ Start(o) \in Nat /\ n \in Nat /\ k <= n /\ r.pos = Start(o) + k /\ Start(o) + n <= size
          /\ w.cells = Cells(Start(o) + k, n - k)
      BY <1>1, <1>6, <2>1
    <2>3. Stream(o)
      BY DEF IInv, Agreed
    <2>4. snd[o].stat \in Live /\ wire[o].link # "cut" => snd[o].pos = Start(o) + n
      BY <1>0, <2>3 DEF Stream
    <2>5. rcv[o].resumable <= Start(o) /\ rcv[o].resumable \in Nat
      BY <1>0, <2>3, Fields DEF Stream
    <2> HIDE DEF n
    <2>6. r.pos \in Nat /\ n - k \in Nat /\ r.pos + (n - k) = Start(o) + n /\ r.resumable <= r.pos
      <3>1. r.resumable = rcv[o].resumable
        BY <1>1
      <3>2. Start(o) \in Nat /\ n \in Nat /\ k \in Nat /\ k <= n /\ r.pos = Start(o) + k
        BY <2>2
      <3> QED BY <2>5, <3>1, <3>2
    <2>7. w.cells = Cells(r.pos, n - k)
      BY <2>2
    <2>8. Len(w.cells) = n - k
      <3>1. r.pos + (n - k) <= size
        BY <2>2, <2>6
      <3> QED BY <1>0, <2>6, <2>7, <3>1, CellsAre
    <2>9. Cells(Start(o), Len(wire[o].cells))' = w.cells
      BY <1>2, <1>7, <2>7, <2>8 DEF Cells
    <2>10. snd'[o] = snd[o] /\ wire'[o].link = wire[o].link /\ wire'[o].cells = w.cells
      BY <1>1, <1>2
    <2>11. Start(o)' + Len(wire'[o].cells) <= size' /\ (snd'[o].stat \in Live /\ wire'[o].link # "cut"
              => snd'[o].pos = Start(o)' + Len(wire'[o].cells))
      BY <1>2, <1>7, <2>2, <2>4, <2>6, <2>8, <2>10
    <2>12. rcv'[o].resumable <= Start(o)' /\ rcv'[o].open
      BY <1>1, <1>2, <1>7, <2>6
    <2> QED BY <2>9, <2>10, <2>11, <2>12 DEF Stream
  <1>12. o \notin spoilt => Acks(o)'
    <2> SUFFICES ASSUME o \notin spoilt, size < Wrap PROVE Acks(o)'
      BY <1>2 DEF Acks, consts, size
    <2>1. Acks(o) /\ Asked(o) /\ Stream(o)
      BY DEF IInv, Agreed
    <2>2. rcv[o].stat \notin Over
      BY DEF Over
    <2>3. snd[o].stat # "done"
      BY <2>1, <2>2 DEF Acks
    <2>4. \A a : Sound(o, a) => Sound(o, a)'
      BY <1>2, <2>2 DEF Sound
    <2>5. ASSUME snd[o].stat \in Live
          PROVE  /\ \A i \in 1..Len(wire'[o].acks) : wire'[o].acks[i] > snd[o].resumable /\ Sound(o, wire[o].acks[i])'
                 /\ ~snd[o].ackoffset /\ Sound(o, snd[o].ack)'
      <3>1. (\A i \in 1..Len(wire[o].acks) : wire[o].acks[i] > snd[o].resumable /\ Sound(o, wire[o].acks[i]))
            /\ ~snd[o].ackoffset /\ Sound(o, snd[o].ack)
        BY <2>1, <2>5 DEF Acks
      <3>2. Sound(o, snd[o].ack)'
        <4>1. \A a : a = snd[o].ack => (Sound(o, a) => a <= size /\ (a = size => rcv'[o].stat \in Over))
          BY <2>2 DEF Sound
        <4> QED BY <1>2, <3>1, <4>1 DEF Sound
      <3>3. CASE k = 0 \/ PeerIsGone(o, snd)
        <4>1. wire'[o].acks = wire[o].acks
          BY <1>1, <1>2, <3>3
        <4>2. \A i \in 1..Len(wire'[o].acks) : wire'[o].acks[i] <= size /\ (wire'[o].acks[i] = size => rcv'[o].stat \in Over)
          BY <2>2, <3>1, <4>1 DEF Sound
        <4> QED BY <1>2, <3>1, <3>2, <4>1, <4>2 DEF Sound
      <3>4. CASE ~(k = 0 \/ PeerIsGone(o, snd))
        <4> DEFINE a == r.pos % Wrap
        <4>1. wire'[o].acks = Append(wire[o].acks, a)
          BY <1>1, <1>2, <3>4
        <4>2. k \in Nat /\ Start(o) \in Nat /\ n \in Nat /\ k <= n /\ r.pos = Start(o) + k /\ Start(o) + n <= size /\ k > 0
          BY <1>6, <3>4
        <4>3. snd[o].resumable = rcv[o].resumable /\ rcv[o].resumable <= Start(o) /\ rcv[o].resumable \in Nat
          BY <1>0, <2>1, <2>5, Fields DEF Asked, Stream
        <4>4. r.pos <= size /\ r.pos < Wrap /\ r.pos > snd[o].resumable /\ r.pos \in Nat
          <5> HIDE DEF n
          <5> QED BY <1>0, <4>2, <4>3
        <4>5. a = r.pos
          BY <1>0, <4>4
        <4>6. a = size => r.stat = "done"
          BY <1>1, <4>2, <4>4, <4>5
        <4>7. a <= size /\ (a = size => rcv'[o].stat \in Over) /\ a > snd[o].resumable
          BY <1>2, <4>4, <4>5, <4>6 DEF Over
        <4> HIDE DEF a
        <4>8. wire[o].acks \in Seq(0..(Wrap - 1))
          BY <1>0, Fields, Wires
        <4>9. Len(Append(wire[o].acks, a)) = Len(wire[o].acks) + 1 /\ Len(wire[o].acks) \in Nat
              /\ (\A i \in 1..Len(wire[o].acks) : Append(wire[o].acks, a)[i] = wire[o].acks[i])
              /\ Append(wire[o].acks, a)[Len(wire[o].acks) + 1] = a
          BY <4>8
        <4>10. \A i \in 1..Len(wire'[o].acks) :
                  \/ i \in 1..Len(wire[o].acks) /\ wire'[o].acks[i] = wire[o].acks[i]
                  \/ wire'[o].acks[i] = a
          <5> SUFFICES ASSUME NEW i \in 1..(Len(wire[o].acks) + 1)
                       PROVE  \/ i \in 1..Len(wire[o].acks) /\ Append(wire[o].acks, a)[i] = wire[o].acks[i]
                              \/ Append(wire[o].acks, a)[i] = a
            BY <4>1, <4>9
          <5>1. i \in 1..Len(wire[o].acks) \/ i = Len(wire[o].acks) + 1
            BY <4>9
          <5> QED BY <4>9, <5>1
        <4>11. \A i \in 1..Len(wire'[o].acks) :
                  wire'[o].acks[i] > snd[o].resumable /\ wire'[o].acks[i] <= size /\ (wire'[o].acks[i] = size => rcv'[o].stat \in Over)
          BY <2>2, <3>1, <4>7, <4>10 DEF Sound
        <4> QED BY <1>2, <3>1, <3>2, <4>11 DEF Sound
      <3> QED BY <3>3, <3>4
    <2> QED BY <1>2, <2>3, <2>5 DEF Acks
  <1>13. snd[o].stat \in {"none", "queued", "connecting"} => w.cells = <<>> /\ w.acks = <<>>
    <2> SUFFICES ASSUME snd[o].stat \in {"none", "queued", "connecting"} PROVE w.cells = <<>> /\ w.acks = <<>>
      OBVIOUS
    <2>1. wire[o].cells = <<>> /\ wire[o].acks = <<>>
      BY DEF IInv, Talk, Offered
    <2>2. k = 0
      BY <2>1
    <2>3. SubSeq(wire[o].cells, k + 1, Len(wire[o].cells)) = <<>>
      BY <2>1, <2>2
    <2> QED BY <1>1, <2>1, <2>2, <2>3
  <1>14. \A p \in Offers : p \notin spoilt => Whole(p)'
    BY <1>5, <1>10
  <1>15. r.stat \in Underway => rcv[o].stat \in Underway /\ r.resumable = rcv[o].resumable
    BY <1>0, <1>1
  <1>16. rcv' = [rcv EXCEPT ![o] = r] /\ wire' = [wire EXCEPT ![o] = w] /\ r.resumable \in {rcv[o].resumable, 0}
    BY <1>1
  <1>17. o \notin spoilt => Stream(o)' /\ Acks(o)'
    BY <1>11, <1>12
  <1>18. Talk' /\ Apart' /\ Alone' /\ Agreed'
    BY <1>4, <1>5, <1>13, <1>14, <1>15, <1>16, <1>17, ReaderStep
  <1> QED BY <1>2, <1>8, <1>9, <1>18

LEMMA ReadKeeps ==
    ASSUME IInv, NEW o \in Offers, Read(o)
    PROVE  /\ Talk' /\ Apart' /\ Alone' /\ Agreed'
           /\ o \notin spoilt /\ rcv'[o].stat = "done" => disk'[rcv'[o].destfile] = Cells(0, size)
  <1>0. Shape
    BY DEF IInv
  <1>1. PICK k \in (IF rcv[o].throttled THEN {0} ELSE 1..Len(wire[o].cells)) : Reading(o, rcv[o], k)
    BY DEF Read
  <1>2. Len(wire[o].cells) \in Nat
    BY <1>0, Fields, Wires, LenProperties
  <1>3. k \in 0..Len(wire[o].cells)
    BY <1>2
  <1>4. rcv[o].stat = "active" /\ UNCHANGED <<consts, snd>> /\ UNCHANGED irc /\ UNCHANGED spoilt
    BY DEF Read
  <1>5. rcv[o] \in RecvRec
    BY <1>0, Fields
  <1> QED BY <1>1, <1>3, <1>4, <1>5, ReadingKeeps

LEMMA RecvUnthrottledKeeps ==
    ASSUME IInv, NEW o \in Offers, RecvUnthrottled(o)
    PROVE  /\ Talk' /\ Apart' /\ Alone' /\ Agreed'
           /\ o \notin spoilt /\ rcv'[o].stat = "done" => disk'[rcv'[o].destfile] = Cells(0, size)
  <1> DEFINE d == [rcv[o] EXCEPT !.throttled = FALSE]
  <1>0. Shape
    BY DEF IInv
  <1>1. PICK k \in 0..Len(wire[o].cells) : Reading(o, d, k)
    BY DEF RecvUnthrottled
  <1>2. d \in RecvRec
    BY <1>0, Fields DEF RecvRec
  <1>4. rcv[o].stat = "active" /\ UNCHANGED <<consts, snd>> /\ UNCHANGED irc /\ UNCHANGED spoilt
    BY DEF RecvUnthrottled
  <1>5. d = [rcv[o] EXCEPT !.throttled = FALSE]
    OBVIOUS
  <1> HIDE DEF d
  <1> QED BY <1>1, <1>2, <1>4, <1>5, ReadingKeeps

LEMMA FailingKeeps ==
    ASSUME IInv, NEW o \in Offers, rcv[o].stat = "active", NEW w \in WireRec,
           disk' = Written(Opened(rcv[o]), <<>>),
           rcv' = [rcv EXCEPT ![o] = Closed(Opened(rcv[o]), "failed")], wire' = [wire EXCEPT ![o] = w],
           w.cells = <<>>, w.acks = wire[o].acks,
           UNCHANGED <<consts, snd>>, UNCHANGED irc, UNCHANGED spoilt
    PROVE  Talk' /\ Apart' /\ Alone' /\ Agreed'
  <1> DEFINE r == Closed(Opened(rcv[o]), "failed")
  <1>0. Shape /\ rcv[o] \in RecvRec
    BY Fields DEF IInv
  <1>1. r \in RecvRec /\ r.stat = "failed" /\ r.open /\ r.destfile = Opened(rcv[o]).destfile
        /\ r.resumable = rcv[o].resumable /\ rcv[o].stat \in Underway /\ <<>> \in Seq(1..size)
    BY <1>0, FailingIs
  <1>2. rcv' = [rcv EXCEPT ![o] = r]
    OBVIOUS
  <1> HIDE DEF r
  <1>3. r.stat \notin Early /\ r.stat # "connecting" /\ r.stat \notin Underway /\ rcv[o].stat # "none"
    BY <1>1 DEF Early, Underway
  <1>4. /\ OnDisk \in Nat /\ OnDisk' \in Nat /\ OnDisk <= OnDisk'
        /\ Apart' /\ Alone' /\ \A p \in Offers \ {o} : p \notin spoilt => Whole(p)'
    BY <1>0, <1>1, <1>2, <1>3, ReadFiles
  <1>5. rcv'[o] = r /\ wire'[o] = w /\ UNCHANGED snd /\ UNCHANGED consts
    <2>1. o \in DOMAIN rcv /\ o \in DOMAIN wire
      BY <1>0 DEF Shape, TypeOK
    <2>2. rcv'[o] = r
      BY <1>2, <2>1
    <2>3. wire'[o] = w
      BY <2>1
    <2> QED BY <2>2, <2>3
  <1>6. Stream(o)' /\ Whole(o)'
    BY <1>3, <1>5 DEF Stream, Whole, Writer
  <1>7. o \notin spoilt => Acks(o)'
    <2> SUFFICES ASSUME o \notin spoilt PROVE Acks(o)'
      OBVIOUS
    <2>1. Acks(o)
      BY DEF IInv, Agreed
    <2>2. snd'[o] = snd[o] /\ wire'[o].acks = wire[o].acks /\ rcv[o].stat \notin Over
      BY <1>5 DEF Over
    <2>3. size < Wrap /\ snd'[o].stat = "done" => snd[o].stat = "done" \/ rcv[o].stat \in Over
      BY <2>2
    <2> QED BY <1>5, <2>1, <2>2, <2>3, AcksKept
  <1>8. snd[o].stat \in {"none", "queued", "connecting"} => w.cells = <<>> /\ w.acks = <<>>
    BY DEF IInv, Talk, Offered
  <1>9. \A p \in Offers : p \notin spoilt => Whole(p)'
    BY <1>4, <1>6
  <1>10. r.resumable \in {rcv[o].resumable, 0}
    BY <1>1
  <1>11. OnDisk' \in Nat /\ OnDisk <= OnDisk' /\ Apart' /\ Alone'
    BY <1>4
  <1>12. o \notin spoilt => Stream(o)' /\ Acks(o)'
    BY <1>6, <1>7
  <1> QED BY <1>1, <1>2, <1>3, <1>8, <1>9, <1>10, <1>11, <1>12, ReaderStep

LEMMA RecvEOFKeeps ==
    ASSUME IInv, NEW o \in Offers, RecvEOF(o) PROVE Talk' /\ Apart' /\ Alone' /\ Agreed'
  <1>0. Shape
    BY DEF IInv
  <1>1. /\ rcv[o].stat = "active" /\ wire[o].cells = <<>> /\ disk' = Written(Opened(rcv[o]), <<>>)
        /\ rcv' = [rcv EXCEPT ![o] = Closed(Opened(rcv[o]), "failed")]
        /\ UNCHANGED <<consts, snd>> /\ UNCHANGED irc /\ UNCHANGED wire /\ UNCHANGED spoilt
    BY DEF RecvEOF
  <1>2. wire[o] \in WireRec /\ wire' = [wire EXCEPT ![o] = wire[o]]
    BY <1>0, <1>1, Fields, Same
  <1> QED BY <1>1, <1>2, FailingKeeps

LEMMA DiskFullKeeps ==
    ASSUME IInv, NEW o \in Offers, DiskFull(o) PROVE Talk' /\ Apart' /\ Alone' /\ Agreed'
  <1> DEFINE w == [wire[o] EXCEPT !.cells = <<>>]
  <1>0. Shape
    BY DEF IInv
  <1>1. /\ rcv[o].stat = "active" /\ disk' = Written(Opened(rcv[o]), <<>>)
        /\ rcv' = [rcv EXCEPT ![o] = Closed(Opened(rcv[o]), "failed")] /\ wire' = [wire EXCEPT ![o] = w]
        /\ UNCHANGED <<consts, snd>> /\ UNCHANGED irc /\ UNCHANGED spoilt
    BY DEF DiskFull
  <1>2. w \in WireRec /\ w.cells = <<>> /\ w.acks = wire[o].acks
    BY <1>0, Fields, EmptySeq DEF WireRec
  <1> HIDE DEF w
  <1> QED BY <1>1, <1>2, FailingKeeps

-----------------------------------------------------------------------------
(* The negotiation.                                                        *)

\* what does not take part stays as it is said to be
LEMMA OthersKept ==
    ASSUME IInv, NEW S \in SUBSET Offers, UNCHANGED consts, UNCHANGED disk, spoilt \subseteq spoilt', Queued,
           \A p \in Offers \ S : Fewer(p) /\ snd'[p] = snd[p] /\ rcv'[p] = rcv[p] /\ wire'[p] = wire[p]
    PROVE  \A p \in Offers \ S :
              /\ Places(p)' /\ Offered(p)'
              /\ p \notin spoilt' => Asked(p)' /\ Stream(p)' /\ Acks(p)' /\ Whole(p)'
  <1>0. Shape /\ OnDisk' = OnDisk /\ OnDisk \in Nat
    BY OnDiskIs DEF IInv, Shape, OnDisk
  <1> SUFFICES ASSUME NEW p \in Offers \ S
               PROVE  /\ Places(p)' /\ Offered(p)'
                      /\ p \notin spoilt' => Asked(p)' /\ Stream(p)' /\ Acks(p)' /\ Whole(p)'
    OBVIOUS
  <1>1. /\ Places(p) => Places(p)'
        /\ Offered(p) => Offered(p)'
        /\ Asked(p) => Asked(p)'
        /\ Stream(p) => Stream(p)'
        /\ Acks(p) => Acks(p)'
    BY <1>0, Untouched
  <1>2. Whole(p) => Whole(p)'
    <2> SUFFICES ASSUME Whole(p), Writer(p)' PROVE disk'[rcv'[p].destfile] = Cells(0, Start(p))'
      BY DEF Whole
    <2>1. Writer(p) /\ Start(p)' = Start(p) /\ rcv'[p].destfile = rcv[p].destfile
      BY DEF Writer, Start
    <2>2. Cells(0, Start(p))' = Cells(0, Start(p))
      BY <2>1 DEF Cells
    <2> QED BY <2>1, <2>2 DEF Whole
  <1> QED BY <1>1, <1>2 DEF IInv, Talk, Agreed

LEMMA OnlyRead ==
    ASSUME IInv, UNCHANGED <<consts, disk, wire>>, UNCHANGED <<snd, rcv>>, UNCHANGED spoilt, Queued,
           \A p \in Offers : Fewer(p)
    PROVE  Talk' /\ Apart' /\ Alone' /\ Agreed'
  <1>1. UNCHANGED consts /\ UNCHANGED disk /\ spoilt \subseteq spoilt' /\ {} \in SUBSET Offers
    OBVIOUS
  <1>2. \A p \in Offers : Fewer(p) /\ snd'[p] = snd[p] /\ rcv'[p] = rcv[p] /\ wire'[p] = wire[p]
    OBVIOUS
  <1>3. \A p \in Offers \ {} :
           /\ Places(p)' /\ Offered(p)'
           /\ p \notin spoilt' => Asked(p)' /\ Stream(p)' /\ Acks(p)' /\ Whole(p)'
    BY <1>1, <1>2, OthersKept
  <1>4. Apart' /\ Alone'
    BY <1>1, <1>2, FilesKept DEF IInv
  <1> QED BY <1>3, <1>4 DEF Talk, Agreed

LEMMA dcc_sendKeeps ==
    ASSUME IInv, NEW o \in Offers, NEW passive \in BOOLEAN, dcc_send(o, passive)
    PROVE  Talk' /\ Apart' /\ Alone' /\ Agreed'
  <1> DEFINE s == NewSend("queued", passive)
             m == Message("SEND", o, passive, 0)
  <1>0. Shape /\ TypeOK /\ size \in Nat \ {0} /\ toSend \in Seq(Ctcp) /\ toRecv \in Seq(Ctcp) /\ rcv[o] \in RecvRec
    BY Fields DEF IInv, Shape
  <1>1. snd[o].stat = "none" /\ snd' = [snd EXCEPT ![o] = s] /\ toRecv' = Append(toRecv, m)
        /\ UNCHANGED <<consts, disk, wire>> /\ UNCHANGED rcv /\ UNCHANGED toSend /\ UNCHANGED spoilt
        /\ UNCHANGED consts /\ UNCHANGED disk /\ UNCHANGED wire
    BY DEF dcc_send
  <1>2. m \in Ctcp /\ m.kind = "SEND" /\ m.offer = o /\ toRecv' \in Seq(Ctcp)
    <2>1. 0 \in Nat
      OBVIOUS
    <2> QED BY <1>0, <1>1, <2>1, Messages
  <1>3. s.stat = "queued" /\ s.pos = 0 /\ s.ack = 0 /\ s.resumable = 0 /\ ~s.ackoffset
    BY DEF NewSend
  <1>4. snd'[o] = s /\ (\A p \in Offers \ {o} : snd'[p] = snd[p]) /\ rcv'[o] = rcv[o] /\ wire'[o] = wire[o]
    BY <1>0, <1>1, Others
  <1> HIDE DEF s, m
  <1>5. Offered(o) /\ Places(o) /\ OwnFile(o)
    BY DEF IInv, Talk, Shape
  <1>6. rcv[o].stat = "none" /\ About(toRecv, "SEND", o) = {} /\ ~rcv[o].resume_sent /\ About(toSend, "RESUME", o) = {}
    BY <1>1, <1>5 DEF Offered, OwnFile
  <1>7. Waiting(o)
    BY <1>6 DEF Waiting, Early
  <1>8. About(toSend, "SEND", o) = {} /\ wire[o] = Blank /\ wire[o].acks = <<>> /\ wire[o].cells = <<>>
    BY <1>5, <1>7, WaitingIs DEF Blank
  <1>9. Queued /\ \A p \in Offers \ {o} : Fewer(p)
    <2>1. \A p \in Offers \ {o} : Rest(toRecv, toRecv', p)
      <3>1. Grown(toRecv, toRecv', m)
        BY <1>1 DEF Grown
      <3> QED BY <1>0, <1>2, <3>1, AppendedElsewhere
    <2>2. \A p \in Offers : Rest(toSend, toSend', p)
      BY <1>0, <1>1, RestOfSame
    <2> QED BY <1>0, <1>1, <1>2, <2>1, <2>2 DEF Queued, Fewer
  <1>10. /\ \A i \in About(toRecv', "ACCEPT", o) : i \in About(toRecv, "ACCEPT", o) /\ toRecv'[i] = toRecv[i]
         /\ \A i \in About(toRecv', "SEND", o) : i = Len(toRecv) + 1
    <2>1. "ACCEPT" \in Kinds /\ "ACCEPT" # m.kind /\ m \in Ctcp /\ Grown(toRecv, toRecv', m) /\ toRecv \in Seq(Ctcp)
      BY <1>0, <1>1, <1>2 DEF Kinds, Grown
    <2>2. \A i \in About(toRecv', "ACCEPT", o) : i \in About(toRecv, "ACCEPT", o) /\ toRecv'[i] = toRecv[i]
      BY <2>1, AppendedOthers
    <2>3. \A i \in About(toRecv', "SEND", o) : i \in About(toRecv, "SEND", o) \/ i = Len(toRecv) + 1
      <3>1. "SEND" = m.kind
        BY <1>2
      <3> QED BY <2>1, <3>1, Appended
    <2> QED BY <1>2, <1>6, <2>2, <2>3
  <1>11. /\ About(toRecv, "ACCEPT", o)' = About(toRecv', "ACCEPT", o)
         /\ About(toRecv, "SEND", o)' = About(toRecv', "SEND", o)
         /\ About(toSend, "SEND", o)' = About(toSend, "SEND", o)
         /\ About(toSend, "RESUME", o)' = About(toSend, "RESUME", o)
    BY <1>1 DEF About
  <1>12. OnDisk' = OnDisk /\ OnDisk \in Nat /\ size' = size
    BY <1>0, <1>1, OnDiskIs DEF OnDisk, consts, size
  <1>13. Places(o)'
    <2>1. \A i \in About(toRecv', "ACCEPT", o) : toRecv'[i].pos \in 1..(size - 1)
      BY <1>5, <1>10 DEF Places
    <2>2. 0 < size /\ 0 <= OnDisk
      BY <1>0, <1>12
    <2> QED BY <1>1, <1>3, <1>4, <1>5, <1>6, <1>11, <1>12, <2>1, <2>2 DEF Places
  <1>14. Offered(o)'
    <2>1. \A i, j \in About(toRecv', "SEND", o) : i = j
      BY <1>10
    <2>2. snd'[o].stat = "queued" /\ rcv'[o].stat = "none" /\ wire'[o] = Blank /\ "queued" \notin Underway
      BY <1>3, <1>4, <1>6, <1>8 DEF Underway
    <2> QED BY <1>6, <1>8, <1>11, <2>1, <2>2 DEF Offered, Blank
  <1>15. o \notin spoilt => Asked(o)' /\ Stream(o)' /\ Acks(o)' /\ Whole(o)'
    <2> SUFFICES ASSUME o \notin spoilt PROVE Asked(o)' /\ Stream(o)' /\ Acks(o)' /\ Whole(o)'
      OBVIOUS
    <2>1. Asked(o)
      BY DEF IInv, Agreed
    <2>2. About(toRecv, "ACCEPT", o) = {}
      BY <1>6, <2>1 DEF Asked, Early
    <2>3. About(toRecv', "ACCEPT", o) = {}
      BY <1>10, <2>2
    <2>4. rcv'[o].stat = "none" /\ ~rcv'[o].resume_sent /\ snd'[o] = s /\ wire'[o].acks = <<>>
      BY <1>4, <1>6, <1>8
    <2>5. Asked(o)'
      BY <1>3, <1>6, <1>11, <2>3, <2>4 DEF Asked, Underway
    <2>6. Stream(o)' /\ Whole(o)'
      BY <2>4 DEF Stream, Whole, Writer, Underway
    <2>7. Acks(o)'
      <3>1. 0 <= size /\ 0 # size
        BY <1>0
      <3>2. Len(wire'[o].acks) = 0
        BY <2>4
      <3> QED BY <1>3, <1>12, <2>4, <3>1, <3>2 DEF Acks, Sound
    <2> QED BY <2>5, <2>6, <2>7
  <1>16. \A p \in Offers \ {o} :
           /\ Places(p)' /\ Offered(p)'
           /\ p \notin spoilt' => Asked(p)' /\ Stream(p)' /\ Acks(p)' /\ Whole(p)'
    <2>1. \A p \in Offers \ {o} : Fewer(p) /\ snd'[p] = snd[p] /\ rcv'[p] = rcv[p] /\ wire'[p] = wire[p]
      BY <1>1, <1>4, <1>9
    <2>2. {o} \in SUBSET Offers /\ spoilt \subseteq spoilt'
      BY <1>1
    <2> QED BY <1>1, <1>9, <2>1, <2>2, OthersKept
  <1>17. Apart' /\ Alone'
    BY <1>1, FilesKept DEF IInv
  <1>18. Talk'
    BY <1>13, <1>14, <1>16 DEF Talk
  <1>19. Agreed'
    BY <1>1, <1>15, <1>16 DEF Agreed
  <1> QED BY <1>17, <1>18, <1>19

LEMMA HandleResumeKeeps ==
    ASSUME IInv, HandleResume PROVE Talk' /\ Apart' /\ Alone' /\ Agreed'
  <1> DEFINE m == Head(toSend)
  <1>0. Shape /\ TypeOK /\ size \in Nat \ {0} /\ toSend \in Seq(Ctcp) /\ toRecv \in Seq(Ctcp)
    <2>1. Shape /\ TypeOK
      BY DEF IInv, Shape
    <2> QED BY <2>1, SizeIs DEF TypeOK
  <1>1. Arrives(toSend, "RESUME") /\ toSend' = Tail(toSend) /\ UNCHANGED <<consts, disk, wire>> /\ UNCHANGED rcv
        /\ UNCHANGED consts /\ UNCHANGED disk /\ UNCHANGED wire
    BY DEF HandleResume
  <1>2. m \in Ctcp /\ toSend' \in Seq(Ctcp) /\ m.kind = "RESUME" /\ m = toSend[1] /\ Len(toSend) \in Nat \ {0}
        /\ Len(Tail(toSend)) = Len(toSend) - 1 /\ (\A i \in 1..Len(Tail(toSend)) : Tail(toSend)[i] = toSend[i + 1])
    BY <1>0, <1>1, Queues
  <1>3. m.offer \in Offers /\ m.pos \in Nat /\ m.passive \in BOOLEAN
    BY <1>2 DEF Ctcp
  <1>4. 1 \in About(toSend, "RESUME", m.offer)
    BY <1>2 DEF About
  <1>5. m.pos \in 1..(size - 1) /\ m.pos <= OnDisk /\ m.pos < size
    <2>1. m.pos \in 1..(size - 1) /\ m.pos <= OnDisk
      BY <1>2, <1>3, <1>4 DEF IInv, Talk, Places
    <2> QED BY <1>0, <2>1
  <1>6. \A p \in Offers : Rest(toSend, toSend', p)
    BY <1>0, <1>1, RestOfTail
  <1>7. OnDisk' = OnDisk /\ OnDisk \in Nat /\ size' = size
    BY <1>0, <1>1, OnDiskIs DEF OnDisk, consts, size
  <1>8. CASE ResumedBy(m) = {} /\ UNCHANGED <<snd, toRecv, spoilt>>
    <2>1. Queued /\ \A p \in Offers : Fewer(p)
      BY <1>0, <1>2, <1>6, <1>8, RestOfSame DEF Queued, Fewer
    <2>2. UNCHANGED <<snd, rcv>> /\ UNCHANGED spoilt
      BY <1>1, <1>8
    <2> QED BY <1>1, <2>1, <2>2, OnlyRead
  <1>9. ASSUME NEW o \in ResumedBy(m),
               LET d == [snd[o] EXCEPT !.resumable = m.pos]
               IN  /\ IF d.resumable < size
                      THEN /\ snd' = [snd EXCEPT ![o] = [d EXCEPT !.pos = m.pos, !.ack = m.pos]]
                           /\ toRecv' = Append(toRecv,
                                 Message("ACCEPT", IF m.passive THEN o ELSE m.offer, m.passive, m.pos))
                      ELSE snd' = [snd EXCEPT ![o] = d] /\ UNCHANGED toRecv
                   /\ spoilt' = IF o = m.offer /\ d.stat = "queued" THEN spoilt
                                ELSE spoilt \cup {o, m.offer}
        PROVE  Talk' /\ Apart' /\ Alone' /\ Agreed'
    <2> DEFINE d == [snd[o] EXCEPT !.resumable = m.pos]
               s == [d EXCEPT !.pos = m.pos, !.ack = m.pos]
               x == IF m.passive THEN o ELSE m.offer
               a == Message("ACCEPT", x, m.passive, m.pos)
    <2>1. o \in Offers /\ snd[o].stat # "none"
      BY <1>3, <1>9 DEF ResumedBy
    <2>2. d.resumable = m.pos /\ d.stat = snd[o].stat
      BY <1>0, <2>1, Fields DEF SendRec
    <2>3. snd' = [snd EXCEPT ![o] = s] /\ toRecv' = Append(toRecv, a)
          /\ spoilt' = (IF o = m.offer /\ snd[o].stat = "queued" THEN spoilt ELSE spoilt \cup {o, m.offer})
      BY <1>5, <1>9, <2>2
    <2>4. s.pos = m.pos /\ s.ack = m.pos /\ s.resumable = m.pos /\ s.stat = snd[o].stat /\ s.ackoffset = snd[o].ackoffset
      BY <1>0, <2>1, Fields DEF SendRec
    <2>5. x \in Offers /\ x \in {o, m.offer}
      BY <1>3, <2>1
    <2> HIDE DEF d, s, x, m
    <2>6. a \in Ctcp /\ a.kind = "ACCEPT" /\ a.offer = x /\ a.pos = m.pos /\ toRecv' \in Seq(Ctcp)
      BY <1>0, <1>3, <2>3, <2>5, Messages
    <2> HIDE DEF a
    <2>7. snd'[o] = s /\ \A p \in Offers \ {o} : snd'[p] = snd[p]
      BY <1>0, <2>1, <2>3, Others
    <2>8. Queued
      BY <1>0, <1>2, <2>6 DEF Queued
    <2>22. Grown(toRecv, toRecv', a)
      BY <2>3 DEF Grown
    <2>9. \A p \in Offers \ {x} : Fewer(p)
      <3> SUFFICES ASSUME NEW p \in Offers \ {x} PROVE Fewer(p)
        OBVIOUS
      <3>1. Rest(toRecv, toRecv', p)
        BY <1>0, <2>6, <2>22, AppendedElsewhere
      <3> QED BY <1>6, <3>1 DEF Fewer
    <2>10. \A p \in Offers : \A i \in About(toRecv', "ACCEPT", p) :
              (i \in About(toRecv, "ACCEPT", p) /\ toRecv'[i] = toRecv[i]) \/ toRecv'[i].pos = m.pos
      <3> SUFFICES ASSUME NEW p \in Offers, NEW i \in About(toRecv', "ACCEPT", p)
                   PROVE  (i \in About(toRecv, "ACCEPT", p) /\ toRecv'[i] = toRecv[i]) \/ toRecv'[i].pos = m.pos
        OBVIOUS
      <3>1. toRecv \in Seq(Ctcp) /\ a \in Ctcp /\ Grown(toRecv, toRecv', a) /\ "ACCEPT" = a.kind
        BY <1>0, <2>22, <2>6
      <3>2. (i \in About(toRecv, "ACCEPT", p) /\ toRecv'[i] = toRecv[i]) \/ toRecv'[i] = a
        BY <3>1, Appended
      <3> QED BY <2>6, <3>2
    <2>11. \A p \in Offers : /\ About(toRecv, "SEND", p) = {} => About(toRecv', "SEND", p) = {}
                             /\ (\A i, j \in About(toRecv, "SEND", p) : i = j) => (\A i, j \in About(toRecv', "SEND", p) : i = j)
      <3>1. toRecv \in Seq(Ctcp) /\ a \in Ctcp /\ Grown(toRecv, toRecv', a) /\ "SEND" \in Kinds /\ "SEND" # a.kind
        BY <1>0, <2>22, <2>6 DEF Kinds
      <3> QED BY <3>1, AppendedOthers
    <2>12. \A p \in Offers :
              /\ \A i \in About(toSend', "RESUME", p) : \E j \in About(toSend, "RESUME", p) : toSend'[i] = toSend[j]
              /\ About(toSend, "RESUME", p) = {} => About(toSend', "RESUME", p) = {}
              /\ About(toSend, "SEND", p) = {} => About(toSend', "SEND", p) = {}
              /\ (\A i, j \in About(toSend, "RESUME", p) : i < j => toSend[i].pos <= toSend[j].pos)
                    => (\A i, j \in About(toSend', "RESUME", p) : i < j => toSend'[i].pos <= toSend'[j].pos)
      <3> SUFFICES ASSUME NEW p \in Offers
                   PROVE  /\ \A i \in About(toSend', "RESUME", p) : \E j \in About(toSend, "RESUME", p) : toSend'[i] = toSend[j]
                          /\ About(toSend, "RESUME", p) = {} => About(toSend', "RESUME", p) = {}
                          /\ About(toSend, "SEND", p) = {} => About(toSend', "SEND", p) = {}
                          /\ (\A i, j \in About(toSend, "RESUME", p) : i < j => toSend[i].pos <= toSend[j].pos)
                                => (\A i, j \in About(toSend', "RESUME", p) : i < j => toSend'[i].pos <= toSend'[j].pos)
        OBVIOUS
      <3>1. toSend \in Seq(Ctcp) /\ toSend' \in Seq(Ctcp) /\ Rest(toSend, toSend', p) /\ "SEND" \in Kinds /\ "RESUME" \in Kinds
        BY <1>0, <1>2, <1>6 DEF Kinds
      <3>2. \A kind \in Kinds : About(toSend, kind, p) = {} => About(toSend', kind, p) = {}
        BY <3>1, RestKeeps
      <3>3. \A kind \in Kinds : \A i \in About(toSend', kind, p) : \E j \in About(toSend, kind, p) : toSend'[i] = toSend[j]
        BY <3>1, RestKeeps
      <3>4. \A kind \in Kinds : (\A i, j \in About(toSend, kind, p) : i < j => toSend[i].pos <= toSend[j].pos)
               => (\A i, j \in About(toSend', kind, p) : i < j => toSend'[i].pos <= toSend'[j].pos)
        BY <3>1, RestKeeps
      <3> QED BY <3>1, <3>2, <3>3, <3>4
    <2>13. \A p \in Offers :
              /\ About(toRecv, "ACCEPT", p)' = About(toRecv', "ACCEPT", p) /\ About(toRecv, "SEND", p)' = About(toRecv', "SEND", p)
              /\ About(toSend, "SEND", p)' = About(toSend', "SEND", p) /\ About(toSend, "RESUME", p)' = About(toSend', "RESUME", p)
      BY DEF About
    <2>14. \A p \in Offers : snd'[p].stat = snd[p].stat /\ rcv'[p] = rcv[p] /\ wire'[p] = wire[p]
      BY <1>1, <2>4, <2>7
    <2>15. \A p \in {o, x} : Places(p)' /\ Offered(p)'
      <3> SUFFICES ASSUME NEW p \in {o, x} PROVE Places(p)' /\ Offered(p)'
        OBVIOUS
      <3>0. p \in Offers /\ Places(p) /\ Offered(p)
        BY <2>1, <2>5 DEF IInv, Talk
      <3>1. \A i \in About(toSend', "RESUME", p) : toSend'[i].pos \in 1..(size - 1) /\ toSend'[i].pos <= OnDisk
        BY <2>12, <3>0 DEF Places
      <3>2. \A i \in About(toRecv', "ACCEPT", p) : toRecv'[i].pos \in 1..(size - 1)
        BY <1>5, <2>10, <3>0 DEF Places
      <3>3. snd'[p].resumable < size /\ snd'[p].resumable <= OnDisk
        BY <1>5, <2>4, <2>7, <3>0 DEF Places
      <3>4. Places(p)'
        BY <1>7, <2>13, <2>14, <3>0, <3>1, <3>2, <3>3 DEF Places
      <3>5. Offered(p)'
        BY <2>11, <2>12, <2>13, <2>14, <3>0 DEF Offered
      <3> QED BY <3>4, <3>5
    <2>16. spoilt \subseteq spoilt' /\ {o, x} \in SUBSET Offers
      BY <2>1, <2>3, <2>5
    <2>17. \A p \in Offers \ {o, x} :
              /\ Places(p)' /\ Offered(p)'
              /\ p \notin spoilt' => Asked(p)' /\ Stream(p)' /\ Acks(p)' /\ Whole(p)'
      <3>1. \A p \in Offers \ {o, x} : Fewer(p) /\ snd'[p] = snd[p] /\ rcv'[p] = rcv[p] /\ wire'[p] = wire[p]
        BY <2>7, <2>9, <2>14
      <3> QED BY <1>1, <2>8, <2>16, <3>1, OthersKept
    <2>18. \A p \in {o, x} : p \notin spoilt' => Asked(p)' /\ Stream(p)' /\ Acks(p)' /\ Whole(p)'
      <3> SUFFICES ASSUME NEW p \in {o, x}, p \notin spoilt' PROVE Asked(p)' /\ Stream(p)' /\ Acks(p)' /\ Whole(p)'
        OBVIOUS
      <3>1. o = m.offer /\ snd[o].stat = "queued" /\ x = o /\ p = o /\ o \notin spoilt
        BY <2>3, <2>5
      <3>2. Asked(o) /\ Stream(o) /\ Acks(o) /\ Whole(o) /\ Offered(o)
        BY <2>1, <3>1 DEF IInv, Talk, Agreed
      <3>3. snd[o].stat \in Live /\ snd[o].resumable <= m.pos /\ rcv[o].resumable \in Nat /\ snd[o].resumable \in Nat
        <4>1. snd[o].stat \in Live
          BY <3>1 DEF Live
        <4> QED BY <1>0, <1>2, <1>4, <2>1, <3>1, <3>2, <4>1, Fields DEF Asked
      <3>4. \A i \in About(toSend', "RESUME", o) : m.pos <= toSend'[i].pos
        <4> SUFFICES ASSUME NEW i \in About(toSend', "RESUME", o) PROVE m.pos <= toSend'[i].pos
          OBVIOUS
        <4>1. i \in 1..Len(Tail(toSend)) /\ i \in Nat /\ toSend'[i] = toSend[i + 1] /\ i + 1 \in 1..Len(toSend)
              /\ toSend'[i].kind = "RESUME" /\ toSend'[i].offer = o
          BY <1>1, <1>2 DEF About
        <4>2. i + 1 \in About(toSend, "RESUME", o) /\ 1 < i + 1
          BY <4>1 DEF About
        <4>3. 1 \in About(toSend, "RESUME", o)
          BY <1>4, <3>1
        <4> QED BY <1>2, <3>2, <4>1, <4>2, <4>3 DEF Asked
      <3>5. \A i \in About(toRecv', "ACCEPT", o) : toRecv'[i].pos <= m.pos
        <4> SUFFICES ASSUME NEW i \in About(toRecv', "ACCEPT", o) PROVE toRecv'[i].pos <= m.pos
          OBVIOUS
        <4>1. CASE i \in About(toRecv, "ACCEPT", o) /\ toRecv'[i] = toRecv[i]
          <5>1. toRecv[i].pos <= snd[o].resumable /\ toRecv[i].pos \in Nat
            BY <1>0, <3>2, <3>3, <4>1, AboutIs DEF Asked
          <5> QED BY <1>3, <3>3, <4>1, <5>1
        <4>2. CASE toRecv'[i].pos = m.pos
          BY <1>3, <4>2
        <4> QED BY <2>1, <2>10, <4>1, <4>2
      <3>6. rcv[o].stat = "queued" /\ rcv[o].resumable # 0 => m.pos <= rcv[o].resumable
        BY <1>2, <1>4, <3>1, <3>2 DEF Asked
      <3>7. rcv[o].stat \in Early => rcv[o].resume_sent
        BY <1>4, <3>1, <3>2 DEF Asked
      <3>8. rcv[o].stat \in Underway => m.pos = rcv[o].resumable /\ snd[o].pos = m.pos
        <4> SUFFICES ASSUME rcv[o].stat \in Underway PROVE m.pos = rcv[o].resumable /\ snd[o].pos = m.pos
          OBVIOUS
        <4>1. m.pos = rcv[o].resumable
          BY <1>2, <1>4, <3>1, <3>2, <3>3 DEF Asked
        <4>2. snd[o].resumable = rcv[o].resumable /\ snd[o].pos = snd[o].resumable
          BY <3>1, <3>2, <3>3 DEF Asked
        <4> QED BY <4>1, <4>2
      <3>9. snd'[o] = s /\ rcv'[o] = rcv[o] /\ wire'[o] = wire[o]
        BY <2>1, <2>7, <2>14
      <3>10. Asked(o)'
        <4>1. \A i, j \in About(toSend', "RESUME", o) : i < j => toSend'[i].pos <= toSend'[j].pos
          BY <2>1, <2>12, <3>2 DEF Asked
        <4>2. rcv[o].stat = "queued" /\ rcv[o].resumable # 0 =>
                 \A i \in About(toSend', "RESUME", o) : toSend'[i].pos <= rcv[o].resumable
          BY <2>1, <2>12, <3>2 DEF Asked
        <4>3. rcv[o].stat \in Underway => \A i \in About(toSend', "RESUME", o) : toSend'[i].pos = rcv[o].resumable
          BY <2>1, <2>12, <3>2, <3>3 DEF Asked
        <4> QED BY <2>1, <2>4, <2>13, <3>4, <3>5, <3>6, <3>7, <3>8, <3>9, <4>1, <4>2, <4>3 DEF Asked
      <3>11. Stream(o)'
        <4>1. rcv'[o].stat \in Underway =>
              /\ rcv[o].stat \in Underway /\ rcv'[o].open = rcv[o].open /\ rcv'[o].pos = rcv[o].pos
              /\ rcv'[o].resumable = rcv[o].resumable /\ wire'[o].cells = wire[o].cells
              /\ snd'[o].stat \in Live /\ wire'[o].link # "cut" =>
                    snd[o].stat \in Live /\ wire[o].link # "cut" /\ snd'[o].pos = snd[o].pos
          BY <2>4, <3>3, <3>8, <3>9
        <4> QED BY <1>1, <2>1, <3>2, <4>1, StreamKept
      <3>12. Acks(o)'
        <4>1. wire'[o].acks = <<>> /\ Len(wire'[o].acks) = 0
          BY <3>1, <3>2, <3>9 DEF Offered
        <4>2. size < Wrap => ~snd[o].ackoffset
          BY <3>2, <3>3 DEF Acks
        <4>3. m.pos <= size /\ m.pos # size
          BY <1>0, <1>3, <1>5
        <4> QED BY <1>7, <2>4, <3>1, <3>9, <4>1, <4>2, <4>3 DEF Acks, Sound
      <3>13. Whole(o)'
        <4>1. Writer(o)' = Writer(o) /\ Start(o)' = Start(o)
          BY <3>9 DEF Writer, Start
        <4>2. Cells(0, Start(o))' = Cells(0, Start(o))
          BY <4>1 DEF Cells
        <4> QED BY <1>1, <3>2, <3>9, <4>1, <4>2 DEF Whole
      <3> QED BY <3>1, <3>10, <3>11, <3>12, <3>13
    <2>19. Apart' /\ Alone'
      BY <1>1, <2>16, FilesKept DEF IInv
    <2>20. Talk'
      BY <2>15, <2>17 DEF Talk
    <2>21. Agreed'
      BY <2>17, <2>18 DEF Agreed
    <2> QED BY <2>19, <2>20, <2>21
  <1> QED BY <1>8, <1>9 DEF HandleResume

\* what a step about o that puts m into toSend leaves of the messages there
LEMMA AskedWith ==
    ASSUME NEW q \in Seq(Ctcp), NEW m \in Ctcp, NEW r, Grown(q, r, m), NEW o \in Offers, m.offer = o
    PROVE  /\ \A p \in Offers \ {o} : Rest(q, r, p)
           /\ r \in Seq(Ctcp)
           /\ m.kind # "SEND" /\ About(q, "SEND", o) = {} => About(r, "SEND", o) = {}
  <1>1. \A p \in Offers \ {o} : Rest(q, r, p)
    BY AppendedElsewhere
  <1>2. r \in Seq(Ctcp)
    BY AppendProperties DEF Grown
  <1>3. m.kind # "SEND" /\ About(q, "SEND", o) = {} => About(r, "SEND", o) = {}
    BY AppendedOthers
  <1> QED BY <1>1, <1>2, <1>3

\* a RESUME is appended, or nothing
RequestSent(o, r) ==
    \/ UNCHANGED toSend /\ r.resume_sent = rcv[o].resume_sent
    \/ /\ r.resumable # 0 /\ r.resume_sent
       /\ \E m \in Ctcp : m.kind = "RESUME" /\ m.offer = o /\ m.pos = r.resumable /\ Grown(toSend, toSend', m)

LEMMA RequestIs ==
    ASSUME NEW o \in Offers, NEW r \in RecvRec, toSend \in Seq(Ctcp), RequestSent(o, r)
    PROVE  /\ toSend' \in Seq(Ctcp) /\ \A p \in Offers \ {o} : Rest(toSend, toSend', p)
           /\ About(toSend, "SEND", o) = {} => About(toSend', "SEND", o) = {}
           /\ \A i \in About(toSend', "RESUME", o) :
                 \/ i \in About(toSend, "RESUME", o) /\ toSend'[i] = toSend[i]
                 \/ i = Len(toSend) + 1 /\ toSend'[i].pos = r.resumable /\ r.resumable # 0
           /\ ~r.resume_sent => ~rcv[o].resume_sent /\ About(toSend', "RESUME", o) \subseteq About(toSend, "RESUME", o)
  <1>1. CASE UNCHANGED toSend /\ r.resume_sent = rcv[o].resume_sent
    BY <1>1, RestOfSame
  <1>2. ASSUME r.resumable # 0 /\ r.resume_sent, NEW m \in Ctcp,
               m.kind = "RESUME" /\ m.offer = o /\ m.pos = r.resumable /\ Grown(toSend, toSend', m)
        PROVE  /\ toSend' \in Seq(Ctcp) /\ \A p \in Offers \ {o} : Rest(toSend, toSend', p)
               /\ About(toSend, "SEND", o) = {} => About(toSend', "SEND", o) = {}
               /\ \A i \in About(toSend', "RESUME", o) :
                     \/ i \in About(toSend, "RESUME", o) /\ toSend'[i] = toSend[i]
                     \/ i = Len(toSend) + 1 /\ toSend'[i].pos = r.resumable /\ r.resumable # 0
    <2>1. /\ \A p \in Offers \ {o} : Rest(toSend, toSend', p)
          /\ toSend' \in Seq(Ctcp)
          /\ m.kind # "SEND" /\ About(toSend, "SEND", o) = {} => About(toSend', "SEND", o) = {}
          /\ \A i \in About(toSend', "RESUME", o) :
                \/ i \in About(toSend, "RESUME", o) /\ toSend'[i] = toSend[i]
                \/ i = Len(toSend) + 1 /\ toSend'[i] = m
      <3>1. Grown(toSend, toSend', m) /\ m.offer = o
        BY <1>2
      <3>2. \A p \in Offers \ {o} : Rest(toSend, toSend', p)
        BY <3>1, AskedWith
      <3>3. toSend' \in Seq(Ctcp)
        BY <3>1, AskedWith
      <3>4. m.kind # "SEND" /\ About(toSend, "SEND", o) = {} => About(toSend', "SEND", o) = {}
        BY <3>1, AskedWith
      <3>5. \A i \in About(toSend', "RESUME", o) :
               \/ i \in About(toSend, "RESUME", o) /\ toSend'[i] = toSend[i]
               \/ i = Len(toSend) + 1 /\ toSend'[i] = m
        BY <3>1, Appended
      <3> QED BY <3>2, <3>3, <3>4, <3>5
    <2> QED BY <1>2, <2>1
  <1> QED BY <1>1, <1>2 DEF RequestSent

\* the receiver keeps an offer, and may ask to go on with what it has
LEMMA QueueStep ==
    ASSUME IInv, NEW o \in Offers, NEW r \in RecvRec, rcv' = [rcv EXCEPT ![o] = r],
           UNCHANGED <<consts, snd, disk>>, UNCHANGED wire, UNCHANGED spoilt,
           toRecv' \in Seq(Ctcp), \A p \in Offers : Rest(toRecv, toRecv', p), About(toRecv', "SEND", o) = {},
           rcv[o].stat \in Early, snd[o].stat # "none", r.stat = "queued", ~r.open, r.destfile = 0,
           r.resumable # 0 =>
              /\ r.resumable = OnDisk /\ r.resumable < size
              /\ \A p \in Offers \ {o} : rcv[p].stat \in Underway => rcv[p].destfile # 0,
           RequestSent(o, r)
    PROVE  Talk' /\ Apart' /\ Alone' /\ Agreed'
  <1>0. Shape /\ TypeOK /\ size \in Nat \ {0} /\ toSend \in Seq(Ctcp) /\ toRecv \in Seq(Ctcp)
        /\ snd[o].resumable \in Nat /\ r.resumable \in Nat
    BY Fields DEF IInv, Shape, RecvRec
  <1>1. /\ toSend' \in Seq(Ctcp) /\ \A p \in Offers \ {o} : Rest(toSend, toSend', p)
        /\ About(toSend, "SEND", o) = {} => About(toSend', "SEND", o) = {}
        /\ \A i \in About(toSend', "RESUME", o) :
              \/ i \in About(toSend, "RESUME", o) /\ toSend'[i] = toSend[i]
              \/ i = Len(toSend) + 1 /\ toSend'[i].pos = r.resumable /\ r.resumable # 0
        /\ ~r.resume_sent => ~rcv[o].resume_sent /\ About(toSend', "RESUME", o) \subseteq About(toSend, "RESUME", o)
    BY <1>0, RequestIs
  <1>2. rcv'[o] = r /\ (\A p \in Offers \ {o} : rcv'[p] = rcv[p]) /\ snd' = snd /\ wire' = wire /\ UNCHANGED consts /\ UNCHANGED disk
    BY <1>0, Others
  <1>3. OnDisk' = OnDisk /\ OnDisk \in Nat /\ size' = size
    BY <1>0, <1>2, OnDiskIs DEF OnDisk, consts, size
  <1>4. Offered(o) /\ Places(o)
    BY DEF IInv, Talk
  <1>5. Waiting(o)
    BY DEF Waiting
  <1>6. snd[o].stat \notin Underway /\ About(toSend, "SEND", o) = {} /\ wire[o] = Blank
    BY <1>4, <1>5, WaitingIs
  <1>7. /\ About(toRecv, "ACCEPT", o)' = About(toRecv', "ACCEPT", o)
        /\ About(toRecv, "SEND", o)' = About(toRecv', "SEND", o)
        /\ About(toSend, "SEND", o)' = About(toSend', "SEND", o)
        /\ About(toSend, "RESUME", o)' = About(toSend', "RESUME", o)
    BY DEF About
  <1>8. r.resumable < size /\ r.resumable <= OnDisk
    BY <1>0, <1>3
  <1>9. \A i \in About(toRecv', "ACCEPT", o) : \E j \in About(toRecv, "ACCEPT", o) : toRecv'[i] = toRecv[j]
    <2>1. toRecv \in Seq(Ctcp) /\ toRecv' \in Seq(Ctcp) /\ Rest(toRecv, toRecv', o) /\ "ACCEPT" \in Kinds
      BY <1>0 DEF Kinds
    <2> QED BY <2>1, RestKeeps
  <1>10. Places(o)'
    <2>1. \A i \in About(toSend', "RESUME", o) : toSend'[i].pos \in 1..(size - 1) /\ toSend'[i].pos <= OnDisk
      <3> SUFFICES ASSUME NEW i \in About(toSend', "RESUME", o)
                   PROVE  toSend'[i].pos \in 1..(size - 1) /\ toSend'[i].pos <= OnDisk
        OBVIOUS
      <3>1. CASE i \in About(toSend, "RESUME", o) /\ toSend'[i] = toSend[i]
        BY <1>4, <3>1 DEF Places
      <3>2. CASE toSend'[i].pos = r.resumable /\ r.resumable # 0
        BY <1>0, <1>8, <3>2
      <3> QED BY <1>1, <3>1, <3>2
    <2>2. \A i \in About(toRecv', "ACCEPT", o) : toRecv'[i].pos \in 1..(size - 1)
      BY <1>4, <1>9 DEF Places
    <2>3. snd'[o].resumable < size /\ snd'[o].resumable <= OnDisk
      BY <1>2, <1>4 DEF Places
    <2> QED BY <1>2, <1>3, <1>7, <1>8, <2>1, <2>2, <2>3 DEF Places
  <1>11. Offered(o)'
    <2>1. wire[o].cells = <<>> /\ wire[o].acks = <<>>
      BY <1>6 DEF Blank
    <2>2. About(toSend', "SEND", o) = {}
      BY <1>1, <1>6
    <2> QED BY <1>2, <1>6, <1>7, <2>1, <2>2 DEF Offered, Blank
  <1>12. o \notin spoilt => Asked(o)' /\ Stream(o)' /\ Acks(o)' /\ Whole(o)'
    <2> SUFFICES ASSUME o \notin spoilt PROVE Asked(o)' /\ Stream(o)' /\ Acks(o)' /\ Whole(o)'
      OBVIOUS
    <2>1. Asked(o) /\ Acks(o)
      BY DEF IInv, Agreed
    <2>2. \A i \in About(toSend, "RESUME", o) : i \in 1..Len(toSend) /\ toSend[i].pos \in Nat
      BY <1>0, AboutIs
    <2>3. Len(toSend) \in Nat
      BY <1>0
    <2>4. \A i \in About(toSend, "RESUME", o) : r.resumable # 0 => toSend[i].pos <= r.resumable
      BY <1>4 DEF Places
    <2>5. \A i, j \in About(toSend', "RESUME", o) : i < j => toSend'[i].pos <= toSend'[j].pos
      <3> SUFFICES ASSUME NEW i \in About(toSend', "RESUME", o), NEW j \in About(toSend', "RESUME", o), i < j
                   PROVE  toSend'[i].pos <= toSend'[j].pos
        OBVIOUS
      <3>1. CASE i \in About(toSend, "RESUME", o) /\ toSend'[i] = toSend[i] /\ j \in About(toSend, "RESUME", o) /\ toSend'[j] = toSend[j]
        BY <2>1, <3>1 DEF Asked
      <3>2. CASE i \in About(toSend, "RESUME", o) /\ toSend'[i] = toSend[i] /\ toSend'[j].pos = r.resumable /\ r.resumable # 0
        BY <2>4, <3>2
      <3>3. CASE i = Len(toSend) + 1
        <4>1. j \in 1..Len(toSend) \/ j = Len(toSend) + 1
          BY <1>1, <2>2
        <4> QED BY <2>3, <3>3, <4>1
      <3> QED BY <1>1, <3>1, <3>2, <3>3
    <2>6. snd[o].stat \in Live =>
             /\ \A i \in About(toSend', "RESUME", o) : snd[o].resumable <= toSend'[i].pos
             /\ \A i \in About(toRecv', "ACCEPT", o) : toRecv'[i].pos <= snd[o].resumable
      <3> SUFFICES ASSUME snd[o].stat \in Live
                   PROVE  /\ \A i \in About(toSend', "RESUME", o) : snd[o].resumable <= toSend'[i].pos
                          /\ \A i \in About(toRecv', "ACCEPT", o) : toRecv'[i].pos <= snd[o].resumable
        OBVIOUS
      <3>1. \A i \in About(toRecv', "ACCEPT", o) : toRecv'[i].pos <= snd[o].resumable
        BY <1>9, <2>1 DEF Asked
      <3>2. r.resumable # 0 => snd[o].resumable <= r.resumable
        BY <1>4 DEF Places
      <3>3. \A i \in About(toSend', "RESUME", o) : snd[o].resumable <= toSend'[i].pos
        BY <1>1, <2>1, <3>2 DEF Asked
      <3> QED BY <3>1, <3>3
    <2>7. r.resumable # 0 =>
             /\ \A i \in About(toSend', "RESUME", o) : toSend'[i].pos <= r.resumable
             /\ snd[o].stat \in Live => snd[o].resumable <= r.resumable
      <3> SUFFICES ASSUME r.resumable # 0
                   PROVE  /\ \A i \in About(toSend', "RESUME", o) : toSend'[i].pos <= r.resumable
                          /\ snd[o].resumable <= r.resumable
        OBVIOUS
      <3>1. snd[o].resumable <= r.resumable
        BY <1>4 DEF Places
      <3>2. \A i \in About(toSend', "RESUME", o) : toSend'[i].pos <= r.resumable
        <4> SUFFICES ASSUME NEW i \in About(toSend', "RESUME", o) PROVE toSend'[i].pos <= r.resumable
          OBVIOUS
        <4>1. CASE i \in About(toSend, "RESUME", o) /\ toSend'[i] = toSend[i]
          BY <2>4, <4>1
        <4>2. CASE toSend'[i].pos = r.resumable
          BY <1>0, <4>2
        <4> QED BY <1>1, <4>1, <4>2
      <3> QED BY <3>1, <3>2
    <2>8. ~r.resume_sent =>
             /\ About(toSend', "RESUME", o) = {} /\ About(toRecv', "ACCEPT", o) = {}
             /\ snd[o].stat \in Live => snd[o].resumable = 0
      BY <1>1, <1>9, <2>1 DEF Asked
    <2>9. "queued" \notin Underway /\ "queued" \in Early /\ "queued" \notin Over
      BY DEF Underway, Early, Over
    <2>10. snd[o].stat \in {"queued", "connecting"} => snd[o].pos = snd[o].resumable /\ snd[o].ack = snd[o].pos
      BY <2>1 DEF Asked
    <2>11. Asked(o)'
      BY <1>2, <1>7, <2>5, <2>6, <2>7, <2>8, <2>9, <2>10 DEF Asked
    <2>12. Stream(o)' /\ Whole(o)'
      BY <1>2, <2>9 DEF Stream, Whole, Writer
    <2>13. Acks(o)'
      <3>1. rcv[o].stat \notin Over
        BY DEF Early, Over
      <3>2. \A i \in 1..Len(wire'[o].acks) : \E j \in 1..Len(wire[o].acks) : wire'[o].acks[i] = wire[o].acks[j]
        BY <1>2
      <3> QED BY <1>2, <2>1, <3>1, <3>2, AcksKept
    <2> QED BY <2>11, <2>12, <2>13
  <1>13. \A p \in Offers \ {o} :
           /\ Places(p)' /\ Offered(p)'
           /\ p \notin spoilt' => Asked(p)' /\ Stream(p)' /\ Acks(p)' /\ Whole(p)'
    <2>1. \A p \in Offers \ {o} : Fewer(p) /\ snd'[p] = snd[p] /\ rcv'[p] = rcv[p] /\ wire'[p] = wire[p]
      BY <1>1, <1>2 DEF Fewer
    <2>2. {o} \in SUBSET Offers /\ spoilt \subseteq spoilt' /\ Queued
      BY <1>0, <1>1 DEF Queued
    <2> QED BY <1>2, <2>1, <2>2, OthersKept
  <1>14. Apart'
    <2> SUFFICES ASSUME NEW p \in Offers, NEW q \in Offers,
                        rcv'[q].stat = "queued" /\ rcv'[q].resumable # 0,
                        rcv'[p].stat \in Underway /\ rcv'[p].open /\ rcv'[p].resumable = 0
                 PROVE  rcv'[p].destfile # 0
      BY DEF Apart
    <2>1. p # o
      BY <1>2 DEF Underway
    <2>2. CASE q = o
      BY <1>2, <2>1, <2>2
    <2>3. CASE q # o
      BY <1>2, <2>1, <2>3 DEF IInv, Apart
    <2> QED BY <2>2, <2>3
  <1>15. Alone'
    <2>1. \A p \in Offers : Writer(p)' => p # o /\ Writer(p)
      BY <1>2 DEF Writer, Underway
    <2> QED BY <1>2, <2>1 DEF IInv, Alone
  <1>16. Talk'
    BY <1>10, <1>11, <1>13 DEF Talk
  <1>17. Agreed'
    BY <1>12, <1>13 DEF Agreed
  <1> QED BY <1>14, <1>15, <1>16, <1>17

\* where a connected transfer begins, if both ends were asked to begin at the same cell
BothAsked(o, d) ==
    /\ snd[o].stat \in Live =>
          snd[o].resumable = d.resumable /\ \A i \in About(toSend, "RESUME", o) : toSend[i].pos = d.resumable
    /\ d.resumable = 0 => d.pos = 0

\* the receiver accepts an offer
LEMMA ConnectStep ==
    ASSUME IInv, NEW o \in Offers, NEW d \in RecvRec, NEW agreed \in BOOLEAN, dcc_connect(o, d, agreed),
           UNCHANGED <<consts, snd, disk>>, UNCHANGED wire,
           toRecv' \in Seq(Ctcp), \A p \in Offers : Rest(toRecv, toRecv', p), About(toRecv', "SEND", o) = {},
           rcv[o].stat \in Early, snd[o].stat # "none", ~d.open, d.destfile = 0,
           d.resumable < size, d.resumable <= OnDisk,
           d.resumable # 0 =>
              \A p \in Offers \ {o} : rcv[p].stat \in Underway /\ rcv[p].open /\ rcv[p].resumable = 0 => rcv[p].destfile # 0,
           agreed /\ o \notin spoilt => BothAsked(o, d)
    PROVE  Talk' /\ Apart' /\ Alone' /\ Agreed'
  <1> DEFINE r == [d EXCEPT !.stat = "connecting"]
             others == {p \in InProgress(o, d) : rcv[p].resumable # 0}
             alone == d.resumable = 0 \/ (others = {} /\ disk[d.destfile] = Cells(0, d.resumable))
             m == Message("SEND", o, TRUE, 0)
  <1>0. Shape /\ TypeOK /\ size \in Nat \ {0} /\ toSend \in Seq(Ctcp) /\ toRecv \in Seq(Ctcp)
        /\ snd[o].resumable \in Nat /\ snd[o].pos \in Nat /\ d.resumable \in Nat /\ d.pos \in Nat /\ d.passive \in BOOLEAN
    BY Fields DEF IInv, Shape, RecvRec
  <1>1. /\ rcv' = [rcv EXCEPT ![o] = r]
        /\ toSend' = IF d.passive THEN Append(toSend, m) ELSE toSend
        /\ spoilt' = spoilt \cup (IF agreed THEN {} ELSE {o}) \cup (IF alone THEN {} ELSE {o} \cup others)
    BY Zenon DEF dcc_connect
  <1>2. /\ r.stat = "connecting" /\ ~r.open /\ r.destfile = 0 /\ r.resumable = d.resumable /\ r.pos = d.pos
        /\ r.passive = d.passive
    BY DEF RecvRec
  <1>3. others = {p \in Offers \ {o} : rcv[p].stat \in Underway /\ rcv[p].destfile = 0 /\ rcv[p].resumable # 0}
    BY DEF InProgress
  <1>4. alone => (d.resumable # 0 => others = {} /\ disk[0] = Cells(0, d.resumable))
    OBVIOUS
  <1>5. spoilt \subseteq spoilt' /\ (o \notin spoilt' => agreed /\ alone) /\ (~alone => {o} \cup others \subseteq spoilt')
    BY <1>1
  <1>6. m \in Ctcp /\ m.kind = "SEND" /\ m.offer = o
    <2>1. 0 \in Nat /\ TRUE \in BOOLEAN /\ "SEND" \in {"SEND", "RESUME", "ACCEPT"}
      OBVIOUS
    <2> QED BY <2>1 DEF Message, Ctcp
  <1> HIDE DEF r, others, alone, m
  <1>7. rcv'[o] = r /\ (\A p \in Offers \ {o} : rcv'[p] = rcv[p]) /\ snd' = snd /\ wire' = wire /\ UNCHANGED consts /\ UNCHANGED disk
    BY <1>0, <1>1, Others
  <1>8. /\ toSend' \in Seq(Ctcp) /\ \A p \in Offers \ {o} : Rest(toSend, toSend', p)
        /\ ~d.passive /\ About(toSend, "SEND", o) = {} => About(toSend', "SEND", o) = {}
        /\ \A i \in About(toSend', "RESUME", o) : i \in About(toSend, "RESUME", o) /\ toSend'[i] = toSend[i]
    <2>1. CASE d.passive
      <3>1. Grown(toSend, toSend', m) /\ m.kind # "RESUME"
        BY <1>1, <1>6, <2>1 DEF Grown
      <3>2. toSend \in Seq(Ctcp) /\ m \in Ctcp /\ m.offer = o
        BY <1>0, <1>6
      <3>3. \A p \in Offers \ {o} : Rest(toSend, toSend', p)
        BY <3>1, <3>2, AskedWith
      <3>4. toSend' \in Seq(Ctcp)
        BY <3>1, <3>2, AskedWith
      <3>5. \A i \in About(toSend', "RESUME", o) : i \in About(toSend, "RESUME", o) /\ toSend'[i] = toSend[i]
        BY <3>1, <3>2, AppendedOthers
      <3> QED BY <2>1, <3>3, <3>4, <3>5
    <2>2. CASE ~d.passive
      <3>1. toSend' = toSend
        BY <1>1, <2>2
      <3> QED BY <1>0, <3>1, RestOfSame
    <2> QED BY <2>1, <2>2
  <1>9. OnDisk' = OnDisk /\ OnDisk \in Nat /\ size' = size
    BY <1>0, <1>7, OnDiskIs DEF OnDisk, consts, size
  <1>10. Offered(o) /\ Places(o)
    BY DEF IInv, Talk
  <1>11. Waiting(o)
    BY DEF Waiting
  <1>12. snd[o].stat \notin Underway /\ About(toSend, "SEND", o) = {} /\ wire[o] = Blank
    BY <1>10, <1>11, WaitingIs
  <1>13. /\ About(toRecv, "ACCEPT", o)' = About(toRecv', "ACCEPT", o)
         /\ About(toRecv, "SEND", o)' = About(toRecv', "SEND", o)
         /\ About(toSend, "SEND", o)' = About(toSend', "SEND", o)
         /\ About(toSend, "RESUME", o)' = About(toSend', "RESUME", o)
    BY DEF About
  <1>14. \A i \in About(toRecv', "ACCEPT", o) : \E j \in About(toRecv, "ACCEPT", o) : toRecv'[i] = toRecv[j]
    <2>1. toRecv \in Seq(Ctcp) /\ toRecv' \in Seq(Ctcp) /\ Rest(toRecv, toRecv', o) /\ "ACCEPT" \in Kinds
      BY <1>0 DEF Kinds
    <2> QED BY <2>1, RestKeeps
  <1>15. Places(o)'
    <2>1. \A i \in About(toSend', "RESUME", o) : toSend'[i].pos \in 1..(size - 1) /\ toSend'[i].pos <= OnDisk
      BY <1>8, <1>10 DEF Places
    <2>2. \A i \in About(toRecv', "ACCEPT", o) : toRecv'[i].pos \in 1..(size - 1)
      BY <1>10, <1>14 DEF Places
    <2>3. snd'[o].resumable < size /\ snd'[o].resumable <= OnDisk
      BY <1>7, <1>10 DEF Places
    <2> QED BY <1>2, <1>7, <1>9, <1>13, <2>1, <2>2, <2>3 DEF Places
  <1>16. Offered(o)'
    <2>1. wire[o].cells = <<>> /\ wire[o].acks = <<>>
      BY <1>12 DEF Blank
    <2>2. ~r.passive => About(toSend', "SEND", o) = {}
      BY <1>2, <1>8, <1>12
    <2>3. "connecting" \notin Early /\ "connecting" # "none"
      BY DEF Early
    <2> QED BY <1>2, <1>7, <1>12, <1>13, <2>1, <2>2, <2>3 DEF Offered, Blank
  <1>17. o \notin spoilt' => Asked(o)' /\ Stream(o)' /\ Acks(o)' /\ Whole(o)'
    <2> SUFFICES ASSUME o \notin spoilt' PROVE Asked(o)' /\ Stream(o)' /\ Acks(o)' /\ Whole(o)'
      OBVIOUS
    <2>0. agreed /\ alone /\ o \notin spoilt
      BY <1>5
    <2>1. Asked(o) /\ Acks(o) /\ BothAsked(o, d)
      BY <2>0 DEF IInv, Agreed
    <2>2. "connecting" \in Underway /\ "connecting" \notin Early /\ "connecting" # "queued" /\ "connecting" \notin Over
      BY DEF Underway, Early, Over
    <2>3. \A i, j \in About(toSend', "RESUME", o) : i < j => toSend'[i].pos <= toSend'[j].pos
      BY <1>8, <2>1 DEF Asked
    <2>4. snd[o].stat \in Live =>
             /\ \A i \in About(toSend', "RESUME", o) : snd[o].resumable <= toSend'[i].pos
             /\ \A i \in About(toRecv', "ACCEPT", o) : toRecv'[i].pos <= snd[o].resumable
      BY <1>8, <1>14, <2>1 DEF Asked
    <2>5. snd[o].stat \in {"queued", "connecting"} => snd[o].pos = snd[o].resumable /\ snd[o].ack = snd[o].pos
      BY <2>1 DEF Asked
    <2>6. snd[o].stat \in Live =>
             /\ snd[o].resumable = r.resumable
             /\ \A i \in About(toSend', "RESUME", o) : toSend'[i].pos = r.resumable
      BY <1>2, <1>8, <2>1 DEF BothAsked
    <2>7. Asked(o)'
      BY <1>2, <1>7, <1>13, <2>2, <2>3, <2>4, <2>5, <2>6 DEF Asked
    <2>8. Start(o)' = d.resumable
      BY <1>2, <1>7 DEF Start
    <2>9. Stream(o)'
      <3>1. wire'[o].cells = <<>> /\ Len(wire'[o].cells) = 0
        BY <1>7, <1>12 DEF Blank
      <3>2. Cells(Start(o)', 0) = <<>>
        BY DEF Cells
      <3>3. snd'[o].stat \in Live => snd'[o].pos = d.resumable
        <4>1. snd[o].stat \in Live => snd[o].stat = "queued"
          BY <1>12 DEF Live
        <4> QED BY <1>2, <1>7, <2>5, <2>6, <4>1
      <3>4. Start(o)' + 0 = d.resumable /\ d.resumable <= size
        BY <1>0, <2>8
      <3>5. rcv'[o].resumable = 0 => rcv'[o].pos = 0
        BY <1>2, <1>7, <2>1 DEF BothAsked
      <3>6. rcv'[o].resumable = d.resumable
        BY <1>2, <1>7
      <3>7. wire'[o].cells = Cells(Start(o)', 0)
        BY <3>1, <3>2
      <3>8. wire'[o].cells = Cells(Start(o)', Len(wire'[o].cells))
        BY <3>1, <3>7
      <3>9. Cells(Start(o), Len(wire[o].cells))' = Cells(Start(o)', Len(wire'[o].cells))
        BY DEF Cells
      <3>10. rcv'[o].resumable <= Start(o)'
        BY <1>0, <2>8, <3>6
      <3> QED BY <1>9, <2>8, <3>1, <3>3, <3>4, <3>5, <3>8, <3>9, <3>10 DEF Stream
    <2>10. Acks(o)'
      <3>1. rcv[o].stat \notin Over
        BY DEF Early, Over
      <3>2. \A i \in 1..Len(wire'[o].acks) : \E j \in 1..Len(wire[o].acks) : wire'[o].acks[i] = wire[o].acks[j]
        BY <1>7
      <3> QED BY <1>7, <2>1, <3>1, <3>2, AcksKept
    <2>11. Whole(o)'
      <3> SUFFICES ASSUME Writer(o)' PROVE disk'[rcv'[o].destfile] = Cells(0, Start(o))'
        BY DEF Whole
      <3>1. d.resumable # 0
        BY <1>2, <1>7 DEF Writer
      <3>2. disk[0] = Cells(0, d.resumable)
        BY <1>4, <2>0, <3>1
      <3>3. Cells(0, Start(o))' = Cells(0, d.resumable)
        BY <2>8 DEF Cells
      <3> QED BY <1>2, <1>7, <3>2, <3>3
    <2> QED BY <2>7, <2>9, <2>10, <2>11
  <1>18. \A p \in Offers \ {o} :
           /\ Places(p)' /\ Offered(p)'
           /\ p \notin spoilt' => Asked(p)' /\ Stream(p)' /\ Acks(p)' /\ Whole(p)'
    <2>1. \A p \in Offers \ {o} : Fewer(p) /\ snd'[p] = snd[p] /\ rcv'[p] = rcv[p] /\ wire'[p] = wire[p]
      BY <1>7, <1>8 DEF Fewer
    <2>2. {o} \in SUBSET Offers /\ Queued
      BY <1>0, <1>8 DEF Queued
    <2> QED BY <1>5, <1>7, <2>1, <2>2, OthersKept
  <1>19. Apart'
    <2> SUFFICES ASSUME NEW p \in Offers, NEW q \in Offers,
                        rcv'[q].stat = "queued" /\ rcv'[q].resumable # 0,
                        rcv'[p].stat \in Underway /\ rcv'[p].open /\ rcv'[p].resumable = 0
                 PROVE  rcv'[p].destfile # 0
      BY DEF Apart
    <2>1. p # o /\ q # o
      BY <1>2, <1>7
    <2> QED BY <1>7, <2>1 DEF IInv, Apart
  <1>20. Alone'
    <2>1. \A p \in Offers \ {o} : Writer(p)' /\ Writer(o)' /\ rcv'[p].destfile = rcv'[o].destfile => o \in spoilt' /\ p \in spoilt'
      <3> SUFFICES ASSUME NEW p \in Offers \ {o}, Writer(p)', Writer(o)', rcv'[p].destfile = rcv'[o].destfile
                   PROVE  o \in spoilt' /\ p \in spoilt'
        OBVIOUS
      <3>1. d.resumable # 0
        BY <1>2, <1>7 DEF Writer
      <3>2. rcv[p].stat \in Underway /\ (rcv[p].open \/ rcv[p].resumable # 0) /\ rcv[p].destfile = 0
        BY <1>2, <1>7 DEF Writer
      <3>3. rcv[p].resumable # 0
        BY <3>1, <3>2
      <3>4. p \in others
        BY <1>3, <3>2, <3>3
      <3>5. ~alone
        BY <1>4, <3>1, <3>4
      <3> QED BY <1>5, <3>4, <3>5
    <2>2. \A p, q \in Offers \ {o} : p # q /\ Writer(p)' /\ Writer(q)' /\ rcv'[p].destfile = rcv'[q].destfile => p \in spoilt'
      <3>1. \A p \in Offers \ {o} : Writer(p)' => Writer(p)
        BY <1>7 DEF Writer
      <3> QED BY <1>5, <1>7, <3>1 DEF IInv, Alone
    <2> QED BY <2>1, <2>2 DEF Alone
  <1>21. Talk'
    BY <1>15, <1>16, <1>18 DEF Talk
  <1>22. Agreed'
    BY <1>17, <1>18 DEF Agreed
  <1> QED BY <1>19, <1>20, <1>21, <1>22

\* the context of a step in which the receiver decides about o; d is the record it decides on
Deciding(o, d) ==
    /\ d.stat = "queued" /\ ~d.open /\ d.destfile = 0 /\ d.resume_sent = rcv[o].resume_sent
    /\ rcv[o].stat \in Early /\ snd[o].stat # "none"
    /\ UNCHANGED <<consts, snd, disk>> /\ UNCHANGED wire
    /\ toRecv' \in Seq(Ctcp) /\ (\A p \in Offers : Rest(toRecv, toRecv', p)) /\ About(toRecv', "SEND", o) = {}

LEMMA dcc_resumeKeeps ==
    ASSUME IInv, NEW o \in Offers, NEW d \in RecvRec, Deciding(o, d), dcc_resume(o, d)
    PROVE  Talk' /\ Apart' /\ Alone' /\ Agreed'
  <1> DEFINE u == update_is_resumable(o, d)
             v == [u EXCEPT !.resume_sent = TRUE]
             m == Message("RESUME", o, d.passive, u.resumable)
  <1>0. Shape /\ toSend \in Seq(Ctcp) /\ d.passive \in BOOLEAN
    BY Fields DEF IInv, RecvRec
  <1>1. /\ u \in RecvRec /\ u.stat = "queued" /\ ~u.open /\ u.destfile = 0 /\ u.resume_sent = rcv[o].resume_sent
        /\ u.resumable < size
        /\ u.resumable # 0 => u.resumable = OnDisk /\ \A p \in Offers \ {o} : rcv[p].stat \in Underway => rcv[p].destfile # 0
    BY <1>0, ResumableIs DEF Deciding
  <1>2. /\ IF u.resumable # 0
           THEN rcv' = [rcv EXCEPT ![o] = v] /\ toSend' = Append(toSend, m)
           ELSE rcv' = [rcv EXCEPT ![o] = u] /\ UNCHANGED toSend
        /\ UNCHANGED spoilt
    BY Zenon DEF dcc_resume
  <1>3. /\ UNCHANGED <<consts, snd, disk>> /\ UNCHANGED wire /\ UNCHANGED spoilt
        /\ toRecv' \in Seq(Ctcp) /\ (\A p \in Offers : Rest(toRecv, toRecv', p)) /\ About(toRecv', "SEND", o) = {}
        /\ rcv[o].stat \in Early /\ snd[o].stat # "none"
    BY <1>2 DEF Deciding
  <1> HIDE DEF u, m
  <1>4. CASE u.resumable # 0
    <2>1. /\ v \in RecvRec /\ v.stat = "queued" /\ ~v.open /\ v.destfile = 0 /\ v.resume_sent
          /\ v.resumable = u.resumable
      BY <1>1 DEF RecvRec
    <2>2. m \in Ctcp /\ m.kind = "RESUME" /\ m.offer = o /\ m.pos = u.resumable
      <3>1. "RESUME" \in {"SEND", "RESUME", "ACCEPT"} /\ u.resumable \in Nat
        BY <1>1 DEF RecvRec
      <3> QED BY <1>0, <3>1 DEF Message, Ctcp, m
    <2> HIDE DEF v
    <2>3. RequestSent(o, v)
      <3>1. Grown(toSend, toSend', m)
        BY <1>2, <1>4 DEF Grown
      <3> QED BY <1>4, <2>1, <2>2, <3>1 DEF RequestSent
    <2>4. rcv' = [rcv EXCEPT ![o] = v]
      BY <1>2, <1>4
    <2> QED BY <1>1, <1>3, <1>4, <2>1, <2>3, <2>4, QueueStep
  <1>5. CASE u.resumable = 0
    <2>1. RequestSent(o, u) /\ rcv' = [rcv EXCEPT ![o] = u]
      BY <1>1, <1>2, <1>5 DEF RequestSent
    <2> QED BY <1>1, <1>3, <1>5, <2>1, QueueStep
  <1> QED BY <1>4, <1>5

LEMMA dcc_getKeeps ==
    ASSUME IInv, NEW o \in Offers, NEW d \in RecvRec, Deciding(o, d), dcc_get(o, d)
    PROVE  Talk' /\ Apart' /\ Alone' /\ Agreed'
  <1>1. CASE prefs.resume /\ d.resumable # 0
    <2>1. dcc_resume(o, d)
      BY <1>1 DEF dcc_get
    <2> QED BY <2>1, dcc_resumeKeeps
  <1>2. CASE ~(prefs.resume /\ d.resumable # 0)
    <2> DEFINE e == [d EXCEPT !.resumable = 0, !.pos = 0]
               agreed == ~d.resume_sent
    <2>1. dcc_connect(o, e, agreed)
      BY <1>2 DEF dcc_get
    <2>2. e \in RecvRec /\ e.resumable = 0 /\ e.pos = 0 /\ ~e.open /\ e.destfile = 0
      <3>1. ~d.open /\ d.destfile = 0
        BY DEF Deciding
      <3> QED BY <3>1 DEF RecvRec
    <2>3. agreed \in BOOLEAN
      BY DEF RecvRec
    <2>4. e.resumable < size /\ e.resumable <= OnDisk
      BY <2>2, Fields, OnDiskIs DEF IInv, Shape
    <2>5. agreed /\ o \notin spoilt => BothAsked(o, e)
      <3> SUFFICES ASSUME agreed, o \notin spoilt PROVE BothAsked(o, e)
        OBVIOUS
      <3>1. Asked(o) /\ rcv[o].stat \in Early /\ ~rcv[o].resume_sent
        BY DEF IInv, Agreed, Deciding
      <3>2. About(toSend, "RESUME", o) = {} /\ (snd[o].stat \in Live => snd[o].resumable = 0)
        BY <3>1 DEF Asked
      <3> QED BY <2>2, <3>2 DEF BothAsked
    <2>6. /\ UNCHANGED <<consts, snd, disk>> /\ UNCHANGED wire
          /\ toRecv' \in Seq(Ctcp) /\ (\A p \in Offers : Rest(toRecv, toRecv', p)) /\ About(toRecv', "SEND", o) = {}
          /\ rcv[o].stat \in Early /\ snd[o].stat # "none"
      BY DEF Deciding
    <2> HIDE DEF e, agreed
    <2> QED BY <2>1, <2>2, <2>3, <2>4, <2>5, <2>6, ConnectStep
  <1> QED BY <1>1, <1>2

\* a user decides about an offer that is queued
LEMMA DecidingQueued ==
    ASSUME IInv, NEW o \in Offers, rcv[o].stat = "queued", UNCHANGED <<consts, snd, disk>>, UNCHANGED wire, UNCHANGED toRecv
    PROVE  rcv[o] \in RecvRec /\ Deciding(o, rcv[o]) /\ About(toRecv, "SEND", o) = {}
  <1>1. Shape /\ Offered(o)
    BY DEF IInv, Talk
  <1>2. About(toRecv, "SEND", o) = {} /\ snd[o].stat # "none"
    BY <1>1 DEF Offered
  <1>3. toRecv \in Seq(Ctcp)
    BY <1>1, Fields
  <1>4. \A p \in Offers : Rest(toRecv, toRecv', p)
    BY <1>3, RestOfSame
  <1>5. About(toRecv', "SEND", o) = {}
    BY <1>2 DEF About
  <1> QED BY <1>1, <1>2, <1>3, <1>4, <1>5, QueuedIs DEF Deciding

LEMMA GetKeeps ==
    ASSUME IInv, NEW o \in Offers, Get(o) PROVE Talk' /\ Apart' /\ Alone' /\ Agreed'
  <1>1. rcv[o].stat = "queued" /\ dcc_get(o, rcv[o]) /\ UNCHANGED <<consts, snd, disk>> /\ UNCHANGED wire /\ UNCHANGED toRecv
    BY DEF Get
  <1> QED BY <1>1, DecidingQueued, dcc_getKeeps

LEMMA ResumeKeeps ==
    ASSUME IInv, NEW o \in Offers, Resume(o) PROVE Talk' /\ Apart' /\ Alone' /\ Agreed'
  <1>1. rcv[o].stat = "queued" /\ dcc_resume(o, rcv[o]) /\ UNCHANGED <<consts, snd, disk>> /\ UNCHANGED wire /\ UNCHANGED toRecv
    BY DEF Resume
  <1> QED BY <1>1, DecidingQueued, dcc_resumeKeeps

LEMMA dcc_get_nickKeeps ==
    ASSUME IInv, dcc_get_nick PROVE Talk' /\ Apart' /\ Alone' /\ Agreed'
  <1>1. PICK o \in {p \in Offers : rcv[p].stat = "queued"} :
           LET d == update_is_resumable(o, rcv[o])
           IN  IF prefs.resume /\ d.resumable # 0 THEN dcc_resume(o, d)
               ELSE dcc_connect(o, [d EXCEPT !.pos = 0], ~d.resume_sent /\ d.resumable = 0)
    BY DEF dcc_get_nick
  <1> DEFINE d == update_is_resumable(o, rcv[o])
             e == [d EXCEPT !.pos = 0]
             agreed == ~d.resume_sent /\ d.resumable = 0
  <1>2. UNCHANGED <<consts, snd, disk>> /\ UNCHANGED wire /\ UNCHANGED toRecv
    BY DEF dcc_get_nick
  <1>3. o \in Offers /\ rcv[o].stat = "queued" /\ Shape
    BY <1>1 DEF IInv
  <1>4. rcv[o] \in RecvRec /\ Deciding(o, rcv[o]) /\ rcv[o].destfile = 0 /\ ~rcv[o].open
    BY <1>2, <1>3, DecidingQueued, QueuedIs
  <1>5. /\ d \in RecvRec /\ d.stat = "queued" /\ ~d.open /\ d.destfile = 0 /\ d.resume_sent = rcv[o].resume_sent
        /\ d.resumable < size
        /\ d.resumable # 0 => d.resumable = OnDisk /\ \A p \in Offers \ {o} : rcv[p].stat \in Underway => rcv[p].destfile # 0
    BY <1>3, <1>4, ResumableIs
  <1>6. IF prefs.resume /\ d.resumable # 0 THEN dcc_resume(o, d) ELSE dcc_connect(o, e, agreed)
    BY <1>1
  <1> HIDE DEF d
  <1>7. Deciding(o, d)
    BY <1>4, <1>5 DEF Deciding
  <1>8. CASE prefs.resume /\ d.resumable # 0
    BY <1>3, <1>5, <1>6, <1>7, <1>8, dcc_resumeKeeps
  <1>9. CASE ~(prefs.resume /\ d.resumable # 0)
    <2>1. dcc_connect(o, e, agreed)
      BY <1>6, <1>9
    <2>2. e \in RecvRec /\ e.resumable = d.resumable /\ e.pos = 0 /\ ~e.open /\ e.destfile = 0
      BY <1>5 DEF RecvRec
    <2>3. agreed \in BOOLEAN
      BY <1>5 DEF RecvRec
    <2>4. d.resumable < size /\ d.resumable <= OnDisk
      <3>1. OnDisk \in Nat
        BY <1>3, OnDiskIs DEF Shape
      <3>2. d.resumable = 0 \/ d.resumable = OnDisk
        BY <1>5
      <3> QED BY <1>5, <3>1, <3>2
    <2>5. agreed /\ o \notin spoilt => BothAsked(o, e)
      <3> SUFFICES ASSUME agreed, o \notin spoilt PROVE BothAsked(o, e)
        OBVIOUS
      <3>1. Asked(o) /\ rcv[o].stat \in Early /\ ~rcv[o].resume_sent
        BY <1>3, <1>5, <1>7 DEF IInv, Agreed, Deciding
      <3>2. About(toSend, "RESUME", o) = {} /\ (snd[o].stat \in Live => snd[o].resumable = 0)
        BY <3>1 DEF Asked
      <3> QED BY <2>2, <3>2 DEF BothAsked
    <2>6. /\ UNCHANGED <<consts, snd, disk>> /\ UNCHANGED wire
          /\ toRecv' \in Seq(Ctcp) /\ (\A p \in Offers : Rest(toRecv, toRecv', p)) /\ About(toRecv', "SEND", o) = {}
          /\ rcv[o].stat \in Early /\ snd[o].stat # "none"
      BY <1>7 DEF Deciding
    <2>7. e.resumable # 0 =>
             \A p \in Offers \ {o} : rcv[p].stat \in Underway /\ rcv[p].open /\ rcv[p].resumable = 0 => rcv[p].destfile # 0
      BY <1>5, <2>2
    <2> HIDE DEF e, agreed
    <2> QED BY <1>3, <2>1, <2>2, <2>3, <2>4, <2>5, <2>6, <2>7, ConnectStep
  <1> QED BY <1>8, <1>9

LEMMA HandleSendKeeps ==
    ASSUME IInv, HandleSend
    PROVE  Talk' /\ Apart' /\ Alone' /\ Agreed' /\ rcv[Head(toRecv).offer].stat = "none"
  <1> DEFINE o == Head(toRecv).offer
             n == NewRecv("queued", Head(toRecv).passive)
             d == update_is_resumable(o, n)
  <1>0. Shape /\ TypeOK /\ toRecv \in Seq(Ctcp) /\ toSend \in Seq(Ctcp)
    BY DEF IInv, Shape, TypeOK
  <1>1. Arrives(toRecv, "SEND") /\ toRecv' = Tail(toRecv) /\ UNCHANGED <<consts, snd, disk>> /\ UNCHANGED wire
    BY DEF HandleSend
  <1>2. /\ Head(toRecv) \in Ctcp /\ Tail(toRecv) \in Seq(Ctcp) /\ Head(toRecv).kind = "SEND" /\ Head(toRecv) = toRecv[1]
        /\ Len(toRecv) \in Nat \ {0} /\ Len(Tail(toRecv)) = Len(toRecv) - 1
        /\ \A i \in 1..Len(Tail(toRecv)) : Tail(toRecv)[i] = toRecv[i + 1]
    BY <1>0, <1>1, Queues
  <1>3. o \in Offers /\ Head(toRecv).passive \in BOOLEAN
    BY <1>2 DEF Ctcp
  <1>4. 1 \in About(toRecv, "SEND", o)
    BY <1>2 DEF About
  <1>5. Offered(o) /\ OwnFile(o)
    BY <1>3 DEF IInv, Talk, Shape
  <1>6. rcv[o].stat = "none" /\ snd[o].stat # "none" /\ ~rcv[o].resume_sent /\ \A i \in About(toRecv, "SEND", o) : i = 1
    BY <1>4, <1>5 DEF Offered, OwnFile
  <1>7. About(Tail(toRecv), "SEND", o) = {}
    <2> SUFFICES ASSUME NEW i \in About(Tail(toRecv), "SEND", o) PROVE FALSE
      OBVIOUS
    <2>1. i \in 1..Len(Tail(toRecv)) /\ Tail(toRecv)[i].kind = "SEND" /\ Tail(toRecv)[i].offer = o
      BY DEF About
    <2>2. i \in Nat \ {0} /\ i + 1 \in 1..Len(toRecv) /\ toRecv[i + 1] = Tail(toRecv)[i]
      BY <1>2, <2>1
    <2>3. i + 1 \in About(toRecv, "SEND", o)
      BY <2>1, <2>2 DEF About
    <2> QED BY <1>6, <2>2, <2>3
  <1>8. \A p \in Offers : Rest(toRecv, Tail(toRecv), p)
    BY <1>0, <1>1, RestOfTail
  <1>9. n \in RecvRec /\ n.stat = "queued" /\ ~n.open /\ n.destfile = 0 /\ ~n.resume_sent
    BY <1>3, NewRecvIs DEF Stats
  <1>10. IF prefs.auto THEN dcc_get(o, d) ELSE rcv' = [rcv EXCEPT ![o] = d] /\ UNCHANGED <<toSend, spoilt>>
    BY DEF HandleSend
  <1> HIDE DEF n
  <1>11. /\ d \in RecvRec /\ d.stat = "queued" /\ ~d.open /\ d.destfile = 0 /\ d.resume_sent = n.resume_sent
         /\ d.resumable < size
         /\ d.resumable # 0 => d.resumable = OnDisk /\ \A p \in Offers \ {o} : rcv[p].stat \in Underway => rcv[p].destfile # 0
    BY <1>0, <1>3, <1>9, ResumableIs
  <1>12. d.resume_sent = rcv[o].resume_sent
    <2>1. rcv[o] \in RecvRec
      BY <1>0, <1>3, Fields
    <2> QED BY <1>6, <1>9, <1>11, <2>1 DEF RecvRec
  <1> HIDE DEF d
  <1>13. Deciding(o, d)
    <2>1. rcv[o].stat \in Early
      BY <1>6 DEF Early
    <2> QED BY <1>1, <1>2, <1>6, <1>7, <1>8, <1>11, <1>12, <2>1 DEF Deciding
  <1> HIDE DEF o
  <1>14. CASE prefs.auto
    BY <1>3, <1>6, <1>10, <1>11, <1>13, <1>14, dcc_getKeeps DEF o
  <1>15. CASE ~prefs.auto
    <2>1. rcv' = [rcv EXCEPT ![o] = d] /\ UNCHANGED toSend /\ UNCHANGED spoilt
      BY <1>10, <1>15
    <2>2. RequestSent(o, d)
      BY <1>12, <2>1 DEF RequestSent
    <2>3. toRecv' \in Seq(Ctcp) /\ (\A p \in Offers : Rest(toRecv, toRecv', p)) /\ About(toRecv', "SEND", o) = {}
          /\ rcv[o].stat \in Early
      BY <1>13 DEF Deciding
    <2>4. Talk' /\ Apart' /\ Alone' /\ Agreed'
      BY <1>1, <1>3, <1>6, <1>11, <2>1, <2>2, <2>3, QueueStep
    <2> QED BY <1>6, <2>4 DEF o
  <1> QED BY <1>14, <1>15

LEMMA HandleAcceptKeeps ==
    ASSUME IInv, HandleAccept PROVE Talk' /\ Apart' /\ Alone' /\ Agreed'
  <1> DEFINE m == Head(toRecv)
  <1>0. Shape /\ TypeOK /\ toRecv \in Seq(Ctcp) /\ toSend \in Seq(Ctcp)
    BY DEF IInv, Shape, TypeOK
  <1>1. Arrives(toRecv, "ACCEPT") /\ toRecv' = Tail(toRecv) /\ UNCHANGED <<consts, snd, disk>> /\ UNCHANGED wire
        /\ UNCHANGED consts /\ UNCHANGED disk /\ UNCHANGED snd
    BY DEF HandleAccept
  <1>2. m \in Ctcp /\ Tail(toRecv) \in Seq(Ctcp) /\ m.kind = "ACCEPT" /\ m = toRecv[1] /\ Len(toRecv) \in Nat \ {0}
    BY <1>0, <1>1, Queues
  <1>3. \A p \in Offers : Rest(toRecv, Tail(toRecv), p)
    BY <1>0, <1>1, RestOfTail
  <1>4. CASE AcceptedBy(m) = {} /\ UNCHANGED <<rcv, toSend, spoilt>>
    <2>1. Queued /\ \A p \in Offers : Fewer(p)
      BY <1>0, <1>1, <1>2, <1>3, <1>4, RestOfSame DEF Queued, Fewer
    <2>2. UNCHANGED <<snd, rcv>> /\ UNCHANGED spoilt /\ UNCHANGED <<consts, disk, wire>>
      BY <1>1, <1>4
    <2> QED BY <2>1, <2>2, OnlyRead
  <1>5. ASSUME NEW o \in AcceptedBy(m), dcc_connect(o, rcv[o], o = m.offer /\ m.pos = rcv[o].resumable)
        PROVE  Talk' /\ Apart' /\ Alone' /\ Agreed'
    <2> DEFINE agreed == o = m.offer /\ m.pos = rcv[o].resumable
    <2>1. o \in Offers /\ rcv[o].stat = "queued" /\ agreed \in BOOLEAN
      BY <1>5 DEF AcceptedBy
    <2>2. rcv[o] \in RecvRec /\ ~rcv[o].open /\ rcv[o].destfile = 0 /\ rcv[o].stat \in Early
      BY <1>0, <2>1, QueuedIs
    <2>3. Offered(o) /\ Places(o)
      BY <2>1 DEF IInv, Talk
    <2>4. snd[o].stat # "none" /\ About(toRecv, "SEND", o) = {}
      BY <2>1, <2>3 DEF Offered
    <2>5. About(Tail(toRecv), "SEND", o) = {}
      <3>1. Rest(toRecv, Tail(toRecv), o) /\ "SEND" \in Kinds
        BY <1>3, <2>1 DEF Kinds
      <3> QED BY <1>0, <1>2, <2>4, <3>1, RestKeeps
    <2>6. rcv[o].resumable < size /\ rcv[o].resumable <= OnDisk
      BY <2>3 DEF Places
    <2>7. rcv[o].resumable # 0 =>
             \A p \in Offers \ {o} : rcv[p].stat \in Underway /\ rcv[p].open /\ rcv[p].resumable = 0 => rcv[p].destfile # 0
      BY <2>1 DEF IInv, Apart
    <2>8. agreed /\ o \notin spoilt => BothAsked(o, rcv[o])
      <3> SUFFICES ASSUME agreed, o \notin spoilt PROVE BothAsked(o, rcv[o])
        OBVIOUS
      <3>1. Asked(o)
        BY <2>1 DEF IInv, Agreed
      <3>2. 1 \in About(toRecv, "ACCEPT", o)
        BY <1>2 DEF About
      <3>3. m.pos \in 1..(size - 1) /\ m.pos = rcv[o].resumable
        BY <1>2, <2>3, <3>2 DEF Places
      <3>4. rcv[o].resumable # 0
        BY <3>3
      <3>5. snd[o].resumable \in Nat /\ \A i \in About(toSend, "RESUME", o) : toSend[i].pos \in Nat
        BY <1>0, <2>1, Fields, AboutIs
      <3>6. snd[o].stat \in Live => rcv[o].resumable <= snd[o].resumable /\ snd[o].resumable <= rcv[o].resumable
        BY <1>2, <2>1, <3>1, <3>2, <3>3, <3>4 DEF Asked
      <3>7. snd[o].stat \in Live => \A i \in About(toSend, "RESUME", o) :
               snd[o].resumable <= toSend[i].pos /\ toSend[i].pos <= rcv[o].resumable
        BY <2>1, <3>1, <3>4 DEF Asked
      <3>8. rcv[o].resumable \in Nat
        BY <2>2 DEF RecvRec
      <3>9. snd[o].stat \in Live =>
               snd[o].resumable = rcv[o].resumable /\ \A i \in About(toSend, "RESUME", o) : toSend[i].pos = rcv[o].resumable
        BY <3>5, <3>6, <3>7, <3>8
      <3> QED BY <3>4, <3>9 DEF BothAsked
    <2>9. dcc_connect(o, rcv[o], agreed)
      BY <1>5
    <2>10. toRecv' \in Seq(Ctcp) /\ (\A p \in Offers : Rest(toRecv, toRecv', p)) /\ About(toRecv', "SEND", o) = {}
      BY <1>1, <1>2, <1>3, <2>5
    <2> HIDE DEF agreed
    <2> QED BY <1>1, <2>1, <2>2, <2>4, <2>6, <2>7, <2>8, <2>9, <2>10, ConnectStep
  <1> QED BY <1>4, <1>5 DEF HandleAccept

-----------------------------------------------------------------------------
(* The invariant, and what follows from it.                                *)

LEMMA InitIInv == Init => IInv
  <1> SUFFICES ASSUME Init PROVE IInv
    OBVIOUS
  <1>0. Shape
    BY InitShape
  <1>1. size \in Nat \ {0} /\ OnDisk \in Nat
    BY <1>0, SizeIs, OnDiskIs DEF Shape
  <1>2. \A o \in Offers : snd[o] = NewSend("none", FALSE) /\ rcv[o] = NewRecv("none", FALSE) /\ wire[o] = Blank
    BY DEF Init, Blank
  <1>3. \A o \in Offers :
           /\ snd[o].stat = "none" /\ snd[o].resumable = 0 /\ snd[o].pos = 0 /\ snd[o].ack = 0
           /\ rcv[o].stat = "none" /\ rcv[o].resumable = 0 /\ ~rcv[o].resume_sent
           /\ wire[o].cells = <<>> /\ wire[o].acks = <<>>
    BY <1>2 DEF NewSend, NewRecv, Blank
  <1>4. \A kind, o : About(toRecv, kind, o) = {} /\ About(toSend, kind, o) = {}
    <2>1. toRecv = <<>> /\ toSend = <<>>
      BY DEF Init
    <2> QED BY <2>1 DEF About
  <1>5. "none" \notin Underway /\ "none" \notin Live /\ "none" \in Early /\ "none" # "queued" /\ "none" # "done"
    BY DEF Underway, Live, Early
  <1>6. Talk
    <2>1. \A o \in Offers : Places(o)
      BY <1>1, <1>3, <1>4 DEF Places
    <2>2. \A o \in Offers : Offered(o)
      BY <1>2, <1>3, <1>4, <1>5 DEF Offered
    <2> QED BY <2>1, <2>2 DEF Talk
  <1>7. Apart /\ Alone
    BY <1>3, <1>5 DEF Apart, Alone, Writer
  <1>8. Agreed
    <2>1. \A o \in Offers : Asked(o)
      BY <1>3, <1>4, <1>5 DEF Asked
    <2>2. \A o \in Offers : Stream(o) /\ Acks(o) /\ Whole(o)
      BY <1>3, <1>5 DEF Stream, Acks, Whole, Writer
    <2> QED BY <2>1, <2>2 DEF Agreed
  <1> QED BY <1>0, <1>6, <1>7, <1>8 DEF IInv

LEMMA StutterKeeps ==
    ASSUME IInv, UNCHANGED vars PROVE Talk' /\ Apart' /\ Alone' /\ Agreed'
  <1>1. UNCHANGED <<consts, disk, wire>> /\ UNCHANGED <<snd, rcv>> /\ UNCHANGED spoilt /\ UNCHANGED irc
    BY DEF vars
  <1>2. Queued /\ \A p \in Offers : Fewer(p)
    BY <1>1, QueuesSame
  <1> QED BY <1>1, <1>2, OnlyRead

\* the invariant is inductive
LEMMA NextIInv ==
    ASSUME IInv, [Next]_vars
    PROVE  IInv'
  <1>1. Talk' /\ Apart' /\ Alone' /\ Agreed'
    <2>1. CASE SenderLoop
      BY <2>1, HandleResumeKeeps, HandleSendReplyKeeps, dcc_acceptKeeps, SendConnectsKeeps,
         WritableKeeps, ReadAckKeeps, SendEOFKeeps, SendUnthrottledKeeps DEF SenderLoop
    <2>2. CASE ReceiverLoop
      BY <2>2, HandleSendKeeps, HandleAcceptKeeps, RecvConnectsKeeps, RecvAcceptsKeeps,
         ReadKeeps, RecvEOFKeeps, RecvUnthrottledKeeps DEF ReceiverLoop
    <2>3. CASE dcc_get_nick
      BY <2>3, dcc_get_nickKeeps
    <2>4. ASSUME NEW o \in Offers,
                 \/ \E passive \in BOOLEAN : dcc_send(o, passive)
                 \/ SendThrottled(o) \/ SendAborted(o) \/ SendForgotten(o)
                 \/ Get(o) \/ Resume(o) \/ DiskFull(o) \/ RecvThrottled(o) \/ RecvAborted(o) \/ RecvForgotten(o)
                 \/ Break(o)
          PROVE  Talk' /\ Apart' /\ Alone' /\ Agreed'
      BY <2>4, dcc_sendKeeps, SendThrottledKeeps, SendAbortedKeeps, SendForgottenKeeps,
         GetKeeps, ResumeKeeps, DiskFullKeeps, RecvThrottledKeeps, RecvAbortedKeeps, RecvForgottenKeeps, BreakKeeps
    <2>5. CASE UNCHANGED vars
      BY <2>5, StutterKeeps
    <2> QED BY <2>1, <2>2, <2>3, <2>4, <2>5 DEF Next
  <1>2. Shape'
    BY HandleSendKeeps, NextKeepsShape DEF IInv
  <1> QED BY <1>1, <1>2 DEF IInv

LEMMA Invariant == Spec => []IInv
  BY InitIInv, NextIInv, PTL DEF Spec

\* The records of every transfer at both ends, the files, the messages and the connections have
\* their types in every state: above all, a file that is opened is always one of those that
\* there are names for.
THEOREM WellTyped == Spec => []TypeOK
  <1>1. IInv => TypeOK
    BY DEF IInv, Shape
  <1> QED BY <1>1, Invariant, PTL

LEMMA DoneIsReceived == IInv => DoneMeansReceived
  <1> SUFFICES ASSUME IInv, NEW o \in Offers, snd[o].stat = "done", o \notin spoilt, size < Wrap
               PROVE  rcv[o].stat \in {"done", "gone"}
    BY DEF DoneMeansReceived
  <1> QED BY DEF IInv, Agreed, Acks, Over

\* When dcc_handle_new_ack calls a file sent, the receiver has all of it: for every size below
\* 4 GB, every block size, and any number of offers, resumed ones among them.
THEOREM DoneHolds == Spec => []DoneMeansReceived
  BY DoneIsReceived, Invariant, PTL

-----------------------------------------------------------------------------
(* Why the sender fails.                                                   *)

Excused(o) ==
    \/ PeerIsGone(o, rcv)
    \/ (prefs.fast \/ size >= Wrap \/ o \in spoilt) /\ snd[o].throttled /\ snd[o].pos = size

\* what dcc_send_data fails on
LEMMA SendingFails ==
    ASSUME Shape, NEW o \in Offers, NEW d \in SendRec, d.stat = "active", d.pos <= size,
           d.wiotag => d.pos < size \/ prefs.fast, NEW r \in Sent(d), r.dcc.stat = "failed"
    PROVE  d.pos = size /\ (prefs.fast \/ ~(d.ack < d.pos % Wrap))
  BY SentIs DEF Shape

LEMMA WritableFails ==
    ASSUME IInv, NEW o \in Offers, NEW p \in Offers, Writable(p), snd[o].stat = "active", snd'[o].stat = "failed"
    PROVE  FALSE
  <1>1. snd[p].stat = "active" /\ snd[p].wiotag
    BY DEF Writable
  <1>2. PICK r \in Sent(snd[p]) : snd' = [snd EXCEPT ![p] = r.dcc]
    BY DEF Writable, Sending
  <1>3. Shape
    BY DEF IInv
  <1>4. snd[p].pos < size /\ snd[p].pos \in Nat /\ size \in Nat /\ snd[p] \in SendRec /\ snd[p].pos <= size
    BY <1>1, <1>3, Fields DEF Shape, Sends
  <1>5. snd'[p] = r.dcc /\ \A q \in Offers \ {p} : snd'[q] = snd[q]
    BY <1>2, <1>3, Others
  <1>6. o = p /\ r.dcc.stat = "failed"
    BY <1>5
  <1> QED BY <1>1, <1>3, <1>4, <1>6, SendingFails

LEMMA SendUnthrottledFails ==
    ASSUME IInv, NEW o \in Offers, NEW p \in Offers, SendUnthrottled(p), snd[o].stat = "active", snd'[o].stat = "failed"
    PROVE  Excused(o)
  <1> DEFINE d == [snd[p] EXCEPT !.throttled = FALSE]
  <1>1. snd[p].stat = "active" /\ snd[p].throttled
    BY DEF SendUnthrottled
  <1>2. PICK r \in Sent(d) : snd' = [snd EXCEPT ![p] = r.dcc]
    BY DEF SendUnthrottled, Sending
  <1>3. Shape
    BY DEF IInv
  <1>4. /\ d \in SendRec /\ d.stat = "active" /\ d.pos = snd[p].pos /\ d.ack = snd[p].ack /\ d.wiotag = snd[p].wiotag
    BY <1>1, <1>3, Fields DEF SendRec
  <1>5. snd[p].pos <= size /\ (snd[p].wiotag => snd[p].pos < size)
    BY <1>1, <1>3, Fields DEF Shape, Sends
  <1> HIDE DEF d
  <1>6. snd'[p] = r.dcc /\ \A q \in Offers \ {p} : snd'[q] = snd[q]
    BY <1>2, <1>3, Others
  <1>7. o = p /\ r.dcc.stat = "failed"
    BY <1>6
  <1>8. snd[o].pos = size /\ (prefs.fast \/ ~(snd[o].ack < snd[o].pos % Wrap))
    BY <1>3, <1>4, <1>5, <1>7, SendingFails
  <1>9. CASE prefs.fast \/ size >= Wrap \/ o \in spoilt
    BY <1>1, <1>7, <1>8, <1>9 DEF Excused
  <1>10. CASE ~(prefs.fast \/ size >= Wrap \/ o \in spoilt)
    <2>1. size \in Nat /\ Wrap \in Nat /\ snd[o].ack \in Nat
      BY <1>3, Fields
    <2>2. size < Wrap /\ o \notin spoilt /\ ~prefs.fast
      BY <1>10, <2>1
    <2>3. size % Wrap = size
      BY <2>1, <2>2
    <2>4. ~(snd[o].ack < size)
      BY <1>8, <2>2, <2>3
    <2>5. Sound(o, snd[o].ack)
      BY <2>2 DEF IInv, Agreed, Acks, Live, Underway
    <2>6. snd[o].ack = size
      BY <2>1, <2>4, <2>5 DEF Sound
    <2>7. rcv[o].stat \in Over
      BY <2>5, <2>6 DEF Sound
    <2> QED BY <2>7 DEF Excused, PeerIsGone, Over, Underway
  <1> QED BY <1>9, <1>10

LEMMA ReadAckFails ==
    ASSUME IInv, NEW o \in Offers, NEW p \in Offers, ReadAck(p), snd[o].stat = "active", snd'[o].stat = "failed"
    PROVE  FALSE
  <1>1. snd[p].stat = "active" /\ wire[p].acks # <<>> /\ Shape
    BY DEF ReadAck, IInv
  <1> DEFINE d == AckRead(p)
  <1>2. d \in SendRec /\ d.stat = "active" /\ d.pos = snd[p].pos /\ d.wiotag = snd[p].wiotag
    BY <1>1, AckReadIs
  <1>3. d.pos <= size /\ (d.wiotag => d.pos < size)
    BY <1>1, <1>2, Fields DEF Shape, Sends
  <1>4. size \in Nat
    BY <1>1, Fields
  <1>5. \A x : snd' = [snd EXCEPT ![p] = x] => o = p /\ x.stat = "failed"
    <2> SUFFICES ASSUME NEW x, snd' = [snd EXCEPT ![p] = x] PROVE o = p /\ x.stat = "failed"
      OBVIOUS
    <2>1. snd'[p] = x /\ \A q \in Offers \ {p} : snd'[q] = snd[q]
      BY <1>1, Others
    <2> QED BY <2>1
  <1>6. CASE snd' = [snd EXCEPT ![p] = [Shut(d, "done") EXCEPT !.ack = size]]
    <2>1. Shut(d, "done") \in SendRec /\ Shut(d, "done").stat = "done"
      BY <1>2, Shutting DEF Stats, Finished
    <2>2. [Shut(d, "done") EXCEPT !.ack = size].stat = "done"
      BY <2>1 DEF SendRec
    <2> QED BY <1>5, <1>6, <2>2
  <1>7. ASSUME ~AckDone(p), ~prefs.fast, AckRead(p).ack >= AckRead(p).pos % Wrap,
               NEW r \in Sent(AckRead(p)), snd' = [snd EXCEPT ![p] = High(r.dcc, AckRead(p))]
        PROVE  FALSE
    <2>1. High(r.dcc, d).stat = "failed"
      BY <1>5, <1>7
    <2>2. r.dcc \in SendRec
      BY <1>1, <1>2, <1>3, SentIs DEF Shape
    <2>3. r.dcc.stat = "failed"
      BY <1>2, <2>1, <2>2, HighKeeps
    <2>4. d.pos = size
      BY <1>1, <1>2, <1>3, <2>3, SendingFails
    <2>5. AckDone(p)
      BY <1>4, <1>7, <2>4 DEF AckDone
    <2> QED BY <1>7, <2>5
  <1>8. CASE snd' = [snd EXCEPT ![p] = High(d, d)]
    BY <1>2, <1>5, <1>8, HighKeeps
  <1> QED BY <1>1, <1>6, <1>7, <1>8, ReadAckCases

\* the steps in which the sender's records change in another way
LEMMA OthersDoNotFail ==
    ASSUME IInv, NEW o \in Offers, snd[o].stat = "active", snd'[o].stat = "failed", NEW p \in Offers
    PROVE  /\ ~dcc_accept(p) /\ ~SendThrottled(p) /\ ~SendAborted(p) /\ ~SendForgotten(p)
           /\ \A passive \in BOOLEAN : ~dcc_send(p, passive)
           /\ SendConnects(p) => FALSE
           /\ SendEOF(p) => PeerIsGone(o, rcv)
  <1>0. Shape
    BY DEF IInv
  <1>1. \A x : snd' = [snd EXCEPT ![p] = x] => o = p /\ x.stat = "failed"
    <2> SUFFICES ASSUME NEW x, snd' = [snd EXCEPT ![p] = x] PROVE o = p /\ x.stat = "failed"
      OBVIOUS
    <2>1. snd'[p] = x /\ \A q \in Offers \ {p} : snd'[q] = snd[q]
      BY <1>0, Others
    <2> QED BY <2>1
  <1>2. BeginSend(p) => o = p
    BY <1>1 DEF BeginSend, Sending
  <1>3. ~dcc_accept(p)
    BY <1>2 DEF dcc_accept
  <1>4. ~SendConnects(p)
    <2> SUFFICES ASSUME SendConnects(p) PROVE FALSE
      OBVIOUS
    <2>1. snd[p].stat = "connecting" /\ (BeginSend(p) \/ snd' = [snd EXCEPT ![p].stat = "failed"])
      BY DEF SendConnects
    <2>2. o = p
      BY <1>1, <1>2, <2>1
    <2> QED BY <2>1, <2>2
  <1>5. ~SendThrottled(p)
    <2> SUFFICES ASSUME SendThrottled(p) PROVE FALSE
      OBVIOUS
    <2> DEFINE s == [snd[p] EXCEPT !.throttled = TRUE]
    <2>1. snd' = [snd EXCEPT ![p] = s] /\ snd[p].stat = "active"
      BY DEF SendThrottled
    <2>2. s.stat = "active"
      BY <1>0, <2>1, Fields DEF SendRec
    <2> HIDE DEF s
    <2> QED BY <1>1, <2>1, <2>2
  <1>6. ~SendAborted(p)
    <2> SUFFICES ASSUME SendAborted(p) PROVE FALSE
      OBVIOUS
    <2>1. Shut(snd[p], "aborted").stat = "aborted"
      BY <1>0, Fields, Shutting DEF Stats, Finished
    <2>2. snd' = [snd EXCEPT ![p] = Shut(snd[p], "aborted")]
      BY DEF SendAborted
    <2> QED BY <1>1, <2>1, <2>2
  <1>7. ~SendForgotten(p)
    <2> SUFFICES ASSUME SendForgotten(p) PROVE FALSE
      OBVIOUS
    <2>1. NewSend("gone", FALSE).stat = "gone"
      BY DEF NewSend
    <2>2. snd' = [snd EXCEPT ![p] = NewSend("gone", FALSE)]
      BY DEF SendForgotten
    <2> QED BY <1>1, <2>1, <2>2
  <1>8. \A passive \in BOOLEAN : ~dcc_send(p, passive)
    <2> SUFFICES ASSUME NEW passive \in BOOLEAN, dcc_send(p, passive) PROVE FALSE
      OBVIOUS
    <2>1. NewSend("queued", passive).stat = "queued"
      BY DEF NewSend
    <2>2. snd' = [snd EXCEPT ![p] = NewSend("queued", passive)]
      BY DEF dcc_send
    <2> QED BY <1>1, <2>1, <2>2
  <1>9. SendEOF(p) => PeerIsGone(o, rcv)
    <2> SUFFICES ASSUME SendEOF(p) PROVE PeerIsGone(o, rcv)
      OBVIOUS
    <2>1. snd' = [snd EXCEPT ![p] = Shut(snd[p], "failed")] /\ PeerIsGone(p, rcv)
      BY DEF SendEOF
    <2> QED BY <1>1, <2>1
  <1> QED BY <1>3, <1>4, <1>5, <1>6, <1>7, <1>8, <1>9

LEMMA NegotiatingDoesNotFail ==
    ASSUME IInv, NEW o \in Offers, snd[o].stat = "active", HandleResume \/ HandleSendReply
    PROVE  snd'[o].stat = "active"
  <1>0. Shape /\ snd[o] \in SendRec /\ toSend \in Seq(Ctcp)
    BY Fields DEF IInv
  <1>1. CASE HandleSendReply
    <2> DEFINE p == Head(toSend).offer
    <2>1. p \in Offers
      BY <1>0, <1>1, Queues DEF HandleSendReply, Ctcp
    <2>2. snd' = IF snd[p].stat = "queued" THEN [snd EXCEPT ![p].stat = "connecting"] ELSE snd
      BY <1>1 DEF HandleSendReply
    <2> HIDE DEF p
    <2> QED BY <1>0, <2>1, <2>2 DEF Shape, TypeOK
  <1>2. CASE HandleResume
    <2> DEFINE m == Head(toSend)
    <2>1. snd' = snd \/ \E p \in ResumedBy(m) : \/ snd' = [snd EXCEPT ![p] = [[snd[p] EXCEPT !.resumable = m.pos] EXCEPT !.pos = m.pos, !.ack = m.pos]]
                                                \/ snd' = [snd EXCEPT ![p] = [snd[p] EXCEPT !.resumable = m.pos]]
      BY <1>2, Zenon DEF HandleResume
    <2>2. ASSUME NEW p \in ResumedBy(m), NEW x, snd' = [snd EXCEPT ![p] = x], x.stat = snd[p].stat
          PROVE  snd'[o].stat = "active"
      <3>1. snd'[o] = IF o = p THEN x ELSE snd[o]
        BY <1>0, <2>2 DEF Shape, TypeOK
      <3> QED BY <2>2, <3>1
    <2>3. ASSUME NEW p \in ResumedBy(m)
          PROVE  /\ [[snd[p] EXCEPT !.resumable = m.pos] EXCEPT !.pos = m.pos, !.ack = m.pos].stat = snd[p].stat
                 /\ [snd[p] EXCEPT !.resumable = m.pos].stat = snd[p].stat
      <3>1. p \in Offers
        <4>1. m.offer \in Offers
          BY <1>0, <1>2, Queues DEF HandleResume, Ctcp
        <4> QED BY <4>1 DEF ResumedBy
      <3>2. snd[p] \in SendRec
        BY <1>0, <3>1, Fields
      <3> QED BY <3>2 DEF SendRec
    <2> QED BY <2>1, <2>2, <2>3
  <1> QED BY <1>1, <1>2

LEMMA FailureExcused ==
    ASSUME IInv, Next, NEW o \in Offers, snd[o].stat = "active", snd'[o].stat = "failed"
    PROVE  Excused(o)
  <1>1. CASE SenderLoop
    <2>1. CASE HandleResume \/ HandleSendReply
      BY <2>1, NegotiatingDoesNotFail
    <2>2. ASSUME NEW p \in Offers, dcc_accept(p) \/ SendConnects(p) \/ Writable(p) \/ ReadAck(p) \/ SendEOF(p) \/ SendUnthrottled(p)
          PROVE  Excused(o)
      BY <2>2, OthersDoNotFail, WritableFails, ReadAckFails, SendUnthrottledFails DEF Excused
    <2> QED BY <1>1, <2>1, <2>2 DEF SenderLoop
  <1>2. CASE snd' = snd
    BY <1>2
  <1>3. ReceiverLoop \/ dcc_get_nick => snd' = snd
    BY DEF ReceiverLoop, HandleSend, HandleAccept, RecvConnects, RecvAccepts, Read, RecvEOF, RecvUnthrottled, dcc_get_nick
  <1>4. ASSUME NEW p \in Offers,
               \/ \E passive \in BOOLEAN : dcc_send(p, passive)
               \/ SendThrottled(p) \/ SendAborted(p) \/ SendForgotten(p)
               \/ Get(p) \/ Resume(p) \/ DiskFull(p) \/ RecvThrottled(p) \/ RecvAborted(p) \/ RecvForgotten(p)
               \/ Break(p)
        PROVE  Excused(o)
    <2>1. Get(p) \/ Resume(p) \/ DiskFull(p) \/ RecvThrottled(p) \/ RecvAborted(p) \/ RecvForgotten(p) \/ Break(p) => snd' = snd
      BY DEF Get, Resume, DiskFull, RecvThrottled, RecvAborted, RecvForgotten, Break
    <2> QED BY <1>2, <1>4, <2>1, OthersDoNotFail
  <1> QED BY <1>1, <1>2, <1>3, <1>4 DEF Next

\* The sender gives up a transfer that is under way only when the receiver or the connection
\* has gone, or when it is unthrottled while everything is sent and it cannot know that the
\* last acknowledgement is still to come.
THEOREM FailsHolds == Spec => FailsWithPeer
  <1>1. IInv /\ [Next]_vars => [\A o \in Offers : snd[o].stat = "active" /\ snd'[o].stat = "failed" =>
          \/ PeerIsGone(o, rcv)
          \/ (prefs.fast \/ size >= Wrap \/ o \in spoilt) /\ snd[o].throttled /\ snd[o].pos = size]_vars
    BY FailureExcused DEF Excused
  <1> QED BY <1>1, Invariant, PTL DEF Spec, FailsWithPeer

-----------------------------------------------------------------------------
(* What a receiver has that calls a transfer done.                         *)

\* the steps of the receiver other than those that read, for any offer
LEMMA NegotiatingIsNotDone ==
    ASSUME IInv, NEW o \in Offers, NEW p \in Offers, NEW d \in RecvRec, d.stat = "queued", ~d.open, d.destfile = 0,
           dcc_get(p, d) \/ dcc_resume(p, d) \/ (\E pos, agreed : dcc_connect(p, [d EXCEPT !.pos = pos], agreed))
              \/ (\E agreed : dcc_connect(p, d, agreed)),
           rcv'[o].stat = "done"
    PROVE  rcv[o].stat = "done"
  <1>0. Shape
    BY DEF IInv
  <1>1. \A x : rcv' = [rcv EXCEPT ![p] = x] /\ x.stat # "done" => rcv[o].stat = "done"
    <2> SUFFICES ASSUME NEW x, rcv' = [rcv EXCEPT ![p] = x], x.stat # "done" PROVE rcv[o].stat = "done"
      OBVIOUS
    <2>1. rcv'[p] = x /\ \A q \in Offers \ {p} : rcv'[q] = rcv[q]
      BY <1>0, Others
    <2> QED BY <2>1
  <1>2. ASSUME NEW e, NEW agreed, dcc_connect(p, e, agreed), DOMAIN e = DOMAIN d PROVE rcv[o].stat = "done"
    <2>1. rcv' = [rcv EXCEPT ![p] = [e EXCEPT !.stat = "connecting"]]
      BY <1>2 DEF dcc_connect
    <2>2. [e EXCEPT !.stat = "connecting"].stat = "connecting"
      BY <1>2 DEF RecvRec
    <2> QED BY <1>1, <2>1, <2>2
  <1>3. ASSUME dcc_resume(p, d) PROVE rcv[o].stat = "done"
    <2> DEFINE u == update_is_resumable(p, d)
               v == [u EXCEPT !.resume_sent = TRUE]
    <2>1. rcv' = [rcv EXCEPT ![p] = u] \/ rcv' = [rcv EXCEPT ![p] = v]
      BY <1>3, Zenon DEF dcc_resume
    <2>2. u \in RecvRec /\ u.stat = "queued"
      BY <1>0, ResumableIs
    <2> HIDE DEF u
    <2>3. v.stat = "queued"
      BY <2>2 DEF RecvRec
    <2> HIDE DEF v
    <2> QED BY <1>1, <2>1, <2>2, <2>3
  <1>4. \A pos : DOMAIN [d EXCEPT !.pos = pos] = DOMAIN d
    OBVIOUS
  <1>5. DOMAIN [d EXCEPT !.resumable = 0, !.pos = 0] = DOMAIN d
    OBVIOUS
  <1>6. ASSUME dcc_get(p, d) PROVE rcv[o].stat = "done"
    <2>1. dcc_resume(p, d) \/ dcc_connect(p, [d EXCEPT !.resumable = 0, !.pos = 0], ~d.resume_sent)
      BY <1>6 DEF dcc_get
    <2> QED BY <1>2, <1>3, <1>5, <2>1
  <1> QED BY <1>2, <1>3, <1>4, <1>6

LEMMA ReceivingIsNotDone ==
    ASSUME IInv, NEW o \in Offers, rcv'[o].stat = "done", NEW p \in Offers,
           \/ RecvConnects(p) \/ RecvAccepts(p) \/ RecvEOF(p) \/ DiskFull(p) \/ RecvThrottled(p) \/ RecvAborted(p)
           \/ RecvForgotten(p)
    PROVE  rcv[o].stat = "done"
  <1>0. Shape /\ rcv[p] \in RecvRec
    BY Fields DEF IInv
  <1>1. \A x : rcv' = [rcv EXCEPT ![p] = x] /\ x.stat # "done" => rcv[o].stat = "done"
    <2> SUFFICES ASSUME NEW x, rcv' = [rcv EXCEPT ![p] = x], x.stat # "done" PROVE rcv[o].stat = "done"
      OBVIOUS
    <2>1. rcv'[p] = x /\ \A q \in Offers \ {p} : rcv'[q] = rcv[q]
      BY <1>0, Others
    <2> QED BY <2>1
  <1>2. \A s : [rcv[p] EXCEPT !.stat = s].stat = s
    BY <1>0 DEF RecvRec
  <1>3. CASE RecvConnects(p) \/ RecvAccepts(p)
    <2>1. \E s \in {"active", "failed"} : rcv' = [rcv EXCEPT ![p] = [rcv[p] EXCEPT !.stat = s]]
      BY <1>3 DEF RecvConnects, RecvAccepts
    <2> QED BY <1>1, <1>2, <2>1
  <1>4. CASE RecvEOF(p) \/ DiskFull(p)
    <2>1. rcv' = [rcv EXCEPT ![p] = Closed(Opened(rcv[p]), "failed")] /\ rcv[p].stat = "active"
      BY <1>4 DEF RecvEOF, DiskFull
    <2>2. Closed(Opened(rcv[p]), "failed").stat = "failed"
      BY <1>0, <2>1, FailingIs
    <2> QED BY <1>1, <2>1, <2>2
  <1>5. CASE RecvThrottled(p)
    <2>1. rcv' = [rcv EXCEPT ![p] = [rcv[p] EXCEPT !.throttled = TRUE]] /\ rcv[p].stat = "active"
      BY <1>5 DEF RecvThrottled
    <2>2. [rcv[p] EXCEPT !.throttled = TRUE].stat = rcv[p].stat
      BY <1>0 DEF RecvRec
    <2> QED BY <1>1, <2>1, <2>2
  <1>6. CASE RecvAborted(p)
    <2>1. rcv' = [rcv EXCEPT ![p] = Closed(rcv[p], "aborted")]
      BY <1>6 DEF RecvAborted
    <2>2. Closed(rcv[p], "aborted").stat = "aborted"
      BY <1>0, Closing DEF Stats, Finished
    <2> QED BY <1>1, <2>1, <2>2
  <1>7. CASE RecvForgotten(p)
    <2>1. rcv' = [rcv EXCEPT ![p] = NewRecv("gone", FALSE)]
      BY <1>7 DEF RecvForgotten
    <2>2. NewRecv("gone", FALSE).stat = "gone"
      BY DEF NewRecv
    <2> QED BY <1>1, <2>1, <2>2
  <1> QED BY <1>3, <1>4, <1>5, <1>6, <1>7

LEMMA ReadingIsDone ==
    ASSUME IInv, NEW o \in Offers, rcv'[o].stat = "done", rcv[o].stat # "done", NEW p \in Offers, Read(p) \/ RecvUnthrottled(p),
           o \notin spoilt'
    PROVE  disk'[rcv'[o].destfile] = Cells(0, size)
  <1>0. Shape /\ spoilt' = spoilt
    BY DEF IInv, Read, RecvUnthrottled
  <1>1. \E x : rcv' = [rcv EXCEPT ![p] = x]
    BY Zenon DEF Read, RecvUnthrottled, Reading
  <1>2. o = p
    <2>1. \A q \in Offers \ {p} : rcv'[q] = rcv[q]
      BY <1>0, <1>1, Others
    <2> QED BY <2>1
  <1> QED BY <1>0, <1>2, ReadKeeps, RecvUnthrottledKeeps

LEMMA DoneIsWhole ==
    ASSUME IInv, Next, NEW o \in Offers, rcv'[o].stat = "done", rcv[o].stat # "done", o \notin spoilt'
    PROVE  disk'[rcv'[o].destfile] = Cells(0, size)
  <1>1. SenderLoop => rcv' = rcv
    BY DEF SenderLoop, HandleResume, HandleSendReply, dcc_accept, SendConnects, Writable, ReadAck, SendEOF, SendUnthrottled
  <1>2. CASE HandleSend
    <2> DEFINE p == Head(toRecv).offer
               n == NewRecv("queued", Head(toRecv).passive)
               d == update_is_resumable(p, n)
    <2>0. Shape /\ toRecv \in Seq(Ctcp)
      BY Fields DEF IInv
    <2>1. Head(toRecv) \in Ctcp
      BY <1>2, <2>0, Queues DEF HandleSend
    <2>2. p \in Offers /\ n \in RecvRec /\ n.stat = "queued" /\ n.destfile = 0 /\ ~n.open
      BY <2>1, NewRecvIs DEF Ctcp, Stats
    <2>3. dcc_get(p, d) \/ rcv' = [rcv EXCEPT ![p] = d]
      BY <1>2 DEF HandleSend
    <2> HIDE DEF n, p
    <2>4. d \in RecvRec /\ d.stat = "queued" /\ ~d.open /\ d.destfile = 0
      BY <2>0, <2>2, ResumableIs
    <2> HIDE DEF d
    <2>5. CASE dcc_get(p, d)
      BY <2>2, <2>4, <2>5, NegotiatingIsNotDone
    <2>6. CASE rcv' = [rcv EXCEPT ![p] = d]
      <3>1. rcv'[p] = d /\ \A q \in Offers \ {p} : rcv'[q] = rcv[q]
        BY <2>0, <2>2, <2>6, Others
      <3> QED BY <2>4, <3>1
    <2> QED BY <2>3, <2>5, <2>6
  <1>3. CASE HandleAccept
    <2>1. rcv' = rcv \/ \E p \in AcceptedBy(Head(toRecv)) : dcc_connect(p, rcv[p], p = Head(toRecv).offer /\ Head(toRecv).pos = rcv[p].resumable)
      BY <1>3 DEF HandleAccept
    <2>2. ASSUME NEW p \in AcceptedBy(Head(toRecv)), NEW agreed, dcc_connect(p, rcv[p], agreed) PROVE FALSE
      <3>1. p \in Offers /\ rcv[p].stat = "queued"
        BY DEF AcceptedBy
      <3>2. rcv[p] \in RecvRec /\ ~rcv[p].open /\ rcv[p].destfile = 0
        BY <3>1, QueuedIs DEF IInv
      <3> QED BY <2>2, <3>1, <3>2, NegotiatingIsNotDone
    <2> QED BY <2>1, <2>2
  <1>4. CASE dcc_get_nick
    <2>1. PICK p \in {q \in Offers : rcv[q].stat = "queued"} :
             LET d == update_is_resumable(p, rcv[p])
             IN  IF prefs.resume /\ d.resumable # 0 THEN dcc_resume(p, d)
                 ELSE dcc_connect(p, [d EXCEPT !.pos = 0], ~d.resume_sent /\ d.resumable = 0)
      BY <1>4 DEF dcc_get_nick
    <2> DEFINE d == update_is_resumable(p, rcv[p])
    <2>2. p \in Offers /\ rcv[p] \in RecvRec /\ ~rcv[p].open /\ rcv[p].destfile = 0 /\ rcv[p].stat = "queued" /\ Shape
      BY <2>1, QueuedIs DEF IInv
    <2>3. d \in RecvRec /\ d.stat = "queued" /\ ~d.open /\ d.destfile = 0
      BY <2>2, ResumableIs
    <2>4. dcc_resume(p, d) \/ \E agreed : dcc_connect(p, [d EXCEPT !.pos = 0], agreed)
      BY <2>1
    <2> HIDE DEF d
    <2> QED BY <2>2, <2>3, <2>4, NegotiatingIsNotDone
  <1>5. ASSUME NEW p \in Offers, Get(p) \/ Resume(p) PROVE FALSE
    <2>1. rcv[p].stat = "queued" /\ (dcc_get(p, rcv[p]) \/ dcc_resume(p, rcv[p]))
      BY <1>5 DEF Get, Resume
    <2>2. rcv[p] \in RecvRec /\ ~rcv[p].open /\ rcv[p].destfile = 0
      BY <2>1, QueuedIs DEF IInv
    <2> QED BY <2>1, <2>2, NegotiatingIsNotDone
  <1>6. ASSUME NEW p \in Offers,
               (\E passive \in BOOLEAN : dcc_send(p, passive)) \/ SendThrottled(p) \/ SendAborted(p) \/ SendForgotten(p) \/ Break(p)
        PROVE  rcv' = rcv
    BY <1>6 DEF dcc_send, SendThrottled, SendAborted, SendForgotten, Break
  <1>7. CASE ReceiverLoop
    BY <1>2, <1>3, <1>7, ReceivingIsNotDone, ReadingIsDone DEF ReceiverLoop
  <1> QED BY <1>1, <1>4, <1>5, <1>6, <1>7, ReceivingIsNotDone DEF Next

\* Whatever the users and the network do, and however often a file is resumed, the file of a
\* transfer that the receiver calls done holds every cell of the sender's, in order, unless it is spoilt.
THEOREM WholeHolds == Spec => WholeWhenDone
  <1>1. IInv /\ [Next]_vars => [\A o \in Offers : rcv'[o].stat = "done" /\ rcv[o].stat # "done" /\ o \notin spoilt' =>
          disk'[rcv'[o].destfile] = Cells(0, size)]_vars
    BY DoneIsWhole
  <1> QED BY <1>1, Invariant, PTL DEF Spec, WholeWhenDone

=============================================================================
