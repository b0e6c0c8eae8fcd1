-------------------------------- MODULE Dcc --------------------------------
(***************************************************************************)
(* The file transfers of HexChat (common/dcc.c): a client that offers a    *)
(* file several times and one that receives it.  Offers, RESUME and ACCEPT *)
(* go over IRC, the file and the receiver's acknowledgements over one TCP  *)
(* connection of each transfer.                                            *)
(*                                                                         *)
(* The file is its `size' cells, 1 to size, and what the receiver has on   *)
(* disk are sequences of cells.  A transfer is known by its number: the    *)
(* port of an offer or, if it is passive, the id in it.  Both clients      *)
(* prepend to dcc_list in the order of the offers, so the first in a list  *)
(* is the one with the highest number.  Time is not measured: what         *)
(* dcc_check_timeouts does to one transfer may happen whenever it applies. *)
(***************************************************************************)
EXTENDS Naturals, SequencesExt

CONSTANTS
    MaxOffers,  \* bound on the offers
    MaxInputs,  \* bound on what the users do besides, on timeouts, limits of the speed and faults
    Files,      \* [size, partial, offers]: the file, how much of it an earlier transfer has
                \* left, and how often it may be offered
    Prefs,      \* [resume, fast, auto]: dcc_auto_resume, dcc_fast_send, dcc_auto_recv = 2
    Block,      \* dcc_blocksize
    Wrap        \* 2^32: acknowledgements are positions modulo Wrap

ASSUME DccAssumption ==
    /\ MaxOffers \in Nat /\ MaxInputs \in Nat /\ Block \in Nat \ {0} /\ Wrap \in Nat \ {0}
    /\ Files \subseteq [size : Nat \ {0}, partial : Nat, offers : 1..MaxOffers]
    /\ \A f \in Files : f.partial < f.size
    /\ Prefs \subseteq [resume : BOOLEAN, fast : BOOLEAN, auto : BOOLEAN]

VARIABLES
    file, prefs,    \* chosen at the start
    snd, rcv,       \* struct DCC of each transfer, at the sender and at the receiver
    disk,           \* the receiver's files: 0 is destfile, n is destfile.n
    toRecv, toSend, \* IRC
    wire,           \* TCP: the connection, and the cells and acknowledgements on their way
    inputs,         \* how many there have been
    spoilt          \* history: transfers whose ends need not have agreed where to begin

consts == <<file, prefs>>
irc    == <<toRecv, toSend>>
vars   == <<consts, snd, rcv, disk, irc, wire, inputs, spoilt>>

Offers   == 1..MaxOffers
size     == file.size
Underway == {"connecting", "active"}
Finished == {"done", "failed", "aborted"}
Stats    == {"none", "queued", "gone"} \cup Underway \cup Finished

SendRec == [stat : Stats, passive : BOOLEAN, pos : Nat, ack : Nat, resumable : Nat,
            ackoffset : BOOLEAN, throttled : BOOLEAN, wiotag : BOOLEAN]
RecvRec == [stat : Stats, passive : BOOLEAN, pos : Nat, resumable : Nat, resume_sent : BOOLEAN,
            destfile : Nat, open : BOOLEAN, throttled : BOOLEAN]
Ctcp    == [kind : {"SEND", "RESUME", "ACCEPT"}, offer : Offers, passive : BOOLEAN, pos : Nat]

TypeOK ==
    /\ file \in Files /\ prefs \in Prefs
    /\ snd \in [Offers -> SendRec] /\ rcv \in [Offers -> RecvRec]
    /\ DOMAIN disk \subseteq 0..MaxOffers /\ \A f \in DOMAIN disk : disk[f] \in Seq(1..size)
    /\ toRecv \in Seq(Ctcp) /\ toSend \in Seq(Ctcp)
    /\ wire \in [Offers -> [link : {"none", "up", "cut"}, cells : Seq(1..size), acks : Seq(0..(Wrap - 1))]]
    /\ inputs \in 0..MaxInputs /\ spoilt \subseteq Offers

\* new_dcc
NewSend(stat, passive) ==
    [stat |-> stat, passive |-> passive, pos |-> 0, ack |-> 0, resumable |-> 0,
     ackoffset |-> FALSE, throttled |-> FALSE, wiotag |-> FALSE]
NewRecv(stat, passive) ==
    [stat |-> stat, passive |-> passive, pos |-> 0, resumable |-> 0, resume_sent |-> FALSE,
     destfile |-> 0, open |-> FALSE, throttled |-> FALSE]

\* n cells from position pos on
Cells(pos, n) == [i \in 1..n |-> pos + i]

Init ==
    /\ file \in Files /\ prefs \in Prefs
    /\ snd = [o \in Offers |-> NewSend("none", FALSE)]
    /\ rcv = [o \in Offers |-> NewRecv("none", FALSE)]
    /\ disk = [f \in (IF file.partial = 0 THEN {} ELSE {0}) |-> Cells(0, file.partial)]
    /\ toRecv = <<>> /\ toSend = <<>>
    /\ wire = [o \in Offers |-> [link |-> "none", cells |-> <<>>, acks |-> <<>>]]
    /\ inputs = 0 /\ spoilt = {}

Message(kind, o, passive, pos) == [kind |-> kind, offer |-> o, passive |-> passive, pos |-> pos]
Arrives(queue, kind) == queue # <<>> /\ Head(queue).kind = kind
Input == inputs < MaxInputs /\ inputs' = inputs + 1

\* dcc_close: the socket, the handlers and the file are closed
Closed_Unknown(d, stat) == [d EXCEPT !.stat = "closed", !.throttled = FALSE] \* variant
Closed(d, stat) == [d EXCEPT !.stat = stat, !.throttled = FALSE]
Shut(d, stat)   == [Closed(d, stat) EXCEPT !.wiotag = FALSE]
PeerIsGone(o, peer) == wire[o].link = "cut" \/ peer[o].stat \notin Underway

-----------------------------------------------------------------------------
(***************************************************************************)
(* The sender.                                                             *)
(***************************************************************************)
dcc_send(o, passive) ==
    /\ o <= file.offers /\ snd[o].stat = "none" /\ \A p \in 1..(o - 1) : snd[p].stat # "none"
    /\ snd' = [snd EXCEPT ![o] = NewSend("queued", passive)]
    /\ toRecv' = Append(toRecv, Message("SEND", o, passive, 0))
    /\ UNCHANGED <<consts, rcv, disk, toSend, wire, inputs, spoilt>>

\* find_dcc_from_id, find_dcc_from_port, and find_dcc when they find nothing
ResumedBy(m) ==
    IF snd[m.offer].stat = "queued" THEN {m.offer}
    ELSE LET listed == {o \in Offers : snd[o].stat \notin {"none", "gone"}}
         IN  {o \in listed : \A p \in listed : p <= o}

HandleResume_KeepsPos == \* variant: the position is not set
    /\ Arrives(toSend, "RESUME") /\ toSend' = Tail(toSend)
    /\ \E o \in ResumedBy(Head(toSend)) :
          /\ snd' = [snd EXCEPT ![o].resumable = Head(toSend).pos]
          /\ toRecv' = Append(toRecv, [Head(toSend) EXCEPT !.kind = "ACCEPT"])
    /\ UNCHANGED <<consts, rcv, disk, wire, inputs, spoilt>>

HandleResume ==
    /\ Arrives(toSend, "RESUME") /\ toSend' = Tail(toSend)
    /\ LET m == Head(toSend)
       IN  \/ /\ ResumedBy(m) = {}
              /\ UNCHANGED <<snd, toRecv, spoilt>>
           \/ \E o \in ResumedBy(m) :
                 LET d == [snd[o] EXCEPT !.resumable = m.pos]
                 IN  /\ IF d.resumable < size
                        THEN /\ snd' = [snd EXCEPT ![o] = [d EXCEPT !.pos = m.pos, !.ack = m.pos]]
                             /\ toRecv' = Append(toRecv,
                                   Message("ACCEPT", IF m.passive THEN o ELSE m.offer, m.passive, m.pos))
                        ELSE snd' = [snd EXCEPT ![o] = d] /\ UNCHANGED toRecv
                     /\ spoilt' = IF o = m.offer /\ d.stat = "queued" THEN spoilt
                                  ELSE spoilt \cup {o, m.offer}
    /\ UNCHANGED <<consts, rcv, disk, wire, inputs>>

\* the answer to a passive offer: dcc_connect
HandleSendReply ==
    /\ Arrives(toSend, "SEND") /\ toSend' = Tail(toSend)
    /\ LET o == Head(toSend).offer
       IN  snd' = IF snd[o].stat = "queued" THEN [snd EXCEPT ![o].stat = "connecting"] ELSE snd
    /\ UNCHANGED <<consts, rcv, disk, toRecv, wire, inputs, spoilt>>

Sent_KeepsHandler(d) == \* variant: the handler stays when everything is sent
    IF d.throttled THEN {[dcc |-> [d EXCEPT !.wiotag = FALSE], cells |-> 0]}
    ELSE IF ~prefs.fast /\ d.ack < d.pos % Wrap THEN {[dcc |-> d, cells |-> 0]}
    ELSE IF d.pos >= size THEN {[dcc |-> Shut(d, "failed"), cells |-> 0]}
    ELSE {[dcc |-> [d EXCEPT !.pos = @ + n, !.wiotag = prefs.fast], cells |-> n] :
             n \in {k \in 1..Block : d.pos + k <= size}}

\* dcc_send_data: the transfer after it, and how many cells it sends.  Left
\* out: a read that fails before the end of the file, and a socket that takes nothing
Sent(d) ==
    IF d.throttled THEN {[dcc |-> [d EXCEPT !.wiotag = FALSE], cells |-> 0]}
    ELSE IF ~prefs.fast /\ d.ack < d.pos % Wrap THEN {[dcc |-> d, cells |-> 0]}
    ELSE IF d.pos >= size THEN {[dcc |-> Shut(d, "failed"), cells |-> 0]}
    ELSE {[dcc   |-> [d EXCEPT !.pos = @ + n, !.wiotag = prefs.fast /\ d.pos + n < size],
           cells |-> n] : n \in {k \in 1..Block : d.pos + k <= size}}

\* a step of o's transfer that gives d to dcc_send_data
Sending(o, d, w) ==
    \E r \in Sent(d) :
        /\ snd' = [snd EXCEPT ![o] = r.dcc]
        /\ wire' = [wire EXCEPT ![o] =
              IF PeerIsGone(o, rcv) THEN w
              ELSE [w EXCEPT !.cells = @ \o Cells(d.pos, r.cells)]]

\* dcc_accept, or dcc_connect_finished for a passive transfer
BeginSend(o) ==
    Sending(o, [snd[o] EXCEPT !.stat = "active", !.wiotag = prefs.fast],
            [wire[o] EXCEPT !.link = IF @ = "none" THEN "up" ELSE @])

dcc_accept(o) ==
    /\ snd[o].stat = "queued" /\ ~snd[o].passive /\ wire[o].link # "none"
    /\ BeginSend(o)
    /\ UNCHANGED <<consts, rcv, disk, irc, inputs, spoilt>>

SendConnects(o) ==
    /\ snd[o].stat = "connecting"
    /\ \/ rcv[o].stat = "connecting" /\ BeginSend(o)
       \/ snd' = [snd EXCEPT ![o].stat = "failed"] /\ UNCHANGED wire
    /\ UNCHANGED <<consts, rcv, disk, irc, inputs, spoilt>>

\* dcc_send_data as the handler of a socket that can be written
Writable(o) ==
    /\ snd[o].stat = "active" /\ snd[o].wiotag
    /\ Sending(o, snd[o], wire[o])
    /\ UNCHANGED <<consts, rcv, disk, irc, inputs, spoilt>>

ReadAck_WhenSent(o) == \* variant: done when everything is sent, whatever is acknowledged
    /\ snd[o].stat = "active" /\ wire[o].acks # <<>> /\ snd[o].pos >= size
    /\ snd' = [snd EXCEPT ![o] = Shut(@, "done")]
    /\ wire' = [wire EXCEPT ![o].acks = <<>>]
    /\ UNCHANGED <<consts, rcv, disk, irc, inputs, spoilt>>

\* dcc_handle_new_ack, for each acknowledgement dcc_read_ack finds
ReadAck(o) ==
    /\ snd[o].stat = "active" /\ wire[o].acks # <<>>
    /\ LET a == Head(wire[o].acks)
           w == [wire[o] EXCEPT !.acks = Tail(@)]
           e == [snd[o] EXCEPT !.ackoffset = @ \/ (size < Wrap /\ a < snd[o].resumable)]
           d == [e EXCEPT !.ack = IF e.ackoffset THEN a + e.resumable ELSE a]
           high(s) == [s EXCEPT !.ack = (s.pos \div Wrap) * Wrap + (d.ack % Wrap)]
       IN  IF d.pos >= size /\ d.ack >= size % Wrap
           THEN /\ snd' = [snd EXCEPT ![o] = [Shut(d, "done") EXCEPT !.ack = size]]
                /\ wire' = [wire EXCEPT ![o] = [w EXCEPT !.acks = <<>>]]
           ELSE IF ~prefs.fast /\ d.ack >= d.pos % Wrap
           THEN \E r \in Sent(d) :
                   /\ snd' = [snd EXCEPT ![o] = high(r.dcc)]
                   /\ wire' = [wire EXCEPT ![o] =
                         IF PeerIsGone(o, rcv) THEN w
                         ELSE [w EXCEPT !.cells = @ \o Cells(d.pos, r.cells)]]
           ELSE /\ snd' = [snd EXCEPT ![o] = high(d)]
                /\ wire' = [wire EXCEPT ![o] = w]
    /\ UNCHANGED <<consts, rcv, disk, irc, inputs, spoilt>>

\* dcc_read_ack on a connection that is closed or broken
SendEOF(o) ==
    /\ snd[o].stat = "active" /\ wire[o].acks = <<>> /\ PeerIsGone(o, rcv)
    /\ snd' = [snd EXCEPT ![o] = Shut(@, "failed")]
    /\ UNCHANGED <<consts, rcv, disk, irc, wire, inputs, spoilt>>

\* dcc_check_timeouts, dcc_calc_cps and dcc_unthrottle
SendThrottled(o) ==
    /\ snd[o].stat = "active" /\ ~snd[o].throttled /\ Input
    /\ snd' = [snd EXCEPT ![o].throttled = TRUE]
    /\ UNCHANGED <<consts, rcv, disk, irc, wire, spoilt>>

SendUnthrottled(o) ==
    /\ snd[o].stat = "active" /\ snd[o].throttled
    /\ Sending(o, [snd[o] EXCEPT !.throttled = FALSE], wire[o])
    /\ UNCHANGED <<consts, rcv, disk, irc, inputs, spoilt>>

\* dcc_abort by the user, dcc_check_timeouts by an offer's or a stall's timeout
SendAborted(o) ==
    /\ snd[o].stat \in {"queued"} \cup Underway /\ Input
    /\ snd' = [snd EXCEPT ![o] = Shut(@, "aborted")]
    /\ wire' = [wire EXCEPT ![o].acks = <<>>]
    /\ UNCHANGED <<consts, rcv, disk, irc, spoilt>>

\* dcc_abort, or dcc_check_timeouts with dcc_remove: the transfer leaves dcc_list
SendForgotten(o) ==
    /\ snd[o].stat \in Finished /\ Input
    /\ snd' = [snd EXCEPT ![o] = NewSend("gone", FALSE)]
    /\ UNCHANGED <<consts, rcv, disk, irc, wire, spoilt>>

-----------------------------------------------------------------------------
(***************************************************************************)
(* The receiver.                                                           *)
(***************************************************************************)
InProgress(o, d) ==
    {p \in Offers \ {o} : rcv[p].stat \in Underway /\ rcv[p].destfile = d.destfile}

update_is_resumable(o, d) ==
    LET partly == d.destfile \in DOMAIN disk /\ Len(disk[d.destfile]) < size
        found  == IF partly THEN Len(disk[d.destfile]) ELSE 0
    IN  IF found # 0 /\ InProgress(o, d) # {} THEN [d EXCEPT !.resumable = 0, !.pos = 0]
        ELSE [d EXCEPT !.resumable = found, !.pos = IF partly THEN found ELSE @]

\* dcc_connect; `agreed' says whether both ends were asked to begin at the same cell.  A
\* resumed transfer is `alone' if its file is the one it asked about and nobody else's.
dcc_connect(o, d, agreed) ==
    LET others == {p \in InProgress(o, d) : rcv[p].resumable # 0}
        alone  == d.resumable = 0 \/ (others = {} /\ disk[d.destfile] = Cells(0, d.resumable))
    IN  /\ rcv' = [rcv EXCEPT ![o] = [d EXCEPT !.stat = "connecting"]]
        /\ toSend' = IF d.passive THEN Append(toSend, Message("SEND", o, TRUE, 0)) ELSE toSend
        /\ spoilt' = spoilt \cup (IF agreed THEN {} ELSE {o}) \cup (IF alone THEN {} ELSE {o} \cup others)

dcc_resume(o, d) ==
    LET u == update_is_resumable(o, d)
    IN  /\ IF u.resumable # 0
           THEN /\ rcv' = [rcv EXCEPT ![o] = [u EXCEPT !.resume_sent = TRUE]]
                /\ toSend' = Append(toSend, Message("RESUME", o, d.passive, u.resumable))
           ELSE rcv' = [rcv EXCEPT ![o] = u] /\ UNCHANGED toSend
        /\ UNCHANGED spoilt

dcc_get(o, d) ==
    IF prefs.resume /\ d.resumable # 0 THEN dcc_resume(o, d)
    ELSE dcc_connect(o, [d EXCEPT !.resumable = 0, !.pos = 0], ~d.resume_sent)

\* dcc_add_file
HandleSend ==
    /\ Arrives(toRecv, "SEND") /\ toRecv' = Tail(toRecv)
    /\ LET o == Head(toRecv).offer
           d == update_is_resumable(o, NewRecv("queued", Head(toRecv).passive))
       IN  IF prefs.auto THEN dcc_get(o, d)
           ELSE rcv' = [rcv EXCEPT ![o] = d] /\ UNCHANGED <<toSend, spoilt>>
    /\ UNCHANGED <<consts, snd, disk, wire, inputs>>

\* find_dcc_from_port: every passive offer has port 0
AcceptedBy(m) ==
    LET queued == {o \in Offers : rcv[o].stat = "queued" /\ (IF m.passive THEN rcv[o].passive ELSE o = m.offer)}
    IN  {o \in queued : \A p \in queued : p <= o}

HandleAccept ==
    /\ Arrives(toRecv, "ACCEPT") /\ toRecv' = Tail(toRecv)
    /\ LET m == Head(toRecv)
       IN  \/ AcceptedBy(m) = {} /\ UNCHANGED <<rcv, toSend, spoilt>>
           \/ \E o \in AcceptedBy(m) :
                 dcc_connect(o, rcv[o], o = m.offer /\ m.pos = rcv[o].resumable)
    /\ UNCHANGED <<consts, snd, disk, wire, inputs>>

\* the user's buttons and commands
Get(o) ==
    /\ rcv[o].stat = "queued" /\ Input
    /\ dcc_get(o, rcv[o])
    /\ UNCHANGED <<consts, snd, disk, toRecv, wire>>

Resume(o) ==
    /\ rcv[o].stat = "queued" /\ Input
    /\ dcc_resume(o, rcv[o])
    /\ UNCHANGED <<consts, snd, disk, toRecv, wire>>

dcc_get_nick ==
    /\ Input
    /\ \E o \in {p \in Offers : rcv[p].stat = "queued"} :
          /\ \A p \in Offers : rcv[p].stat = "queued" => p <= o
          /\ LET d == update_is_resumable(o, rcv[o])
             IN  IF prefs.resume /\ d.resumable # 0 THEN dcc_resume(o, d)
                 ELSE dcc_connect(o, [d EXCEPT !.pos = 0], ~d.resume_sent /\ d.resumable = 0)
    /\ UNCHANGED <<consts, snd, disk, toRecv, wire>>

\* dcc_connect_finished of an offer that is not passive
RecvConnects(o) ==
    /\ rcv[o].stat = "connecting" /\ ~rcv[o].passive
    /\ \/ /\ snd[o].stat = "queued"
          /\ rcv' = [rcv EXCEPT ![o].stat = "active"]
          /\ wire' = [wire EXCEPT ![o].link = "up"]
       \/ rcv' = [rcv EXCEPT ![o].stat = "failed"] /\ UNCHANGED wire
    /\ UNCHANGED <<consts, snd, disk, irc, inputs, spoilt>>

\* dcc_accept of a passive one
RecvAccepts(o) ==
    /\ rcv[o].stat = "connecting" /\ wire[o].link # "none"
    /\ rcv' = [rcv EXCEPT ![o].stat = "active"]
    /\ UNCHANGED <<consts, snd, disk, irc, wire, inputs, spoilt>>

\* the beginning of dcc_read: the file is opened at the first call
Opened(d) ==
    IF d.open THEN d
    ELSE IF d.resumable # 0 THEN [d EXCEPT !.open = TRUE, !.pos = d.resumable]
    ELSE LET free == {f \in 0..MaxOffers : f \notin DOMAIN disk}
         IN  [d EXCEPT !.open = TRUE, !.destfile = CHOOSE f \in free : \A g \in free : f <= g]

Written(d, cells) ==
    [f \in DOMAIN disk \cup {d.destfile} |->
        (IF f \in DOMAIN disk THEN disk[f] ELSE <<>>) \o (IF f = d.destfile THEN cells ELSE <<>>)]

Acked_Behind(o, w, pos) == \* variant: acknowledges one cell less
    IF PeerIsGone(o, snd) THEN w ELSE [w EXCEPT !.acks = Append(@, (pos - 1) % Wrap)]

\* dcc_send_ack
Acked(o, w, pos) == IF PeerIsGone(o, snd) THEN w ELSE [w EXCEPT !.acks = Append(@, pos % Wrap)]

\* dcc_read of d when k cells have come: they are acknowledged together, and written
\* all or none, as the code counts them (lines 753, 764)
Reading(o, d, k) ==
    LET f     == Opened(d)
        cells == SubSeq(wire[o].cells, 1, k)
        w     == [wire[o] EXCEPT !.cells = SubSeq(@, k + 1, Len(@))]
        g     == [f EXCEPT !.pos = @ + k]
        done  == k > 0 /\ g.pos >= size
    IN  /\ disk' = Written(f, cells)
        /\ rcv' = [rcv EXCEPT ![o] = IF done THEN Closed(g, "done") ELSE g]
        /\ wire' = [wire EXCEPT ![o] = IF k = 0 THEN w
                       ELSE IF done THEN [Acked(o, w, g.pos) EXCEPT !.cells = <<>>]
                       ELSE Acked(o, w, g.pos)]

Read(o) ==
    /\ rcv[o].stat = "active" /\ wire[o].cells # <<>>
    /\ \E k \in (IF rcv[o].throttled THEN {0} ELSE 1..Len(wire[o].cells)) : Reading(o, rcv[o], k)
    /\ UNCHANGED <<consts, snd, irc, inputs, spoilt>>

RecvEOF(o) ==
    /\ rcv[o].stat = "active" /\ wire[o].cells = <<>> /\ ~rcv[o].throttled
    /\ wire[o].link = "cut" \/ snd[o].stat \notin {"queued", "active"}
    /\ LET d == Opened(rcv[o])
       IN  disk' = Written(d, <<>>) /\ rcv' = [rcv EXCEPT ![o] = Closed(d, "failed")]
    /\ UNCHANGED <<consts, snd, irc, wire, inputs, spoilt>>

\* write fails
DiskFull(o) ==
    /\ rcv[o].stat = "active" /\ wire[o].cells # <<>> /\ ~rcv[o].throttled /\ Input
    /\ LET d == Opened(rcv[o])
       IN  disk' = Written(d, <<>>) /\ rcv' = [rcv EXCEPT ![o] = Closed(d, "failed")]
    /\ wire' = [wire EXCEPT ![o].cells = <<>>]
    /\ UNCHANGED <<consts, snd, irc, spoilt>>

RecvThrottled(o) ==
    /\ rcv[o].stat = "active" /\ ~rcv[o].throttled /\ Input
    /\ rcv' = [rcv EXCEPT ![o].throttled = TRUE]
    /\ UNCHANGED <<consts, snd, disk, irc, wire, spoilt>>

RecvUnthrottled(o) ==
    /\ rcv[o].stat = "active" /\ rcv[o].throttled
    /\ \E k \in 0..Len(wire[o].cells) : Reading(o, [rcv[o] EXCEPT !.throttled = FALSE], k)
    /\ UNCHANGED <<consts, snd, irc, inputs, spoilt>>

RecvAborted(o) ==
    /\ rcv[o].stat \in {"queued"} \cup Underway /\ Input
    /\ rcv' = [rcv EXCEPT ![o] = Closed(@, "aborted")]
    /\ wire' = [wire EXCEPT ![o].cells = <<>>]
    /\ UNCHANGED <<consts, snd, disk, irc, spoilt>>

RecvForgotten(o) ==
    /\ rcv[o].stat \in Finished /\ Input
    /\ rcv' = [rcv EXCEPT ![o] = NewRecv("gone", FALSE)]
    /\ UNCHANGED <<consts, snd, disk, irc, wire, spoilt>>

\* the network: what is on its way is lost
Break(o) ==
    /\ wire[o].link = "up" /\ Input
    /\ wire' = [wire EXCEPT ![o] = [link |-> "cut", cells |-> <<>>, acks |-> <<>>]]
    /\ UNCHANGED <<consts, snd, rcv, disk, irc, spoilt>>

-----------------------------------------------------------------------------
\* what each client's main loop does without its user
SenderLoop ==
    \/ HandleResume \/ HandleSendReply
    \/ \E o \in Offers : \/ dcc_accept(o) \/ SendConnects(o) \/ Writable(o)
                        \/ ReadAck(o) \/ SendEOF(o) \/ SendUnthrottled(o)

ReceiverLoop ==
    \/ HandleSend \/ HandleAccept
    \/ \E o \in Offers : RecvConnects(o) \/ RecvAccepts(o) \/ Read(o) \/ RecvEOF(o) \/ RecvUnthrottled(o)

Next ==
    \/ SenderLoop \/ ReceiverLoop \/ dcc_get_nick
    \/ \E o \in Offers :
          \/ \E passive \in BOOLEAN : dcc_send(o, passive)
          \/ SendThrottled(o) \/ SendAborted(o) \/ SendForgotten(o)
          \/ Get(o) \/ Resume(o) \/ DiskFull(o) \/ RecvThrottled(o) \/ RecvAborted(o) \/ RecvForgotten(o)
          \/ Break(o)

Spec == Init /\ [][Next]_vars

(***************************************************************************)
(* Each client's main loop goes on as long as a handler has something to   *)
(* do; the timer lifts a limit once the average has fallen.  A timeout     *)
(* need not come.                                                          *)
(***************************************************************************)
FairSpec == Spec /\ WF_vars(SenderLoop) /\ WF_vars(ReceiverLoop)

-----------------------------------------------------------------------------
\* A transfer that ends as done has left the whole file behind, resumed or not, unless its two
\* ends did not agree where to begin or somebody else wrote into the file.
WholeWhenDone ==
    [][\A o \in Offers : rcv'[o].stat = "done" /\ rcv[o].stat # "done" /\ o \notin spoilt' =>
          disk'[rcv'[o].destfile] = Cells(0, size)]_vars

\* The sender calls a transfer done only when the receiver has the whole file; above 4 GB it may
\* not know.
DoneMeansReceived ==
    \A o \in Offers : snd[o].stat = "done" /\ o \notin spoilt /\ size < Wrap => rcv[o].stat \in {"done", "gone"}

\* A transfer that is under way fails at the sender only after the connection broke or the
\* receiver closed it, or if it is unthrottled while it waits for the last acknowledgement and
\* that acknowledgement is not what holds it back (fast sending, a file above 4 GB, or a RESUME
\* that came when the transfer had begun and made the sender misread what is acknowledged).
FailsWithPeer ==
    [][\A o \in Offers : snd[o].stat = "active" /\ snd'[o].stat = "failed" =>
          \/ PeerIsGone(o, rcv)
          \/ (prefs.fast \/ size >= Wrap \/ o \in spoilt) /\ snd[o].throttled /\ snd[o].pos = size]_vars

\* Every transfer whose ends agreed comes to an end on both sides without a timeout: there comes
\* a time, again and again, when none is active.
TransfersEnd ==
    []<>(\A o \in Offers : o \in spoilt \/ (snd[o].stat # "active" /\ rcv[o].stat # "active"))

\* No two transfers under way resume into the same file.
OneWriter ==
    \A o, p \in Offers :
        /\ o # p /\ rcv[o].stat \in Underway /\ rcv[p].stat \in Underway
        /\ rcv[o].resumable # 0 /\ rcv[p].resumable # 0
        => rcv[o].destfile # rcv[p].destfile
=============================================================================
