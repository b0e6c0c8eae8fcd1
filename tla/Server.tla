------------------------------- MODULE Server -------------------------------
(***************************************************************************)
(* A server of HexChat (common/server.c, servlist.c): its connection, the  *)
(* timeouts that re-establish it, the throttled queue it sends from, and   *)
(* the commands of users and plugins, which also come while a line of the  *)
(* server is handled, inside server_read.  One thread runs all of it, so   *)
(* an action is what one callback of GLib's loop does, except that the     *)
(* handlers a line runs are actions of their own.                          *)
(*                                                                         *)
(* The server belongs to a network with servers, throttling and automatic  *)
(* reconnection are on, and the clock (time(0)) may be set back.           *)
(***************************************************************************)
EXTENDS Integers, Filter

CONSTANTS
    Kinds,        \* what is said: records of a priority, 0..2, and a cost of 2 seconds at least
    MaxCost,      \* the most that one costs
    Limit,        \* seconds the queue may owe, 10 in the code
    MaxConnects,  \* bound on connections
    MaxSaid,      \* bound on what is said in one connection
    MaxJump       \* how far the clock may be set back, once

VARIABLES
    serv,         \* the server: see TypeOK
    reading,      \* server_read is handling the lines of this connection, or 0
    wanted,       \* history: the last command was to connect, and no proxy refused it
    crossed,      \* history: a reconnection was armed while there was an attempt or a connection
    inside,       \* history: a line's handler has closed, cut or replaced the connection
    jumped,       \* the clock was set back
    fault         \* memory of a freed server was used

vars == <<serv, reading, wanted, crossed, inside, jumped, fault>>

Ids      == 1..(MaxConnects + 1)     \* tags of timeouts: an attempt may leave one behind
Timeouts == [id : Ids, kind : {"reconnect", "cycle"}]
Messages == [n : 1..(MaxSaid + 2), pri : 0..2, cost : 2..MaxCost, of : 1..MaxConnects]

ASSUME ServerAssumption ==
    /\ \A k \in Kinds : k.pri \in 0..2 /\ k.cost \in 2..MaxCost
    /\ MaxCost \in Nat \ {0, 1} /\ Limit \in Nat \ {0} /\ MaxConnects \in Nat /\ MaxSaid \in Nat /\ MaxJump \in Nat

TypeOK ==
    /\ serv.conn \in {"off", "connecting", "connected", "freed"}
    /\ serv.motd \in BOOLEAN                       \* end_of_motd
    /\ serv.tag \in Ids \cup {0}                   \* recondelay_tag
    /\ serv.timers \subseteq Timeouts              \* timeouts that call auto_reconnect's or servlist's callback
    /\ serv.handlers \in Nat                       \* timeouts that call tcp_send_queue: a flush or a command leaves
    /\ serv.out.queue # <<>> => serv.handlers > 0  \* some behind, and while anything waits there is one at least
    /\ serv.out.queue \in Seq(Messages)            \* outbound_queue
    /\ serv.out.owed \in Int                       \* next_send - now, not less than -MaxJump
    /\ serv.out.since \in Int                      \* now - prev_now, not more than MaxJump
    /\ serv.out.sent \in Seq(Messages)             \* history: what this connection sent
    /\ serv.said \in 0..(MaxSaid + 2)              \* history: how many it was given
    /\ serv.born \in 0..MaxConnects                \* history: its number
    /\ reading \in 0..MaxConnects
    /\ wanted \in BOOLEAN /\ crossed \in BOOLEAN /\ inside \in BOOLEAN /\ jumped \in BOOLEAN
    /\ fault \in BOOLEAN

Init ==
    /\ serv = [conn |-> "off", motd |-> FALSE, tag |-> 0, timers |-> {}, handlers |-> 0, said |-> 0, born |-> 0,
               out |-> [queue |-> <<>>, owed |-> -MaxJump, since |-> MaxJump, sent |-> <<>>]]
    /\ reading = 0 /\ wanted = FALSE /\ crossed = FALSE /\ inside = FALSE /\ jumped = FALSE
    /\ fault = FALSE

-----------------------------------------------------------------------------
(* The queue, the field out of the server.                                 *)

\* One message leaves, unless Limit seconds are owed by a clock that has not
\* been set back since the last one left.
Owing(o)   == IF o.owed < 0 THEN 0 ELSE o.owed
Stops_Unskewed(o) == Owing(o) >= Limit
Stops_AtOnce(o)   == Owing(o) >= 0 /\ o.since >= 0
Stops(o)   == Owing(o) >= Limit /\ o.since >= 0

\* The next message is the first of the highest priority there is.
Foremost_Queued(queue) == 1
Foremost(queue) ==
    CHOOSE i \in DOMAIN queue : \A j \in DOMAIN queue :
        queue[j].pri < queue[i].pri \/ (queue[j].pri = queue[i].pri /\ i <= j)
Without(queue, i) == [j \in 1..(Len(queue) - 1) |-> queue[IF j < i THEN j ELSE j + 1]]
\* The message is out of the queue whatever send answers: the code does not look
\* (line 164), and that a socket may take less than the line is left out here.
SendOne(o) ==
    LET i == Foremost(o.queue)
    IN  [queue |-> Without(o.queue, i),
         owed  |-> (IF Owing(o) >= Limit THEN 0 ELSE Owing(o)) + o.queue[i].cost,
         since |-> 0,
         sent  |-> Append(o.sent, o.queue[i])]

\* tcp_send_queue sends one after another; once it stops, it stops at what
\* follows too, and asks to be called again.  (Each step binds the one before,
\* which TLC would otherwise evaluate wherever it is used.)
OneMore(o) == IF o.queue = <<>> \/ Stops(o) THEN o ELSE SendOne(o)
Sending(o) ==
    LET after[i \in 0..Len(o.queue)] ==
            IF i = 0 THEN o ELSE CHOOSE b \in {OneMore(a) : a \in {after[i - 1]}} : TRUE
    IN  after[Len(o.queue)]
tcp_send_queue(s) == [s EXCEPT !.out = Sending(@)]
Full(s) == s.out.queue # <<>>

\* tcp_send_len: the timeout is armed by the message that finds the queue empty.
Armed_Late(before, after)   == Full(after) /\ after.out.queue = <<>>
Armed(before, after)        == Full(after) /\ before.out.queue = <<>>
tcp_send_len(s, k) ==
    LET m == [n |-> s.said + 1, pri |-> k.pri, cost |-> k.cost, of |-> s.born]
        r == tcp_send_queue([s EXCEPT !.out.queue = Append(@, m), !.said = @ + 1])
    IN  [r EXCEPT !.handlers = IF Armed(s, r) THEN @ + 1 ELSE @]

server_flush_queue(s) == [s EXCEPT !.out.queue = <<>>]

Login == [pri |-> 2, cost |-> 2]
Quit  == [pri |-> 2, cost |-> 2]

-----------------------------------------------------------------------------
(* The connection.                                                         *)

Active(s) == s.conn \in {"connecting", "connected"}
FreeId(s) == CHOOSE i \in Ids : i # s.tag /\ \A t \in s.timers : t.id # i
Arm(s, kind) ==
    [s EXCEPT !.timers = @ \cup {[id |-> FreeId(s), kind |-> kind]}, !.tag = FreeId(s)]
Disarmed(s) == [s EXCEPT !.timers = {t \in @ : t.id # s.tag}, !.tag = 0]

\* A tag is cleared only if there is neither an attempt nor a connection.
server_cleanup_KeepsTimeout(s) ==
    IF Active(s) THEN [s EXCEPT !.conn = "off", !.motd = FALSE] ELSE s
server_cleanup(s) ==
    CASE s.conn = "connecting" -> [s EXCEPT !.conn = "off"]
      [] s.conn = "connected"  -> [s EXCEPT !.conn = "off", !.motd = FALSE]
      [] OTHER                 -> Disarmed(s)

\* The queue is flushed unless nothing or only an attempt was stopped.
server_disconnect(s, sendquit) ==
    LET q == IF sendquit /\ s.conn = "connected" THEN tcp_send_len(s, Quit) ELSE s
        c == server_cleanup(q)
    IN  IF s.conn = "connecting" \/ (s.conn = "off" /\ s.tag = 0) THEN c ELSE server_flush_queue(c)

auto_reconnect(s, sendquit) ==
    Arm(Disarmed(IF s.conn = "connected" THEN server_disconnect(s, sendquit) ELSE s), "reconnect")

\* servlist_cycle does not look whether a timeout is armed.
servlist_cycle(s) == Arm(s, "cycle")

server_connect(s) ==
    LET idle == IF s.conn \in {"connected", "connecting"} \/ s.tag # 0
                THEN server_disconnect(s, TRUE) ELSE s
    IN  [server_flush_queue(idle) EXCEPT !.conn = "connecting", !.motd = FALSE,
                                         !.born = @ + 1, !.out.sent = <<>>, !.said = 0]

-----------------------------------------------------------------------------
Alive  == ~fault /\ serv.conn # "freed"
Idle   == ~fault /\ reading = 0
Becomes(s) == serv' = s /\ crossed' = (crossed \/ (s.tag # 0 /\ Active(s)))

\* A command, perhaps of a plugin that was called for a line.
Command(s, want) ==
    /\ Alive
    /\ Becomes(s) /\ wanted' = want
    /\ inside' = (inside \/ reading # 0)
    /\ UNCHANGED <<reading, jumped, fault>>

Connect    == serv.born < MaxConnects /\ Command(server_connect(serv), TRUE)
Disconnect == Command(server_disconnect(serv, TRUE), FALSE)
Reconnect  == Command(auto_reconnect(serv, TRUE), TRUE)

\* The last window of the server is closed: send_quit_or_part, server_free.
Close ==
    LET q == IF serv.conn = "connected" THEN tcp_send_len(server_flush_queue(serv), Quit) ELSE serv
    IN  Command([server_flush_queue(server_cleanup(q)) EXCEPT !.conn = "freed"], FALSE)

\* Something is said on a connection.  The code does not ask for one (line 182):
\* what is said without one is written to the closed socket, or waits until the
\* flush that begins the next connection (line 1587); that is left out here.
Say(k) ==
    /\ Alive /\ serv.conn = "connected" /\ serv.said < MaxSaid
    /\ Becomes(tcp_send_len(serv, k))
    /\ UNCHANGED <<reading, wanted, inside, jumped, fault>>

\* The child that connects reports failure, or success: the login is sent.
ChildFails ==
    /\ Idle /\ serv.conn = "connecting"
    /\ Becomes(servlist_cycle([serv EXCEPT !.conn = "off"]))
    /\ UNCHANGED <<reading, wanted, inside, jumped, fault>>

ChildSucceeds ==
    /\ Idle /\ serv.conn = "connecting"
    /\ Becomes(tcp_send_len([serv EXCEPT !.conn = "connected"], Login))
    /\ UNCHANGED <<reading, wanted, inside, jumped, fault>>

ProxyFails ==
    /\ Idle /\ serv.conn = "connecting"
    /\ Becomes(server_disconnect(serv, FALSE)) /\ wanted' = FALSE
    /\ UNCHANGED <<reading, inside, jumped, fault>>

\* server_read: lines to handle.
ReadBegins ==
    /\ Idle /\ serv.conn = "connected"
    /\ reading' = serv.born
    /\ UNCHANGED <<serv, wanted, crossed, inside, jumped, fault>>

MotdEnds ==
    /\ Alive /\ reading # 0
    /\ Becomes([serv EXCEPT !.motd = TRUE])
    /\ UNCHANGED <<reading, wanted, inside, jumped, fault>>

\* No more for now, or the connection is closed: the socket it reads from
\* may not be the server's any more, and the server may be gone.
ReadEnds(eof) ==
    /\ ~fault /\ reading # 0 /\ reading' = 0
    /\ IF serv.conn = "freed" THEN fault' = TRUE /\ UNCHANGED <<serv, crossed>>
       ELSE /\ UNCHANGED fault
            /\ IF ~eof THEN UNCHANGED <<serv, crossed>>
               ELSE IF serv.motd THEN Becomes(auto_reconnect(serv, FALSE))
               ELSE Becomes(servlist_cycle(server_disconnect(serv, FALSE)))
    /\ UNCHANGED <<wanted, inside, jumped>>

\* lag_check: no answer to the pings.
PingTimesOut ==
    /\ Idle /\ serv.conn = "connected" /\ serv.motd
    /\ Becomes(auto_reconnect(serv, FALSE))
    /\ UNCHANGED <<reading, wanted, inside, jumped, fault>>

\* timeout_auto_reconnect and servlist_cycle_cb: only the former looks whether
\* the server still exists and needs a connection.  A timeout is removed as it ends.
TimeoutFires(t) ==
    /\ Idle
    /\ LET without == [serv EXCEPT !.timers = @ \ {t}]
           free    == IF t.kind = "reconnect" THEN [without EXCEPT !.tag = 0] ELSE without
       IN  IF serv.conn = "freed" THEN Becomes(without) /\ fault' = (t.kind = "cycle")
           ELSE /\ UNCHANGED fault
                /\ IF t.kind = "reconnect" /\ Active(serv) THEN Becomes(free)
                   ELSE serv.born < MaxConnects /\ Becomes(server_connect(free))
    /\ UNCHANGED <<reading, wanted, inside, jumped>>

\* The timeout of the queue: it stays while the queue is full.
HandlerFires ==
    /\ Idle /\ serv.handlers > 0
    /\ IF serv.conn = "freed" THEN Becomes([serv EXCEPT !.handlers = @ - 1])
       ELSE LET r == tcp_send_queue(serv)
            IN  Becomes(IF Full(r) THEN r ELSE [r EXCEPT !.handlers = @ - 1])
    /\ UNCHANGED <<reading, wanted, inside, jumped, fault>>

\* Time passes.
Clock ==
    /\ ~fault
    /\ Becomes([serv EXCEPT !.out.owed  = IF @ > -MaxJump THEN @ - 1 ELSE @,
                            !.out.since = IF @ < MaxJump THEN @ + 1 ELSE @])
    /\ UNCHANGED <<reading, wanted, inside, jumped, fault>>

\* The clock is set back.
SetBack(by) ==
    /\ ~fault /\ ~jumped /\ jumped' = TRUE
    /\ Becomes([serv EXCEPT !.out.owed = @ + by, !.out.since = @ - by])
    /\ UNCHANGED <<reading, wanted, inside, fault>>

Next ==
    \/ Connect \/ Disconnect \/ Reconnect \/ Close \/ \E k \in Kinds : Say(k)
    \/ ChildFails \/ ChildSucceeds \/ ProxyFails
    \/ ReadBegins \/ MotdEnds \/ \E eof \in BOOLEAN : ReadEnds(eof)
    \/ PingTimesOut \/ \E t \in serv.timers : TimeoutFires(t)
    \/ HandlerFires \/ Clock \/ \E by \in 1..MaxJump : SetBack(by)

Spec == Init /\ [][Next]_vars

\* GLib's loop runs every timeout that is due between two lines of a server,
\* server_read comes to an end, the clock goes on.
FairSpec == Spec /\ SF_vars(HandlerFires) /\ WF_vars(Clock) /\ WF_vars(\E b \in BOOLEAN : ReadEnds(b))

-----------------------------------------------------------------------------
\* A clock that is set back, by whatever it was, never silences the client for
\* longer than a full queue does: when the timeout or a new message leaves
\* messages behind, no more is owed than one message can add below the limit
\* (server.c:148-160).
SilenceBounded ==
    [][serv.conn = "connected" /\ serv'.out.queue \notin {<<>>, serv.out.queue}
          => serv'.out.owed <= Limit - 1 + MaxCost]_vars

\* Every pending timeout is the one recondelay_tag names, so that it can be
\* taken back, unless a reconnection was armed beside an attempt or a
\* connection (server.c:719-726, 945-951; servlist.c:581).
TimeoutsAreNamed == ~crossed => \A t \in serv.timers : t.id = serv.tag

\* A connection that was closed by a command is not opened again by itself,
\* with the same exception, or if the command came inside server_read
\* (server.c:663-676, 897-955).
StaysOff == ~(wanted \/ crossed \/ inside) => ~Active(serv) /\ serv.timers = {}

\* A connection that is wanted is there, being made, or a timeout is pending
\* that makes it, whatever fails (server.c:681-722, servlist.c:556-590).
KeepsTrying == (wanted /\ ~fault) => Active(serv) \/ serv.timers # {}

\* Memory of a freed server is used only after a line's handler has closed
\* it, or a timeout was armed beside an attempt (server.c:277-345, servlist.c:544).
FreedIsNotUsed == fault => inside \/ crossed

\* The queue keeps the promise of Outbox.
Waiting(p, queue) == Picked(queue, {i \in DOMAIN queue : queue[i].pri = p})
Box == INSTANCE Outbox WITH
    Priorities <- 0..2,
    open       <- serv.conn = "connected",
    pending    <- [p \in 0..2 |-> Waiting(p, serv.out.queue)],
    delivered  <- serv.out.sent
ImplementsOutbox == Box!Spec

\* What was said is sent, or its connection comes to an end.
QueueDrains == (serv.out.queue # <<>>) ~> (serv.out.queue = <<>> \/ fault)

\* A connection is there or on its way if and only if it is wanted, and the
\* timeouts that make it can be taken back and find their server.
ReconnectsAsWanted == StaysOff /\ KeepsTrying /\ TimeoutsAreNamed /\ FreedIsNotUsed
=============================================================================
