------------------------------ MODULE Referee ------------------------------
(***************************************************************************)
(* The OSU-Referee plugin (bot/bot.c) between the chat server, BanchoBot   *)
(* and the people who ask for a multiplayer room.                          *)
(*                                                                         *)
(* A staff member sends "!mp make <name>" to the bot's account.  The       *)
(* plugin pushes the sender on its queue `creator' and sends the request   *)
(* on to BanchoBot.  BanchoBot's private answer is matched with the head   *)
(* of the queue: the room is entered in `matches' and configured.          *)
(*                                                                         *)
(* Every PRIVMSG is one atomic step: HexChat runs the hooks to completion  *)
(* on its main thread, and a command a hook runs is queued synchronously.  *)
(* The server, BanchoBot and the people are external to the repository and *)
(* modelled from the texts bot.c sends and looks for.                      *)
(***************************************************************************)
EXTENDS Naturals, Sequences, FiniteSets

CONSTANTS
    Players,     \* accounts of people; staff is a set of them
    Nick,        \* the account HexChat is logged in with
    BanchoBot,   \* the account of osu!'s bot
    Namesakes,   \* accounts whose nick!user@host has "BanchoBot" in it as well
    Zero,        \* "0", the default value of the attribute "wait"
    Rooms,       \* the rooms BanchoBot can create; a room stands for its channel
    None,        \* no value: an attribute not in the file, a room not created
    NameClasses, \* the classes of room names in use, a subset of NameClass
    Chatter,     \* texts nobody acts on, and the two greetings
    FirstPrefs,  \* the preference files the plugin may find
    NewStaff,    \* the staff lists the operator may configure
    MaxSaid,     \* bound: messages people and BanchoBot send of their own accord
    MaxTyped,    \* bound: commands the operator types
    MaxFaults    \* bound: disconnections, reloads and deaths while saving

(* What bot.c tells apart in the <name> of "!mp make <name>": written after *)
(* the template with its parentheses; matching the regular expression of   *)
(* line 392 only; not matching it; absent.                                 *)
NameClass == {"templated", "bare", "freeform", "empty"}

Accounts == Players \cup {Nick, BanchoBot}
Prefs == [version : BOOLEAN, staff : SUBSET Players, wait : {None, Zero, Nick}]

ASSUME ConstantsAssumption ==
    /\ Nick \notin Players /\ BanchoBot \notin Players /\ Nick # BanchoBot
    /\ Namesakes \subseteq Players \cup {Nick}
    /\ Zero \notin Accounts
    /\ None \notin Accounts \cup {Zero} \cup Rooms
    /\ Rooms \cap (Accounts \cup {Zero}) = {}
    /\ NameClasses \subseteq NameClass
    /\ Chatter \subseteq {"chat", "y", "snow"}
    /\ FirstPrefs \subseteq Prefs
    /\ NewStaff \subseteq SUBSET Players
    /\ MaxSaid \in Nat /\ MaxTyped \in Nat /\ MaxFaults \in Nat

VARIABLES
    status,    \* "up", or "crashed" with the whole client
    pref,      \* the preference file
    cfg,       \* the plugin's cfg: staff list and bot account
    made,      \* creator # NULL
    creator,   \* the GQueue of users waiting for BanchoBot's answer
    matches,   \* the hash table of tournaments, by channel
    connected, \* HexChat is connected to the server
    inbox,     \* PRIVMSGs on their way to the plugin
    outbox,    \* PRIVMSGs in HexChat's send queue
    rooms,     \* BanchoBot's rooms
    everStaff, \* history: who has ever been configured as staff or bot
    mistaken,  \* history: rooms registered on a message that was not BanchoBot's
    said, typed, faults \* counters behind the three bounds

plugin  == <<status, cfg, made, creator, matches>>
wire    == <<connected, inbox, outbox>>
bounds  == <<said, typed, faults>>
vars    == <<status, pref, cfg, made, creator, matches, connected, inbox,
             outbox, rooms, everStaff, mistaken, said, typed, faults>>

Requesters == Players \cup {Nick}
InKinds    == {"make", "created", "refused", "chat", "y", "snow"}
Incoming   == [from : Accounts, to : {Nick} \cup Rooms, kind : InKinds,
               name : NameClass, room : Rooms \cup {None}]
OutKinds   == {"make", "forward", "note", "help", "set", "password", "invite", "addref"}
RoomKinds  == {"set", "password", "invite", "addref"}
Outgoing   == {o \in [to : Accounts \cup {Zero} \cup Rooms, kind : OutKinds,
                      name : NameClass, user : Requesters \cup {None}] :
                 /\ o.kind \in RoomKinds <=> o.to \in Rooms
                 /\ o.kind \in {"make", "invite", "addref"} => o.user \in Requesters}
Tourney    == [creator : Requesters, name : NameClass]
Room       == [asker : Requesters, set : BOOLEAN, password : BOOLEAN,
               invited : SUBSET Requesters, refs : SUBSET Requesters]

ASSUME NoneAssumption == None \notin Room

TypeOK ==
    /\ status \in {"up", "crashed"}
    /\ pref \in Prefs
    /\ cfg \in [staff : SUBSET Players, bot : {Zero, Nick}]
    /\ made \in BOOLEAN
    /\ creator \in Seq(Requesters)
    /\ matches \in [Rooms -> Tourney \cup {None}]
    /\ connected \in BOOLEAN
    /\ inbox \in Seq(Incoming)
    /\ outbox \in Seq(Outgoing)
    /\ rooms \in [Rooms -> Room \cup {None}]
    /\ everStaff \in SUBSET Requesters
    /\ mistaken \in SUBSET Rooms
    /\ said \in Nat /\ typed \in Nat /\ faults \in Nat

-----------------------------------------------------------------------------
(* Configuration: init_cfg, reload_cfg and the load of the plugin.         *)

(* Without the version mark, every attribute that is missing gets its      *)
(* default; the mark is written last.                                      *)
InitCfg(p) ==
    IF p.version THEN p
    ELSE [p EXCEPT !.version = TRUE,
                   !.wait = IF p.wait = None THEN Zero ELSE p.wait]

ReloadCfg_NoDefault(p, c) == [staff |-> p.staff, bot |-> p.wait]
ReloadCfg_BotOnly(p, c) == [c EXCEPT !.bot = IF p.wait = None THEN c.bot ELSE p.wait]

(* The i-th attribute is copied to the i-th field of cfg, so "wait", the   *)
(* fifth, lands in the fifth field, bot.  A missing attribute leaves its   *)
(* field alone.                                                            *)
ReloadCfg(p, c) ==
    [staff |-> p.staff, bot |-> IF p.wait = None THEN c.bot ELSE p.wait]

(* hexchat_plugin_init: the fields are zero, then bot is the nick.         *)
LoadCfg(p) == ReloadCfg(InitCfg(p), [staff |-> {}, bot |-> Nick])

StaffOf(c) == c.staff \cup ({c.bot} \cap Requesters)

IsBot(u) == u = cfg.bot

IsStaff_Inverted(u) == IF IsBot(u) THEN 1 ELSE IF u \notin cfg.staff THEN 2 ELSE 0

(* is_staff: 1 for the bot's own account, 2 for a member of the list.  Its *)
(* parameter has no type and so is an int (bot.c:177), which cuts off half *)
(* of a 64-bit pointer; names are compared here as they were given, as in  *)
(* a 32-bit build.                                                         *)
IsStaff(u) == IF IsBot(u) THEN 1 ELSE IF u \in cfg.staff THEN 2 ELSE 0

NoMatches == [r \in Rooms |-> None]

Init ==
    /\ status = "up"
    /\ \E p \in FirstPrefs :
          /\ pref = InitCfg(p)
          /\ cfg = LoadCfg(p)
          /\ everStaff = StaffOf(LoadCfg(p))
    /\ made = FALSE
    /\ creator = <<>>
    /\ matches = NoMatches
    /\ connected = TRUE
    /\ inbox = <<>>
    /\ outbox = <<>>
    /\ rooms = [r \in Rooms |-> None]
    /\ mistaken = {}
    /\ said = 0 /\ typed = 0 /\ faults = 0

-----------------------------------------------------------------------------
(* What the hooks send.                                                    *)

Msg(to, kind, user) == [to |-> to, kind |-> kind, name |-> "empty", user |-> user]

(* `user' of a "make" is who asked for the room: the text does not say it. *)
Make(to, name, user) == [to |-> to, kind |-> "make", name |-> name, user |-> user]

(* A MSG command queues its line; without a connection it is dropped.      *)
Queued(ms) == IF connected THEN outbox \o ms ELSE outbox

(* y_scb and x_scb, the last two hooks to see a PRIVMSG.                   *)
Greeting(m) ==
    IF m.kind \in {"y", "snow"} THEN <<Msg(m.from, "note", None)>> ELSE <<>>

(* tourney_new cuts the team names out at the parentheses and the acronym  *)
(* at the colon; a delimiter that is missing gives substr a length of -1.  *)
Parsable(name) == name = "templated"

Configuration_InviteFirst(r, uname) ==
    (IF IsBot(uname) THEN <<>> ELSE <<Msg(r, "invite", uname), Msg(r, "addref", uname)>>)
       \o <<Msg(r, "set", None), Msg(r, "password", None)>>
Configuration_RefereeFirst(r, uname) ==
    <<Msg(r, "set", None), Msg(r, "password", None)>>
       \o IF IsBot(uname) THEN <<>>
          ELSE <<Msg(r, "addref", uname), Msg(r, "invite", uname)>>
Configuration_GuestOnlyBot(r, uname) ==
    <<Msg(r, "set", None), Msg(r, "password", None)>>
       \o IF ~IsBot(uname) THEN <<>>
          ELSE <<Msg(r, "invite", uname), Msg(r, "addref", uname)>>

(* The lines sent to a room that was just registered, in their order.      *)
Configuration(r, uname) ==
    <<Msg(r, "set", None), Msg(r, "password", None)>>
       \o IF IsBot(uname) THEN <<>>
          ELSE <<Msg(r, "invite", uname), Msg(r, "addref", uname)>>

Forward(uname) == IF IsBot(uname) THEN <<>> ELSE <<Msg(uname, "forward", None)>>

(* The private messages to the bot's account that pass for BanchoBot's: its *)
(* name is looked for anywhere in the sender's nick!user@host.             *)
FromBancho(m) == m.from \in {BanchoBot} \cup Namesakes /\ IsBot(m.to)

-----------------------------------------------------------------------------
(* The handling of one PRIVMSG: mp_make_scb, then the greetings.           *)

Receive(m) ==
    /\ status = "up"
    /\ inbox # <<>>
    /\ m = Head(inbox)

Consume == inbox' = Tail(inbox)

(* Somebody waits: the message goes to the head of the queue, whatever it  *)
(* is.                                                                     *)
Taken_FromBancho(m) == creator # <<>> /\ FromBancho(m)
Taken(m) == creator # <<>>

Pop_Peek == UNCHANGED creator
Pop == creator' = Tail(creator)

(* A request while nobody waits: staff is queued and the request goes on.  *)
RequestAccepted(m) ==
    /\ Receive(m)
    /\ ~Taken(m) /\ m.kind = "make" /\ IsBot(m.to)
    /\ IsStaff(m.from) > 0 /\ m.name # "freeform"
    /\ Consume
    /\ made' = TRUE
    /\ creator' = Append(creator, m.from)
    /\ outbox' = Queued(<<Make(BanchoBot, m.name, m.from)>>)
    /\ UNCHANGED <<status, pref, cfg, matches, connected, rooms, everStaff, mistaken, bounds>>

(* The help, six lines of it, or the refusal; the name is freed.           *)
RequestRejected(m) ==
    /\ Receive(m)
    /\ ~Taken(m) /\ m.kind = "make" /\ IsBot(m.to)
    /\ IsStaff(m.from) = 0 \/ m.name = "freeform"
    /\ Consume
    /\ made' = TRUE
    /\ outbox' = Queued(<<Msg(m.from, IF IsStaff(m.from) > 0 THEN "help" ELSE "note", None)>>)
    /\ UNCHANGED <<status, pref, cfg, creator, matches, connected, rooms,
                   everStaff, mistaken, bounds>>

(* Nobody waits and the message is no request.                             *)
NotARequest(m) ==
    /\ Receive(m)
    /\ ~Taken(m)
    /\ m.kind # "make" \/ ~IsBot(m.to)
    /\ Consume
    /\ made' = TRUE
    /\ outbox' = Queued(Greeting(m))
    /\ UNCHANGED <<status, pref, cfg, creator, matches, connected, rooms,
                   everStaff, mistaken, bounds>>

(* Somebody waits: whatever arrives, the head of the queue is popped       *)
(* before the message is looked at.                                        *)
PendingDropped(m) ==
    /\ Receive(m)
    /\ Taken(m)
    /\ ~FromBancho(m)
    /\ Consume
    /\ Pop
    /\ outbox' = Queued(Greeting(m))
    /\ UNCHANGED <<status, pref, cfg, made, matches, connected, rooms,
                   everStaff, mistaken, bounds>>

(* A private answer that announces no room is passed on.                   *)
AnswerForwarded(m) ==
    /\ Receive(m)
    /\ Taken(m)
    /\ FromBancho(m) /\ m.kind # "created"
    /\ Consume
    /\ Pop
    /\ outbox' = Queued(Forward(Head(creator)))
    /\ UNCHANGED <<status, pref, cfg, made, matches, connected, rooms,
                   everStaff, mistaken, bounds>>

(* The announcement of a room registers and configures it; a room that is  *)
(* announced again is registered again, in place of its first entry.       *)
RoomRegistered(m) ==
    /\ Receive(m)
    /\ Taken(m)
    /\ FromBancho(m) /\ m.kind = "created" /\ Parsable(m.name)
    /\ Consume
    /\ LET uname == Head(creator) IN
          /\ Pop
          /\ matches' = [matches EXCEPT ![m.room] = [creator |-> uname, name |-> m.name]]
          /\ outbox' = Queued(Forward(uname) \o Configuration(m.room, uname))
    /\ mistaken' = IF m.from = BanchoBot THEN mistaken ELSE mistaken \cup {m.room}
    /\ UNCHANGED <<status, pref, cfg, made, connected, rooms, everStaff, bounds>>

(* The client dies: what is in memory and on the wire is gone.             *)
ClientGone ==
    /\ made' = FALSE /\ creator' = <<>> /\ matches' = NoMatches
    /\ connected' = FALSE /\ inbox' = <<>> /\ outbox' = <<>>

(* tourney_new cannot parse the name: memcpy with a length of -1.          *)
RoomUnparsable(m) ==
    /\ Receive(m)
    /\ Taken(m)
    /\ FromBancho(m) /\ m.kind = "created" /\ ~Parsable(m.name)
    /\ status' = "crashed"
    /\ ClientGone
    /\ UNCHANGED <<pref, cfg, rooms, everStaff, mistaken, bounds>>

Handle ==
    /\ inbox # <<>>
    /\ LET m == Head(inbox) IN
       \/ RequestAccepted(m) \/ RequestRejected(m) \/ NotARequest(m)
       \/ PendingDropped(m) \/ AnswerForwarded(m)
       \/ RoomRegistered(m) \/ RoomUnparsable(m)

-----------------------------------------------------------------------------
(* The operator's commands.                                                *)

Typing == status = "up" /\ typed < MaxTyped /\ typed' = typed + 1

(* /MAKE [name]: the request is sent to the bot's own account.             *)
MakeCommand(name) ==
    /\ Typing
    /\ outbox' = Queued(<<Make(cfg.bot, IF name = "empty" THEN "templated" ELSE name, Nick)>>)
    /\ UNCHANGED <<plugin, pref, connected, inbox, rooms, everStaff, mistaken, said, faults>>

(* /BB !mp make <name>: straight to BanchoBot, past the queue.  The other  *)
(* commands /BB can send change nothing that the plugin keeps.             *)
BBCommand(name) ==
    /\ Typing
    /\ outbox' = Queued(<<Make(BanchoBot, name, Nick)>>)
    /\ UNCHANGED <<plugin, pref, connected, inbox, rooms, everStaff, mistaken, said, faults>>

(* /INI staff <list> and /INI wait <value>: saved, then reloaded.          *)
IniCommand(p) ==
    /\ Typing
    /\ pref' = p
    /\ cfg' = ReloadCfg(p, cfg)
    /\ everStaff' = everStaff \cup StaffOf(cfg')
    /\ UNCHANGED <<status, made, creator, matches, wire, rooms, mistaken, said, faults>>

NoFile == [version |-> FALSE, staff |-> {}, wait |-> None]

(* The client dies while /INI saves.  On Windows the old file is removed   *)
(* before the new one takes its name, so there may be none.                *)
IniDies(p) ==
    /\ Typing /\ faults < MaxFaults /\ faults' = faults + 1
    /\ pref' \in {pref, NoFile, p}
    /\ status' = "crashed"
    /\ ClientGone
    /\ UNCHANGED <<cfg, rooms, everStaff, mistaken, said>>

Ini(p) == IniCommand(p) \/ IniDies(p)

Operator ==
    \/ \E name \in NameClasses : MakeCommand(name) \/ BBCommand(name)
    \/ \E s \in NewStaff : Ini([pref EXCEPT !.staff = s])
    \/ \E w \in {Zero, Nick} : Ini([pref EXCEPT !.wait = w])

(* The plugin is unloaded and loaded: its static variables start afresh.   *)
Reload ==
    /\ status = "up" /\ faults < MaxFaults
    /\ faults' = faults + 1
    /\ pref' = InitCfg(pref)
    /\ cfg' = LoadCfg(pref)
    /\ everStaff' = everStaff \cup StaffOf(cfg')
    /\ made' = FALSE /\ creator' = <<>> /\ matches' = NoMatches
    /\ UNCHANGED <<status, wire, rooms, mistaken, said, typed>>

(* The client is started again after it died.                              *)
Restart ==
    /\ status = "crashed"
    /\ status' = "up"
    /\ pref' = InitCfg(pref)
    /\ cfg' = LoadCfg(pref)
    /\ everStaff' = everStaff \cup StaffOf(cfg')
    /\ UNCHANGED <<made, creator, matches, wire, rooms, mistaken, bounds>>

-----------------------------------------------------------------------------
(* The server, BanchoBot and the people (external).                        *)

Talk == connected /\ said < MaxSaid /\ said' = said + 1

(* Where a line can be said so that the bot reads it.                      *)
Places == {Nick} \cup {r \in Rooms : rooms[r] # None}

Arrives(m) == inbox' = Append(inbox, m)

Line(from, to, kind, name, room) ==
    [from |-> from, to |-> to, kind |-> kind, name |-> name, room |-> room]

(* Somebody asks the bot for a room or says anything else, in private or   *)
(* in a room, or repeats to the bot BanchoBot's announcement of a room     *)
(* that exists; repeated in a room, it is chat.                            *)
PersonSays(u, to, kind, name, room) ==
    /\ Talk
    /\ Arrives(Line(u, to, kind, name, room))
    /\ UNCHANGED <<plugin, pref, connected, outbox, rooms, everStaff, mistaken, typed, faults>>

(* BanchoBot writes to the bot or comments on a room of its own accord.    *)
BanchoSays(to) ==
    /\ Talk
    /\ Arrives(Line(BanchoBot, to, "chat", "empty", None))
    /\ UNCHANGED <<plugin, pref, connected, outbox, rooms, everStaff, mistaken, typed, faults>>

(* The next line of the send queue reaches the server.                     *)
Transmit(o) ==
    /\ connected /\ outbox # <<>>
    /\ o = Head(outbox)
    /\ outbox' = Tail(outbox)
    /\ UNCHANGED <<plugin, pref, connected, everStaff, mistaken, bounds>>

BanchoCreates(o, r) ==
    /\ Transmit(o)
    /\ o.to = BanchoBot /\ o.kind = "make"
    /\ rooms[r] = None
    /\ rooms' = [rooms EXCEPT ![r] = [asker |-> o.user, set |-> FALSE, password |-> FALSE,
                                      invited |-> {}, refs |-> {}]]
    /\ Arrives(Line(BanchoBot, Nick, "created", o.name, r))

BanchoRefuses(o) ==
    /\ Transmit(o)
    /\ o.to = BanchoBot
    /\ Arrives(Line(BanchoBot, Nick, "refused", "empty", None))
    /\ UNCHANGED rooms

RoomCommand(o) ==
    /\ Transmit(o)
    /\ o.to \in Rooms
    /\ rooms' = [rooms EXCEPT ![o.to] =
          CASE o.kind = "set"      -> [@ EXCEPT !.set = TRUE]
            [] o.kind = "password" -> [@ EXCEPT !.password = TRUE]
            [] o.kind = "invite"   -> [@ EXCEPT !.invited = @ \cup {o.user}]
            [] o.kind = "addref"   -> [@ EXCEPT !.refs = @ \cup {o.user}]]
    /\ UNCHANGED inbox

(* A line to one's own account comes back; nothing else the plugin sends   *)
(* to a person does.                                                       *)
Delivered(o) ==
    /\ Transmit(o)
    /\ o.to \in Players \cup {Nick, Zero}
    /\ inbox' = IF o.to = Nick
                THEN Append(inbox, Line(Nick, Nick, IF o.kind = "make" THEN "make" ELSE "chat",
                                        o.name, None))
                ELSE inbox
    /\ UNCHANGED rooms

Send ==
    /\ outbox # <<>>
    /\ LET o == Head(outbox) IN
       \/ \E r \in Rooms : BanchoCreates(o, r)
       \/ BanchoRefuses(o) \/ RoomCommand(o) \/ Delivered(o)

(* Both directions lose what they hold; the plugin is not told.            *)
Disconnect ==
    /\ connected /\ faults < MaxFaults
    /\ faults' = faults + 1
    /\ connected' = FALSE /\ inbox' = <<>> /\ outbox' = <<>>
    /\ UNCHANGED <<plugin, pref, rooms, everStaff, mistaken, said, typed>>

Connect ==
    /\ status = "up" /\ ~connected
    /\ connected' = TRUE
    /\ UNCHANGED <<plugin, pref, inbox, outbox, rooms, everStaff, mistaken, bounds>>

World ==
    \/ \E u \in Players, to \in Places, name \in NameClasses :
          PersonSays(u, to, "make", name, None)
    \/ \E u \in Players, to \in Places, kind \in Chatter :
          PersonSays(u, to, kind, "empty", None)
    \/ \E u \in Players, name \in NameClasses, r \in Places \ {Nick} :
          PersonSays(u, Nick, "created", name, r)
    \/ \E to \in Places : BanchoSays(to)
    \/ Disconnect \/ Connect

Next == Handle \/ Operator \/ Reload \/ Restart \/ Send \/ World

(* The main loop of HexChat reads the socket and its timer empties the     *)
(* send queue; nobody owes anything else.                                  *)
Fairness == WF_vars(Handle) /\ WF_vars(Send)

Spec == Init /\ [][Next]_vars
FairSpec == Spec /\ Fairness
-----------------------------------------------------------------------------
(* Properties.                                                             *)

(* At most one user waits for BanchoBot's answer: although `creator' is a  *)
(* queue, a second push is impossible, because every message that finds    *)
(* the queue non-empty pops it (bot.c:347-385).                            *)
OnePending == Len(creator) <= 1 /\ (creator # <<>> => made)

(* Nobody who was never configured as staff gets a room made, is invited   *)
(* to one, becomes its referee, is recorded as its creator or is sent      *)
(* BanchoBot's private answer, even when a request is paired with the      *)
(* answer to another one (bot.c:353-376, 393).                             *)
OnlyStaffServed ==
    LET Staff == everStaff \cup {Nick} IN
    /\ \A i \in DOMAIN creator : creator[i] \in Staff
    /\ \A i \in DOMAIN outbox :
          /\ outbox[i].kind \in {"invite", "addref"} => outbox[i].user \in Staff
          /\ outbox[i].kind = "forward" => outbox[i].to \in Staff
    /\ \A r \in Rooms :
          /\ matches[r] # None => matches[r].creator \in Staff
          /\ rooms[r] # None =>
                rooms[r].invited \cup rooms[r].refs \cup {rooms[r].asker} \subseteq Staff

(* "The invitation has to be carried out after the password was changed"   *)
(* (bot.c:374): no room ever holds an invited user or a referee without    *)
(* having its password, whatever part of the send queue a disconnection    *)
(* throws away.                                                            *)
PasswordBeforeInvite ==
    \A r \in Rooms : rooms[r] # None =>
       (rooms[r].invited \cup rooms[r].refs # {} => rooms[r].set /\ rooms[r].password)

(* What the plugin acts on is what the file holds: after a start, a reload *)
(* or a crash, and after every INI, the staff in force is the list saved   *)
(* last, and so is the account, if the file names one (bot.c:149-166,      *)
(* 266-289).                                                               *)
ConfigIsCurrent ==
    status = "up" => /\ cfg.staff = pref.staff
                     /\ pref.wait # None => cfg.bot = pref.wait

(* A pending request is never forgotten by everybody: as long as the       *)
(* connection holds, an answer or another message takes the user off the   *)
(* queue, so the next request is not swallowed for ever (bot.c:347-385).   *)
PendingResolved == (creator # <<>>) ~> (creator = <<>>)

(* As long as the connection holds, every registered room ends up with its *)
(* mode and password, and with its creator invited and made referee unless *)
(* that is the bot itself (bot.c:366-377).                                 *)
RegisteredIsConfigured ==
    \A r \in Rooms :
       (matches[r] # None) ~>
          /\ rooms[r] # None
          /\ rooms[r].set /\ rooms[r].password
          /\ matches[r] # None /\ matches[r].creator # Nick =>
                matches[r].creator \in rooms[r].invited \cap rooms[r].refs

(* How far a room is and who is in it, as BanchoBot sees it.               *)
StageOf(r) ==
    IF rooms[r] = None THEN "none"
    ELSE IF rooms[r].password THEN "locked" ELSE IF rooms[r].set THEN "set" ELSE "open"

Guests(r)   == IF rooms[r] = None THEN {} ELSE rooms[r].invited
Referees(r) == IF rooms[r] = None THEN {} ELSE rooms[r].refs

Life == INSTANCE RoomLife WITH
    People <- Players,
    stage <- [r \in Rooms |-> StageOf(r)],
    guests <- [r \in Rooms |-> Guests(r)],
    refs <- [r \in Rooms |-> Referees(r)]

(* Whatever messages cross and whatever is lost, each room gets its mode,  *)
(* its password, a guest and a referee in that order, and has one guest    *)
(* unless somebody who passes for BanchoBot (bot.c:351) repeated its       *)
(* announcement; it is RoomLife (bot.c:368-377).                           *)
RoomProtocol == Life!LifeSpec

-----------------------------------------------------------------------------
(* What the comments of bot.c say and the code does not do.                *)

(* bot.c:65, `creator' of a tournament is its creator: the user on whose   *)
(* request BanchoBot made the room.                                        *)
CreatorAskedForRoom ==
    \A r \in Rooms : matches[r] # None => matches[r].creator = rooms[r].asker

(* bot.c:171, "the bot's user has staff rights by itself".                 *)
BotUserIsStaff == status = "up" => IsStaff(Nick) = 1
=============================================================================
