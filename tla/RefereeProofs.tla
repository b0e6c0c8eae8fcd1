--------------------------- MODULE RefereeProofs ---------------------------
(***************************************************************************)
(* Proofs about Referee, for any accounts, rooms and bounds.               *)
(***************************************************************************)
EXTENDS Referee, SequenceTheorems, TLAPS

Trusted == everStaff \cup {Nick}

(* Lines of the send queue that are addressed to a room that exists, and   *)
(* that serve nobody but staff.                                            *)
SafeOut ==
    {o \in Outgoing :
        /\ o.to \in Rooms => rooms[o.to] # None
        /\ o.kind \in {"invite", "addref"} => o.user \in Trusted
        /\ o.kind = "make" => o.user \in Trusted
        /\ o.kind = "forward" => o.to \in Trusted}

(* An announcement is about a room that exists.                            *)
SafeIn ==
    {m \in Incoming : m.kind = "created" => m.room \in Rooms /\ rooms[m.room] # None}

Served ==
    \A r \in Rooms :
       /\ matches[r] # None => matches[r].creator \in Trusted
       /\ rooms[r] # None =>
             rooms[r].invited \cup rooms[r].refs \cup {rooms[r].asker} \subseteq Trusted

Inv ==
    /\ TypeOK
    /\ OnePending
    /\ ConfigIsCurrent
    /\ StaffOf(cfg) \subseteq everStaff
    /\ creator \in Seq(Trusted)
    /\ inbox \in Seq(SafeIn)
    /\ outbox \in Seq(SafeOut)
    /\ Served

-----------------------------------------------------------------------------
LEMMA HeadTail ==
    ASSUME NEW S, NEW s \in Seq(S), s # <<>>
    PROVE  Head(s) \in S /\ Tail(s) \in Seq(S) /\ Len(Tail(s)) = Len(s) - 1
  OBVIOUS

LEMMA SeqMono ==
    ASSUME NEW S, NEW T, S \subseteq T, NEW s \in Seq(S)
    PROVE  s \in Seq(T)
  OBVIOUS

LEMMA LoadType ==
    ASSUME ConstantsAssumption, NEW p \in Prefs
    PROVE  /\ InitCfg(p) \in Prefs
           /\ InitCfg(p).version
           /\ LoadCfg(p) \in [staff : SUBSET Players, bot : {Zero, Nick}]
           /\ LoadCfg(p).staff = InitCfg(p).staff
           /\ InitCfg(p).wait # None => LoadCfg(p).bot = InitCfg(p).wait
  BY DEF Prefs, InitCfg, LoadCfg, ReloadCfg, ConstantsAssumption, Accounts

(* A line with its parts in their sets is a line of the send queue.        *)
LEMMA MsgType ==
    ASSUME NEW to, NEW kind \in OutKinds, NEW user \in Requesters \cup {None},
           to \in Accounts \cup {Zero} \cup Rooms,
           kind \in RoomKinds <=> to \in Rooms,
           kind \in {"make", "invite", "addref"} => user \in Requesters
    PROVE  Msg(to, kind, user) \in Outgoing
  BY DEF Msg, Outgoing, NameClass

LEMMA MakeType ==
    ASSUME NEW to \in Accounts \cup {Zero}, NEW name \in NameClass, NEW user \in Requesters
    PROVE  Make(to, name, user) \in Outgoing
  <1>1. to \notin Rooms
    BY ConstantsAssumption
  <1> QED BY <1>1 DEF Make, Outgoing, OutKinds, RoomKinds

LEMMA QueuedSafe ==
    ASSUME Inv, NEW ms \in Seq(SafeOut)
    PROVE  Queued(ms) \in Seq(SafeOut)
  BY DEF Inv, Queued

(* Whoever is_staff accepts has been configured as staff or bot.           *)
LEMMA StaffTrusted ==
    ASSUME Inv, NEW u \in Accounts, IsStaff(u) > 0
    PROVE  u \in Trusted /\ u \in Requesters
  <1>1. u = cfg.bot \/ u \in cfg.staff
    BY DEF IsStaff, IsBot
  <1>2. u \in Requesters
    BY <1>1, ConstantsAssumption DEF Inv, TypeOK, Accounts, Requesters
  <1>3. u \in StaffOf(cfg)
    BY <1>1, <1>2 DEF StaffOf
  <1> QED BY <1>2, <1>3 DEF Inv, Trusted

LEMMA ReceiveType ==
    ASSUME Inv, NEW m, Receive(m)
    PROVE  /\ m \in SafeIn /\ m \in Incoming
           /\ Tail(inbox) \in Seq(SafeIn) /\ Tail(inbox) \in Seq(Incoming)
  <1>1. m \in SafeIn /\ Tail(inbox) \in Seq(SafeIn)
    BY HeadTail DEF Inv, Receive
  <1>2. SafeIn \subseteq Incoming
    BY DEF SafeIn
  <1> QED BY <1>1, <1>2, SeqMono

(* A step that touches neither rooms nor the history keeps the two sets of *)
(* safe messages.                                                          *)
LEMMA SameSafety ==
    ASSUME UNCHANGED <<rooms, everStaff>>
    PROVE  SafeOut' = SafeOut /\ SafeIn' = SafeIn /\ Trusted' = Trusted
  BY DEF SafeOut, SafeIn, Trusted

(* What remains to be shown of a step that changes neither the rooms nor   *)
(* the configuration.                                                      *)
LEMMA QuietStep ==
    ASSUME Inv,
           UNCHANGED <<cfg, rooms, everStaff>>,
           pref' \in Prefs, status' = "up" => pref' = pref,
           status' \in {"up", "crashed"}, status' = "up" => status = "up",
           made' \in BOOLEAN, connected' \in BOOLEAN,
           mistaken' \in SUBSET Rooms,
           said' \in Nat, typed' \in Nat, faults' \in Nat,
           creator' \in Seq(Trusted), Len(creator') <= 1, creator' # <<>> => made',
           inbox' \in Seq(SafeIn),
           outbox' \in Seq(SafeOut),
           matches' \in [Rooms -> Tourney \cup {None}],
           \A r \in Rooms : matches'[r] # None => matches'[r].creator \in Trusted
    PROVE  Inv'
  <1>1. SafeOut' = SafeOut /\ SafeIn' = SafeIn /\ Trusted' = Trusted
    BY SameSafety
  <1>2. Trusted \subseteq Requesters
    BY DEF Inv, TypeOK, Trusted, Requesters
  <1>3. creator' \in Seq(Requesters) /\ inbox' \in Seq(Incoming) /\ outbox' \in Seq(Outgoing)
    <2>1. SafeIn \subseteq Incoming /\ SafeOut \subseteq Outgoing
      BY DEF SafeIn, SafeOut
    <2> QED BY <1>2, <2>1, SeqMono
  <1>4. TypeOK'
    BY <1>3 DEF Inv, TypeOK
  <1>5. Served'
    BY <1>1 DEF Inv, Served
  <1> QED BY <1>1, <1>4, <1>5 DEF Inv, OnePending, StaffOf, ConfigIsCurrent

(* The queue after a message was taken: it held one user, so it is empty.  *)
LEMMA PopEmpties ==
    ASSUME Inv, NEW m, Taken(m), Pop
    PROVE  /\ creator' = <<>> /\ creator' \in Seq(Trusted) /\ Len(creator') <= 1
           /\ Head(creator) \in Trusted /\ Head(creator) \in Requesters
  <1>1. Trusted \subseteq Requesters
    BY DEF Inv, TypeOK, Trusted, Requesters
  <1>2. creator \in Seq(Trusted) /\ creator # <<>> /\ creator' = Tail(creator)
    BY DEF Inv, Taken, Pop
  <1>3. Len(creator) = 1
    <2>1. Len(creator) \in Nat \ {0}
      BY <1>2, EmptySeq
    <2>2. Len(creator) <= 1
      BY DEF Inv, OnePending
    <2> QED BY <2>1, <2>2
  <1>4. /\ Head(creator) \in Trusted /\ creator' \in Seq(Trusted)
        /\ Len(creator') = Len(creator) - 1
    BY <1>2, HeadTail
  <1>5. creator' = <<>>
    <2>1. creator' \in Seq(Trusted) /\ Len(creator') = 0
      BY <1>3, <1>4
    <2>2. creator' # <<>> => Len(creator') \in Nat \ {0}
      BY <2>1, EmptySeq
    <2> QED BY <2>1, <2>2
  <1> QED BY <1>1, <1>3, <1>4, <1>5

LEMMA NoteSafe ==
    ASSUME NEW u \in Accounts, NEW kind \in {"note", "help"}
    PROVE  <<Msg(u, kind, None)>> \in Seq(SafeOut)
  <1>1. u \notin Rooms
    BY ConstantsAssumption
  <1>2. Msg(u, kind, None) \in Outgoing
    BY <1>1, MsgType DEF OutKinds, RoomKinds
  <1>3. Msg(u, kind, None) \in SafeOut
    BY <1>1, <1>2 DEF Msg, SafeOut
  <1> QED BY <1>3

LEMMA GreetingSafe ==
    ASSUME NEW m \in Incoming
    PROVE  Greeting(m) \in Seq(SafeOut)
  <1>1. <<Msg(m.from, "note", None)>> \in Seq(SafeOut)
    BY NoteSafe DEF Incoming
  <1> QED BY <1>1 DEF Greeting

LEMMA ForwardSafe ==
    ASSUME NEW u \in Trusted, u \in Requesters
    PROVE  Forward(u) \in Seq(SafeOut)
  <1>1. u \in Accounts /\ u \notin Rooms
    BY ConstantsAssumption DEF Requesters, Accounts
  <1>2. Msg(u, "forward", None) \in Outgoing
    BY <1>1, MsgType DEF OutKinds, RoomKinds
  <1>3. Msg(u, "forward", None) \in SafeOut
    BY <1>1, <1>2 DEF Msg, SafeOut
  <1> QED BY <1>3 DEF Forward

LEMMA ConfigurationSafe ==
    ASSUME NEW u \in Trusted, u \in Requesters, NEW r \in Rooms, rooms[r] # None
    PROVE  Configuration(r, u) \in Seq(SafeOut)
  <1>1. \A k \in RoomKinds, w \in Requesters \cup {None} :
           (k \in {"invite", "addref"} => w \in Requesters) => Msg(r, k, w) \in Outgoing
    BY MsgType DEF OutKinds, RoomKinds
  <1>2. Msg(r, "set", None) \in SafeOut /\ Msg(r, "password", None) \in SafeOut
    BY <1>1 DEF Msg, SafeOut, RoomKinds
  <1>3. Msg(r, "invite", u) \in SafeOut /\ Msg(r, "addref", u) \in SafeOut
    BY <1>1 DEF Msg, SafeOut, RoomKinds
  <1> QED BY <1>2, <1>3 DEF Configuration

-----------------------------------------------------------------------------
(* One lemma per action.                                                   *)

LEMMA RequestAcceptedInv ==
    ASSUME Inv, NEW m, RequestAccepted(m)
    PROVE  Inv'
  <1> USE DEF RequestAccepted
  <1>1. m \in Incoming /\ inbox' \in Seq(SafeIn)
    BY ReceiveType DEF Consume
  <1>2. m.from \in Trusted /\ m.from \in Requesters
    BY <1>1, StaffTrusted DEF Incoming
  <1>3. creator' \in Seq(Trusted) /\ Len(creator') = 1
    BY <1>2 DEF Taken
  <1>4. outbox' \in Seq(SafeOut)
    <2>1. m.name \in NameClass /\ BanchoBot \in Accounts /\ BanchoBot \notin Rooms
      BY <1>1, ConstantsAssumption DEF Incoming, Accounts
    <2>2. Make(BanchoBot, m.name, m.from) \in Outgoing
      BY <1>2, <2>1, MakeType
    <2>3. Make(BanchoBot, m.name, m.from) \in SafeOut
      BY <1>2, <2>1, <2>2 DEF Make, SafeOut
    <2>4. <<Make(BanchoBot, m.name, m.from)>> \in Seq(SafeOut)
      BY <2>3
    <2> QED BY <2>4, QueuedSafe
  <1> QED BY <1>1, <1>3, <1>4, QuietStep DEF Inv, TypeOK, Served, bounds

LEMMA RequestRejectedInv ==
    ASSUME Inv, NEW m, RequestRejected(m)
    PROVE  Inv'
  <1> USE DEF RequestRejected
  <1>1. m \in Incoming /\ inbox' \in Seq(SafeIn)
    BY ReceiveType DEF Consume
  <1>2. outbox' \in Seq(SafeOut)
    <2>1. m.from \in Accounts
      BY <1>1 DEF Incoming
    <2>2. <<Msg(m.from, "help", None)>> \in Seq(SafeOut)
          /\ <<Msg(m.from, "note", None)>> \in Seq(SafeOut)
      BY <2>1, NoteSafe
    <2>3. <<Msg(m.from, IF IsStaff(m.from) > 0 THEN "help" ELSE "note", None)>> \in Seq(SafeOut)
      BY <2>2
    <2> QED BY <2>3, QueuedSafe
  <1> QED BY <1>1, <1>2, QuietStep DEF Inv, TypeOK, OnePending, Served, bounds

LEMMA NotARequestInv ==
    ASSUME Inv, NEW m, NotARequest(m)
    PROVE  Inv'
  <1> USE DEF NotARequest
  <1>1. m \in Incoming /\ inbox' \in Seq(SafeIn)
    BY ReceiveType DEF Consume
  <1>2. outbox' \in Seq(SafeOut)
    BY <1>1, GreetingSafe, QueuedSafe
  <1> QED BY <1>1, <1>2, QuietStep DEF Inv, TypeOK, OnePending, Served, bounds

LEMMA PendingDroppedInv ==
    ASSUME Inv, NEW m, PendingDropped(m)
    PROVE  Inv'
  <1> USE DEF PendingDropped
  <1>1. m \in Incoming /\ inbox' \in Seq(SafeIn)
    BY ReceiveType DEF Consume
  <1>2. outbox' \in Seq(SafeOut)
    BY <1>1, GreetingSafe, QueuedSafe
  <1> QED BY <1>1, <1>2, PopEmpties, QuietStep DEF Inv, TypeOK, Served, bounds

LEMMA AnswerForwardedInv ==
    ASSUME Inv, NEW m, AnswerForwarded(m)
    PROVE  Inv'
  <1> USE DEF AnswerForwarded
  <1>1. m \in Incoming /\ inbox' \in Seq(SafeIn)
    BY ReceiveType DEF Consume
  <1>2. Head(creator) \in Trusted /\ Head(creator) \in Requesters
    BY PopEmpties
  <1>3. outbox' \in Seq(SafeOut)
    BY <1>2, ForwardSafe, QueuedSafe
  <1> QED BY <1>1, <1>3, PopEmpties, QuietStep DEF Inv, TypeOK, Served, bounds

LEMMA RoomRegisteredInv ==
    ASSUME Inv, NEW m, RoomRegistered(m)
    PROVE  Inv'
  <1> USE DEF RoomRegistered
  <1>1. /\ m \in Incoming /\ inbox' \in Seq(SafeIn)
        /\ m.room \in Rooms /\ rooms[m.room] # None
    BY ReceiveType DEF Consume, SafeIn
  <1>2. Head(creator) \in Trusted /\ Head(creator) \in Requesters
    BY PopEmpties
  <1>3. outbox' \in Seq(SafeOut)
    <2>1. Forward(Head(creator)) \in Seq(SafeOut)
      BY <1>2, ForwardSafe
    <2>2. Configuration(m.room, Head(creator)) \in Seq(SafeOut)
      BY <1>1, <1>2, ConfigurationSafe
    <2>3. Forward(Head(creator)) \o Configuration(m.room, Head(creator)) \in Seq(SafeOut)
      BY <2>1, <2>2
    <2> QED BY <2>3, QueuedSafe
  <1>4. [creator |-> Head(creator), name |-> m.name] \in Tourney
    BY <1>1, <1>2 DEF Tourney, Incoming
  <1>5. matches' \in [Rooms -> Tourney \cup {None}]
    BY <1>4 DEF Inv, TypeOK
  <1>6. \A r \in Rooms : matches'[r] # None => matches'[r].creator \in Trusted
    BY <1>2 DEF Inv, TypeOK, Served
  <1> QED BY <1>1, <1>3, <1>5, <1>6, PopEmpties, QuietStep DEF Inv, TypeOK, bounds

LEMMA RoomUnparsableInv ==
    ASSUME Inv, NEW m, RoomUnparsable(m)
    PROVE  Inv'
  <1> USE DEF RoomUnparsable, ClientGone
  <1>1. matches' \in [Rooms -> Tourney \cup {None}] /\ \A r \in Rooms : matches'[r] = None
    BY DEF NoMatches
  <1>2. /\ creator' \in Seq(Trusted) /\ Len(creator') <= 1 /\ creator' = <<>>
        /\ inbox' \in Seq(SafeIn) /\ outbox' \in Seq(SafeOut)
    OBVIOUS
  <1> QED BY <1>1, <1>2, QuietStep DEF Inv, TypeOK, bounds

LEMMA MakeCommandInv ==
    ASSUME Inv, NEW name \in NameClasses, MakeCommand(name)
    PROVE  Inv'
  <1> USE DEF MakeCommand
  <1>1. <<Make(cfg.bot, IF name = "empty" THEN "templated" ELSE name, Nick)>> \in Seq(SafeOut)
    <2> DEFINE text == IF name = "empty" THEN "templated" ELSE name
    <2>1. text \in NameClass /\ cfg.bot \in Accounts \cup {Zero} /\ Nick \in Requesters
          /\ Nick \in Trusted
      BY ConstantsAssumption DEF Inv, TypeOK, NameClass, Accounts, Requesters, Trusted
    <2>2. Make(cfg.bot, text, Nick) \in Outgoing /\ cfg.bot \notin Rooms
      BY <2>1, MakeType, ConstantsAssumption
    <2>3. Make(cfg.bot, text, Nick) \in SafeOut
      BY <2>1, <2>2 DEF Make, SafeOut
    <2> QED BY <2>3
  <1>2. outbox' \in Seq(SafeOut)
    BY <1>1, QueuedSafe
  <1> QED BY <1>2, QuietStep
          DEF Inv, TypeOK, OnePending, Served, Typing, plugin

LEMMA BBCommandInv ==
    ASSUME Inv, NEW name \in NameClasses, BBCommand(name)
    PROVE  Inv'
  <1> USE DEF BBCommand
  <1>1. <<Make(BanchoBot, name, Nick)>> \in Seq(SafeOut)
    <2>1. /\ name \in NameClass /\ BanchoBot \in Accounts /\ Nick \in Requesters
          /\ Nick \in Trusted /\ BanchoBot \notin Rooms
      BY ConstantsAssumption DEF Accounts, Requesters, Trusted
    <2>2. Make(BanchoBot, name, Nick) \in Outgoing
      BY <2>1, MakeType
    <2>3. Make(BanchoBot, name, Nick) \in SafeOut
      BY <2>1, <2>2 DEF Make, SafeOut
    <2> QED BY <2>3
  <1>2. outbox' \in Seq(SafeOut)
    BY <1>1, QueuedSafe
  <1> QED BY <1>2, QuietStep
          DEF Inv, TypeOK, OnePending, Served, Typing, plugin

(* New staff and new rooms take nothing away from what was safe.           *)
LEMMA SafetyGrows ==
    ASSUME everStaff \subseteq everStaff',
           \A r \in Rooms : rooms[r] # None => rooms'[r] # None
    PROVE  SafeOut \subseteq SafeOut' /\ SafeIn \subseteq SafeIn' /\ Trusted \subseteq Trusted'
  BY DEF SafeOut, SafeIn, Trusted

LEMMA StaffOfType ==
    ASSUME NEW c \in [staff : SUBSET Players, bot : {Zero, Nick}]
    PROVE  StaffOf(c) \subseteq Requesters
  BY DEF StaffOf, Requesters

(* What remains to be shown of a step that changes the configuration.      *)
LEMMA ConfigStep ==
    ASSUME Inv,
           UNCHANGED <<rooms, mistaken, connected, inbox, outbox, said>>,
           status' \in {"up", "crashed"}, made' \in BOOLEAN,
           typed' \in Nat, faults' \in Nat,
           pref' \in Prefs, cfg' \in [staff : SUBSET Players, bot : {Zero, Nick}],
           cfg'.staff = pref'.staff, pref'.wait # None => cfg'.bot = pref'.wait,
           everStaff' = everStaff \cup StaffOf(cfg'),
           \/ UNCHANGED <<creator, made, matches>>
           \/ creator' = <<>> /\ matches' = NoMatches
    PROVE  Inv'
  <1>1. StaffOf(cfg') \subseteq Requesters
    BY StaffOfType
  <1>2. /\ SafeOut \subseteq SafeOut' /\ SafeIn \subseteq SafeIn'
        /\ Trusted \subseteq Trusted'
    BY SafetyGrows
  <1>3. /\ inbox' \in Seq(SafeIn') /\ outbox' \in Seq(SafeOut')
        /\ creator' \in Seq(Trusted')
    <2>1. inbox \in Seq(SafeIn') /\ outbox \in Seq(SafeOut') /\ creator \in Seq(Trusted')
      BY <1>2, SeqMono DEF Inv
    <2>2. creator' = creator \/ creator' = <<>>
      OBVIOUS
    <2>3. <<>> \in Seq(Trusted')
      BY EmptySeq
    <2>4. creator' \in Seq(Trusted')
      BY <2>1, <2>2, <2>3
    <2> QED BY <2>1, <2>4
  <1>4. matches' \in [Rooms -> Tourney \cup {None}]
    BY DEF Inv, TypeOK, NoMatches
  <1>5. everStaff' \in SUBSET Requesters
    BY <1>1 DEF Inv, TypeOK
  <1>6. creator' \in Seq(Requesters)
    <2>1. creator' = creator \/ creator' = <<>>
      OBVIOUS
    <2>2. <<>> \in Seq(Requesters) /\ creator \in Seq(Requesters)
      BY EmptySeq DEF Inv, TypeOK
    <2> QED BY <2>1, <2>2
  <1>7. TypeOK'
    BY <1>4, <1>5, <1>6 DEF Inv, TypeOK
  <1>8. OnePending'
    BY DEF Inv, OnePending
  <1>9. Served'
    <2>1. \A r \in Rooms : matches'[r] # None => matches'[r].creator \in Trusted'
      BY <1>2 DEF Inv, Served, NoMatches
    <2>2. \A r \in Rooms : rooms'[r] # None =>
             rooms'[r].invited \cup rooms'[r].refs \cup {rooms'[r].asker} \subseteq Trusted'
      BY <1>2 DEF Inv, Served
    <2> QED BY <2>1, <2>2 DEF Served
  <1>10. ConfigIsCurrent' /\ StaffOf(cfg)' \subseteq everStaff'
    BY DEF ConfigIsCurrent, StaffOf
  <1> QED BY <1>3, <1>7, <1>8, <1>9, <1>10 DEF Inv

LEMMA IniCommandInv ==
    ASSUME Inv, NEW p \in Prefs, IniCommand(p)
    PROVE  Inv'
  <1> USE DEF IniCommand
  <1>1. /\ cfg' \in [staff : SUBSET Players, bot : {Zero, Nick}]
        /\ cfg'.staff = p.staff
        /\ p.wait # None => cfg'.bot = p.wait
    BY DEF ReloadCfg, Prefs, Inv, TypeOK
  <1>2. UNCHANGED <<rooms, mistaken, connected, inbox, outbox, said, status, made, creator,
                  matches, faults>>
    BY DEF wire
  <1>3. typed' \in Nat
    BY DEF Typing, Inv, TypeOK
  <1> QED BY <1>1, <1>2, <1>3, ConfigStep DEF Inv, TypeOK

LEMMA IniDiesInv ==
    ASSUME Inv, NEW p \in Prefs, IniDies(p)
    PROVE  Inv'
  <1> USE DEF IniDies, ClientGone
  <1>1. matches' \in [Rooms -> Tourney \cup {None}] /\ \A r \in Rooms : matches'[r] = None
    BY DEF NoMatches
  <1>2. /\ creator' \in Seq(Trusted) /\ Len(creator') <= 1 /\ creator' = <<>>
        /\ inbox' \in Seq(SafeIn) /\ outbox' \in Seq(SafeOut)
    OBVIOUS
  <1>3. pref' \in Prefs
    <2>1. NoFile \in Prefs
      BY DEF NoFile, Prefs
    <2>2. pref \in Prefs
      BY DEF Inv, TypeOK
    <2> QED BY <2>1, <2>2
  <1>4. said' \in Nat /\ typed' \in Nat /\ faults' \in Nat
    BY DEF Typing, Inv, TypeOK
  <1>5. /\ status' \in {"up", "crashed"} /\ (status' = "up" => status = "up")
        /\ (status' = "up" => pref' = pref)
        /\ UNCHANGED <<cfg, rooms, everStaff>> /\ mistaken' \in SUBSET Rooms
    BY DEF Inv, TypeOK
  <1>6. made' \in BOOLEAN /\ connected' \in BOOLEAN /\ (creator' # <<>> => made')
    OBVIOUS
  <1>7. \A r \in Rooms : matches'[r] # None => matches'[r].creator \in Trusted
    BY <1>1
  <1> HIDE DEF IniDies, ClientGone
  <1> QED BY <1>1, <1>2, <1>3, <1>4, <1>5, <1>6, <1>7, QuietStep

LEMMA ReloadInv ==
    ASSUME Inv, Reload
    PROVE  Inv'
  <1> USE DEF Reload
  <1>1. /\ pref' \in Prefs /\ cfg' \in [staff : SUBSET Players, bot : {Zero, Nick}]
        /\ cfg'.staff = pref'.staff
        /\ pref'.wait # None => cfg'.bot = pref'.wait
    BY LoadType, ConstantsAssumption DEF Inv, TypeOK
  <1>2. UNCHANGED <<rooms, mistaken, connected, inbox, outbox, said, status, typed>>
    BY DEF wire
  <1>3. faults' \in Nat
    BY DEF Inv, TypeOK
  <1> QED BY <1>1, <1>2, <1>3, ConfigStep DEF Inv, TypeOK

LEMMA RestartInv ==
    ASSUME Inv, Restart
    PROVE  Inv'
  <1> USE DEF Restart
  <1>1. /\ pref' \in Prefs /\ cfg' \in [staff : SUBSET Players, bot : {Zero, Nick}]
        /\ cfg'.staff = pref'.staff
        /\ pref'.wait # None => cfg'.bot = pref'.wait
    BY LoadType, ConstantsAssumption DEF Inv, TypeOK
  <1>2. UNCHANGED <<rooms, mistaken, connected, inbox, outbox, made, creator, matches, said,
                  typed, faults>>
    BY DEF wire, bounds
  <1>3. typed' \in Nat /\ faults' \in Nat
    BY <1>2 DEF Inv, TypeOK
  <1> QED BY <1>1, <1>2, <1>3, ConfigStep DEF Inv, TypeOK

(* What remains to be shown of a step of the world outside the plugin.     *)
LEMMA WorldStep ==
    ASSUME Inv,
           UNCHANGED <<status, cfg, made, creator, matches, pref, everStaff, mistaken>>,
           connected' \in BOOLEAN, said' \in Nat, typed' \in Nat, faults' \in Nat,
           rooms' \in [Rooms -> Room \cup {None}],
           \A r \in Rooms : rooms'[r] # None =>
              rooms'[r].invited \cup rooms'[r].refs \cup {rooms'[r].asker} \subseteq Trusted,
           inbox' \in Seq(SafeIn'), outbox' \in Seq(SafeOut')
    PROVE  Inv'
  <1>1. Trusted' = Trusted
    BY DEF Trusted
  <1>2. SafeIn' \subseteq Incoming /\ SafeOut' \subseteq Outgoing
    BY DEF SafeIn, SafeOut, Incoming, Outgoing, OutKinds, RoomKinds, InKinds
  <1>3. inbox' \in Seq(Incoming) /\ outbox' \in Seq(Outgoing)
    BY <1>2, SeqMono
  <1>4. TypeOK'
    BY <1>3 DEF Inv, TypeOK
  <1>5. Served'
    BY <1>1 DEF Inv, Served
  <1> QED BY <1>1, <1>4, <1>5 DEF Inv, OnePending, ConfigIsCurrent, StaffOf

(* The same when no room changes.                                          *)
LEMMA WorldQuietStep ==
    ASSUME Inv,
           UNCHANGED <<status, cfg, made, creator, matches, pref, rooms, everStaff, mistaken>>,
           connected' \in BOOLEAN, said' \in Nat, typed' \in Nat, faults' \in Nat,
           inbox' \in Seq(SafeIn), outbox' \in Seq(SafeOut)
    PROVE  Inv'
  <1>1. SafeOut' = SafeOut /\ SafeIn' = SafeIn
    BY SameSafety
  <1>2. /\ rooms' \in [Rooms -> Room \cup {None}]
        /\ \A r \in Rooms : rooms'[r] # None =>
              rooms'[r].invited \cup rooms'[r].refs \cup {rooms'[r].asker} \subseteq Trusted
    BY DEF Inv, TypeOK, Served
  <1> QED BY <1>1, <1>2, WorldStep

(* A message that announces nothing is safe.                               *)
LEMMA ChatSafe ==
    ASSUME NEW from \in Accounts, NEW to \in {Nick} \cup Rooms,
           NEW kind \in InKinds \ {"created"}, NEW name \in NameClass
    PROVE  Line(from, to, kind, name, None) \in SafeIn
  BY DEF Line, SafeIn, Incoming

(* What a person says is a message, and an announcement that is repeated   *)
(* is about a room that exists.                                            *)
LEMMA PersonSafe ==
    ASSUME Inv, NEW u \in Players, NEW to \in Places, NEW kind \in InKinds,
           NEW name \in NameClass, NEW room,
           IF kind = "created" THEN room \in Places \ {Nick} ELSE room = None
    PROVE  Line(u, to, kind, name, room) \in SafeIn
  <1>1. u \in Accounts /\ to \in {Nick} \cup Rooms
    BY DEF Accounts, Places
  <1>2. kind = "created" => room \in Rooms /\ rooms[room] # None
    BY DEF Places
  <1> QED BY <1>1, <1>2 DEF Line, SafeIn, Incoming

LEMMA PersonSaysInv ==
    ASSUME Inv, NEW u \in Players, NEW to \in Places, NEW kind \in InKinds,
           NEW name \in NameClass, NEW room,
           IF kind = "created" THEN room \in Places \ {Nick} ELSE room = None,
           PersonSays(u, to, kind, name, room)
    PROVE  Inv'
  <1>1. inbox' \in Seq(SafeIn)
    <2>1. Line(u, to, kind, name, room) \in SafeIn /\ inbox \in Seq(SafeIn)
      BY PersonSafe DEF Inv
    <2>2. inbox' = Append(inbox, Line(u, to, kind, name, room))
      BY DEF PersonSays, Arrives
    <2> QED BY <2>1, <2>2
  <1> QED BY <1>1, WorldQuietStep DEF PersonSays, Talk, plugin, Inv, TypeOK

LEMMA BanchoSaysInv ==
    ASSUME Inv, NEW to \in Places, BanchoSays(to)
    PROVE  Inv'
  <1>1. BanchoBot \in Accounts /\ to \in {Nick} \cup Rooms
    BY DEF Accounts, Places
  <1>2. "chat" \in InKinds \ {"created"} /\ "empty" \in NameClass
    BY DEF InKinds, NameClass
  <1>3. inbox' \in Seq(SafeIn)
    <2>1. Line(BanchoBot, to, "chat", "empty", None) \in SafeIn /\ inbox \in Seq(SafeIn)
      BY <1>1, <1>2, ChatSafe DEF Inv
    <2>2. inbox' = Append(inbox, Line(BanchoBot, to, "chat", "empty", None))
      BY DEF BanchoSays, Arrives
    <2> QED BY <2>1, <2>2
  <1> QED BY <1>3, WorldQuietStep DEF BanchoSays, Talk, plugin, Inv, TypeOK

LEMMA TransmitSafe ==
    ASSUME Inv, NEW o, Transmit(o)
    PROVE  /\ o \in SafeOut /\ o \in Outgoing /\ outbox' \in Seq(SafeOut)
           /\ UNCHANGED <<status, cfg, made, creator, matches, pref, everStaff, mistaken>>
           /\ connected' \in BOOLEAN /\ said' \in Nat /\ typed' \in Nat /\ faults' \in Nat
  <1>1. o \in SafeOut /\ outbox' \in Seq(SafeOut)
    BY HeadTail DEF Inv, Transmit
  <1>2. o \in Outgoing
    BY <1>1 DEF SafeOut
  <1> QED BY <1>1, <1>2 DEF Inv, TypeOK, Transmit, plugin, bounds

LEMMA BanchoCreatesInv ==
    ASSUME Inv, NEW o, NEW r \in Rooms, BanchoCreates(o, r)
    PROVE  Inv'
  <1> DEFINE room == [asker |-> o.user, set |-> FALSE, password |-> FALSE,
                      invited |-> {}, refs |-> {}]
  <1>1. Transmit(o) /\ o.kind = "make" /\ rooms' = [rooms EXCEPT ![r] = room]
    BY DEF BanchoCreates
  <1>2. o \in Outgoing /\ o \in SafeOut
    BY <1>1, TransmitSafe
  <1>3. o.user \in Requesters /\ o.user \in Trusted /\ o.name \in NameClass
    BY <1>1, <1>2 DEF Outgoing, SafeOut
  <1>4. room \in Room /\ room # None
    <2>1. room \in Room
      BY <1>3 DEF Room
    <2> HIDE DEF room
    <2> QED BY <2>1, NoneAssumption
  <1>5. rooms' \in [Rooms -> Room \cup {None}] /\ rooms'[r] = room
    BY <1>1, <1>4 DEF Inv, TypeOK
  <1>6. \A q \in Rooms : rooms[q] # None => rooms'[q] # None
    BY <1>1, <1>4 DEF Inv, TypeOK
  <1>7. \A q \in Rooms : rooms'[q] # None =>
           rooms'[q].invited \cup rooms'[q].refs \cup {rooms'[q].asker} \subseteq Trusted
    BY <1>1, <1>3, <1>5 DEF Inv, TypeOK, Served
  <1>8. SafeIn \subseteq SafeIn' /\ SafeOut \subseteq SafeOut'
    BY <1>1, <1>6, TransmitSafe, SafetyGrows
  <1>9. Line(BanchoBot, Nick, "created", o.name, r) \in SafeIn'
    BY <1>3, <1>4, <1>5 DEF Line, SafeIn, Incoming, InKinds, Accounts
  <1>10. inbox' \in Seq(SafeIn') /\ outbox' \in Seq(SafeOut')
    <2>1. inbox \in Seq(SafeIn') /\ outbox' \in Seq(SafeOut')
      BY <1>1, <1>8, TransmitSafe, SeqMono DEF Inv
    <2>2. inbox' = Append(inbox, Line(BanchoBot, Nick, "created", o.name, r))
      BY DEF BanchoCreates, Arrives
    <2>3. inbox' \in Seq(SafeIn')
      BY <1>9, <2>1, <2>2
    <2> QED BY <2>1, <2>3
  <1> QED BY <1>1, <1>5, <1>7, <1>10, TransmitSafe, WorldStep

LEMMA BanchoRefusesInv ==
    ASSUME Inv, NEW o, BanchoRefuses(o)
    PROVE  Inv'
  <1>1. Transmit(o) /\ UNCHANGED rooms
    BY DEF BanchoRefuses
  <1>2. "refused" \in InKinds \ {"created"} /\ "empty" \in NameClass /\ BanchoBot \in Accounts
    BY DEF InKinds, NameClass, Accounts
  <1>3. inbox' \in Seq(SafeIn)
    <2>1. Line(BanchoBot, Nick, "refused", "empty", None) \in SafeIn /\ inbox \in Seq(SafeIn)
      BY <1>2, ChatSafe DEF Inv
    <2>2. inbox' = Append(inbox, Line(BanchoBot, Nick, "refused", "empty", None))
      BY DEF BanchoRefuses, Arrives
    <2> QED BY <2>1, <2>2
  <1> QED BY <1>1, <1>3, TransmitSafe, WorldQuietStep

LEMMA RoomCommandInv ==
    ASSUME Inv, NEW o, RoomCommand(o)
    PROVE  Inv'
  <1>1. Transmit(o) /\ o.to \in Rooms /\ inbox' = inbox
    BY DEF RoomCommand
  <1>2. o \in Outgoing /\ o \in SafeOut
    BY <1>1, TransmitSafe
  <1> DEFINE old == rooms[o.to]
             new == CASE o.kind = "set"      -> [old EXCEPT !.set = TRUE]
                      [] o.kind = "password" -> [old EXCEPT !.password = TRUE]
                      [] o.kind = "invite"   -> [old EXCEPT !.invited = @ \cup {o.user}]
                      [] o.kind = "addref"   -> [old EXCEPT !.refs = @ \cup {o.user}]
  <1>3. rooms' = [rooms EXCEPT ![o.to] = new]
    BY DEF RoomCommand
  <1>4. old \in Room /\ old.invited \cup old.refs \cup {old.asker} \subseteq Trusted
    BY <1>1, <1>2 DEF SafeOut, Inv, TypeOK, Served
  <1>5. new \in Room /\ new.invited \cup new.refs \cup {new.asker} \subseteq Trusted
    <2>1. o.kind \in RoomKinds /\ (o.kind \in {"invite", "addref"} => o.user \in Requesters)
      BY <1>1, <1>2 DEF Outgoing
    <2>2. o.kind \in {"invite", "addref"} => o.user \in Trusted
      BY <1>2 DEF SafeOut
    <2>3. CASE o.kind = "set"
      BY <1>4, <2>3 DEF Room
    <2>4. CASE o.kind = "password"
      BY <1>4, <2>4 DEF Room
    <2>5. CASE o.kind = "invite"
      BY <1>4, <2>1, <2>2, <2>5 DEF Room
    <2>6. CASE o.kind = "addref"
      BY <1>4, <2>1, <2>2, <2>6 DEF Room
    <2> QED BY <2>1, <2>3, <2>4, <2>5, <2>6 DEF RoomKinds
  <1> HIDE DEF new
  <1>6. rooms' \in [Rooms -> Room \cup {None}]
    BY <1>3, <1>5 DEF Inv, TypeOK
  <1>7. /\ \A q \in Rooms : rooms[q] # None => rooms'[q] # None
        /\ \A q \in Rooms : rooms'[q] # None =>
              rooms'[q].invited \cup rooms'[q].refs \cup {rooms'[q].asker} \subseteq Trusted
    BY <1>1, <1>3, <1>5, NoneAssumption DEF Inv, TypeOK, Served
  <1>8. SafeIn \subseteq SafeIn' /\ SafeOut \subseteq SafeOut'
    BY <1>1, <1>7, TransmitSafe, SafetyGrows
  <1>9. inbox' \in Seq(SafeIn') /\ outbox' \in Seq(SafeOut')
    BY <1>1, <1>8, TransmitSafe, SeqMono DEF Inv
  <1> QED BY <1>1, <1>6, <1>7, <1>9, TransmitSafe, WorldStep

LEMMA DeliveredInv ==
    ASSUME Inv, NEW o, Delivered(o)
    PROVE  Inv'
  <1>1. Transmit(o) /\ UNCHANGED rooms
    BY DEF Delivered
  <1>2. o.name \in NameClass
    BY <1>1, TransmitSafe DEF Outgoing
  <1> DEFINE line == Line(Nick, Nick, IF o.kind = "make" THEN "make" ELSE "chat", o.name, None)
  <1>3. line \in SafeIn
    BY <1>2, ChatSafe DEF InKinds, Accounts
  <1>4. inbox' = Append(inbox, line) \/ inbox' = inbox
    BY DEF Delivered
  <1>5. inbox' \in Seq(SafeIn)
    <2> HIDE DEF line
    <2>1. inbox \in Seq(SafeIn)
      BY DEF Inv
    <2> QED BY <1>3, <1>4, <2>1
  <1>6. outbox' \in Seq(SafeOut) /\ connected' \in BOOLEAN
        /\ said' \in Nat /\ typed' \in Nat /\ faults' \in Nat
        /\ UNCHANGED <<status, cfg, made, creator, matches, pref, everStaff, mistaken>>
    BY <1>1, TransmitSafe
  <1> QED BY <1>1, <1>5, <1>6, WorldQuietStep

LEMMA DisconnectInv ==
    ASSUME Inv, Disconnect
    PROVE  Inv'
  <1>1. inbox' \in Seq(SafeIn) /\ outbox' \in Seq(SafeOut)
    BY EmptySeq DEF Disconnect
  <1>2. /\ UNCHANGED <<status, cfg, made, creator, matches, pref, rooms, everStaff, mistaken>>
        /\ connected' \in BOOLEAN
    <2>1. connected' = FALSE /\ UNCHANGED <<plugin, pref, rooms, everStaff, mistaken>>
      BY DEF Disconnect
    <2> QED BY <2>1 DEF plugin
  <1>3. said' \in Nat /\ typed' \in Nat /\ faults' \in Nat
    <2>1. faults' = faults + 1 /\ UNCHANGED <<said, typed>>
      BY DEF Disconnect
    <2>2. said \in Nat /\ typed \in Nat /\ faults \in Nat
      BY DEF Inv, TypeOK
    <2> QED BY <2>1, <2>2
  <1> QED BY <1>1, <1>2, <1>3, WorldQuietStep

LEMMA ConnectInv ==
    ASSUME Inv, Connect
    PROVE  Inv'
  <1>1. /\ UNCHANGED <<status, cfg, made, creator, matches, pref, rooms, everStaff, mistaken>>
        /\ connected' \in BOOLEAN /\ said' \in Nat /\ typed' \in Nat /\ faults' \in Nat
        /\ inbox' \in Seq(SafeIn) /\ outbox' \in Seq(SafeOut)
    BY DEF Connect, plugin, bounds, Inv, TypeOK
  <1> QED BY <1>1, WorldQuietStep

-----------------------------------------------------------------------------
LEMMA InitInv == Init => Inv
  <1> SUFFICES ASSUME Init PROVE Inv
    OBVIOUS
  <1>1. PICK p \in FirstPrefs : pref = InitCfg(p) /\ cfg = LoadCfg(p) /\ everStaff = StaffOf(cfg)
    BY DEF Init
  <1>2. p \in Prefs
    BY ConstantsAssumption
  <1>3. /\ pref \in Prefs /\ cfg \in [staff : SUBSET Players, bot : {Zero, Nick}]
        /\ cfg.staff = pref.staff
        /\ pref.wait # None => cfg.bot = pref.wait
    BY <1>1, <1>2, LoadType, ConstantsAssumption
  <1>4. everStaff \in SUBSET Requesters
    BY <1>1, <1>3, StaffOfType
  <1>5. /\ creator \in Seq(Trusted) /\ inbox \in Seq(SafeIn) /\ outbox \in Seq(SafeOut)
        /\ creator \in Seq(Requesters) /\ inbox \in Seq(Incoming) /\ outbox \in Seq(Outgoing)
    BY EmptySeq DEF Init
  <1>6. Served
    BY DEF Init, Served, NoMatches
  <1>7. TypeOK
    BY <1>3, <1>4, <1>5 DEF Init, TypeOK, NoMatches
  <1>8. OnePending /\ ConfigIsCurrent
    BY <1>3 DEF Init, OnePending, ConfigIsCurrent
  <1> QED BY <1>1, <1>5, <1>6, <1>7, <1>8 DEF Inv

LEMMA NextInv == Inv /\ [Next]_vars => Inv'
  <1> SUFFICES ASSUME Inv, [Next]_vars PROVE Inv'
    OBVIOUS
  <1>1. CASE Handle
    BY <1>1, RequestAcceptedInv, RequestRejectedInv, NotARequestInv, PendingDroppedInv,
       AnswerForwardedInv, RoomRegisteredInv, RoomUnparsableInv DEF Handle
  <1>2. CASE Operator
    <2>1. \A s \in NewStaff : [pref EXCEPT !.staff = s] \in Prefs
      BY ConstantsAssumption DEF Inv, TypeOK, Prefs
    <2>2. \A w \in {Zero, Nick} : [pref EXCEPT !.wait = w] \in Prefs
      BY DEF Inv, TypeOK, Prefs
    <2> QED BY <1>2, <2>1, <2>2, MakeCommandInv, BBCommandInv, IniCommandInv, IniDiesInv
        DEF Operator, Ini
  <1>3. CASE Reload
    BY <1>3, ReloadInv
  <1>4. CASE Restart
    BY <1>4, RestartInv
  <1>5. CASE Send
    BY <1>5, BanchoCreatesInv, BanchoRefusesInv, RoomCommandInv, DeliveredInv DEF Send
  <1>6. CASE World
    <2>1. \A u \in Players, to \in Places, kind \in InKinds, name \in NameClass : \A room :
             /\ IF kind = "created" THEN room \in Places \ {Nick} ELSE room = None
             /\ PersonSays(u, to, kind, name, room)
             => Inv'
      BY PersonSaysInv
    <2>2. /\ NameClasses \subseteq NameClass /\ "empty" \in NameClass /\ Nick \in Places
          /\ Chatter \cup {"make", "created"} \subseteq InKinds /\ "created" \notin Chatter
      BY ConstantsAssumption DEF InKinds, NameClass, Places
    <2>3. CASE \E u \in Players, to \in Places, name \in NameClasses :
                  PersonSays(u, to, "make", name, None)
      BY <2>1, <2>2, <2>3
    <2>4. CASE \E u \in Players, to \in Places, kind \in Chatter :
                  PersonSays(u, to, kind, "empty", None)
      BY <2>1, <2>2, <2>4
    <2>5. CASE \E u \in Players, name \in NameClasses, r \in Places \ {Nick} :
                  PersonSays(u, Nick, "created", name, r)
      BY <2>1, <2>2, <2>5
    <2> QED BY <1>6, <2>3, <2>4, <2>5, BanchoSaysInv, DisconnectInv, ConnectInv DEF World
  <1>7. CASE UNCHANGED vars
    <2>1. SafeOut' = SafeOut /\ SafeIn' = SafeIn /\ Trusted' = Trusted
      BY <1>7, SameSafety DEF vars
    <2> QED BY <1>7, <2>1 DEF vars, Inv, TypeOK, OnePending, ConfigIsCurrent, StaffOf, Served
  <1> QED BY <1>1, <1>2, <1>3, <1>4, <1>5, <1>6, <1>7 DEF Next

LEMMA SpecInv == Spec => []Inv
  BY InitInv, NextInv, PTL DEF Spec

(* Every variable keeps its type, whatever the accounts, the rooms and the *)
(* bounds.                                                                 *)
THEOREM SpecTypeOK == Spec => []TypeOK
  <1>1. Inv => TypeOK
    BY DEF Inv
  <1> QED BY SpecInv, <1>1, PTL

(* The queue `creator' of mp_make_scb never holds two users.               *)
THEOREM SpecOnePending == Spec => []OnePending
  <1>1. Inv => OnePending
    BY DEF Inv
  <1> QED BY SpecInv, <1>1, PTL

(* The configuration in force is the one that was saved last.              *)
THEOREM SpecConfigIsCurrent == Spec => []ConfigIsCurrent
  <1>1. Inv => ConfigIsCurrent
    BY DEF Inv
  <1> QED BY SpecInv, <1>1, PTL

LEMMA InvServes == Inv => OnlyStaffServed
  <1> SUFFICES ASSUME Inv PROVE OnlyStaffServed
    OBVIOUS
  <1>1. \A i \in DOMAIN creator : creator[i] \in Trusted
    BY DEF Inv
  <1>2. \A i \in DOMAIN outbox : outbox[i] \in SafeOut
    BY DEF Inv
  <1> QED BY <1>1, <1>2 DEF Inv, SafeOut, Served, OnlyStaffServed, Trusted

(* Only people who were configured as staff are ever served.               *)
THEOREM SpecOnlyStaffServed == Spec => []OnlyStaffServed
  BY SpecInv, InvServes, PTL

-----------------------------------------------------------------------------
(***************************************************************************)
(* Referee implements RoomLife, for any accounts, rooms and bounds.        *)
(*                                                                         *)
(* What a line of the send queue needs is done in its room or stands ahead *)
(* of it in the queue, so whatever a disconnection throws away, no line    *)
(* takes effect before what it needs.  A room that is not mistaken is      *)
(* announced once, before anything is sent to it, so it has one guest, in  *)
(* the room or in the queue.                                               *)
(***************************************************************************)

IsGuestLine(o) == o.kind \in {"invite", "addref"}

(* The commands that have to come before a line.                           *)
Needs(o) ==
    CASE o.kind = "password" -> {"set"}
      [] o.kind = "invite"   -> {"set", "password"}
      [] o.kind = "addref"   -> {"set", "password", "invite"}
      [] OTHER               -> {}

(* The command is done in the line's room, or p is that command.           *)
Done(rs, o, kind) ==
    CASE kind = "set"      -> rs[o.to].set
      [] kind = "password" -> rs[o.to].password
      [] kind = "invite"   -> o.user \in rs[o.to].invited

Meets(p, o, kind) == p.to = o.to /\ p.kind = kind /\ (kind = "invite" => p.user = o.user)

Ahead(q, i, kind) == \E j \in 1..(i - 1) : Meets(q[j], q[i], kind)

Ordered(q, rs) ==
    \A i \in 1..Len(q) : \A kind \in Needs(q[i]) : Done(rs, q[i], kind) \/ Ahead(q, i, kind)

Shaped(m) ==
    /\ m.password => m.set
    /\ m.invited # {} => m.password
    /\ m.refs \subseteq m.invited

(* Who is invited to a room, or will be.                                   *)
IsGuest(q, rs, r, u) ==
    \/ u \in rs[r].invited
    \/ \E i \in 1..Len(q) : q[i].to = r /\ IsGuestLine(q[i]) /\ q[i].user = u

OneGuest(q, rs, mk) ==
    \A r \in Rooms \ mk : rs[r] # None =>
       \A u, v \in Requesters : IsGuest(q, rs, r, u) /\ IsGuest(q, rs, r, v) => u = v

IsAnnouncement(m) == m.kind = "created" /\ m.from = BanchoBot

(* BanchoBot announces a room once, before there are guests.               *)
AnnouncedOnce(b, q, rs, mk) ==
    \A i \in 1..Len(b) : IsAnnouncement(b[i]) =>
       /\ b[i].room \notin mk => \A u \in Requesters : ~IsGuest(q, rs, b[i].room, u)
       /\ \A j \in 1..Len(b) : IsAnnouncement(b[j]) /\ b[j].room = b[i].room => j = i

LinesInv ==
    /\ \A r \in Rooms : rooms[r] # None => Shaped(rooms[r])
    /\ Ordered(outbox, rooms)
    /\ \A i \in 1..Len(outbox) : IsGuestLine(outbox[i]) => outbox[i].user \in Players
    /\ OneGuest(outbox, rooms, mistaken)

RoomInv == LinesInv /\ AnnouncedOnce(inbox, outbox, rooms, mistaken)

-----------------------------------------------------------------------------
LEMMA TailIndex ==
    ASSUME NEW S, NEW q \in Seq(S), q # <<>>
    PROVE  /\ Len(q) \in Nat \ {0} /\ Len(Tail(q)) = Len(q) - 1 /\ Head(q) = q[1]
           /\ 1 \in 1..Len(q)
           /\ \A i \in 1..Len(Tail(q)) : Tail(q)[i] = q[i + 1] /\ i + 1 \in 1..Len(q)
  BY EmptySeq

(* A line of two queues in a row is one of the first or one of the second. *)
LEMMA ConcatIndex ==
    ASSUME NEW S, NEW q \in Seq(S), NEW s \in Seq(S)
    PROVE  /\ Len(q) \in Nat /\ Len(s) \in Nat
           /\ \A i \in 1..Len(q) : i \in 1..Len(q \o s) /\ (q \o s)[i] = q[i]
           /\ \A k \in 1..Len(s) : Len(q) + k \in 1..Len(q \o s) /\ (q \o s)[Len(q) + k] = s[k]
           /\ \A i \in 1..Len(q \o s) :
                 i \in 1..Len(q) \/ \E k \in 1..Len(s) : i = Len(q) + k
  <1>1. Len(q) \in Nat /\ Len(s) \in Nat /\ Len(q \o s) = Len(q) + Len(s)
    OBVIOUS
  <1>2. \A i \in 1..Len(q \o s) : i \in 1..Len(q) \/ \E k \in 1..Len(s) : i = Len(q) + k
    <2> SUFFICES ASSUME NEW i \in 1..Len(q \o s), i \notin 1..Len(q)
                 PROVE  \E k \in 1..Len(s) : i = Len(q) + k
      OBVIOUS
    <2>1. i - Len(q) \in 1..Len(s) /\ i = Len(q) + (i - Len(q))
      BY <1>1
    <2> QED BY <2>1
  <1> QED BY <1>1, <1>2

LEMMA FiveLines ==
    ASSUME NEW a, NEW b, NEW c, NEW d, NEW e
    PROVE  LET s == <<a>> \o (<<b, c>> \o <<d, e>>) IN
           Len(s) = 5 /\ s[1] = a /\ s[2] = b /\ s[3] = c /\ s[4] = d /\ s[5] = e
  OBVIOUS

LEMMA OrderedConcat ==
    ASSUME NEW rs, NEW q \in Seq(Outgoing), NEW s \in Seq(Outgoing), Ordered(q, rs), Ordered(s, rs)
    PROVE  Ordered(q \o s, rs)
  <1> DEFINE w == q \o s
  <1>1. /\ Len(q) \in Nat /\ Len(s) \in Nat
        /\ \A i \in 1..Len(q) : i \in 1..Len(w) /\ w[i] = q[i]
        /\ \A k \in 1..Len(s) : Len(q) + k \in 1..Len(w) /\ w[Len(q) + k] = s[k]
        /\ \A i \in 1..Len(w) : i \in 1..Len(q) \/ \E k \in 1..Len(s) : i = Len(q) + k
    BY ConcatIndex
  <1> HIDE DEF w
  <1> SUFFICES ASSUME NEW i \in 1..Len(w), NEW kind \in Needs(w[i])
               PROVE  Done(rs, w[i], kind) \/ Ahead(w, i, kind)
    BY DEF Ordered, w
  <1>2. CASE i \in 1..Len(q)
    <2>1. w[i] = q[i] /\ \A j \in 1..(i - 1) : w[j] = q[j]
      BY <1>1, <1>2
    <2>2. Done(rs, q[i], kind) \/ Ahead(q, i, kind)
      BY <1>2, <2>1 DEF Ordered
    <2> QED BY <2>1, <2>2 DEF Ahead
  <1>3. ASSUME NEW k \in 1..Len(s), i = Len(q) + k
        PROVE  Done(rs, w[i], kind) \/ Ahead(w, i, kind)
    <2>1. w[i] = s[k]
      BY <1>1, <1>3
    <2>2. Done(rs, s[k], kind) \/ Ahead(s, k, kind)
      BY <2>1 DEF Ordered
    <2>3. ASSUME NEW j \in 1..(k - 1)
          PROVE  Len(q) + j \in 1..(i - 1) /\ w[Len(q) + j] = s[j]
      <3>1. j \in 1..Len(s) /\ j \in Nat /\ k \in Nat
        BY <1>1
      <3>2. w[Len(q) + j] = s[j]
        BY <1>1, <3>1
      <3>3. Len(q) + j \in 1..(i - 1)
        BY <1>1, <1>3, <3>1
      <3> QED BY <3>2, <3>3
    <2> QED BY <2>1, <2>2, <2>3 DEF Ahead
  <1> QED BY <1>1, <1>2, <1>3

LEMMA GuestConcat ==
    ASSUME NEW rs, NEW q \in Seq(Outgoing), NEW s \in Seq(Outgoing), NEW r, NEW u,
           IsGuest(q \o s, rs, r, u)
    PROVE  \/ IsGuest(q, rs, r, u)
           \/ \E k \in 1..Len(s) : s[k].to = r /\ IsGuestLine(s[k]) /\ s[k].user = u
  <1> DEFINE w == q \o s
  <1>1. /\ \A i \in 1..Len(q) : w[i] = q[i]
        /\ \A k \in 1..Len(s) : w[Len(q) + k] = s[k]
        /\ \A i \in 1..Len(w) : i \in 1..Len(q) \/ \E k \in 1..Len(s) : i = Len(q) + k
    BY ConcatIndex
  <1> HIDE DEF w
  <1> QED BY <1>1 DEF IsGuest, w

(* A line that is for nobody's room needs nothing and invites nobody.      *)
LEMMA OtherLine ==
    ASSUME NEW o \in Outgoing, o.to \notin Rooms
    PROVE  Needs(o) = {} /\ ~IsGuestLine(o)
  BY DEF Outgoing, RoomKinds, Needs, IsGuestLine

(* A line to a room is one of the four commands, and the room exists.      *)
LEMMA RoomLine ==
    ASSUME Inv, NEW i \in 1..Len(outbox)
    PROVE  /\ outbox[i] \in Outgoing
           /\ outbox[i].to \in Rooms => rooms[outbox[i].to] \in Room /\ rooms[outbox[i].to] # None
           /\ Needs(outbox[i]) # {} \/ IsGuestLine(outbox[i]) => outbox[i].to \in Rooms
  <1>1. outbox[i] \in SafeOut
    BY DEF Inv
  <1>2. outbox[i] \in Outgoing /\ (outbox[i].to \in Rooms => rooms[outbox[i].to] # None)
    BY <1>1 DEF SafeOut
  <1> QED BY <1>2, OtherLine DEF Inv, TypeOK

(* An announcement in the inbox is about a room that exists.               *)
LEMMA AnnouncedRoom ==
    ASSUME Inv, NEW i \in 1..Len(inbox), IsAnnouncement(inbox[i])
    PROVE  inbox[i].room \in Rooms /\ rooms[inbox[i].room] # None
  <1>1. inbox[i] \in SafeIn
    BY DEF Inv
  <1> QED BY <1>1 DEF SafeIn, IsAnnouncement

(* The messages behind the one that is read, and another one behind them.  *)
LEMMA AnnouncedTail ==
    ASSUME NEW q, NEW rs, NEW mk, NEW b \in Seq(Incoming), b # <<>>, AnnouncedOnce(b, q, rs, mk)
    PROVE  /\ AnnouncedOnce(Tail(b), q, rs, mk)
           /\ IsAnnouncement(Head(b)) =>
                 \A i \in 1..Len(Tail(b)) : IsAnnouncement(Tail(b)[i]) => Tail(b)[i].room # Head(b).room
  <1>1. /\ Head(b) = b[1] /\ 1 \in 1..Len(b)
        /\ \A i \in 1..Len(Tail(b)) : Tail(b)[i] = b[i + 1] /\ i + 1 \in 1..Len(b) /\ i + 1 # 1
    BY TailIndex
  <1>2. ASSUME NEW i \in 1..Len(Tail(b)), IsAnnouncement(Tail(b)[i]),
               NEW j \in 1..Len(Tail(b)), IsAnnouncement(Tail(b)[j]), Tail(b)[j].room = Tail(b)[i].room
        PROVE  j = i
    <2>1. j + 1 = i + 1
      BY <1>1, <1>2 DEF AnnouncedOnce
    <2> QED BY <2>1
  <1> QED BY <1>1, <1>2 DEF AnnouncedOnce

LEMMA AnnouncedAppend ==
    ASSUME NEW q, NEW rs, NEW mk, NEW b \in Seq(Incoming), NEW m \in Incoming,
           AnnouncedOnce(b, q, rs, mk),
           IsAnnouncement(m) =>
              /\ \A u \in Requesters : ~IsGuest(q, rs, m.room, u)
              /\ \A j \in 1..Len(b) : IsAnnouncement(b[j]) => b[j].room # m.room
    PROVE  AnnouncedOnce(Append(b, m), q, rs, mk)
  <1> DEFINE w == Append(b, m)
  <1>1. /\ Len(b) \in Nat /\ Len(w) = Len(b) + 1 /\ w[Len(b) + 1] = m
        /\ \A i \in 1..Len(b) : w[i] = b[i]
    OBVIOUS
  <1> HIDE DEF w
  <1>2. \A i \in 1..Len(w) : i \in 1..Len(b) \/ i = Len(b) + 1
    BY <1>1
  <1> SUFFICES ASSUME NEW i \in 1..Len(w), IsAnnouncement(w[i])
               PROVE  /\ w[i].room \notin mk => \A u \in Requesters : ~IsGuest(q, rs, w[i].room, u)
                      /\ \A j \in 1..Len(w) : IsAnnouncement(w[j]) /\ w[j].room = w[i].room => j = i
    BY DEF AnnouncedOnce, w
  <1>3. CASE i \in 1..Len(b)
    BY <1>1, <1>2, <1>3 DEF AnnouncedOnce
  <1>4. CASE i = Len(b) + 1
    BY <1>1, <1>2, <1>4
  <1> QED BY <1>2, <1>3, <1>4

(* The same announcements when no room has more guests than before.        *)
LEMMA AnnouncedKept ==
    ASSUME NEW b, NEW q, NEW rs, NEW q2, NEW rs2, NEW mk, NEW mk2, mk \subseteq mk2,
           AnnouncedOnce(b, q, rs, mk),
           \A i \in 1..Len(b), u \in Requesters :
              IsAnnouncement(b[i]) /\ b[i].room \notin mk2 /\ IsGuest(q2, rs2, b[i].room, u)
              => IsGuest(q, rs, b[i].room, u)
    PROVE  AnnouncedOnce(b, q2, rs2, mk2)
  BY DEF AnnouncedOnce

-----------------------------------------------------------------------------
(* Steps that leave the rooms alone.                                       *)

(* A hook that queues lines to nobody's room and reads a message.          *)
LEMMA RoomQuiet ==
    ASSUME Inv, RoomInv, UNCHANGED <<rooms, mistaken>>, NEW s \in Seq(Outgoing),
           \A k \in 1..Len(s) : s[k].to \notin Rooms,
           outbox' = Queued(s),
           inbox' = inbox \/ (inbox # <<>> /\ inbox' = Tail(inbox))
    PROVE  RoomInv'
  <1>1. inbox \in Seq(Incoming) /\ outbox \in Seq(Outgoing)
    BY DEF Inv, TypeOK
  <1>2. AnnouncedOnce(inbox', outbox, rooms, mistaken)
    BY <1>1, AnnouncedTail DEF RoomInv
  <1>3. CASE outbox' = outbox
    BY <1>2, <1>3 DEF RoomInv, LinesInv
  <1>4. CASE outbox' = outbox \o s
    <2>1. \A k \in 1..Len(s) : Needs(s[k]) = {} /\ ~IsGuestLine(s[k])
      BY OtherLine
    <2>2. Ordered(outbox', rooms)
      <3>1. Ordered(s, rooms)
        BY <2>1 DEF Ordered
      <3> QED BY <1>1, <1>4, <3>1, OrderedConcat DEF RoomInv, LinesInv
    <2>3. \A r, u : IsGuest(outbox', rooms, r, u) => IsGuest(outbox, rooms, r, u)
      BY <1>1, <1>4, <2>1, GuestConcat
    <2>4. \A i \in 1..Len(outbox') : IsGuestLine(outbox'[i]) => outbox'[i].user \in Players
      BY <1>1, <1>4, <2>1, ConcatIndex DEF RoomInv, LinesInv
    <2>5. AnnouncedOnce(inbox', outbox', rooms, mistaken)
      BY <1>2, <2>3, AnnouncedKept
    <2> QED BY <2>2, <2>3, <2>4, <2>5 DEF RoomInv, LinesInv, OneGuest
  <1> QED BY <1>3, <1>4 DEF Queued

LEMMA RoomEmpty ==
    ASSUME RoomInv, UNCHANGED <<rooms, mistaken>>, inbox' = <<>>, outbox' = <<>>
    PROVE  RoomInv'
  BY DEF RoomInv, LinesInv, Ordered, OneGuest, IsGuest, AnnouncedOnce

LEMMA RoomSame ==
    ASSUME RoomInv, UNCHANGED <<rooms, mistaken, inbox, outbox>>
    PROVE  RoomInv'
  BY DEF RoomInv, LinesInv

LEMMA RoomOneLine ==
    ASSUME Inv, RoomInv, UNCHANGED <<rooms, mistaken>>, NEW o \in Outgoing, o.to \notin Rooms,
           outbox' = Queued(<<o>>),
           inbox' = inbox \/ (inbox # <<>> /\ inbox' = Tail(inbox))
    PROVE  RoomInv'
  <1>1. <<o>> \in Seq(Outgoing) /\ \A k \in 1..Len(<<o>>) : <<o>>[k].to \notin Rooms
    OBVIOUS
  <1> QED BY <1>1, RoomQuiet

LEMMA RoomNoLine ==
    ASSUME Inv, RoomInv, UNCHANGED <<rooms, mistaken>>, outbox' = Queued(<<>>),
           inbox' = inbox \/ (inbox # <<>> /\ inbox' = Tail(inbox))
    PROVE  RoomInv'
  <1>1. <<>> \in Seq(Outgoing) /\ \A k \in 1..Len(<<>>) : <<>>[k].to \notin Rooms
    OBVIOUS
  <1> QED BY <1>1, RoomQuiet

(* What is said arrives behind the announcements and is none of BanchoBot. *)
LEMMA RoomSaid ==
    ASSUME Inv, RoomInv, NEW m \in Incoming, ~IsAnnouncement(m),
           UNCHANGED <<rooms, mistaken, outbox>>, inbox' = Append(inbox, m)
    PROVE  RoomInv'
  BY AnnouncedAppend DEF RoomInv, LinesInv, Inv, TypeOK

-----------------------------------------------------------------------------
(* The lines of a room that is registered.                                 *)

(* They bring along what they need, and their guest is one.                *)
LEMMA ConfigurationInOrder ==
    ASSUME NEW r, NEW u, NEW rs
    PROVE  LET s == Forward(u) \o Configuration(r, u) IN
           /\ Ordered(s, rs)
           /\ \A k \in 1..Len(s) : IsGuestLine(s[k]) => s[k].to = r /\ s[k].user = u /\ ~IsBot(u)
  <1> DEFINE s == Forward(u) \o Configuration(r, u)
  <1>1. CASE IsBot(u)
    <2>1. s = <<>> \o (<<Msg(r, "set", None), Msg(r, "password", None)>> \o <<>>)
      BY <1>1 DEF Forward, Configuration
    <2> HIDE DEF s
    <2>2. Len(s) = 2 /\ s[1] = Msg(r, "set", None) /\ s[2] = Msg(r, "password", None)
      BY <2>1
    <2>3. /\ s[1].to = r /\ s[1].kind = "set" /\ Needs(s[1]) = {} /\ ~IsGuestLine(s[1])
          /\ s[2].to = r /\ Needs(s[2]) = {"set"} /\ ~IsGuestLine(s[2])
      BY <2>2 DEF Msg, Needs, IsGuestLine
    <2>4. Ahead(s, 2, "set")
      BY <2>3 DEF Ahead, Meets
    <2> QED BY <2>2, <2>3, <2>4 DEF Ordered, s
  <1>2. CASE ~IsBot(u)
    <2>1. s = <<Msg(u, "forward", None)>> \o
                (<<Msg(r, "set", None), Msg(r, "password", None)>> \o
                 <<Msg(r, "invite", u), Msg(r, "addref", u)>>)
      BY <1>2 DEF Forward, Configuration
    <2> HIDE DEF s
    <2>2. Len(s) = 5 /\ s[1] = Msg(u, "forward", None) /\ s[2] = Msg(r, "set", None)
          /\ s[3] = Msg(r, "password", None) /\ s[4] = Msg(r, "invite", u)
          /\ s[5] = Msg(r, "addref", u)
      BY <2>1, FiveLines
    <2>3. /\ Needs(s[1]) = {} /\ ~IsGuestLine(s[1])
          /\ s[2].to = r /\ s[2].kind = "set" /\ Needs(s[2]) = {} /\ ~IsGuestLine(s[2])
          /\ s[3].to = r /\ s[3].kind = "password" /\ Needs(s[3]) = {"set"} /\ ~IsGuestLine(s[3])
          /\ s[4].to = r /\ s[4].kind = "invite" /\ Needs(s[4]) = {"set", "password"}
          /\ s[4].user = u
          /\ s[5].to = r /\ Needs(s[5]) = {"set", "password", "invite"} /\ s[5].user = u
      BY <2>2 DEF Msg, Needs, IsGuestLine
    <2>4. /\ Ahead(s, 3, "set") /\ Ahead(s, 4, "set") /\ Ahead(s, 4, "password")
          /\ Ahead(s, 5, "set") /\ Ahead(s, 5, "password") /\ Ahead(s, 5, "invite")
      BY <2>3 DEF Ahead, Meets
    <2>5. \A k \in 1..Len(s) : k = 1 \/ k = 2 \/ k = 3 \/ k = 4 \/ k = 5
      BY <2>2
    <2>6. Ordered(s, rs)
      BY <2>3, <2>4, <2>5 DEF Ordered
    <2> QED BY <1>2, <2>3, <2>5, <2>6 DEF s
  <1> QED BY <1>1, <1>2

LEMMA RegistersInOrder ==
    ASSUME Inv, RoomInv, NEW m, RoomRegistered(m)
    PROVE  RoomInv'
  <1> DEFINE u == Head(creator)
             r == m.room
             s == Forward(u) \o Configuration(r, u)
  <1>1. /\ inbox # <<>> /\ m = Head(inbox) /\ inbox' = Tail(inbox) /\ UNCHANGED rooms
        /\ outbox' = Queued(s) /\ m.kind = "created"
        /\ mistaken' = IF m.from = BanchoBot THEN mistaken ELSE mistaken \cup {r}
    BY DEF RoomRegistered, Receive, Consume
  <1>2. /\ inbox \in Seq(Incoming) /\ outbox \in Seq(Outgoing)
        /\ m \in Incoming /\ r \in Rooms /\ rooms[r] # None
    BY <1>1, ReceiveType DEF RoomRegistered, SafeIn, Inv, TypeOK
  <1>3. u \in Trusted /\ u \in Requesters
    BY PopEmpties DEF RoomRegistered
  (* The answer was for the bot's account, so that is nobody to invite.     *)
  <1>4. IsBot(u) \/ u \in Players
    <2>1. IsBot(m.to)
      BY DEF RoomRegistered, FromBancho
    <2>2. cfg.bot = Nick
      BY <1>2, <2>1, ConstantsAssumption DEF IsBot, Incoming, Inv, TypeOK, Accounts
    <2> QED BY <1>3, <2>2 DEF IsBot, Requesters
  <1>5. s \in Seq(Outgoing)
    <2>1. Forward(u) \in Seq(SafeOut) /\ Configuration(r, u) \in Seq(SafeOut)
      BY <1>2, <1>3, ForwardSafe, ConfigurationSafe
    <2>2. SafeOut \subseteq Outgoing
      BY DEF SafeOut
    <2>3. Forward(u) \in Seq(Outgoing) /\ Configuration(r, u) \in Seq(Outgoing)
      BY <2>1, <2>2, SeqMono
    <2> QED BY <2>3
  <1>6. /\ Ordered(s, rooms)
        /\ \A k \in 1..Len(s) : IsGuestLine(s[k]) => s[k].to = r /\ s[k].user = u /\ ~IsBot(u)
    BY ConfigurationInOrder
  <1>7. outbox' = outbox \/ outbox' = outbox \o s
    BY <1>1 DEF Queued
  <1> HIDE DEF s, u, r
  <1>8. Ordered(outbox', rooms)
    BY <1>2, <1>5, <1>6, <1>7, OrderedConcat DEF RoomInv, LinesInv
  <1>9. \A i \in 1..Len(outbox') : IsGuestLine(outbox'[i]) => outbox'[i].user \in Players
    <2>1. CASE outbox' = outbox
      BY <2>1 DEF RoomInv, LinesInv
    <2>2. CASE outbox' = outbox \o s
      <3>1. \A k \in 1..Len(s) : IsGuestLine(s[k]) => s[k].user \in Players
        BY <1>4, <1>6
      <3> QED BY <1>2, <1>5, <2>2, <3>1, ConcatIndex DEF RoomInv, LinesInv
    <2> QED BY <1>7, <2>1, <2>2
  (* The only new guest is the one of the room that was announced.          *)
  <1>10. \A q, v : IsGuest(outbox', rooms, q, v) => IsGuest(outbox, rooms, q, v) \/ (q = r /\ v = u)
    <2>1. CASE outbox' = outbox
      BY <2>1
    <2>2. CASE outbox' = outbox \o s
      <3> SUFFICES ASSUME NEW q, NEW v, IsGuest(outbox', rooms, q, v)
                   PROVE  IsGuest(outbox, rooms, q, v) \/ (q = r /\ v = u)
        OBVIOUS
      <3>1. IsGuest(outbox \o s, rooms, q, v)
        BY <2>2
      <3>2. \/ IsGuest(outbox, rooms, q, v)
            \/ \E k \in 1..Len(s) : s[k].to = q /\ IsGuestLine(s[k]) /\ s[k].user = v
        BY <1>2, <1>5, <3>1, GuestConcat
      <3> QED BY <1>6, <3>2
    <2> QED BY <1>7, <2>1, <2>2
  <1>11. /\ AnnouncedOnce(inbox', outbox, rooms, mistaken)
         /\ IsAnnouncement(m) => \A i \in 1..Len(inbox') : IsAnnouncement(inbox'[i]) => inbox'[i].room # r
    BY <1>1, <1>2, AnnouncedTail DEF RoomInv, r
  <1>12. CASE m.from = BanchoBot
    <2>1. IsAnnouncement(m) /\ mistaken' = mistaken
      BY <1>1, <1>12 DEF IsAnnouncement
    <2>2. r \notin mistaken => \A v \in Requesters : ~IsGuest(outbox, rooms, r, v)
      <3>1. 1 \in 1..Len(inbox) /\ inbox[1] = m
        BY <1>1, <1>2, TailIndex
      <3> QED BY <2>1, <3>1 DEF RoomInv, AnnouncedOnce, r
    <2>3. OneGuest(outbox', rooms, mistaken)
      BY <1>10, <2>2 DEF OneGuest, RoomInv, LinesInv
    <2>4. AnnouncedOnce(inbox', outbox', rooms, mistaken)
      BY <1>10, <1>11, <2>1, AnnouncedKept
    <2> QED BY <1>1, <1>8, <1>9, <2>1, <2>3, <2>4 DEF RoomInv, LinesInv
  <1>13. CASE m.from # BanchoBot
    <2>1. mistaken' = mistaken \cup {r}
      BY <1>1, <1>13
    <2>2. OneGuest(outbox', rooms, mistaken')
      BY <1>10, <2>1 DEF OneGuest, RoomInv, LinesInv
    <2>3. AnnouncedOnce(inbox', outbox', rooms, mistaken')
      BY <1>10, <1>11, <2>1, AnnouncedKept
    <2> QED BY <1>1, <1>8, <1>9, <2>2, <2>3 DEF RoomInv, LinesInv
  <1> QED BY <1>12, <1>13

LEMMA RoomHandle ==
    ASSUME Inv, RoomInv, NEW m,
           \/ RequestAccepted(m) \/ RequestRejected(m) \/ NotARequest(m)
           \/ PendingDropped(m) \/ AnswerForwarded(m)
           \/ RoomRegistered(m) \/ RoomUnparsable(m)
    PROVE  RoomInv'
  <1>1. m \in Incoming /\ m \in SafeIn /\ inbox # <<>> /\ m = Head(inbox)
    BY ReceiveType DEF RequestAccepted, RequestRejected, NotARequest, PendingDropped,
                       AnswerForwarded, RoomRegistered, RoomUnparsable, Receive
  <1>2. m.from \in Accounts /\ m.from \notin Rooms /\ m.name \in NameClass
    BY <1>1, ConstantsAssumption DEF Incoming
  <1>3. CASE RequestAccepted(m)
    <2>1. m.from \in Requesters /\ BanchoBot \in Accounts /\ BanchoBot \notin Rooms
      BY <1>2, <1>3, StaffTrusted, ConstantsAssumption DEF RequestAccepted, Accounts
    <2>2. Make(BanchoBot, m.name, m.from) \in Outgoing
      BY <1>2, <2>1, MakeType
    <2>3. Make(BanchoBot, m.name, m.from).to \notin Rooms
      BY <2>1 DEF Make
    <2>4. /\ UNCHANGED <<rooms, mistaken>> /\ inbox' = Tail(inbox)
          /\ outbox' = Queued(<<Make(BanchoBot, m.name, m.from)>>)
      BY <1>3 DEF RequestAccepted, Consume
    <2> QED BY <1>1, <2>2, <2>3, <2>4, RoomOneLine
  <1>4. CASE RequestRejected(m)
    <2> DEFINE text == IF IsStaff(m.from) > 0 THEN "help" ELSE "note"
    <2>1. Msg(m.from, text, None) \in Outgoing
      BY <1>2, MsgType DEF OutKinds, RoomKinds
    <2>2. Msg(m.from, text, None).to \notin Rooms
      BY <1>2 DEF Msg
    <2>3. /\ UNCHANGED <<rooms, mistaken>> /\ inbox' = Tail(inbox)
          /\ outbox' = Queued(<<Msg(m.from, text, None)>>)
      BY <1>4 DEF RequestRejected, Consume
    <2> QED BY <1>1, <2>1, <2>2, <2>3, RoomOneLine
  <1>5. CASE NotARequest(m) \/ PendingDropped(m)
    <2>1. /\ UNCHANGED <<rooms, mistaken>> /\ inbox' = Tail(inbox)
          /\ outbox' = Queued(Greeting(m))
      BY <1>5 DEF NotARequest, PendingDropped, Consume
    <2>2. CASE m.kind \in {"y", "snow"}
      <3>1. Msg(m.from, "note", None) \in Outgoing
        BY <1>2, MsgType DEF OutKinds, RoomKinds
      <3>2. Msg(m.from, "note", None).to \notin Rooms
        BY <1>2 DEF Msg
      <3>3. outbox' = Queued(<<Msg(m.from, "note", None)>>)
        BY <2>1, <2>2 DEF Greeting
      <3> QED BY <1>1, <2>1, <3>1, <3>2, <3>3, RoomOneLine
    <2>3. CASE m.kind \notin {"y", "snow"}
      BY <1>1, <2>1, <2>3, RoomNoLine DEF Greeting
    <2> QED BY <2>2, <2>3
  <1>6. CASE AnswerForwarded(m)
    <2> DEFINE u == Head(creator)
    <2>1. u \in Accounts /\ u \notin Rooms
      BY <1>6, PopEmpties, ConstantsAssumption DEF AnswerForwarded, Requesters, Accounts
    <2>2. /\ UNCHANGED <<rooms, mistaken>> /\ inbox' = Tail(inbox)
          /\ outbox' = Queued(Forward(u))
      BY <1>6 DEF AnswerForwarded, Consume
    <2> HIDE DEF u
    <2>3. CASE IsBot(u)
      BY <1>1, <2>2, <2>3, RoomNoLine DEF Forward
    <2>4. CASE ~IsBot(u)
      <3>1. Msg(u, "forward", None) \in Outgoing
        BY <2>1, MsgType DEF OutKinds, RoomKinds
      <3>2. Msg(u, "forward", None).to \notin Rooms
        BY <2>1 DEF Msg
      <3>3. outbox' = Queued(<<Msg(u, "forward", None)>>)
        BY <2>2, <2>4 DEF Forward
      <3> QED BY <1>1, <2>2, <3>1, <3>2, <3>3, RoomOneLine
    <2> QED BY <2>3, <2>4
  <1>7. CASE RoomRegistered(m)
    BY <1>7, RegistersInOrder
  <1>8. CASE RoomUnparsable(m)
    BY <1>8, RoomEmpty DEF RoomUnparsable, ClientGone
  <1> QED BY <1>3, <1>4, <1>5, <1>6, <1>7, <1>8

LEMMA RoomOperator ==
    ASSUME Inv, RoomInv, Operator
    PROVE  RoomInv'
  <1>1. /\ Nick \in Requesters /\ cfg.bot \in Accounts \cup {Zero} /\ BanchoBot \in Accounts
        /\ cfg.bot \notin Rooms /\ BanchoBot \notin Rooms
    BY ConstantsAssumption DEF Inv, TypeOK, Requesters, Accounts
  <1>2. ASSUME NEW name \in NameClasses, MakeCommand(name)
        PROVE  RoomInv'
    <2> DEFINE text == IF name = "empty" THEN "templated" ELSE name
    <2>1. text \in NameClass
      BY ConstantsAssumption DEF NameClass
    <2>2. Make(cfg.bot, text, Nick) \in Outgoing
      BY <1>1, <2>1, MakeType
    <2>3. Make(cfg.bot, text, Nick).to \notin Rooms
      BY <1>1 DEF Make
    <2>4. UNCHANGED <<rooms, mistaken, inbox>> /\ outbox' = Queued(<<Make(cfg.bot, text, Nick)>>)
      BY <1>2 DEF MakeCommand
    <2> QED BY <2>2, <2>3, <2>4, RoomOneLine
  <1>3. ASSUME NEW name \in NameClasses, BBCommand(name)
        PROVE  RoomInv'
    <2>1. Make(BanchoBot, name, Nick) \in Outgoing
      BY <1>1, MakeType, ConstantsAssumption
    <2>2. Make(BanchoBot, name, Nick).to \notin Rooms
      BY <1>1 DEF Make
    <2>3. UNCHANGED <<rooms, mistaken, inbox>> /\ outbox' = Queued(<<Make(BanchoBot, name, Nick)>>)
      BY <1>3 DEF BBCommand
    <2> QED BY <2>1, <2>2, <2>3, RoomOneLine
  <1>4. ASSUME NEW p, IniCommand(p)
        PROVE  RoomInv'
    BY <1>4, RoomSame DEF IniCommand, wire
  <1>5. ASSUME NEW p, IniDies(p)
        PROVE  RoomInv'
    BY <1>5, RoomEmpty DEF IniDies, ClientGone
  <1> QED BY <1>2, <1>3, <1>4, <1>5 DEF Operator, Ini

-----------------------------------------------------------------------------
(* The next line reaches the server.                                       *)

(* What remains to be shown of it: what the others needed of it is done,   *)
(* and nobody is invited but the user of the line.                         *)
LEMMA RoomSent ==
    ASSUME Inv, RoomInv, NEW o, Transmit(o),
           \A r \in Rooms : rooms[r] # None => rooms'[r] # None,
           \A r \in Rooms : rooms'[r] # None => Shaped(rooms'[r]),
           \A i \in 1..Len(outbox) : \A kind \in Needs(outbox[i]) :
              Done(rooms, outbox[i], kind) \/ Meets(o, outbox[i], kind)
              => Done(rooms', outbox[i], kind),
           \A r \in Rooms, u \in Requesters :
              rooms'[r] # None /\ u \in rooms'[r].invited =>
                 /\ rooms[r] # None
                 /\ u \in rooms[r].invited \/ (o.to = r /\ IsGuestLine(o) /\ o.user = u)
    PROVE  /\ LinesInv'
           /\ AnnouncedOnce(inbox, outbox', rooms', mistaken)
           /\ mistaken' = mistaken
  <1>1. /\ mistaken' = mistaken /\ outbox \in Seq(Outgoing) /\ inbox \in Seq(Incoming)
        /\ outbox # <<>> /\ o = Head(outbox) /\ outbox' = Tail(outbox)
    BY DEF Transmit, Inv, TypeOK
  <1>2. /\ Len(outbox) \in Nat \ {0} /\ Len(outbox') = Len(outbox) - 1
        /\ o = outbox[1] /\ 1 \in 1..Len(outbox)
        /\ \A i \in 1..Len(outbox') : outbox'[i] = outbox[i + 1] /\ i + 1 \in 1..Len(outbox)
    BY <1>1, TailIndex
  <1>3. Ordered(outbox', rooms')
    <2> SUFFICES ASSUME NEW i \in 1..Len(outbox'), NEW kind \in Needs(outbox'[i])
                 PROVE  Done(rooms', outbox'[i], kind) \/ Ahead(outbox', i, kind)
      BY DEF Ordered
    <2>1. outbox'[i] = outbox[i + 1] /\ i + 1 \in 1..Len(outbox) /\ i \in Nat \ {0}
      BY <1>2
    <2>2. Done(rooms, outbox[i + 1], kind) \/ Ahead(outbox, i + 1, kind)
      BY <2>1 DEF Ordered, RoomInv, LinesInv
    <2>3. CASE Done(rooms, outbox[i + 1], kind)
      BY <2>1, <2>3
    <2>4. CASE Ahead(outbox, i + 1, kind)
      <3>1. PICK j \in 1..((i + 1) - 1) : Meets(outbox[j], outbox[i + 1], kind)
        BY <2>4 DEF Ahead
      <3>2. CASE j = 1
        BY <1>2, <2>1, <3>1, <3>2
      <3>3. CASE j # 1
        <4>1. j - 1 \in 1..(i - 1) /\ j - 1 \in 1..Len(outbox') /\ (j - 1) + 1 = j
          BY <1>2, <2>1, <3>3
        <4>2. outbox'[j - 1] = outbox[j]
          BY <1>2, <4>1
        <4> QED BY <2>1, <3>1, <4>1, <4>2 DEF Ahead
      <3> QED BY <3>2, <3>3
    <2> QED BY <2>2, <2>3, <2>4
  <1>4. ASSUME NEW r \in Rooms, rooms'[r] # None, NEW u \in Requesters,
               IsGuest(outbox', rooms', r, u)
        PROVE  rooms[r] # None /\ IsGuest(outbox, rooms, r, u)
    <2>1. CASE u \in rooms'[r].invited
      BY <1>2, <1>4, <2>1 DEF IsGuest
    <2>2. CASE \E i \in 1..Len(outbox') : outbox'[i].to = r /\ IsGuestLine(outbox'[i]) /\ outbox'[i].user = u
      BY <1>2, <2>2, RoomLine DEF IsGuest
    <2> QED BY <1>4, <2>1, <2>2 DEF IsGuest
  <1>5. OneGuest(outbox', rooms', mistaken)
    BY <1>4 DEF OneGuest, RoomInv, LinesInv
  <1>6. \A i \in 1..Len(outbox') : IsGuestLine(outbox'[i]) => outbox'[i].user \in Players
    BY <1>2 DEF RoomInv, LinesInv
  <1>7. LinesInv'
    BY <1>1, <1>3, <1>5, <1>6 DEF LinesInv
  <1>8. AnnouncedOnce(inbox, outbox', rooms', mistaken)
    <2>1. ASSUME NEW i \in 1..Len(inbox), NEW u \in Requesters, IsAnnouncement(inbox[i]),
                 IsGuest(outbox', rooms', inbox[i].room, u)
          PROVE  IsGuest(outbox, rooms, inbox[i].room, u)
      <3>1. inbox[i].room \in Rooms /\ rooms[inbox[i].room] # None
        BY <2>1, AnnouncedRoom
      <3>2. rooms'[inbox[i].room] # None
        BY <3>1
      <3> QED BY <1>4, <2>1, <3>1, <3>2
    <2> QED BY <2>1, AnnouncedKept DEF RoomInv
  <1> QED BY <1>1, <1>7, <1>8

LEMMA CommandEffect ==
    ASSUME Inv, NEW o, RoomCommand(o)
    PROVE  /\ Transmit(o) /\ inbox' = inbox
           /\ o.to \in Rooms /\ rooms[o.to] \in Room /\ rooms[o.to] # None /\ rooms'[o.to] # None
           /\ o.kind \in RoomKinds /\ (IsGuestLine(o) => o.user \in Requesters)
           /\ rooms'[o.to].set <=> rooms[o.to].set \/ o.kind = "set"
           /\ rooms'[o.to].password <=> rooms[o.to].password \/ o.kind = "password"
           /\ rooms'[o.to].invited =
                 IF o.kind = "invite" THEN rooms[o.to].invited \cup {o.user} ELSE rooms[o.to].invited
           /\ rooms'[o.to].refs =
                 IF o.kind = "addref" THEN rooms[o.to].refs \cup {o.user} ELSE rooms[o.to].refs
           /\ \A q \in Rooms : q # o.to => rooms'[q] = rooms[q]
  <1> DEFINE old == rooms[o.to]
             new == CASE o.kind = "set"      -> [old EXCEPT !.set = TRUE]
                      [] o.kind = "password" -> [old EXCEPT !.password = TRUE]
                      [] o.kind = "invite"   -> [old EXCEPT !.invited = @ \cup {o.user}]
                      [] o.kind = "addref"   -> [old EXCEPT !.refs = @ \cup {o.user}]
  <1>1. /\ Transmit(o) /\ o.to \in Rooms /\ inbox' = inbox
        /\ rooms' = [rooms EXCEPT ![o.to] = new]
    BY DEF RoomCommand
  <1>2. o \in Outgoing /\ o \in SafeOut
    BY <1>1, TransmitSafe
  <1>3. o.kind \in RoomKinds /\ (IsGuestLine(o) => o.user \in Requesters)
    BY <1>1, <1>2 DEF Outgoing, IsGuestLine
  <1>4. old \in Room /\ old # None
    BY <1>1, <1>2 DEF SafeOut, Inv, TypeOK
  <1> HIDE DEF old, new
  <1>5. rooms'[o.to] = new /\ \A q \in Rooms : q # o.to => rooms'[q] = rooms[q]
    BY <1>1 DEF Inv, TypeOK
  <1>6. /\ new \in Room
        /\ new.set <=> old.set \/ o.kind = "set"
        /\ new.password <=> old.password \/ o.kind = "password"
        /\ new.invited = IF o.kind = "invite" THEN old.invited \cup {o.user} ELSE old.invited
        /\ new.refs = IF o.kind = "addref" THEN old.refs \cup {o.user} ELSE old.refs
    <2>1. CASE o.kind = "set"
      BY <1>4, <2>1 DEF new, Room
    <2>2. CASE o.kind = "password"
      BY <1>4, <2>2 DEF new, Room
    <2>3. CASE o.kind = "invite"
      BY <1>3, <1>4, <2>3 DEF new, Room, IsGuestLine
    <2>4. CASE o.kind = "addref"
      BY <1>3, <1>4, <2>4 DEF new, Room, IsGuestLine
    <2> QED BY <1>3, <2>1, <2>2, <2>3, <2>4 DEF RoomKinds
  <1> QED BY <1>1, <1>3, <1>4, <1>5, <1>6, NoneAssumption DEF old

(* What the line at the head of the queue needs is done.                   *)
LEMMA HeadIsDue ==
    ASSUME Inv, RoomInv, NEW o, Transmit(o)
    PROVE  /\ \A kind \in Needs(o) : Done(rooms, o, kind)
           /\ IsGuestLine(o) => o.user \in Players
           /\ IsGuestLine(o) => IsGuest(outbox, rooms, o.to, o.user)
  <1>1. o = outbox[1] /\ 1 \in 1..Len(outbox)
    BY TailIndex DEF Inv, TypeOK, Transmit
  <1>2. \A kind \in Needs(o) : Done(rooms, o, kind) \/ Ahead(outbox, 1, kind)
    BY <1>1 DEF RoomInv, LinesInv, Ordered
  <1>3. \A kind : ~Ahead(outbox, 1, kind)
    BY DEF Ahead
  <1> QED BY <1>1, <1>2, <1>3 DEF RoomInv, LinesInv, IsGuest

LEMMA RoomCommandKeeps ==
    ASSUME Inv, RoomInv, NEW o, RoomCommand(o)
    PROVE  RoomInv'
  <1> DEFINE r == o.to
  <1>1. /\ Transmit(o) /\ inbox' = inbox
        /\ r \in Rooms /\ rooms[r] \in Room /\ rooms[r] # None /\ rooms'[r] # None
        /\ o.kind \in RoomKinds
        /\ rooms'[r].set <=> rooms[r].set \/ o.kind = "set"
        /\ rooms'[r].password <=> rooms[r].password \/ o.kind = "password"
        /\ rooms'[r].invited =
              IF o.kind = "invite" THEN rooms[r].invited \cup {o.user} ELSE rooms[r].invited
        /\ rooms'[r].refs = IF o.kind = "addref" THEN rooms[r].refs \cup {o.user} ELSE rooms[r].refs
        /\ \A q \in Rooms : q # r => rooms'[q] = rooms[q]
    BY CommandEffect
  <1>2. /\ o.kind = "password" => rooms[r].set
        /\ o.kind = "invite" => rooms[r].password
        /\ o.kind = "addref" => o.user \in rooms[r].invited
    <2>1. /\ o.kind = "password" => "set" \in Needs(o)
          /\ o.kind = "invite" => "password" \in Needs(o)
          /\ o.kind = "addref" => "invite" \in Needs(o)
      BY DEF Needs
    <2> QED BY <1>1, <2>1, HeadIsDue DEF Done
  <1>3. Shaped(rooms[r])
    BY <1>1 DEF RoomInv, LinesInv
  <1>4. Shaped(rooms'[r])
    BY <1>1, <1>2, <1>3 DEF Shaped
  <1>5. \A q \in Rooms : rooms'[q] # None => Shaped(rooms'[q])
    BY <1>1, <1>4 DEF RoomInv, LinesInv
  <1>6. ASSUME NEW i \in 1..Len(outbox), NEW kind \in Needs(outbox[i]),
               Done(rooms, outbox[i], kind) \/ Meets(o, outbox[i], kind)
        PROVE  Done(rooms', outbox[i], kind)
    <2>1. outbox[i].to \in Rooms /\ kind \in {"set", "password", "invite"}
      BY <1>6, RoomLine DEF Needs
    <2>2. CASE outbox[i].to = r
      BY <1>1, <1>6, <2>1, <2>2 DEF Done, Meets
    <2>3. CASE outbox[i].to # r
      BY <1>1, <1>6, <2>1, <2>3 DEF Done, Meets
    <2> QED BY <2>2, <2>3
  <1>7. \A q \in Rooms, u \in Requesters :
           rooms'[q] # None /\ u \in rooms'[q].invited =>
              /\ rooms[q] # None
              /\ u \in rooms[q].invited \/ (o.to = q /\ IsGuestLine(o) /\ o.user = u)
    BY <1>1 DEF IsGuestLine
  <1>8. \A q \in Rooms : rooms[q] # None => rooms'[q] # None
    BY <1>1
  <1> QED BY <1>1, <1>5, <1>6, <1>7, <1>8, RoomSent DEF RoomInv

LEMMA FreshRoom ==
    ASSUME Inv, NEW o, NEW r \in Rooms, BanchoCreates(o, r)
    PROVE  /\ rooms[r] = None /\ rooms'[r] # None
           /\ ~rooms'[r].set /\ ~rooms'[r].password /\ rooms'[r].invited = {} /\ rooms'[r].refs = {}
           /\ \A q \in Rooms : q # r => rooms'[q] = rooms[q]
  <1> DEFINE room == [asker |-> o.user, set |-> FALSE, password |-> FALSE,
                      invited |-> {}, refs |-> {}]
  <1>1. Transmit(o) /\ o.kind = "make" /\ rooms[r] = None /\ rooms' = [rooms EXCEPT ![r] = room]
    BY DEF BanchoCreates
  <1>2. o.user \in Requesters
    BY <1>1, TransmitSafe DEF Outgoing
  <1>3. /\ room \in Room
        /\ ~room.set /\ ~room.password /\ room.invited = {} /\ room.refs = {}
    BY <1>2 DEF Room
  <1> HIDE DEF room
  <1>4. rooms'[r] = room /\ \A q \in Rooms : q # r => rooms'[q] = rooms[q]
    BY <1>1 DEF Inv, TypeOK
  <1> QED BY <1>1, <1>3, <1>4, NoneAssumption

LEMMA RoomCreates ==
    ASSUME Inv, RoomInv, NEW o, NEW r \in Rooms, BanchoCreates(o, r)
    PROVE  RoomInv'
  <1> DEFINE m == Line(BanchoBot, Nick, "created", o.name, r)
  <1>1. /\ Transmit(o) /\ o.to = BanchoBot /\ o.to \notin Rooms
        /\ inbox' = Append(inbox, m)
        /\ outbox # <<>> /\ outbox' = Tail(outbox)
        /\ inbox \in Seq(Incoming) /\ outbox \in Seq(Outgoing)
    BY ConstantsAssumption DEF BanchoCreates, Transmit, Arrives, Inv, TypeOK, Accounts
  <1>2. /\ rooms[r] = None /\ rooms'[r] # None
        /\ ~rooms'[r].set /\ ~rooms'[r].password /\ rooms'[r].invited = {} /\ rooms'[r].refs = {}
        /\ \A q \in Rooms : q # r => rooms'[q] = rooms[q]
    BY FreshRoom
  <1>3. \A q \in Rooms : rooms'[q] # None => Shaped(rooms'[q])
    <2>1. Shaped(rooms'[r])
      BY <1>2 DEF Shaped
    <2> QED BY <1>2, <2>1 DEF RoomInv, LinesInv
  <1>4. \A i \in 1..Len(outbox) : outbox[i].to # r
    BY <1>2, RoomLine
  <1>5. \A i \in 1..Len(outbox) : \A kind \in Needs(outbox[i]) :
           Done(rooms, outbox[i], kind) \/ Meets(o, outbox[i], kind)
           => Done(rooms', outbox[i], kind)
    <2> SUFFICES ASSUME NEW i \in 1..Len(outbox), NEW kind \in Needs(outbox[i]),
                        Done(rooms, outbox[i], kind) \/ Meets(o, outbox[i], kind)
                 PROVE  Done(rooms', outbox[i], kind)
      OBVIOUS
    <2>1. outbox[i].to \in Rooms /\ outbox[i].to # r
      BY <1>4, RoomLine
    <2>2. rooms'[outbox[i].to] = rooms[outbox[i].to] /\ ~Meets(o, outbox[i], kind)
      BY <1>1, <1>2, <2>1 DEF Meets
    <2> QED BY <2>2 DEF Done
  <1>6. \A q \in Rooms, u \in Requesters :
           rooms'[q] # None /\ u \in rooms'[q].invited => rooms[q] # None /\ u \in rooms[q].invited
    BY <1>2
  <1>7. \A q \in Rooms : rooms[q] # None => rooms'[q] # None
    BY <1>2
  <1>8. LinesInv' /\ AnnouncedOnce(inbox, outbox', rooms', mistaken) /\ mistaken' = mistaken
    BY <1>1, <1>3, <1>5, <1>6, <1>7, RoomSent
  <1>9. AnnouncedOnce(inbox', outbox', rooms', mistaken)
    <2>1. m \in Incoming /\ m.room = r
      BY <1>1, TransmitSafe DEF Line, Incoming, InKinds, Accounts, Outgoing
    <2>2. \A u \in Requesters : ~IsGuest(outbox', rooms', r, u)
      <3>1. \A i \in 1..Len(outbox') : outbox'[i] = outbox[i + 1] /\ i + 1 \in 1..Len(outbox)
        BY <1>1, TailIndex
      <3> QED BY <1>2, <1>4, <3>1 DEF IsGuest
    <2>3. \A j \in 1..Len(inbox) : IsAnnouncement(inbox[j]) => inbox[j].room # r
      BY <1>2, AnnouncedRoom
    <2> HIDE DEF m
    <2> QED BY <1>1, <1>8, <2>1, <2>2, <2>3, AnnouncedAppend
  <1> QED BY <1>8, <1>9 DEF RoomInv

(* A line to somebody else, which is answered or not.                      *)
LEMMA RoomOtherSent ==
    ASSUME Inv, RoomInv, NEW o, Transmit(o), o.to \notin Rooms, UNCHANGED rooms,
           NEW m \in Incoming, ~IsAnnouncement(m),
           inbox' = inbox \/ inbox' = Append(inbox, m)
    PROVE  RoomInv'
  <1>1. \A i \in 1..Len(outbox) : \A kind \in Needs(outbox[i]) : ~Meets(o, outbox[i], kind)
    BY RoomLine DEF Meets
  <1>2. \A r \in Rooms : rooms[r] # None => Shaped(rooms[r])
    BY DEF RoomInv, LinesInv
  <1>3. LinesInv' /\ AnnouncedOnce(inbox, outbox', rooms', mistaken) /\ mistaken' = mistaken
    BY <1>1, <1>2, RoomSent
  <1>4. inbox \in Seq(Incoming)
    BY DEF Inv, TypeOK
  <1>5. AnnouncedOnce(inbox', outbox', rooms', mistaken)
    BY <1>3, <1>4, AnnouncedAppend
  <1> QED BY <1>3, <1>5 DEF RoomInv

LEMMA RoomSend ==
    ASSUME Inv, RoomInv, Send
    PROVE  RoomInv'
  <1>1. ASSUME NEW o, BanchoRefuses(o)
        PROVE  RoomInv'
    <2> DEFINE m == Line(BanchoBot, Nick, "refused", "empty", None)
    <2>1. Transmit(o) /\ o.to \notin Rooms /\ UNCHANGED rooms /\ inbox' = Append(inbox, m)
      BY <1>1, ConstantsAssumption DEF BanchoRefuses, Arrives, Accounts
    <2>2. m \in Incoming /\ ~IsAnnouncement(m)
      BY DEF Line, Incoming, InKinds, NameClass, Accounts, IsAnnouncement
    <2> QED BY <2>1, <2>2, RoomOtherSent
  <1>2. ASSUME NEW o, Delivered(o)
        PROVE  RoomInv'
    <2> DEFINE m == Line(Nick, Nick, IF o.kind = "make" THEN "make" ELSE "chat", o.name, None)
    <2>1. Transmit(o) /\ o.to \notin Rooms /\ UNCHANGED rooms
      BY <1>2, ConstantsAssumption DEF Delivered, Accounts
    <2>2. inbox' = inbox \/ inbox' = Append(inbox, m)
      BY <1>2 DEF Delivered
    <2>3. o.name \in NameClass
      BY <2>1, TransmitSafe DEF Outgoing
    <2>4. m \in Incoming /\ ~IsAnnouncement(m)
      BY <2>3 DEF Line, Incoming, InKinds, Accounts, IsAnnouncement
    <2> QED BY <2>1, <2>2, <2>4, RoomOtherSent
  <1> QED BY <1>1, <1>2, RoomCreates, RoomCommandKeeps DEF Send

LEMMA RoomWorld ==
    ASSUME Inv, RoomInv, World
    PROVE  RoomInv'
  <1>1. ASSUME NEW u \in Players, NEW to \in Places, NEW kind \in InKinds, NEW name \in NameClass,
               NEW room, IF kind = "created" THEN room \in Places \ {Nick} ELSE room = None,
               PersonSays(u, to, kind, name, room)
        PROVE  RoomInv'
    <2> DEFINE m == Line(u, to, kind, name, room)
    <2>1. m \in Incoming
      BY <1>1, PersonSafe DEF SafeIn
    <2>2. ~IsAnnouncement(m)
      BY ConstantsAssumption DEF IsAnnouncement, Line
    <2>3. UNCHANGED <<rooms, mistaken, outbox>> /\ inbox' = Append(inbox, m)
      BY <1>1 DEF PersonSays, Arrives
    <2> HIDE DEF m
    <2> QED BY <2>1, <2>2, <2>3, RoomSaid
  <1>2. /\ NameClasses \subseteq NameClass /\ "empty" \in NameClass /\ Nick \in Places
        /\ Chatter \cup {"make", "created"} \subseteq InKinds /\ "created" \notin Chatter
    BY ConstantsAssumption DEF InKinds, NameClass, Places
  <1>3. CASE \E u \in Players, to \in Places, name \in NameClasses :
                PersonSays(u, to, "make", name, None)
    BY <1>1, <1>2, <1>3
  <1>4. CASE \E u \in Players, to \in Places, kind \in Chatter :
                PersonSays(u, to, kind, "empty", None)
    BY <1>1, <1>2, <1>4
  <1>5. CASE \E u \in Players, name \in NameClasses, r \in Places \ {Nick} :
                PersonSays(u, Nick, "created", name, r)
    BY <1>1, <1>2, <1>5
  <1>6. ASSUME NEW to \in Places, BanchoSays(to)
        PROVE  RoomInv'
    <2> DEFINE m == Line(BanchoBot, to, "chat", "empty", None)
    <2>1. m \in Incoming /\ ~IsAnnouncement(m)
      BY DEF Line, Incoming, InKinds, NameClass, Accounts, Places, IsAnnouncement
    <2>2. UNCHANGED <<rooms, mistaken, outbox>> /\ inbox' = Append(inbox, m)
      BY <1>6 DEF BanchoSays, Arrives
    <2> QED BY <2>1, <2>2, RoomSaid
  <1>7. CASE Disconnect
    BY <1>7, RoomEmpty DEF Disconnect
  <1>8. CASE Connect
    BY <1>8, RoomSame DEF Connect
  <1> QED BY <1>3, <1>4, <1>5, <1>6, <1>7, <1>8 DEF World

LEMMA RoomNext == Inv /\ RoomInv /\ [Next]_vars => RoomInv'
  <1> SUFFICES ASSUME Inv, RoomInv, [Next]_vars PROVE RoomInv'
    OBVIOUS
  <1>1. CASE Handle
    BY <1>1, RoomHandle DEF Handle
  <1>2. CASE Reload \/ Restart
    BY <1>2, RoomSame DEF Reload, Restart, wire
  <1>3. CASE UNCHANGED vars
    BY <1>3, RoomSame DEF vars
  <1> QED BY <1>1, <1>2, <1>3, RoomOperator, RoomSend, RoomWorld DEF Next

LEMMA InitRoomInv == Init => RoomInv
  BY DEF Init, RoomInv, LinesInv, Ordered, OneGuest, AnnouncedOnce

LEMMA SpecRoomInv == Spec => [](Inv /\ RoomInv)
  BY InitInv, NextInv, InitRoomInv, RoomNext, PTL DEF Spec

(* No room ever has a guest or a referee before it has its mode and its    *)
(* password: the order the comment of bot.c:374 asks for survives every    *)
(* interleaving, disconnection and reload, and every repeated announcement.*)
THEOREM SpecPasswordBeforeInvite == Spec => []PasswordBeforeInvite
  <1>1. RoomInv => PasswordBeforeInvite
    BY DEF RoomInv, LinesInv, Shaped, PasswordBeforeInvite
  <1> QED BY <1>1, SpecRoomInv, PTL

-----------------------------------------------------------------------------
(* The refinement.                                                         *)

LEMMA OthersKeep ==
    ASSUME NEW q \in Rooms, rooms'[q] = rooms[q]
    PROVE  StageOf(q)' = StageOf(q) /\ Guests(q)' = Guests(q) /\ Referees(q)' = Referees(q)
  BY DEF StageOf, Guests, Referees

(* A step that takes one room from one stage to another.                   *)
LEMMA LifeAdvance ==
    ASSUME NEW r \in Rooms, NEW from, NEW to, StageOf(r) = from, StageOf(r)' = to,
           \A q \in Rooms : q # r => rooms'[q] = rooms[q],
           Guests(r)' = Guests(r), Referees(r)' = Referees(r), mistaken' = mistaken
    PROVE  Life!Advance(r, from, to)
  <1>1. \A q \in Rooms : q # r => StageOf(q)' = StageOf(q)
    BY OthersKeep
  <1>2. \A q \in Rooms : Guests(q)' = Guests(q) /\ Referees(q)' = Referees(q)
    BY OthersKeep
  <1> QED BY <1>1, <1>2 DEF Life!Advance

LEMMA CreatesOpens ==
    ASSUME Inv, NEW o, NEW r \in Rooms, BanchoCreates(o, r)
    PROVE  Life!LifeNext
  <1>1. /\ rooms[r] = None /\ rooms'[r] # None
        /\ ~rooms'[r].set /\ ~rooms'[r].password /\ rooms'[r].invited = {} /\ rooms'[r].refs = {}
        /\ \A q \in Rooms : q # r => rooms'[q] = rooms[q]
    BY FreshRoom
  <1>2. mistaken' = mistaken
    BY DEF BanchoCreates, Transmit
  <1>3. /\ StageOf(r) = "none" /\ StageOf(r)' = "open"
        /\ Guests(r)' = Guests(r) /\ Referees(r)' = Referees(r)
    BY <1>1 DEF StageOf, Guests, Referees
  <1>4. Life!Advance(r, "none", "open")
    BY <1>1, <1>2, <1>3, LifeAdvance
  <1> QED BY <1>4 DEF Life!LifeNext, Life!Open

(* A command that comes again changes nothing.                             *)
LEMMA NothingNew ==
    ASSUME NEW r \in Rooms, \A q \in Rooms : q # r => rooms'[q] = rooms[q],
           StageOf(r)' = StageOf(r), Guests(r)' = Guests(r), Referees(r)' = Referees(r),
           mistaken' = mistaken
    PROVE  UNCHANGED Life!life
  <1>1. \A q \in Rooms : StageOf(q)' = StageOf(q) /\ Guests(q)' = Guests(q) /\ Referees(q)' = Referees(q)
    BY OthersKeep
  <1> QED BY <1>1 DEF Life!life

LEMMA CommandAdvances ==
    ASSUME Inv, RoomInv, NEW o, RoomCommand(o)
    PROVE  [Life!LifeNext]_(Life!life)
  <1> DEFINE r == o.to
             u == o.user
  <1>1. /\ Transmit(o) /\ o.kind \in RoomKinds
        /\ r \in Rooms /\ rooms[r] # None /\ rooms'[r] # None
        /\ rooms'[r].set <=> rooms[r].set \/ o.kind = "set"
        /\ rooms'[r].password <=> rooms[r].password \/ o.kind = "password"
        /\ rooms'[r].invited =
              IF o.kind = "invite" THEN rooms[r].invited \cup {u} ELSE rooms[r].invited
        /\ rooms'[r].refs = IF o.kind = "addref" THEN rooms[r].refs \cup {u} ELSE rooms[r].refs
        /\ \A q \in Rooms : q # r => rooms'[q] = rooms[q]
    BY CommandEffect
  <1>2. mistaken' = mistaken
    BY <1>1 DEF Transmit
  <1>3. /\ \A kind \in Needs(o) : Done(rooms, o, kind)
        /\ IsGuestLine(o) => u \in Players
        /\ IsGuestLine(o) => IsGuest(outbox, rooms, r, u)
    BY <1>1, HeadIsDue
  <1>4. Shaped(rooms[r])
    BY <1>1 DEF RoomInv, LinesInv
  <1>5. Guests(r) = rooms[r].invited /\ Referees(r) = rooms[r].refs
        /\ Guests(r)' = rooms'[r].invited /\ Referees(r)' = rooms'[r].refs
    BY <1>1 DEF Guests, Referees
  <1>6. CASE o.kind = "set"
    <2>1. Guests(r)' = Guests(r) /\ Referees(r)' = Referees(r)
      BY <1>1, <1>5, <1>6
    <2>2. CASE rooms[r].set
      <3>1. StageOf(r)' = StageOf(r)
        BY <1>1, <1>6, <2>2 DEF StageOf
      <3> QED BY <1>1, <1>2, <2>1, <3>1, NothingNew
    <2>3. CASE ~rooms[r].set
      <3>1. StageOf(r) = "open" /\ StageOf(r)' = "set"
        BY <1>1, <1>4, <1>6, <2>3 DEF StageOf, Shaped
      <3>2. Life!Advance(r, "open", "set")
        BY <1>1, <1>2, <2>1, <3>1, LifeAdvance
      <3> QED BY <1>1, <3>2 DEF Life!LifeNext, Life!SetUp
    <2> QED BY <2>2, <2>3
  <1>7. CASE o.kind = "password"
    <2>1. Guests(r)' = Guests(r) /\ Referees(r)' = Referees(r)
      BY <1>1, <1>5, <1>7
    <2>2. rooms[r].set
      BY <1>3, <1>7 DEF Needs, Done
    <2>3. CASE rooms[r].password
      <3>1. StageOf(r)' = StageOf(r)
        BY <1>1, <1>7, <2>3 DEF StageOf
      <3> QED BY <1>1, <1>2, <2>1, <3>1, NothingNew
    <2>4. CASE ~rooms[r].password
      <3>1. StageOf(r) = "set" /\ StageOf(r)' = "locked"
        BY <1>1, <1>7, <2>2, <2>4 DEF StageOf
      <3>2. Life!Advance(r, "set", "locked")
        BY <1>1, <1>2, <2>1, <3>1, LifeAdvance
      <3> QED BY <1>1, <3>2 DEF Life!LifeNext, Life!Lock
    <2> QED BY <2>3, <2>4
  <1>8. CASE o.kind \in {"invite", "addref"}
    <2>1. StageOf(r)' = StageOf(r) /\ u \in Players /\ IsGuest(outbox, rooms, r, u)
      BY <1>1, <1>3, <1>8 DEF StageOf, IsGuestLine
    <2>2. \A q \in Rooms : StageOf(q)' = StageOf(q)
      BY <1>1, <2>1, OthersKeep
    <2>3. CASE o.kind = "invite" /\ u \in rooms[r].invited
      <3>1. Guests(r)' = Guests(r) /\ Referees(r)' = Referees(r)
        BY <1>1, <1>5, <2>3
      <3> QED BY <1>1, <1>2, <2>1, <3>1, NothingNew
    <2>4. CASE o.kind = "invite" /\ u \notin rooms[r].invited
      <3>1. StageOf(r) = "locked"
        BY <1>1, <1>3, <2>4 DEF StageOf, Needs, Done
      <3>2. Guests(r)' = Guests(r) \cup {u} /\ Referees(r)' = Referees(r)
        BY <1>1, <1>5, <2>4
      (* The guests of a room that is not mistaken are one.                 *)
      <3>3. Guests(r) = {} \/ r \in mistaken
        <4> SUFFICES ASSUME r \notin mistaken, NEW v, v \in rooms[r].invited
                     PROVE  FALSE
          BY <1>5
        <4>1. IsGuest(outbox, rooms, r, v)
          BY DEF IsGuest
        <4>2. v \in Requesters /\ u \in Requesters
          BY <1>1, <2>1 DEF Inv, TypeOK, Room, Requesters
        <4>3. v = u
          BY <1>1, <2>1, <4>1, <4>2 DEF RoomInv, LinesInv, OneGuest
        <4> QED BY <2>4, <4>3
      <3>4. /\ \A q \in Rooms : q # r => Guests(q)' = Guests(q)
            /\ \A q \in Rooms : Referees(q)' = Referees(q)
        BY <1>1, <3>2, OthersKeep
      <3>5. Life!Invite(r, u)
        BY <1>1, <1>2, <1>5, <2>2, <2>4, <3>1, <3>2, <3>3, <3>4 DEF Life!Invite
      <3> QED BY <1>1, <2>1, <3>5 DEF Life!LifeNext
    <2>5. CASE o.kind = "addref" /\ u \in rooms[r].refs
      <3>1. Guests(r)' = Guests(r) /\ Referees(r)' = Referees(r)
        BY <1>1, <1>5, <2>5
      <3> QED BY <1>1, <1>2, <2>1, <3>1, NothingNew
    <2>6. CASE o.kind = "addref" /\ u \notin rooms[r].refs
      <3>1. u \in Guests(r)
        BY <1>3, <1>5, <2>6 DEF Needs, Done
      <3>2. Guests(r)' = Guests(r) /\ Referees(r)' = Referees(r) \cup {u}
        BY <1>1, <1>5, <2>6
      <3>3. /\ \A q \in Rooms : q # r => Referees(q)' = Referees(q)
            /\ \A q \in Rooms : Guests(q)' = Guests(q)
        BY <1>1, <3>2, OthersKeep
      <3>4. Life!AddRef(r, u)
        BY <1>1, <1>2, <1>5, <2>2, <2>6, <3>1, <3>2, <3>3 DEF Life!AddRef
      <3> QED BY <1>1, <2>1, <3>4 DEF Life!LifeNext
    <2> QED BY <1>8, <2>3, <2>4, <2>5, <2>6
  <1> QED BY <1>1, <1>6, <1>7, <1>8 DEF RoomKinds

(* A registration changes no room; it may be a mistake.                    *)
LEMMA RegistersOrMistakes ==
    ASSUME Inv, NEW m, RoomRegistered(m)
    PROVE  [Life!LifeNext]_(Life!life)
  <1>1. /\ UNCHANGED rooms
        /\ mistaken' = IF m.from = BanchoBot THEN mistaken ELSE mistaken \cup {m.room}
    BY DEF RoomRegistered
  <1>2. m.room \in Rooms /\ rooms[m.room] # None
    BY ReceiveType DEF RoomRegistered, SafeIn
  <1>3. \A q \in Rooms : StageOf(q)' = StageOf(q) /\ Guests(q)' = Guests(q) /\ Referees(q)' = Referees(q)
    BY <1>1, OthersKeep
  <1>4. CASE mistaken' = mistaken
    BY <1>3, <1>4 DEF Life!life
  <1>5. CASE mistaken' # mistaken
    <2>1. mistaken' = mistaken \cup {m.room} /\ m.room \notin mistaken
      BY <1>1, <1>5
    <2>2. StageOf(m.room) # "none"
      BY <1>2 DEF StageOf
    <2>3. Life!Mistake(m.room)
      BY <1>2, <1>3, <2>1, <2>2 DEF Life!Mistake
    <2> QED BY <1>2, <2>3 DEF Life!LifeNext
  <1> QED BY <1>4, <1>5

LEMMA StepRefines == Inv /\ RoomInv /\ [Next]_vars => [Life!LifeNext]_(Life!life)
  <1> SUFFICES ASSUME Inv, RoomInv, [Next]_vars PROVE [Life!LifeNext]_(Life!life)
    OBVIOUS
  <1>1. ASSUME UNCHANGED <<rooms, mistaken>>
        PROVE  UNCHANGED Life!life
    BY <1>1 DEF Life!life, StageOf, Guests, Referees
  <1>2. CASE Send
    <2>1. ASSUME NEW o, BanchoRefuses(o) \/ Delivered(o)
          PROVE  UNCHANGED <<rooms, mistaken>>
      BY <2>1 DEF BanchoRefuses, Delivered, Transmit
    <2> QED BY <1>1, <1>2, <2>1, CreatesOpens, CommandAdvances DEF Send
  <1>3. CASE Handle
    <2>1. ASSUME NEW m, \/ RequestAccepted(m) \/ RequestRejected(m) \/ NotARequest(m)
                        \/ PendingDropped(m) \/ AnswerForwarded(m) \/ RoomUnparsable(m)
          PROVE  UNCHANGED <<rooms, mistaken>>
      BY <2>1 DEF RequestAccepted, RequestRejected, NotARequest, PendingDropped,
                  AnswerForwarded, RoomUnparsable
    <2> QED BY <1>1, <1>3, <2>1, RegistersOrMistakes DEF Handle
  <1>4. CASE Operator \/ Reload \/ Restart \/ World \/ UNCHANGED vars
    <2>1. UNCHANGED <<rooms, mistaken>>
      BY <1>4 DEF Operator, MakeCommand, BBCommand, Ini, IniCommand, IniDies, Reload, Restart, World,
                  PersonSays, BanchoSays, Disconnect, Connect, vars
    <2> QED BY <1>1, <2>1
  <1> QED BY <1>2, <1>3, <1>4 DEF Next

LEMMA InitRefines == Init => Life!LifeInit
  BY DEF Init, Life!LifeInit, StageOf, Guests, Referees

(* The plugin implements RoomLife: whatever messages cross, whatever is    *)
(* lost and whatever is said in BanchoBot's name, every room is opened,    *)
(* gets its mode and its password, and only then a guest, who becomes its  *)
(* referee after that; there is one guest unless the announcement of the   *)
(* room was taken from somebody else (bot.c:351, 366-377).                 *)
THEOREM SpecRoomProtocol == Spec => RoomProtocol
  BY SpecRoomInv, InitRefines, StepRefines, PTL DEF Spec, RoomProtocol, Life!LifeSpec
=============================================================================
