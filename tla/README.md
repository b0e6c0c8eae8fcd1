# OSU-Referee in TLA+

A verification development of the OSU-Referee repository: TLA+ models of its
code, TLC configurations that check them on small instances, and theorems that
the TLA+ proof system checks for every value of the constants.

Run `tlc -config MCReferee_safety.cfg MCReferee` (and likewise for the other
`.cfg` files; the part before the underscore is the module) and
`tlapm RefereeProofs.tla` (and the other `*Proofs` modules).

## 1. The system

OSU-Referee is two Windows programs and a vendored copy of HexChat.

* **`bot/`, the referee**: a HexChat plugin. Staff members of an osu!
  tournament write `!mp make <name>` to the account the bot is logged in with.
  The plugin has BanchoBot, the bot of the osu! server, create a multiplayer
  room, enters the room in its table and configures it.
* **`preview/`, the preview player**: a dialog that plays a beatmap with the
  nightcore beat on top, built on a re-written multimedia timer.
* **`hexchat-hexchat-a67eafc/`, HexChat**: the IRC client the plugin runs in.

### Inventory

| Component | State | Operations | Meets | Hard behaviours | What makes it correct |
|---|---|---|---|---|---|
| making of a room (`bot/bot.c`) | `creator` (queue of users who wait for BanchoBot), `matches` (tournaments by channel) | the four PRIVMSG hooks, `/BB`, `/MAKE` | HexChat's hooks and send queue; through them the server, BanchoBot and people | answers carry no identification, and BanchoBot is known by a part of its address; chat crosses requests and answers; the connection drops; the plugin is reloaded; a bad name crashes the client | only staff is served; one user waits at a time and never for ever; a room is opened to the user who asked, and to nobody else; the password comes before the invitation |
| configuration (`bot/bot.c`) | `cfg` and the preference file | `init_cfg`, `reload_cfg`, `/INI` | HexChat's pluginpref functions | attributes copied by position; crash or reload between save and use | what is in force is what is saved; the bot knows its own account |
| hash table (`bot/hashmap.c`) | buckets, `size`, `length` | new, put, get, remove, exists, clear, free | used by `matches` | growth splits chains; malloc fails; malloc's memory is dirty | it is a map; entries stay where their hash says; no unwritten pointer is followed |
| string buffer (`bot/strb.c`), wide strings (`bot/wcsb.c`) | one buffer, its `length` | cat, precat, substr, sprintf | used by the plugin | lengths at the boundaries, missing delimiters | `length` is that of the string |
| timer (`preview/timer.c`) | per timer: the block `timer_t`, an event, a thread | `TIMER_timeSetEvent`, `TIMER_timeKillEvent`, the thread | callback, window of the killer | the thread frees the block the killer uses; a kill races the callback; the callback waits for the killer | no callback after a synchronous kill; a kill returns; blocks freed once |
| player (`preview/bpm.c`) | `songTime`, `isPlay`, `isNC`, `nowTiming`, `chan`, `pt`, `ghMutex` | window procedure, `playTimerProc`, `endSyncProc` | timer, BASS, beatmap | three threads; a mutex asked for with timeout 0; messages handled inside waits | no callback on a freed channel; none begins to beat while a beatmap is loaded; every timer killed once; the song is played again |
| beatmap and metronome (`beatmap.c`, the metronome of `bpm.c`) | the timing points, `nowTiming`, `nextBeat` | load, searches for the red line, the beat | player | stale entries of the previous beatmap, index arithmetic, jumps | the metronome counts from the last red line not after the position, strikes no half beat twice and the next one if it is due |
| beats (`beat.c`) | none | next beat | nobody: its callers are commented out | - | - |
| sounds, stopwatch | handles; a start time | thin wrappers | player, BASS | - | - |
| HexChat: connection, send queue (`server.c`, `servlist.c`, parts of `outbound.c`, `hexchat.c`) | per server: `connecting`, `connected`, `end_of_motd`, `recondelay_tag`, `outbound_queue`, `next_send`, `prev_now` | connect, disconnect, reconnect, close, send, and GLib's callbacks | plugin, user, GLib, the server | timeouts that outlive their reason; commands inside `server_read`; priorities; a clock that jumps | a wanted connection is there or on its way, an unwanted one is not; messages leave in order, all of them, on the connection they were meant for |
| HexChat: hooks (`plugin.c`) | `hook_list`, `plugin_list`, GLib's timeouts | hook, unhook, run, load, unload, reload | plugins, whose callbacks call all of it | hooks deleted in nested runs; addresses used again; plugins unloaded under their callbacks | runs keep the order and miss nobody; what is removed is not called |
| HexChat: preferences of plugins (`plugin.c`) | a file | read, write | plugin | a crash between unlink and rename | what is in force is what is saved |
| HexChat: file transfers (`dcc.c`) | `dcc_list`: per transfer its state, position, acknowledgement, `resumable`, handlers, file | offer, get, resume, accept, send, read, abort, throttle, time out | IRC (CTCP), TCP, the disk, the user | two machines; messages that name a transfer ambiguously; RESUME and ACCEPT cross the user's commands; broken connections; counters of 32 bits | what ends as done is whole; both ends agree on the end; every transfer ends |

The rest of HexChat (front ends, other plugins, translations) is upstream code
the referee does not use, and is not modelled.

## 2. The modules

| Module | What it is |
|---|---|
| `Referee` | the plugin with HexChat's connection, BanchoBot, the people and the operator |
| `RoomLife` | abstract: the stages a room goes through |
| `RefereeProofs` | the theorems about `Referee`, and that it implements `RoomLife` |
| `MCReferee` | constants for TLC |
| `HashMap`, `Map`, `MCHashMap` | the hash table, the map it promises to be, constants for TLC |
| `Timer`, `MCTimer` | the timer, constants for TLC |
| `Player`, `MCPlayer` | the threads of the preview player, on top of what `Timer` promises; constants for TLC |
| `Timing`, `MCTiming` | timing points and the metronome that follows them; constants for TLC |
| `HookList`, `MCHookList` | HexChat's hooks under nested calls; constants for TLC |
| `Server`, `Outbox`, `MCServer` | HexChat's connection, timeouts and send queue; the queue it promises to be; constants for TLC |
| `Dcc`, `MCDcc` | HexChat's file transfers, both ends of them; constants for TLC |
| `HashMapProofs`, `TimerProofs`, `PlayerProofs`, `TimingProofs`, `ServerProofs`, `DccProofs`, `HookListProofs` | the theorems about the modules of those names |
| `Filter` | a part of a sequence, by its positions: `SelectSeq` without recursion, for `HashMap`, `HookList`, `Server` and `Outbox` |

### `Referee`

One PRIVMSG is one step: HexChat runs the hooks to completion on its main
thread, and what they send is queued before the next message is read. The
handling of a message is one of seven actions, the paths through
`mp_make_scb` (`bot.c:341-426`):

| Action | Path |
|---|---|
| `RequestAccepted`, `RequestRejected`, `NotARequest` | nobody waits (387-416) |
| `PendingDropped` | somebody waits, the message is not BanchoBot's private answer (349-351) |
| `AnswerForwarded` | it is, and announces no room (353-356) |
| `RoomRegistered` | it announces a room: `tourney_new` and the configuration (359-377) |
| `RoomUnparsable` | the same with a name `tourney_new` cannot cut up: the client dies |

`Taken` and `Pop` are the condition of line 347 and the pop of line 349 that
all paths share. `y_scb` and `x_scb` see every message too and send the greeting
(`Greeting`). `mp_init_scb` has an empty body and so does nothing here.
`IsStaff`, `IsBot`, `InitCfg`, `ReloadCfg` and `LoadCfg` are the functions of
those names; `reload_cfg` copies the fifth attribute, `wait`, to the fifth
field, `bot`, and so does `ReloadCfg`. `MakeCommand`, `BBCommand` and
`IniCommand` are the operator's; `Reload`, `Restart` the plugin's starts after
the first. `IniDies` is a client that dies while it saves: HexChat writes a new
file and, on Windows, removes the old one before it renames the new one
(`plugin.c:1885-1895`), so the old file, the new file or none is left. A dead
client may always be started again.

Names are abstracted to what the code tells apart: `templated` (the template
of line 232), `bare` (passes the regular expression of line 392 without
parentheses), `freeform` (does not pass), `empty`. Texts are kinds. `wait` has
the values absent, `"0"` and the nick: the comparison with a user is all that
it decides. Values that are only passed on (`set`, `password`) are left out.

`FromBancho` is the test of lines 350-351. It looks for BanchoBot's name anywhere
in the sender's nick!user@host, so others may pass for BanchoBot: `Namesakes`.
What one of them says to the bot is taken for an answer, and an announcement he
repeats registers its room anew, for whoever waits, and sends its configuration
again.

The environment is external: `BanchoCreates` and `BanchoRefuses` answer a `!mp make`
as the texts of `bot.c:359-366` expect, and BanchoBot answers one line after
another; `PersonSays` and `BanchoSays` are everybody else. Anybody may repeat to the
bot the announcement of a room that exists, with any name in it; repeated in a room
it is chat. (One of a room that does not exist would be registered, and its
configuration would go to nobody: left out.) A `Disconnect` loses what both
directions hold. `everStaff` and `mistaken` are history variables: whoever was
configured as staff or as the bot so far, and the rooms that were registered on the
word of somebody who is not BanchoBot. `OnlyStaffServed` speaks of `everStaff`, so
it does not say that a member taken off the list between request and answer is
refused; he is not. `RoomLife` allows a second guest in a room of `mistaken` only.

### `HashMap`

A bucket is the chain of its entries and the pointer at its end, `NULL` or
`JUNK`. malloc's memory holds any value of `Memory`; `hashmap_new` clears
`Cleared` buckets (16 bytes are two pointers in a 64-bit build), `_resize`
writes only the buckets that get entries. Following `JUNK` sets
`status = "undefined"` and ends the behaviour. Every operation is one step:
the table has one user on one thread. `PutNew` without growth where growth is
due is `_resize` failing in malloc; `PutNoMemory` is the entry refused. `Map`
is the abstract map; `Content` is the refinement mapping.

### `Timer`

The thread of a timer goes through `created`, `waiting` (for the delay),
`callback`, possibly `sending`/`sent` (a `SendMessage` to a window), `check`,
`finish` (waits for the event), `close`, `free`, `exited`. A kill goes through
`enter`, `close`, `sync`, `dup`, `set`, `wait`, one step per access to the
shared block. An access to a freed block either still finds the old bytes (the
ordinary action goes on) or is `KillUndefined`. The address of a freed block is
not given out again by the model: that is one of the undefined outcomes. The history
variable `misused` records that a timer was killed twice, or one that is not
synchronous: `FreedInTime` says that without it nothing is undefined.

### `Player`

`ui` is the stack of the window's handlers: wherever a handler waits
(`MsgWaitForSingleObject`, `timer.c:159-183`) the window's messages are handled,
so a second `ID_OPEN` or a seek may begin inside the first. `ID_OPEN` is one
action per access to what the threads share: `Open` (isNC, the load begins),
`Loaded`, `Kill`/`Killed`, `ResetLock`/`ResetWrite` (its call of `endSyncProc`),
`FreeChannel`, `CreateChannel`, `StartTimer`. `playTimerProc` is the chain
`delay`, `check`, `line`, `volume`, `beats`, `play`, `played`, `slider`, `read`,
`write`. A tick takes ghMutex if it is free and goes on without it otherwise, as
line 212 does; at `check` it looks at isNC (214), at `line` it searches the
beatmap (217), at `volume` it has sent a message (221), at `beats` it reads the
line it found (222-247), so that a load may begin between any two of these; and
`read`/`write` are the two halves of `songTime += ...`. `Leave` goes through the
end of `WinMain`. A timer is what `Timer` shows it to be: a kill closes it, waits
for its callback, and is undefined for a timer that is gone.
`reentered`, `gaveUp`, `lost` and `stale` are history variables, the exceptions
that the properties name: a file opened inside the opening of another, an
opening that gave up after the kill, and what a tick has written over a reset.
`early` is another: the ticks that were past `check` when a load began. isNC is
reset just before a load, which keeps out of the metronome whoever comes to
`check` later; the early ones go on, so the code does read a beatmap that is being
rewritten, and `LoadMeetsEarlyTicksOnly` says that they are all that does.
A song's time is `lead` (negative) or `song`; a reset may set either, because a
lead-in below a second is cut to 0.

### `Timing`

The searches keep the names of the code. An entry outside the array stands for
`NULL`. `getTimingIndex` divides by `EntrySize`, as the macro of `beatmap.h:13`
divides a difference of pointers by `sizeof(timing_t)`. A handler and a tick are
one step each (their interleaving is the subject of `Player`). Time is counted
in whole units, `Second` of them to a second, so that the cut of `songTime` to
whole seconds at a restart (`bpm.c:180`) is kept. `metered`, `at`, `back` and
`astray` are history variables that describe the last beat of the metronome.
`BeatsStruckOnce` is about two beats that follow each other on one line. It does
not speak of the first tick after a seek, a restart or another rate, nor of ticks
more than a half beat apart beyond saying that the same half beat is not struck
twice. In a metre of 1 the place in the bar is always 0, which `nextBeat` holds
since the first tick, so nothing is struck from then on (`bpm.c:230-232`): the
property says so, and a file of the run has such a line.

### `HookList`

Calls nest, so `stack` holds the calls in progress, and what happens next is
what the plugin at its top, or the main loop, does. A hook has a number, which
the program does not know, and an address, which malloc gives out again; the
`list` is the code's `hook_list`. `RunHooks`, `RunGoesOn`, `RunEnds` and
`RunDangles` are the loop of `plugin_hook_run`: the next element is remembered
before the callback (line 556), and every run ends with the purge of lines
592-605 (`Purged`). `nested` and `recycled` are history variables: a run inside a run has
freed something; the address of a timer that is being called was given out
again.

### `Server` and `Outbox`

Everything runs on GLib's thread, so one callback is one action, except
`server_read`, whose lines run commands and plugins: it is `ReadBegins`, any
commands, and `ReadEnds`. A connection is `off`, `connecting`, `connected` or
`freed`. `timers` are the timeouts GLib has armed, `tag` is `recondelay_tag`,
which may name none of them; `handlers` counts the timeouts that call
`tcp_send_queue`. `out` is the queue; its `owed` and `since` are the differences
of the clock to `next_send` and `prev_now`, the only way the code uses them, and
`SetBack` is a clock that is set back. The loop of `tcp_send_queue` is `Sending`,
`OneMore` as often as there are messages: the next one is `Foremost`, it is taken
out by `Without`, and `Stops` is the throttle. `tcp_send_len` puts a message in
its queue and arms the timeout if it found the queue empty. `handlers` may be
more than one, because a queue that a command or a flush empties leaves its timeout
behind until it fires; `Ids` has one tag for each connection and one more.
`wanted`, `crossed` and `inside` are history variables: the last command was to
connect; a reconnection was armed beside an attempt or a connection; a command
came inside `server_read`.
`Outbox` is the abstract queue: of each priority in order, each message once, a
higher priority first, nothing lost or left over unless the connection is closed.

### `Dcc`

Two clients: one offers a file, several times if it likes, actively (it listens)
or passively (the receiver does), the other receives it. `snd` and `rcv` are the
`struct DCC` of each transfer at either end; `toRecv` and `toSend` are the CTCP
messages on IRC; `wire` is the TCP connection of each transfer, the cells of the
file and the acknowledgements on their way; `disk` holds the receiver's files,
sequences of cells, so that a file put together wrongly can be told from a whole
one. A transfer is known by its number (its port, or the id of a passive one);
`ResumedBy` and `AcceptedBy` are the look-ups of the code, which find another
transfer when they do not find that one. `Sent` is `dcc_send_data`, `ReadAck`
is `dcc_read_ack` with `dcc_handle_new_ack`, with acknowledgements modulo `Wrap`
(2^32); `Reading` is the body of `dcc_read`. Time is not measured: a limit of the
speed, a timeout or an abort may come whenever it applies, and counts as an
input. `spoilt` is a history variable: transfers whose ends need not have agreed
where to begin. It names the ways the code leaves that open: RESUME applied to
another transfer or to one under way, ACCEPT taken for another transfer or
another position, a user who gets the file without waiting for ACCEPT, and two
transfers that append to one file.

## 3. What the runs show

| Run | Bounds | Result |
|---|---|---|
| `referee_safety` | every preference file, or none; two people, one staff; one of the people a namesake of BanchoBot; two rooms, alike; 3 messages said of anybody's own accord, announcements repeated among them, 1 command, 1 disconnection, reload or death while saving; any number of restarts | `TypeOK`, `ConfigIsCurrent`, `OnePending`, `OnlyStaffServed`, `PasswordBeforeInvite` and the refinement `RoomProtocol` hold |
| `referee_liveness` | as above without faults, from a configured file and with names of the template only (a name that kills the client ends everything), with fairness | `PendingResolved`, `RegisteredIsConfigured` hold |
| `referee_creator`, `referee_identity` | the smallest that show it | findings 1 and 2 |
| `hashmap_map` | four keys, two values, 2 buckets growing to 4, memory that holds anything | `WellFormed`: entries well placed, `size` exact, unwritten pointers only in empty buckets; the table implements `Map` as long as it is defined |
| `timer_kills` | one timer of any kind, two threads killing at will, with fairness | `CallbacksAsAsked`: a one-shot timer calls once, silence after the kill; `FreedInTime`: blocks freed once, handles closed, never too early if the timer is used as meant; `TimersComeToRest`: kills return, stopped timers are freed |
| `hooklist_runs` | two plugins, three addresses, three hooks ever made of the kinds in `MCHookList`, calls two deep | `RunsInOrder`, `EveryHookServed`, `RemovedIsNotCalled`: only a run inside a run frees a hook that is still needed, only an address that is used again misleads a timer |
| `player_threads` | two timers, two channels, two inputs, one opening inside another, with fairness | `MutexExcludes`, `TimersAreKilled`, `TicksHaveChannel`, `LoadMeetsEarlyTicksOnly`; `HandlersComeBack`: no deadlock between window, tick and BASS; `SongIsReplayed` |
| `timing_lookup` | three files of up to six lines, one of a metre of 1, in an array of six, a song of six units, entries of size two, with fairness | `KeepsToTheLines`, `BeatsStruckOnce`, `MetronomeRecovers`; no deadlock |
| `server_queue` | two connections, a login, two messages and a QUIT in each, three priorities, a limit of four seconds, a clock set back by up to two, with fairness | `ReconnectsAsWanted`, `SilenceBounded`, the refinement `ImplementsOutbox`, `QueueDrains` |
| `dcc_transfers` | a file of two cells, one of them there already, offered twice, and files of four cells offered once, above what an acknowledgement holds (`Wrap` is three); every setting of resumption, fast sending and automatic receiving; two inputs or faults, with fairness | `DoneMeansReceived`, `WholeWhenDone`, `FailsWithPeer`, `TransfersEnd` |
| `dcc_writers` | the smallest that shows it | finding 3 |

Why the bounds are enough. A waiting user, the message that takes his place, a
second request and its answer need three free messages, and the two rooms tell the
answers apart; four need no new pairing because the queue never holds two (proved).
A request, another one and an announcement repeated while the second waits are three
messages too: they make a second guest. The configuration of a room is five lines,
and every prefix of them is cut off by the one disconnection; a death while saving
is followed by as many restarts as one likes. The hashes 0, 4, 2, 8 collide in two
buckets and leave a chain of three and a chain of one in four, so that growth splits
a chain and removal meets a head, a middle and an end. Timers share nothing with
each other, and a third killer of one meets the states the second one meets. Three
hooks make a run with a hook before, at and after the one that changes the list, and
the third address lets one be given out again while the others are in use. Two
inputs, timers and channels are one opening inside another, or an opening with a
seek or the window closed inside it; every number of them is covered by the proofs.
The six lines of the longest file have a red line after a green one, two red lines
next to each other and one in the last entry, and the shorter files leave a stale
tail. Two connections are the one a timeout was armed for and the one it meets (any
number of them is covered by a proof); the limit of four seconds is passed by the
second message after the login. Two offers are what a message can confuse, and two
inputs a user who does something and a fault that follows it; with three inputs, a
random simulation of tens of millions of states found nothing else.

Deadlock is checked in `Timing`. It is not in the others: every bound stops
the models, as undefined behaviour does, and the real programs wait for messages
that need not come; that nobody waits for ever is what the liveness properties
say.

### Fairness

`Referee`: weak fairness of `Handle` and `Send`. HexChat's main loop reads the
socket as long as it has something (`server_read`), and the throttle's timer
empties the queue every half second (`server.c:215-216`). Nobody has to say,
type or repair anything. `RegisteredIsConfigured` is checked without faults:
with a disconnection the queue is lost and the property is rightly false.

`Timer`: weak fairness of threads and of calls in progress; delays end and
callbacks return. Strong fairness of the handling of a message: the thread of
the window comes back to its message loop between any two calls, where sent
messages go first, but it leaves the loop again and again.

`Player`: the same for threads and messages; strong fairness of those who wait
for ghMutex, which is released again and again and which Windows gives to its
waiters in their order; and `songTime` grows past 0 (`TickWrites`). Nobody has to
open, seek or close anything.

`Timing`: ticks come while a timer runs, and BASS goes on playing.

`Server`: strong fairness of the queue's timeout, since GLib dispatches whatever
is due between two reads of the socket; `server_read` comes to an end; the clock
goes on.

`Dcc`: the main loops of both clients go on as long as one of their handlers has
something to do, and the timer that measures the speed lifts a limit once the
average has fallen. No timeout, no abort and no user is needed for a transfer to
end.

## 4. Findings

1. `referee_creator`: any PRIVMSG that arrives while somebody waits takes him
   off the queue (`bot.c:349`; the comment of line 350 asks that it be
   BanchoBot's). After that the announcement of his room is paired with the next
   asker, who is recorded as its creator and invited.
2. `referee_identity`: `reload_cfg` writes `wait`, by default `"0"`, to
   `cfg.bot`; the bot does not know its own account unless `wait` is set to it.

3. `dcc_writers`: `update_is_resumable` verifies that a transfer "is not already
   in progress from someone else" (`dcc.c:2141`; the window says "Cannot resume
   the same file from two people.", `dccgui.c:540`), but when RESUME is sent, not
   when ACCEPT starts the transfer (`dcc.c:2619`). Two offers that come before
   either is accepted both append to the file.

Because of 2, `referee_liveness` starts from a preference file in which an
operator has set `wait` to the account, the only configuration in which the
plugin answers requests at all; `referee_safety` starts from all others too.

What else the models show of the code, each an exception some property names:

* the regular expression of `bot.c:392` lets a name without parentheses pass,
  and `substr` then copies a length of -1: `RoomUnparsable`;
* BanchoBot is looked for anywhere in the sender's nick!user@host (`bot.c:351`),
  so an announcement repeated by somebody with such a name, while a user waits,
  registers the room anew and invites this user to it as well: `mistaken`;
* the buckets of a new table are not cleared (`hashmap.c:181`, and line 48 on
  growth): `JUNK`;
* a kill of a timer that has stopped by itself reads its freed block instead of
  answering `MMSYSERR_INVALPARAM` (`timer.h:56`): `misused`;
* a tick that did not get ghMutex may set `isPlay` just after `endSyncProc` has
  reset it, and the song is not played again: `lost`;
* loading a beatmap takes no mutex and comes before the kill of the timer: a tick
  that has passed `bpm.c:214` goes on reading what is rewritten (`bpm.c:329-330`):
  `early`;
* a line whose metre is 1 is silent after its first tick (`bpm.c:230-232`): named
  in `BeatsStruckOnce`;
* an `ID_OPEN` inside the wait of another loses a timer: `reentered`; one that
  gives up leaves `pt` naming a freed timer: `gaveUp`;
* after a jump back `getTimingFromPosition` answers `NULL`, or an earlier line,
  though the song is inside a red line (`beatmap.h:67` says `NULL` is for
  positions outside): `back`; lines of a longer file read earlier stay in force:
  `Stale`;
* a hook that a nested run has freed is the next one of the outer run:
  `nested`; a timer's callback that takes its hook back and hooks again may lose
  the new hook in its place: `recycled`; a plugin unloaded by its own callback
  returns into closed code: `fault = "unloaded"`;
* the mask of SERVER hooks names `PRINT_ATTRS` for `SERVER_ATTRS`
  (`plugin.c:745`): `RunsInOrder` claims the order of priorities for commands and
  print events only;
* `/RECONNECT` during an attempt leaves two timeouts if the attempt fails, one
  of which no tag names; `/DISCONNECT` while one is pending does not take it
  back: `crossed`;
* a command of a plugin inside `server_read` may free the server it goes on
  with: `inside`;
* a limit of the speed that is lifted when the whole file is sent makes
  `dcc_send_data` read past its end, and the transfer fails at the sender
  (`dcc.c:1446`), if the last acknowledgement does not hold it back: with fast
  sending, above 4 GB, or after a RESUME that came too late and made the sender
  misread what is acknowledged: the exception in `FailsWithPeer`;
* a passive offer has port 0 and `find_dcc_from_port` takes the first with it; a
  RESUME for which no transfer waits moves the position of one under way:
  `spoilt`;
* above 4 GB the sender may call a transfer done before the receiver has it
  (`dcc.c:1502`): the exception in `DoneMeansReceived`;
* a client that dies between `plugin.c:1891` and the renaming has no settings
  left, and the next start writes the defaults: `IniDies`.

## 5. What is proved

A theorem holds for every value of the constants that satisfies the module's named
assumptions: `ConstantsAssumption` (the accounts, `"0"`, rooms and `None` are
different things, the namesakes of BanchoBot other accounts than its own) and
`NoneAssumption` (`None` is not a room's record) of `Referee`; `HashMapAssumption`
(a hash is a natural number, memory holds `NULL` or `JUNK`, `NULL` is not a value),
`TimerAssumption`, `PlayerAssumption`, `TimingAssumption` (with it: the lines of a
file are in order), `ServerAssumption` (a message has one of three priorities and
costs at least two seconds, as `tcp_send_queue` counts), `DccAssumption` (what is
there of a file is less than the whole), `HookAssumption` (hooks have one of the six
types and a priority, events one of the masks the code runs, the bounds are
numbers). TLC evaluates all of them in the runs.

| Module | Theorem | Property |
|---|---|---|
| `RefereeProofs` | `SpecTypeOK`, `SpecOnePending`, `SpecConfigIsCurrent` | `TypeOK`, `OnePending`, `ConfigIsCurrent` |
| | `SpecOnlyStaffServed` | `OnlyStaffServed` |
| | `SpecPasswordBeforeInvite` | `PasswordBeforeInvite` |
| | `SpecRoomProtocol` | `RoomProtocol`: `Referee` implements `RoomLife` |
| `TimerProofs` | `WellTyped`, `CalledAsAsked`, `FreedAtTheEnd` | `TypeOK`, `CallbacksAsAsked`, `FreedInTime` |
| `PlayerProofs` | `WellTyped`, `OwnersExclude`, `OneTimerToKill`, `CallbacksHaveChannel` | `TypeOK`, `MutexExcludes`, `TimersAreKilled`, `TicksHaveChannel` |
| | `LoadMeetsOnlyEarly` | `LoadMeetsEarlyTicksOnly` |
| `HashMapProofs` | `WellTyped`, `StaysWellFormed` | `TypeOK`, `WellFormed` |
| | `IsTheMap` | `ImplementsMap`: `HashMap` implements `Map` |
| `TimingProofs` | `WellTyped`, `FollowsTheLine` | `TypeOK`, `KeepsToTheLines` |
| | `StruckOnce` | the action property `BeatsStruckOnce` |
| `ServerProofs` | `WellTyped`, `ReconnectsOnlyAsWanted` | `TypeOK`, `ReconnectsAsWanted` |
| | `SilenceIsBounded` | the action property `SilenceBounded` |
| | `SendsAsPromised` | `ImplementsOutbox`: the queue of `Server` implements `Outbox` |
| `DccProofs` | `WellTyped`, `DoneHolds` | `TypeOK`, `DoneMeansReceived` |
| | `FailsHolds`, `WholeHolds` | the action properties `FailsWithPeer`, `WholeWhenDone` |
| `HookListProofs` | `WellTyped`, `OrderIsKept`, `RemovedStaysSilent` | `TypeOK`, `RunsInOrder`, `RemovedIsNotCalled` |
| | `EveryoneServed` | the action property `EveryHookServed` |

**`RefereeProofs`.** `OnlyStaffServed` is not inductive: a room may be opened for
whoever a line in the send queue or an announcement on its way names. `Inv`
therefore says of every place where a user can be on the way to a room that it is
somebody once configured: the queue `creator` holds trusted users, lines in the
send queue that make, invite, make referee or forward name trusted users,
announcements in the inbox and lines to rooms in the send queue are about rooms
that exist, the staff in force is part of `everStaff`, and whoever is served in a
room is trusted. One lemma per action shows that it keeps `Inv`; actions that only
move lines share `QuietStep` and `WorldQuietStep`, those that change the
configuration share `ConfigStep`.

`PasswordBeforeInvite` depends on the order of the send queue, and the refinement
on more. `RoomInv` adds four things. No room skipped a stage (`Shaped`). For every
line in the queue each command it needs (`Needs`: the mode for the password, both
for the invitation, all three for the referee) is done in the room or stands ahead
of it (`Ordered`). A room that is not `mistaken` has one guest, in the room and in
the queue together (`OneGuest`). And BanchoBot's announcement of such a room is on
its way once, before anything is sent to the room (`AnnouncedOnce`); announcements
that people repeat are not counted, since they make the room `mistaken` when they
are taken for BanchoBot's. `Configuration` appends lines that are in order among
themselves (`ConfigurationInOrder`), appending keeps the order (`OrderedConcat`),
and registering keeps all four (`RegistersInOrder`). The line at the head has
nothing ahead of it, so what it needs is done (`HeadIsDue`), and carrying it out
gives those behind it what they needed from it (`RoomCommandKeeps`). A
disconnection, a crash or a reload either empties the queue or leaves it alone.

From `RoomInv` every step of `Referee` is a step of `RoomLife` or a stutter
(`StepRefines`): a command takes its room to the next stage, or repeats one already
carried out and changes nothing (`CommandAdvances`), and a registration changes
nothing that `RoomLife` sees except `mistaken` (`RegistersOrMistakes`).

**`HashMapProofs`.** A table is looked at as a value. `Shape` says of each of its
buckets that a key is in it once, that every key in it hashes to it, and that an
unwritten pointer stands at the end of an empty chain only; `ContentOf` is the map
a table is. The lemmas follow what an operation makes of one chain (`PushedChain`,
`ReplacedChain`, `CutChain`) to the table (`ChangedTable`) and to the map. Growth
(`SplitTable`) needs arithmetic: the remainder of a hash by twice the length is the
remainder by the length, or that and the length (`BucketHalf`), so the entries that
`_resize` moves are the ones that it should, in the order they had. That `size` is
exact needs the keys counted before and after (`CountsNew`, `CountsSame`,
`CountsLess`).

**`TimerProofs`.** Threads and killers meet in the block. `Block` ties a timer's
handles and memory to the place of its thread, `Counted` its callbacks to its
flags, `Called` what a call has done to its timer to how far it has come. As long
as nothing is misused, killers of one timer exclude each other (`Alone`), and the
thread waits at its end for the event that only the killer sets (`Protocol`), so
the block outlives the killer's need of it.

**`PlayerProofs`.** What one handler knows must survive the handlers inside it.
The invariants say that a handler which is not at the top of the stack is at one
of its waits (`Nested`), what is true at each of the places between the kill and
the new timer (`Between`), and that the mutex has the owner whose thread is in
the section it guards. `LoadMeetsEarlyTicksOnly` is inductive with `Nested`, which
says that isNC is off for as long as a load goes on, so that no tick comes from
`check` to the metronome (`EarlyTick`).

**`TimingProofs`.** `Followable` says what loading, jumps and the end of the song
leave for the metronome (a red line, or no line that the search could find);
`Sorted` that the lines of the last file are in order; `Counted` that the place in
the bar is that of the last tick. Of two half beats next to each other the places
differ, unless the metre is 1 (`NextPlace`); that nothing but the hat is struck at
an odd place needs that a whole number of bars leaves no remainder
(`NoRemainder`, `StruckNone`). The searches are `Min` and `Max` over index
sets, whose values exist by the well-foundedness of the natural numbers (`Least`,
`Greatest`).

**`ServerProofs`.** Only the fields `conn`, `tag` and `timers` decide what a
connection does next. One lemma per function says what it does to them (sending
does nothing, `SendKeeps`); `Apart` says that as long as nothing was armed beside
an attempt or a connection there is one timeout at most, which bears the tag, and
none beside a connection. With it each of the ways an attempt or a connection may
end leaves exactly one timeout (`ArmedInv`), and a command that closes it leaves
none.

The queue has an argument of its own. `Sending` is a recursive function; its
existence is `LoopExists`, and `SendingIs` says that what every `OneMore` keeps the
whole loop keeps. What it keeps is `Moved`: of each priority, what has left is the
front of what waited, in its order, and a lower one left only when nothing higher
waited. From that each step of `Server` is found to be one of the steps of `Outbox`,
or none (`StepGoes`). For the bounded silence `Debts` says that what is owed and the
time since the last message together are no more than one message can add below the
limit: the clock takes from the one what it gives to the other, forward and back.
The type needs `Tagged`, that the timeouts no tag names are no more than the
attempts that have ended, so that there is always a tag for the next.

**`DccProofs`.** What a transfer leaves on the disk depends on messages that crossed
before it began, so the invariant follows a transfer from its offer on. `Shape` keeps
the records apart and leaves a name for every file that may still be opened. `Talk`
says what may be under way about a transfer at each of its stages: until the receiver
connects there is nothing on the wire. `Agreed`, of the transfers that are not
spoilt, says that RESUMEs and ACCEPTs name places in the order the two ends adopted
them (`Asked`); that the cells on the wire are the ones that follow what is written,
up to the sender's place (`Stream`); that acknowledgements, if they hold a position,
name what was received, and the end of the file only if the receiver is done
(`Acks`); and that the file is whole so far (`Whole`). This last is disturbed by the
other transfers: `Apart` and `Alone` say that no two of them write into one file
unless they are spoilt. `FailsWithPeer` was stated without the late RESUME among its
exceptions, and the two inputs of the run do not reach it; the attempt to prove it
did, and it is now in the property.

**`HookListProofs`.** A run may be interrupted anywhere by other runs, at any depth,
so what it relies on is said of every frame of the stack, not of the innermost. A
frame is `Sound` if what it has called stands in `hook_list` before the hook it goes
on with (`Passed`), what it still owes a call stands from there on (`Served`), and
priorities fall along what it has called (`Fallen`) and on to what is left
(`Falling`). The last needs the list to be `Sorted`, for commands and for print
events separately, since hooks of different types are mixed in one list. All that
callbacks do to the list keeps the old hooks in their order (`OrderKept`) and their
records up to the mark of deletion (`BlocksKept`), and that disturbs no frame
(`SoundKept`): a new hook goes between the old ones (`HookedIs`), a hook taken back is
only marked (`MarkedIs`), the purge takes out what is marked (`PurgedIs`). The hook a
run goes on with is still there (`Kept`) as long as no run inside a run has freed
anything, because a run inside is the only one that purges before the outer one goes
on; the timer whose callback runs is alone at its address (`OwnAddress`) as long as
that was not given out again. That no plugin that is gone has a hook needs `Stands`:
callbacks return to plugins that are loaded, and a plugin whose
`hexchat_plugin_init` runs was not called into below it, so that a failing one may
be closed.

### Only model-checked

* All liveness (`PendingResolved`, `RegisteredIsConfigured`, `TimersComeToRest`,
  `HandlersComeBack`, `SongIsReplayed`, `MetronomeRecovers`, `QueueDrains`,
  `TransfersEnd`): it holds under fairness, which is out of the prover's reach.
* That `Picked` of `Filter` is `SelectSeq` (`PicksWhatIsSelected`, for short
  sequences): `SelectSeq` is defined by recursion, and what such a definition
  computes for every list takes induction over data. The proofs do not need it.

## 6. Not modelled

* **`beat.c`, `findAvailableSound`**: nothing calls them.
* **`strb.c`, `wcsb.c`**: functions of one buffer without state that outlives a
  call. The two results of `strb.c` the referee depends on (a delimiter that is
  missing, the cutting of a channel's name) are in `Referee`; `wcsb.c` is not called.
* **The parser of `beatmap.c`**, which turns text into numbers: `Timing` starts from
  the timing points. Sounds, the stopwatch, labels, tempo and volume of the player
  are calls of BASS, Windows and the performance counter.
* **`Referee`**: of the commands `/BB` can send only `!mp make`, since the others change
  nothing the plugin keeps. `is_staff` has a parameter without a type (`bot.c:177`),
  an int, which would cut off half of a pointer in a 64-bit build; names are compared
  as they were given, as in the 32-bit one.
* **`Server`**: the process that resolves names and connects is its answers. Left
  out are servers outside a network, the settings that switch off throttling and
  reconnection, a `fork` that fails, TLS and proxies beyond their refusal. `send`
  takes what it is given: the code does not look at its answer (`server.c:164`), so
  that a socket which takes less than a line, or nothing, loses what it leaves, and
  `ImplementsOutbox` is about the queue, not the socket. Messages are said on a
  connection only; the code does not ask for one (`server.c:182`), and the lines that
  `server_read` still handles after a close (324-346) may queue more, which is written
  to the closed socket or thrown away by the flush that begins the next connection.
  Without this case every state keeps the queue of a closed connection empty, on
  which the proofs rest; an instance with the case held the properties of the run
  with smaller bounds, and was too large for the bounds above. `QueueDrains` is
  about the `MaxSaid` messages of the run: under PRIVMSGs without end those of the
  lowest priority would wait for ever.
* **`Dcc`**: chats, proxies, ports used again, a `listen` that fails, the directory
  for completed files, and the dialogue that asks whether to accept, which may
  outlive its transfer. Speeds are not measured. A block is written whole or not at
  all: the code tests for -1 only and counts the block in full (`dcc.c:753`, 764), so
  that a short write, which POSIX allows, would end as done with a part of the file
  missing. A read of the file that fails before its end (1445-1446), a socket that
  would block (1448-1464) and an `accept` that fails (1574) are left out.
* **`plugin.c`**: contexts, lists, the calls that only read, the hooks of file
  descriptors (which are handled as timers are). A file may be loaded twice
  (`plugin_load`, 390-414): it would be two members of `Plugins`, of which an
  `/UNLOAD` takes the first, but which share their code, so that it stays open until
  both are gone; that is left out.
* **The rest of HexChat**: the inbound protocol, channels, ignore and notify lists,
  the configuration files, both front ends, the other plugins and the translations.
  This is upstream code of more than ninety thousand lines, mostly display and
  text, that the referee does not use except through the parts above.
* **SQLite, BASS**: headers; SQLite is included and never called.

What would come next: the handling of channels (join, part, kick and the rejoining
after a reconnection) on top of `Server`; `Referee` on top of the queue of `Server`
instead of a queue of its own; the contexts and lists of `plugin.c`, which a plugin
may hold across a callback that closes them.
