------------------------------- MODULE Player -------------------------------
(***************************************************************************)
(* The preview player of preview/bpm.c: the thread of the window, the      *)
(* threads of the timers that call playTimerProc, and the thread on which  *)
(* BASS calls endSyncProc, around ghMutex, songTime, isPlay, chan and pt.  *)
(*                                                                         *)
(* The window's thread is a stack of handlers: MsgWaitForSingleObject      *)
(* handles messages while it waits, so that a handler may begin inside     *)
(* another.  A timer is the one of Timer.tla as its users see it: it calls *)
(* back until it is killed, and a kill waits until its thread is gone.     *)
(***************************************************************************)
EXTENDS Naturals, FiniteSets, SequencesExt

CONSTANTS
    Timers,     \* timers TIMER_timeSetEvent may return, each once
    Channels,   \* tempo channels BASS may return, each once
    NULL,
    MaxInputs,  \* bound on what the user does
    MaxNested   \* bound on handlers inside handlers

ASSUME PlayerAssumption ==
    /\ {NULL, "nobody", "window", "bass"} \cap (Timers \cup Channels) = {}
    /\ MaxInputs \in Nat /\ MaxNested \in Nat

VARIABLES
    ui,         \* handlers in progress, the innermost last: where each is, the timer it kills
    phase,      \* of WinMain: "dialog", "ended", "noMutex", "noBass", "exited"
    closing,    \* EndDialog was called
    tick,       \* the thread of each timer
    closed,     \* timers whose __close is set
    sync,       \* where endSyncProc is
    owner,      \* of ghMutex: "nobody", "window", "bass", or a timer
    chan, channel,      \* the current channel; of each "unused", "live", "freed"
    playing,    \* channels BASS is playing
    pt, isNC, isPlay,
    songTime,   \* "lead" before 0, or "song"
    seen,       \* the songTime each tick is computing with
    stale,      \* ticks between a read and a write that missed a reset in between
    loading,    \* loadBeatmap is writing the beatmap
    early,      \* history: ticks that are in the metronome since before the load began
    inputs,
    fault,      \* a timer was killed after it was freed
    reentered,  \* history: a file was opened while another was being opened
    gaveUp,     \* history: opening a file failed after the kill
    lost        \* history: how a tick wrote over a reset it had not seen: holding ghMutex
                \* ("held"), or without it, over songTime ("time") or isPlay ("play")

window  == <<ui, phase, closing, inputs, loading, reentered, gaveUp>>
bass    == <<chan, channel>>
clock   == <<songTime, isPlay>>
vars    == <<window, bass, clock, tick, closed, sync, owner, playing, pt, isNC, early, seen, stale, fault, lost>>

Handlers == {"load", "kill", "killed", "reset", "resetting", "free", "create", "tempo", "start",
             "seek", "seeking"}
Ticks    == {"unused", "delay", "check", "line", "volume", "beats", "play", "played", "slider",
             "read", "write", "gone"}
\* The places of a tick between its look at isNC and its last use of the beatmap.
Metronome == {"line", "volume", "beats"}

TypeOK ==
    /\ ui \in Seq([at : Handlers, timer : Timers \cup {NULL}])
    /\ phase \in {"dialog", "ended", "noMutex", "noBass", "exited"} /\ closing \in BOOLEAN
    /\ tick \in [Timers -> Ticks] /\ closed \subseteq Timers
    /\ sync \in {"idle", "wait", "write"}
    /\ owner \in Timers \cup {"nobody", "window", "bass"}
    /\ chan \in Channels \cup {NULL} /\ channel \in [Channels -> {"unused", "live", "freed"}]
    /\ playing \subseteq Channels
    /\ pt \in Timers \cup {NULL} /\ isNC \in BOOLEAN /\ isPlay \in BOOLEAN
    /\ songTime \in {"lead", "song"} /\ seen \in [Timers -> {"lead", "song"}]
    /\ loading \in BOOLEAN /\ inputs \in 0..MaxInputs
    /\ fault \in BOOLEAN /\ reentered \in BOOLEAN /\ gaveUp \in BOOLEAN /\ lost \subseteq {"held", "time", "play"}
    /\ stale \subseteq Timers /\ early \subseteq Timers

Init ==
    /\ ui = <<>> /\ phase = "dialog" /\ closing = FALSE
    /\ tick = [t \in Timers |-> "unused"] /\ closed = {}
    /\ sync = "idle" /\ owner = "nobody"
    /\ chan = NULL /\ channel = [c \in Channels |-> "unused"] /\ playing = {}
    /\ pt = NULL /\ isNC = FALSE /\ isPlay = FALSE
    /\ songTime = "song" /\ seen = [t \in Timers |-> "song"] /\ stale = {}
    /\ loading = FALSE /\ early = {} /\ inputs = 0
    /\ fault = FALSE /\ reentered = FALSE /\ gaveUp = FALSE /\ lost = {}

-----------------------------------------------------------------------------
(* The window: dialogproc.                                                 *)

Running == ~fault /\ phase # "exited"
Top     == Last(ui)
At(s)   == Running /\ ui # <<>> /\ Top.at = s
Now(s)  == ui' = Append(Front(ui), [Top EXCEPT !.at = s])
Done    == ui' = Front(ui)

\* Where the thread of the window handles messages: its message loop, and
\* MsgWaitForSingleObject (timer.c:159-183) wherever it waits.
Pumping_InLoop == ui = <<>>
Pumping == ui # <<>> => Top.at \in {"killed", "reset", "seek"}
Input   == Running /\ phase = "dialog" /\ ~closing /\ Pumping
Enter(s) ==
    /\ Input /\ inputs < MaxInputs /\ Len(ui) <= MaxNested
    /\ ui' = Append(ui, [at |-> s, timer |-> NULL]) /\ inputs' = inputs + 1

Free == owner = "nobody" \/ phase \in {"noMutex", "noBass"}

\* ID_OPEN, when a file was chosen: the metronome is switched off and the
\* beatmap is read into the one that is in use.
Quiet_NotYet == isNC
Quiet == FALSE
Open ==
    /\ Enter("load")
    /\ loading' = TRUE /\ isNC' = Quiet
    /\ early' = {t \in Timers : tick[t] \in Metronome}
    /\ reentered' = (reentered \/ ui # <<>>)
    /\ UNCHANGED <<phase, closing, gaveUp, bass, clock, tick, closed, sync, owner, playing, pt,
                   seen, stale, fault, lost>>

\* getFirstTiming finds a red line or the handler ends (line 336).
Loaded(redLine) ==
    /\ At("load")
    /\ loading' = FALSE /\ early' = {}
    /\ IF redLine THEN Now("kill") ELSE Done
    /\ UNCHANGED <<phase, closing, inputs, reentered, gaveUp, bass, clock, tick, closed, sync, owner,
                   playing, pt, isNC, seen, stale, fault, lost>>

\* TIMER_timeKillEvent(pt): nothing for NULL, undefined for a block that is
\* freed, otherwise the wait for the thread.
Victim_None == NULL
Victim == pt
Asked_Always == {Victim}
Asked == {Victim} \ {NULL}
Kill ==
    /\ At("kill")
    /\ closed' = closed \cup Asked
    /\ IF Victim = NULL
       THEN Now("reset") /\ UNCHANGED fault
       ELSE /\ ui' = Append(Front(ui), [at |-> "killed", timer |-> Victim])
            /\ fault' = (tick[Victim] = "gone")
    /\ UNCHANGED <<phase, closing, inputs, loading, reentered, gaveUp, bass, clock, tick, sync, owner,
                   playing, pt, isNC, seen, stale, early, lost>>

Killed ==
    /\ At("killed") /\ tick[Top.timer] = "gone"
    /\ Now("reset")
    /\ UNCHANGED <<phase, closing, inputs, loading, reentered, gaveUp, bass, clock, tick, closed, sync,
                   owner, playing, pt, isNC, seen, stale, early, fault, lost>>

\* The writes of endSyncProc, whoever calls it: songTime becomes the lead-in of
\* the beatmap in whole seconds, negated, which may be 0.
Reset_KeepsPlaying ==
    /\ songTime' \in {"lead", "song"} /\ UNCHANGED <<isPlay, seen>>
    /\ stale' = stale \cup {t \in Timers : tick[t] \in {"played", "write"}}
Reset ==
    /\ songTime' \in {"lead", "song"} /\ isPlay' = FALSE /\ UNCHANGED seen
    /\ stale' = stale \cup {t \in Timers : tick[t] \in {"played", "write"}}

ResetLock ==
    /\ At("reset") /\ Free
    /\ owner' = IF phase = "dialog" THEN "window" ELSE owner
    /\ Now("resetting")
    /\ UNCHANGED <<phase, closing, inputs, loading, reentered, gaveUp, bass, clock, tick, closed, sync,
                   playing, pt, isNC, seen, stale, early, fault, lost>>

ResetWrite ==
    /\ At("resetting")
    /\ Reset /\ owner' = IF owner = "window" THEN "nobody" ELSE owner
    /\ Now("free")
    /\ UNCHANGED <<phase, closing, inputs, loading, reentered, gaveUp, bass, tick, closed, sync,
                   playing, pt, isNC, early, fault, lost>>

\* BASS_StreamFree(chan).
FreeChannel ==
    /\ At("free")
    /\ channel' = [c \in Channels |-> IF c = chan THEN "freed" ELSE channel[c]]
    /\ playing' = playing \ {chan}
    /\ Now("create")
    /\ UNCHANGED <<phase, closing, inputs, loading, reentered, gaveUp, chan, clock, tick, closed, sync,
                   owner, pt, isNC, seen, stale, early, fault, lost>>

\* The decoding channel and the tempo channel on top of it: one, or none (lines 363, 390).
CreateChannel(c) ==
    /\ At("create")
    /\ c # NULL => channel[c] = "unused"
    /\ chan' = c
    /\ IF c = NULL THEN Done /\ gaveUp' = TRUE /\ UNCHANGED channel
                   ELSE Now("start") /\ channel' = [channel EXCEPT ![c] = "live"] /\ UNCHANGED gaveUp
    /\ UNCHANGED <<phase, closing, inputs, loading, reentered, clock, tick, closed, sync, owner,
                   playing, pt, isNC, seen, stale, early, fault, lost>>

\* The handle of the last timer is kept for the next kill.
Kept_First(t) == IF pt = NULL THEN t ELSE pt
Kept(t) == t

\* TIMER_timeSetEvent, the last thing that changes the shared state.
StartTimer(t) ==
    /\ At("start")
    /\ t # NULL => tick[t] = "unused"
    /\ pt' = Kept(t)
    /\ tick' = [s \in Timers |-> IF s = t THEN "delay" ELSE tick[s]]
    /\ Done
    /\ UNCHANGED <<phase, closing, inputs, loading, reentered, gaveUp, bass, clock, closed, sync, owner,
                   playing, isNC, seen, stale, early, fault, lost>>

\* The slider of the sample rate: the metronome beats if it is not the file's own.
Rate(nc) ==
    /\ Input
    /\ isNC' = nc
    /\ UNCHANGED <<ui, phase, closing, inputs, loading, reentered, gaveUp, bass, clock, tick, closed, sync,
                   owner, playing, pt, seen, stale, early, fault, lost>>

\* IDC_POS: ghMutex is asked for, with a timeout of 0 (line 494), and the position moves.
Seek ==
    /\ Enter("seek")
    /\ UNCHANGED <<phase, closing, loading, reentered, gaveUp, bass, clock, tick, closed, sync, owner,
                   playing, pt, isNC, seen, stale, early, fault, lost>>

SeekLock ==
    /\ At("seek")
    /\ owner' = IF owner = "nobody" THEN "window" ELSE owner
    /\ Now("seeking")
    /\ UNCHANGED <<phase, closing, inputs, loading, reentered, gaveUp, bass, clock, tick, closed, sync,
                   playing, pt, isNC, seen, stale, early, fault, lost>>

SeekWrite(to) ==
    /\ At("seeking")
    /\ songTime = "song" => to = "song"
    /\ songTime' = to /\ owner' = IF owner = "window" THEN "nobody" ELSE owner
    /\ Done
    /\ UNCHANGED <<phase, closing, inputs, loading, reentered, gaveUp, bass, isPlay, tick, closed, sync,
                   playing, pt, isNC, seen, stale, early, fault, lost>>

\* WM_CLOSE, and the end of WinMain once the handlers are through.
Close ==
    /\ Input /\ inputs < MaxInputs
    /\ closing' = TRUE /\ inputs' = inputs + 1
    /\ UNCHANGED <<ui, phase, loading, reentered, gaveUp, bass, clock, tick, closed, sync, owner,
                   playing, pt, isNC, seen, stale, early, fault, lost>>

Leave ==
    /\ Running /\ closing /\ ui = <<>>
    /\ phase' = CASE phase = "dialog"  -> "ended"  [] phase = "ended"  -> "noMutex"
                  [] phase = "noMutex" -> "noBass" [] phase = "noBass" -> "exited"
    /\ channel' = IF phase = "noMutex"
                  THEN [c \in Channels |-> IF channel[c] = "live" THEN "freed" ELSE channel[c]]
                  ELSE channel
    /\ playing' = IF phase = "noMutex" THEN {} ELSE playing
    /\ owner' = IF phase = "ended" THEN "nobody" ELSE owner
    /\ UNCHANGED <<ui, closing, inputs, loading, reentered, gaveUp, chan, clock, tick, closed, sync,
                   pt, isNC, seen, stale, early, fault, lost>>

-----------------------------------------------------------------------------
(* A timer's thread: playTimerProc.                                        *)

Step(t, from, to) ==
    /\ Running /\ tick[t] = from
    /\ tick' = [tick EXCEPT ![t] = to]
    /\ early' = IF to \in Metronome THEN early ELSE early \ {t}
Others == <<window, bass, sync, pt, isNC, fault, closed>>

\* The next period: ghMutex with a timeout of 0, whose answer nobody looks at
\* (line 212).
TickLocks(t) ==
    /\ Step(t, "delay", "check")
    /\ owner' = IF owner = "nobody" /\ phase \in {"dialog", "ended"} THEN t ELSE owner
    /\ UNCHANGED <<Others, clock, playing, seen, stale, lost>>

\* The metronome beats only at a rate that is not the file's own (line 214).
TickChecks(t) ==
    /\ Step(t, "check", IF isNC THEN "line" ELSE "play")
    /\ UNCHANGED <<Others, clock, owner, playing, seen, stale, lost>>

\* The beatmap is searched for the timing line of songTime (lines 216-219); a
\* line is followed by a message that asks for the volume (line 221).
TickFinds(t) ==
    /\ \E to \in {"volume", "play"} : Step(t, "line", to)
    /\ UNCHANGED <<Others, clock, owner, playing, seen, stale, lost>>

\* A message sent to the window is handled while its thread handles messages;
\* a window that is gone does not hold up the sender.
Handled == Pumping \/ phase # "dialog"
TickSent(t) ==
    /\ \/ Step(t, "volume", "beats") \/ Step(t, "slider", "read")
    /\ Handled
    /\ UNCHANGED <<Others, clock, owner, playing, seen, stale, lost>>

\* The beat, its volume and its sounds come from that line of the beatmap.
TickBeats(t) ==
    /\ Step(t, "beats", "play")
    /\ UNCHANGED <<Others, clock, owner, playing, seen, stale, lost>>

MustPlay == ~isPlay /\ songTime = "song"
ChannelLives == chan # NULL /\ channel[chan] = "live"
TickPlays(t) ==
    /\ Step(t, "play", IF MustPlay THEN "played" ELSE "slider")
    /\ playing' = IF MustPlay /\ ChannelLives THEN playing \cup {chan} ELSE playing
    /\ UNCHANGED <<Others, clock, owner, seen, stale, lost>>

Overwrites(t, what) ==
    /\ lost' = lost \cup (IF t \notin stale THEN {} ELSE IF owner = t THEN {"held"} ELSE {what})
    /\ stale' = stale \ {t}

TickPlayed(t) ==
    /\ Step(t, "played", "slider")
    /\ isPlay' = TRUE /\ Overwrites(t, "play")
    /\ UNCHANGED <<Others, songTime, owner, playing, seen>>

TickReads(t) ==
    /\ Step(t, "read", "write")
    /\ seen' = [seen EXCEPT ![t] = songTime]
    /\ UNCHANGED <<Others, clock, owner, playing, stale, lost>>

Released_UnlessClosed(t) == IF owner = t /\ t \notin closed THEN "nobody" ELSE owner
Released(t) == IF owner = t THEN "nobody" ELSE owner

\* songTime grows and from 0 on is averaged with the position of the channel,
\* which is negative if the channel is gone; the mutex is released (lines 285-301).
TickWrites(t) ==
    /\ Step(t, "write", IF t \in closed THEN "gone" ELSE "delay")
    /\ songTime' \in IF seen[t] = "lead" \/ ~ChannelLives THEN {"lead", "song"} ELSE {"song"}
    /\ Overwrites(t, "time")
    /\ owner' = Released(t) /\ seen' = [seen EXCEPT ![t] = "song"]
    /\ UNCHANGED <<Others, isPlay, playing>>

Tick(t) ==
    \/ TickLocks(t) \/ TickChecks(t) \/ TickFinds(t) \/ TickSent(t) \/ TickBeats(t)
    \/ TickPlays(t) \/ TickPlayed(t) \/ TickReads(t) \/ TickWrites(t)

-----------------------------------------------------------------------------
(* The thread of BASS: endSyncProc at the end of the song.                 *)

SongEnds ==
    /\ Running /\ sync = "idle" /\ chan \in playing
    /\ playing' = playing \ {chan} /\ sync' = "wait"
    /\ UNCHANGED <<window, bass, clock, tick, closed, owner, pt, isNC, seen, stale, early, fault, lost>>

SyncMayLock == Free
SyncLocks ==
    /\ Running /\ sync = "wait" /\ SyncMayLock
    /\ owner' = IF owner = "nobody" /\ phase \in {"dialog", "ended"} THEN "bass" ELSE owner
    /\ sync' = "write"
    /\ UNCHANGED <<window, bass, clock, tick, closed, playing, pt, isNC, seen, stale, early, fault, lost>>

SyncWrites ==
    /\ Running /\ sync = "write"
    /\ Reset /\ sync' = "idle"
    /\ owner' = IF owner = "bass" THEN "nobody" ELSE owner
    /\ UNCHANGED <<window, bass, tick, closed, playing, pt, isNC, early, fault, lost>>

Next ==
    \/ Open \/ Kill \/ Killed \/ ResetLock \/ ResetWrite \/ FreeChannel
    \/ \E b \in BOOLEAN : Loaded(b) \/ Rate(b)
    \/ \E c \in Channels \cup {NULL} : CreateChannel(c)
    \/ \E t \in Timers \cup {NULL} : StartTimer(t)
    \/ Seek \/ SeekLock \/ Close \/ Leave
    \/ \E to \in {"lead", "song"} : SeekWrite(to)
    \/ \E t \in Timers : Tick(t)
    \/ SongEnds \/ SyncLocks \/ SyncWrites

Spec == Init /\ [][Next]_vars

\* Threads run, a released mutex goes to whoever waits for it, the thread of
\* the window handles messages whenever it looks for them, and time passes.
Fairness ==
    /\ \A t \in Timers : /\ WF_vars(Tick(t)) /\ SF_vars(TickSent(t))
                         /\ SF_vars(TickWrites(t) /\ songTime' = "song")
    /\ WF_vars(SyncWrites) /\ SF_vars(SyncLocks)
    /\ WF_vars(Kill \/ Killed \/ ResetWrite \/ FreeChannel \/ SeekLock) /\ SF_vars(ResetLock)
    /\ WF_vars(\E b \in BOOLEAN : Loaded(b))
    /\ WF_vars(\E c \in Channels \cup {NULL} : CreateChannel(c))
    /\ WF_vars(\E t \in Timers \cup {NULL} : StartTimer(t))
    /\ WF_vars(\E to \in {"lead", "song"} : SeekWrite(to))
    /\ WF_vars(Leave)

FairSpec == Spec /\ Fairness

-----------------------------------------------------------------------------
Live == {t \in Timers : tick[t] \notin {"unused", "gone"}}

\* ghMutex is held only between its lock and its release: no handler, tick or
\* end of a song leaves it held (bpm.c:177-187, 212-301, 494-497).
HeldInside ==
    /\ owner = "window" => ui # <<>> /\ Top.at \in {"resetting", "seeking"}
    /\ owner = "bass" => sync = "write"
    /\ \A t \in Timers : owner = t => tick[t] \in Ticks \ {"unused", "delay", "gone"}

\* As long as no file is opened inside the opening of another, the only timer
\* that runs is the one pt names, so that the next ID_OPEN kills it
\* (bpm.c:339, 406; timer.h:15).
RunningTimerIsNamed == ~reentered => Live \subseteq {pt}

\* The kill of ID_OPEN meets a freed timer only after an opening that failed
\* half way (bpm.c:363, 390), or one inside another.
KillFindsTimer == fault => reentered \/ gaveUp

\* Until BASS is freed no callback works on a channel that is freed, unless a
\* file was opened inside the opening of another (bpm.c:339-406).
TicksHaveChannel ==
    (~reentered /\ phase \in {"dialog", "ended", "noMutex"}) =>
        \A t \in Live : tick[t] # "delay" => ChannelLives

\* The end of a song and a tick that got ghMutex exclude each other: such a
\* tick never overwrites the reset of songTime and isPlay (bpm.c:177-187, 267-301).
ResetSurvivesOwners == "held" \notin lost

\* While loadBeatmap writes the beatmap, which takes no mutex, the metronome of
\* a callback works on it only if it passed the look at isNC before the load
\* reset isNC, and it does so once: whoever comes to line 214 later, even in its
\* next period, keeps away (bpm.c:214-247, 329-330).
LoadMeetsEarlyTicksOnly ==
    loading => {t \in Timers : tick[t] \in Metronome} \subseteq early

\* Every handler of the window comes back, although it waits for a thread that
\* may wait for the window and for a mutex that thread may hold (timer.c:159-183).
HandlersComeBack == (ui # <<>>) ~> (ui = <<>> \/ fault \/ phase = "exited")

\* At its end the song is played again as long as a timer runs, unless a tick
\* without ghMutex wrote over the reset of isPlay, or two timers run because a
\* file was opened inside the opening of another (bpm.c:175-188, 212, 267-271).
SongIsReplayed ==
    (sync = "write") ~> \/ chan \in playing \/ ~ChannelLives \/ Live = {}
                        \/ "play" \in lost \/ reentered \/ fault \/ phase = "exited"

\* ghMutex excludes those who hold it, and nobody keeps it.
MutexExcludes == HeldInside /\ ResetSurvivesOwners

\* Every timer is killed once: the one that runs can be, one that is gone is not.
TimersAreKilled == RunningTimerIsNamed /\ KillFindsTimer
=============================================================================
