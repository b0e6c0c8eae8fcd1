------------------------------- MODULE Timing -------------------------------
(***************************************************************************)
(* The timing points of preview/beatmap.c and the metronome of             *)
(* preview/bpm.c that follows them: a red line (the code's Inherited # 0)  *)
(* sets the beat from its offset on, and nowTiming is to be the one the    *)
(* song is at.  Here every handler and every tick is one step; what their  *)
(* threads do to each other is the subject of Player.tla.                  *)
(***************************************************************************)
EXTENDS Integers, Sequences, FiniteSetsExt

CONSTANTS
    OSU_TIMING_MAX,  \* entries of TimingPoints
    EntrySize,       \* sizeof(timing_t), in units of its own
    Second,          \* of the units time is counted in
    End,             \* where the song ends
    Beatmaps         \* files: the lines (offset, length of beat, metre, OmitFirstBarLine, colour), the lead-in, the tick rate

NULL  == -1
Entry == 0..(OSU_TIMING_MAX - 1)
Zero  == [offset |-> 0, meter |-> 0, red |-> FALSE, length |-> 0, omit |-> FALSE]
Lines == (UNION {{b.lines[i] : i \in DOMAIN b.lines} : b \in Beatmaps}) \cup {Zero}
Bars  == {0} \cup UNION {0..(l.meter - 1) : l \in Lines}

ASSUME TimingAssumption ==
    /\ OSU_TIMING_MAX \in Nat \ {0} /\ EntrySize \in Nat \ {0} /\ Second \in Nat \ {0} /\ End \in Nat
    /\ \A l \in Lines \ {Zero} :
         /\ l.offset \in Int /\ l.length \in Nat \ {0} /\ l.meter \in Nat \ {0}
         /\ l.red \in BOOLEAN
    /\ \A b \in Beatmaps :
         /\ b.lines \in Seq(Lines) /\ b.lead \in Nat /\ b.evenRate \in BOOLEAN
         /\ Len(b.lines) \in 1..OSU_TIMING_MAX
         /\ \A i, j \in 1..Len(b.lines) : i < j => b.lines[i].offset <= b.lines[j].offset

VARIABLES
    TimingPoints, lead, evenRate,   \* of beatmap
    size,       \* history: lines of the file that was read last
    running,    \* a timer calls playTimerProc
    isNC,
    songTime,   \* the virtual time of the song
    position,   \* where BASS plays the song
    reported,   \* lastReportedPlayheadPosition
    nowTiming,
    bar,        \* nextBeat.type
    sound,      \* what the last tick played
    metered,    \* history: the last step was a tick of the metronome
    at,         \* history: the time it took
    back,       \* history: it started from a line that had not begun
    astray      \* history: nowTiming is not the line that tick was at

file == <<TimingPoints, lead, evenRate, size>>
past == <<metered, at, back, astray>>
vars == <<file, past, running, isNC, songTime, position, reported, nowTiming, bar, sound>>

Times == UNION {-l..(End + 1) : l \in {0} \cup {b.lead : b \in Beatmaps}}

TypeOK ==
    /\ TimingPoints \in [Entry -> Lines] /\ size \in 0..OSU_TIMING_MAX
    /\ lead \in {0} \cup {b.lead : b \in Beatmaps} /\ evenRate \in BOOLEAN
    /\ running \in BOOLEAN /\ isNC \in BOOLEAN
    /\ songTime \in Times /\ position \in 0..End /\ reported \in 0..End
    /\ nowTiming \in Entry \cup {NULL}
    /\ bar \in Bars
    /\ metered \in BOOLEAN /\ back \in BOOLEAN /\ astray \in BOOLEAN /\ at \in Times
    /\ sound \subseteq {"bass_dry", "finish", "clap", "hat"}

\* Global variables are zero.
Init ==
    /\ TimingPoints = [i \in Entry |-> Zero] /\ lead = 0 /\ evenRate = TRUE /\ size = 0
    /\ running = FALSE /\ isNC = FALSE /\ songTime = 0 /\ position = 0 /\ reported = 0
    /\ nowTiming = NULL /\ bar = 0 /\ sound = {}
    /\ metered = FALSE /\ at = 0 /\ back = FALSE /\ astray = FALSE

-----------------------------------------------------------------------------
(* The searches.  An index outside the array stands for NULL.              *)

Red(i)    == TimingPoints[i].red
Offset(i) == TimingPoints[i].offset

LastOf(S)  == IF S = {} THEN NULL ELSE Max(S)
FirstOf(S) == IF S = {} THEN NULL ELSE Min(S)

\* The difference of two pointers to entries is their distance; the macro
\* divides it by the size of an entry once more (beatmap.h:13).
getTimingIndex(i) == i \div EntrySize

getTimingFromPosition2(pos) == LastOf({i \in Entry : Red(i) /\ Offset(i) <= pos})

getNextTiming(prev) == FirstOf({i \in Entry : i > getTimingIndex(prev) /\ Red(i)})

\* The entry after the first red line: NULL as well if that is the last entry.
getFirstTiming ==
    LET i == FirstOf({j \in Entry : Red(j)})
    IN  IF i = NULL \/ i = OSU_TIMING_MAX - 1 THEN NULL ELSE i + 1

\* There is nothing to look for: the next line is not reached yet.
NotReached_NorAt(t, pos) == t # NULL => Offset(t) >= pos
NotReached(t, pos) == t # NULL => Offset(t) > pos

Before(i, pos) == LastOf({j \in Entry : j < i /\ Red(j) /\ Offset(j) <= pos})

Known(prev, pos) ==
    IF Offset(prev) > pos THEN Before(getTimingIndex(prev), pos)
    ELSE IF ~NotReached(getNextTiming(prev), pos) THEN getTimingFromPosition2(pos)
    ELSE IF Red(prev) THEN prev
    ELSE LastOf({j \in Entry : j < getTimingIndex(prev) /\ Red(j)})

Unknown_Stays(pos) == NULL
Unknown(pos) == Known(0, pos)
getTimingFromPosition(prev, pos) == IF prev = NULL THEN Unknown(pos) ELSE Known(prev, pos)

-----------------------------------------------------------------------------
\* endSyncProc: the time before the song is cut to whole seconds, the line is not.
Restart(newLead, now) ==
    /\ songTime' = -((newLead \div Second) * Second) /\ position' = 0 /\ reported' = 0
    /\ nowTiming' = now /\ sound' = {}

Overwritten(lines) == [i \in Entry |-> IF i < Len(lines) THEN lines[i + 1] ELSE TimingPoints[i]]

Unmetered == metered' = FALSE /\ at' = 0 /\ back' = FALSE /\ astray' = FALSE
Rests     == metered' = FALSE /\ at' = 0 /\ back' = FALSE /\ UNCHANGED astray

\* ID_OPEN: the lines of the file overwrite as many entries; without a red
\* line the old timer goes on, otherwise there is a new one, if BASS can play
\* the song.
Open(b, playable) ==
    /\ TimingPoints' = Overwritten(b.lines) /\ size' = Len(b.lines)
    /\ lead' = b.lead /\ evenRate' = b.evenRate /\ isNC' = FALSE
    /\ IF getFirstTiming' = NULL
       THEN UNCHANGED <<running, songTime, position, reported, nowTiming, bar, sound>>
       ELSE /\ running' = playable
            /\ Restart(b.lead, getTimingFromPosition2(-b.lead)')
            /\ UNCHANGED bar
    /\ Unmetered

\* The slider of the sample rate: any rate but the file's own starts the metronome.
Rate(nc) ==
    /\ isNC' = nc /\ Rests
    /\ UNCHANGED <<file, running, songTime, position, reported, nowTiming, bar, sound>>

\* IDC_POS: the song goes to p, its virtual time half the way.
Seek(p) ==
    /\ running
    /\ songTime' = (songTime + p) \div 2 /\ position' = p /\ Rests
    /\ UNCHANGED <<file, running, isNC, reported, nowTiming, bar, sound>>

SongEnds ==
    /\ running /\ position = End
    /\ Restart(lead, getTimingFromPosition2(-lead))
    /\ Unmetered
    /\ UNCHANGED <<file, running, isNC, bar>>

-----------------------------------------------------------------------------
\* playTimerProc, the metronome: half beats from the line's offset on, taken by the bar.
HalfBeat(now) == ((songTime - Offset(now)) * 2) \div TimingPoints[now].length

Place_Uncut(now) == HalfBeat(now)
Place(now) == HalfBeat(now) % TimingPoints[now].meter

Remembered_Not(now) == bar
Remembered(now) == Place(now)

Struck(now) ==
    IF HalfBeat(now) % (8 * TimingPoints[now].meter) = 0
    THEN {"bass_dry"} \cup (IF TimingPoints[now].omit THEN {} ELSE {"finish"})
    ELSE IF Place(now) % 4 = 0 THEN {"bass_dry"}
    ELSE IF Place(now) % 4 = 2 THEN {"clap"}
    ELSE IF evenRate THEN {"hat"} ELSE {}

\* The red line the time pos is at, in the file that was read last.
Right(pos) == LastOf({i \in 0..(size - 1) : Red(i) /\ Offset(i) <= pos})

Metronome ==
    LET now == getTimingFromPosition(nowTiming, songTime)
    IN  /\ nowTiming' = now
        /\ IF now = NULL \/ Place(now) = bar
           THEN sound' = {} /\ UNCHANGED bar
           ELSE sound' = Struck(now) /\ bar' = Remembered(now)
        /\ metered' = TRUE /\ at' = songTime
        /\ back' = (nowTiming # NULL /\ Offset(nowTiming) > songTime)
        /\ astray' = (now # Right(songTime))

\* The virtual time goes on and, when BASS reports a new position, to the
\* middle between the two.  It is not followed further than End + 1.
Advance(played) ==
    LET next == Min({songTime + 1, End + 1})
    IN  /\ position' = played
        /\ IF next < 0 \/ played = reported
           THEN songTime' = next /\ UNCHANGED reported
           ELSE songTime' = (next + played) \div 2 /\ reported' = played

Tick(played) ==
    /\ running
    /\ IF isNC THEN Metronome ELSE sound' = {} /\ Rests /\ UNCHANGED <<nowTiming, bar>>
    /\ Advance(played)
    /\ UNCHANGED <<file, running, isNC>>

Positions == {position} \cup ({position + 1} \cap 0..End)

Next ==
    \/ \E b \in Beatmaps, playable \in BOOLEAN : Open(b, playable)
    \/ \E nc \in BOOLEAN : Rate(nc)
    \/ \E p \in 0..End : Seek(p)
    \/ SongEnds
    \/ \E played \in Positions : Tick(played)

Spec == Init /\ [][Next]_vars

\* The timer calls back, BASS reports positions that advance and the end of the song.
Fairness == WF_vars(\E p \in Positions : Tick(p)) /\ WF_vars(position < End /\ Tick(position + 1)) /\ WF_vars(SongEnds)

FairSpec == Spec /\ Fairness

-----------------------------------------------------------------------------
\* A longer file that was read before has left red lines behind (beatmap.c:92-104).
Stale == \E i \in Entry : i >= size /\ Red(i)

\* Whatever the files, the jumps and the order they come in, the metronome
\* counts from a red line that has begun, so that no half beat is negative
\* (beatmap.c:19-56, bpm.c:217-230).
NowHasBegun == (metered /\ nowTiming # NULL) => (Red(nowTiming) /\ Offset(nowTiming) <= at)

\* A tick finds the red line the song is at, or that there is none, unless it
\* starts from a line that has not begun: one the song has jumped back across
\* (beatmap.h:62-70, beatmap.c:29-38).  Files read before must not have been longer.
AstrayOnlyAfterJump == (metered /\ astray) => (back \/ Stale)

\* The metronome keeps to the lines of the song.
KeepsToTheLines == NowHasBegun /\ AstrayOnlyAfterJump

\* Of two ticks in a row on one red line the second is silent while the half
\* beat goes on.  At the next half beat it strikes, with two exceptions of the
\* code's own: an odd place of the bar at an odd tick rate, and every half beat
\* of a line whose metre is 1, where the place is always 0, the one nextBeat.type
\* holds already, so that the line is silent after its first tick (bpm.c:229-246).
\* The first tick after a seek, another rate or a restart follows no tick, and
\* ticks further apart may be whole bars apart: nothing is said of them.
BeatsStruckOnce ==
    [][\A now \in {nowTiming} \ {NULL} :
         (metered /\ metered' /\ nowTiming' = now /\ vars' # vars) =>
            LET before == ((at - Offset(now)) * 2) \div TimingPoints[now].length
                after  == ((at' - Offset(now)) * 2) \div TimingPoints[now].length
                place  == after % TimingPoints[now].meter
            IN  /\ after = before => sound' = {}
                /\ after = before + 1 =>
                      (sound' # {} <=> TimingPoints[now].meter # 1 /\ (place % 2 = 0 \/ evenRate))]_vars

\* A metronome that has lost the line finds it again while it keeps beating.
MetronomeRecovers == astray ~> (~astray \/ Stale \/ ~running \/ ~isNC)
=============================================================================
