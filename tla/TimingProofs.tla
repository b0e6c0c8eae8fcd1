---------------------------- MODULE TimingProofs ----------------------------
(***************************************************************************)
(* Proofs about Timing, for any files, any number of entries and any size  *)
(* of an entry.                                                            *)
(***************************************************************************)
EXTENDS Timing, FiniteSetTheorems, SequenceTheorems, WellFoundedInduction, TLAPS

-----------------------------------------------------------------------------
(* A set of natural numbers that is not empty has a least element.         *)
LEMMA Least ==
    ASSUME NEW S \in SUBSET Nat, S # {}
    PROVE  \E m \in S : \A k \in S : m <= k
  <1>1. IsWellFoundedOn(OpToRel(<, Nat), Nat)
    BY NatLessThanWellFounded
  <1>2. PICK m \in S : \A k \in S : ~(<<k, m>> \in OpToRel(<, Nat))
    BY <1>1, WFMin
  <1>3. \A k \in S : ~(k < m)
    BY <1>2 DEF OpToRel
  <1> QED BY <1>3

(* One that is bounded has a greatest.                                     *)
LEMMA Greatest ==
    ASSUME NEW n \in Nat, NEW S \in SUBSET (0..n), S # {}
    PROVE  \E m \in S : \A k \in S : m >= k
  <1> DEFINE T == {j \in 0..n : n - j \in S}
  <1>1. \A k \in S : n - k \in T
    OBVIOUS
  <1>2. T \in SUBSET Nat /\ T # {}
    <2>1. T \subseteq Nat
      OBVIOUS
    <2>2. PICK k \in S : TRUE
      OBVIOUS
    <2>3. n - k \in T
      BY <1>1
    <2> QED BY <2>1, <2>3
  <1>3. PICK m \in T : \A k \in T : m <= k
    BY <1>2, Least
  <1>4. \A k \in S : n - m >= k
    BY <1>1, <1>3
  <1> QED BY <1>3, <1>4

(* Min is an element, and where it should be.                              *)
LEMMA MinIs ==
    ASSUME NEW S \in SUBSET Nat, S # {}
    PROVE  Min(S) \in S /\ \A k \in S : Min(S) <= k
  BY Least DEF Min

(* Max is an element, and where it should be.                              *)
LEMMA MaxIs ==
    ASSUME NEW n \in Nat, NEW S \in SUBSET (0..n), S # {}
    PROVE  Max(S) \in S /\ \A k \in S : Max(S) >= k
  BY Greatest DEF Max

(* What ID_OPEN, the jumps and the end of the song leave for the metronome:*)
(* nowTiming names a red line, or there is none but perhaps the last entry,*)
(* which getFirstTiming does not see.                                      *)
Followable ==
    nowTiming # NULL => Red(nowTiming) \/ \A i \in 0..(OSU_TIMING_MAX - 2) : ~Red(i)

Sorted == \A i, j \in 0..(size - 1) : i < j => Offset(i) <= Offset(j)

(* After a tick of the metronome `bar' is the place of that tick.          *)
Counted ==
    (metered /\ nowTiming # NULL) =>
        /\ Red(nowTiming) /\ Offset(nowTiming) <= at
        /\ bar = ((((at - Offset(nowTiming)) * 2) \div TimingPoints[nowTiming].length)
                    % TimingPoints[nowTiming].meter)

Typed ==
    /\ TimingPoints \in [Entry -> Lines] /\ size \in 0..OSU_TIMING_MAX
    /\ nowTiming \in Entry \cup {NULL}
    /\ lead \in Nat /\ songTime \in Int /\ at \in Int
    /\ position \in 0..End /\ reported \in 0..End
    /\ metered \in BOOLEAN

Inv == Typed /\ Followable /\ Sorted /\ Counted

-----------------------------------------------------------------------------
LEMMA RedLine ==
    ASSUME NEW l \in Lines
    PROVE  /\ l.offset \in Int /\ l.red \in BOOLEAN
           /\ l.red => l.length \in Nat \ {0} /\ l.meter \in Nat \ {0}
  <1>1. CASE l = Zero
    BY <1>1 DEF Zero
  <1>2. CASE l # Zero
    BY <1>2, TimingAssumption
  <1> QED BY <1>1, <1>2

LEMMA Entries ==
    ASSUME Typed, NEW i \in Entry
    PROVE  /\ TimingPoints[i] \in Lines /\ Offset(i) \in Int /\ Red(i) \in BOOLEAN
           /\ Red(i) => TimingPoints[i].length \in Nat \ {0} /\ TimingPoints[i].meter \in Nat \ {0}
  <1>1. TimingPoints[i] \in Lines
    BY DEF Typed
  <1> QED BY <1>1, RedLine DEF Offset, Red

LEMMA EntryNat == Entry \subseteq Nat /\ OSU_TIMING_MAX - 1 \in Nat /\ Entry = 0..(OSU_TIMING_MAX - 1)
  BY TimingAssumption DEF Entry

LEMMA LastOfIs ==
    ASSUME NEW S \in SUBSET Entry
    PROVE  /\ S = {} => LastOf(S) = NULL
           /\ S # {} => LastOf(S) \in S /\ \A k \in S : LastOf(S) >= k
           /\ LastOf(S) \in S \cup {NULL}
  <1>1. CASE S = {}
    BY <1>1 DEF LastOf
  <1>2. CASE S # {}
    <2>1. Max(S) \in S /\ \A k \in S : Max(S) >= k
      BY <1>2, EntryNat, MaxIs
    <2> QED BY <1>2, <2>1 DEF LastOf
  <1> QED BY <1>1, <1>2

LEMMA FirstOfIs ==
    ASSUME NEW S \in SUBSET Entry
    PROVE  /\ S = {} => FirstOf(S) = NULL
           /\ S # {} => FirstOf(S) \in S /\ \A k \in S : FirstOf(S) <= k
           /\ FirstOf(S) \in S \cup {NULL}
  <1>1. CASE S = {}
    BY <1>1 DEF FirstOf
  <1>2. CASE S # {}
    <2>1. Min(S) \in S /\ \A k \in S : Min(S) <= k
      BY <1>2, EntryNat, MinIs
    <2> QED BY <1>2, <2>1 DEF FirstOf
  <1> QED BY <1>1, <1>2

(* The doubly divided index is not beyond the entry.                       *)
LEMMA IndexIs ==
    ASSUME NEW i \in Entry
    PROVE  getTimingIndex(i) \in Nat /\ getTimingIndex(i) <= i
  <1>1. EntrySize \in Nat \ {0} /\ i \in Nat
    BY TimingAssumption, EntryNat
  <1> HIDE DEF Entry
  <1>2. PICK d \in Nat : d = EntrySize /\ d > 0
    BY <1>1
  <1>3. i \div d \in Int /\ d * (i \div d) <= i /\ i < d * ((i \div d) + 1)
    BY <1>1, <1>2
  <1>4. PICK q \in Int : q = i \div d
    BY <1>3
  <1>5. q >= 0
    BY <1>1, <1>2, <1>3, <1>4
  <1>6. q <= d * q
    BY <1>2, <1>5
  <1> QED BY <1>1, <1>2, <1>3, <1>4, <1>5, <1>6 DEF getTimingIndex
-----------------------------------------------------------------------------
(* The searches return red lines that have begun.                          *)

Begun(i, pos) == i # NULL => i \in Entry /\ Red(i) /\ Offset(i) <= pos

LEMMA Searched ==
    ASSUME Typed, NEW pos \in Int, NEW n \in Nat
    PROVE  /\ Begun(getTimingFromPosition2(pos), pos)
           /\ Begun(Before(n, pos), pos)
  <1>1. getTimingFromPosition2(pos) \in {i \in Entry : Red(i) /\ Offset(i) <= pos} \cup {NULL}
    BY LastOfIs DEF getTimingFromPosition2
  <1>2. Before(n, pos) \in {j \in Entry : j < n /\ Red(j) /\ Offset(j) <= pos} \cup {NULL}
    BY LastOfIs DEF Before
  <1> QED BY <1>1, <1>2 DEF Begun

(* A line that is not red is only looked up if no line but the last is.    *)
LEMMA LooksBackInVain ==
    ASSUME NEW i \in Entry, ~Red(i), \A j \in 0..(OSU_TIMING_MAX - 2) : ~Red(j) \/ j >= i
    PROVE  LastOf({j \in Entry : j < getTimingIndex(i) /\ Red(j)}) = NULL
  <1>1. getTimingIndex(i) \in Nat /\ getTimingIndex(i) <= i /\ i \in 0..(OSU_TIMING_MAX - 1)
    BY IndexIs, EntryNat
  <1> DEFINE n == getTimingIndex(i)
  <1> HIDE DEF n
  <1>2. \A j \in Entry : j < n => j \in 0..(OSU_TIMING_MAX - 2) /\ j < i
    <2>1. n \in Nat /\ n <= i /\ i <= OSU_TIMING_MAX - 1 /\ i \in Nat /\ OSU_TIMING_MAX \in Nat
      BY <1>1, TimingAssumption DEF n
    <2> QED BY <2>1 DEF Entry
  <1>3. {j \in Entry : j < n /\ Red(j)} = {}
    BY <1>1, <1>2, EntryNat
  <1> QED BY <1>3, LastOfIs DEF n

LEMMA KnownBegun ==
    ASSUME Typed, NEW i \in Entry, NEW pos \in Int,
           Red(i) \/ \A j \in 0..(OSU_TIMING_MAX - 2) : ~Red(j) \/ j >= i
    PROVE  Begun(Known(i, pos), pos)
  <1>1. Offset(i) \in Int /\ getTimingIndex(i) \in Nat
    BY Entries, IndexIs
  <1>2. CASE Offset(i) > pos
    BY <1>1, <1>2, Searched DEF Known
  <1>3. CASE ~(Offset(i) > pos) /\ ~NotReached(getNextTiming(i), pos)
    BY <1>3, Searched DEF Known
  <1>4. CASE ~(Offset(i) > pos) /\ NotReached(getNextTiming(i), pos) /\ Red(i)
    BY <1>1, <1>4 DEF Known, Begun
  <1>5. CASE ~(Offset(i) > pos) /\ NotReached(getNextTiming(i), pos) /\ ~Red(i)
    BY <1>5, LooksBackInVain DEF Known, Begun
  <1> QED BY <1>2, <1>3, <1>4, <1>5

LEMMA FollowedBegun ==
    ASSUME Inv
    PROVE  Begun(getTimingFromPosition(nowTiming, songTime), songTime)
  <1>1. songTime \in Int /\ Typed /\ Followable /\ nowTiming \in Entry \cup {NULL} /\ 0 \in Entry
    BY EntryNat DEF Inv, Typed
  <1>2. CASE nowTiming = NULL
    <2>1. Begun(Known(0, songTime), songTime)
      BY <1>1, KnownBegun
    <2> QED BY <1>2, <2>1 DEF getTimingFromPosition, Unknown
  <1>3. CASE nowTiming # NULL
    <2>1. Begun(Known(nowTiming, songTime), songTime)
      BY <1>1, <1>3, KnownBegun DEF Followable
    <2> QED BY <1>3, <2>1 DEF getTimingFromPosition
  <1> QED BY <1>2, <1>3

(* Where ID_OPEN and endSyncProc look the line up anew.                    *)
LEMMA FoundFollowable ==
    ASSUME Typed, NEW pos \in Int
    PROVE  LET i == getTimingFromPosition2(pos) IN i \in Entry \cup {NULL} /\ (i # NULL => Red(i))
  BY Searched, 0 \in Nat DEF Begun

(* S are the red lines: getFirstTiming misses the last entry.              *)
LEMMA NoFirst ==
    ASSUME NEW S \in SUBSET Entry,
           FirstOf(S) = NULL \/ FirstOf(S) = OSU_TIMING_MAX - 1
    PROVE  \A i \in 0..(OSU_TIMING_MAX - 2) : i \notin S
  <1>1. SUFFICES ASSUME NEW i \in 0..(OSU_TIMING_MAX - 2), i \in S PROVE FALSE
    OBVIOUS
  <1>2. FirstOf(S) \in S /\ FirstOf(S) <= i
    BY <1>1, FirstOfIs
  <1>3. FirstOf(S) \in Nat /\ OSU_TIMING_MAX \in Nat
    BY <1>2, EntryNat, TimingAssumption
  <1>4. i < OSU_TIMING_MAX - 1
    BY <1>1, TimingAssumption
  <1> QED BY <1>2, <1>3, <1>4 DEF NULL

-----------------------------------------------------------------------------
(* Every step keeps the invariant.                                         *)

LEMMA BeatmapIs ==
    ASSUME NEW b \in Beatmaps
    PROVE  /\ Len(b.lines) \in 1..OSU_TIMING_MAX /\ b.lead \in Nat
           /\ b.lines \in Seq(Lines)
           /\ \A i, j \in 1..Len(b.lines) : i < j => b.lines[i].offset <= b.lines[j].offset
  BY TimingAssumption

LEMMA InitInv == Init => Inv
  <1> SUFFICES ASSUME Init PROVE Inv
    OBVIOUS
  <1>1. Zero \in Lines
    BY DEF Lines
  <1>2. Typed
    <2>1. TimingPoints \in [Entry -> Lines] /\ nowTiming \in Entry \cup {NULL} /\ metered \in BOOLEAN
      BY <1>1 DEF Init
    <2>2. size \in 0..OSU_TIMING_MAX /\ 0 \in 0..End
      BY TimingAssumption DEF Init
    <2>3. lead \in Nat /\ songTime \in Int /\ at \in Int
      BY DEF Init
    <2>4. position \in 0..End /\ reported \in 0..End
      BY <2>2 DEF Init
    <2> QED BY <2>1, <2>2, <2>3, <2>4 DEF Typed
  <1>3. Followable
    BY DEF Init, Followable
  <1>4. Sorted
    BY DEF Init, Sorted
  <1>5. Counted
    BY DEF Init, Counted
  <1> QED BY <1>2, <1>3, <1>4, <1>5 DEF Inv

(* What is left to show of a step that is no tick of the metronome and     *)
(* does not touch the beatmap.                                             *)
LEMMA Unread ==
    ASSUME Inv, UNCHANGED file, metered' = FALSE, at' \in Int,
           songTime' \in Int, position' \in 0..End, reported' \in 0..End,
           nowTiming' \in Entry \cup {NULL},
           nowTiming' # NULL => nowTiming' = nowTiming \/ Red(nowTiming')
    PROVE  Inv'
  <1>1. Typed'
    BY DEF Inv, Typed, file
  <1>2. Followable'
    BY DEF Inv, Followable, Red, file
  <1>3. Sorted'
    BY DEF Inv, Sorted, Offset, file
  <1>4. Counted'
    BY DEF Counted
  <1> QED BY <1>1, <1>2, <1>3, <1>4 DEF Inv

LEMMA RestartInv ==
    ASSUME Inv, SongEnds
    PROVE  Inv'
  <1> DEFINE now == getTimingFromPosition2(-lead)
  <1>1. lead \in Nat /\ Typed /\ -lead \in Int
    BY DEF Inv, Typed
  <1>2. now \in Entry \cup {NULL} /\ (now # NULL => Red(now))
    BY <1>1, FoundFollowable
  <1>3. songTime' = -((lead \div Second) * Second) /\ position' = 0 /\ reported' = 0 /\ nowTiming' = now
    BY DEF SongEnds, Restart
  <1>4. songTime' \in Int /\ position' \in 0..End /\ reported' \in 0..End
    BY <1>1, <1>3, TimingAssumption
  <1>5. metered' = FALSE /\ at' \in Int
    BY DEF SongEnds, Unmetered
  <1>6. UNCHANGED file
    BY DEF SongEnds
  <1>7. nowTiming' \in Entry \cup {NULL} /\ (nowTiming' # NULL => nowTiming' = nowTiming \/ Red(nowTiming'))
    BY <1>2, <1>3
  <1> QED BY <1>4, <1>5, <1>6, <1>7, Unread

LEMMA OpenInv ==
    ASSUME Inv, NEW b \in Beatmaps, NEW playable \in BOOLEAN, Open(b, playable)
    PROVE  Inv'
  <1>1. TimingPoints' = Overwritten(b.lines) /\ size' = Len(b.lines) /\ lead' = b.lead
        /\ metered' = FALSE /\ at' = 0
    BY DEF Open, Unmetered
  <1>2. \A i \in Entry : i < Len(b.lines) => b.lines[i + 1] \in Lines
    <2>1. \A i \in Entry : i < Len(b.lines) => i + 1 \in 1..Len(b.lines)
      BY BeatmapIs, EntryNat
    <2> QED BY <2>1, BeatmapIs
  <1>3. TimingPoints' \in [Entry -> Lines]
    BY <1>1, <1>2 DEF Overwritten, Inv, Typed
  <1>4. Sorted'
    <2>1. SUFFICES ASSUME NEW i \in 0..(size' - 1), NEW j \in 0..(size' - 1), i < j
                   PROVE  TimingPoints'[i].offset <= TimingPoints'[j].offset
      BY DEF Sorted, Offset
    <2>2. size' \in Nat /\ size' <= OSU_TIMING_MAX /\ OSU_TIMING_MAX \in Nat
      BY <1>1, BeatmapIs, TimingAssumption
    <2>3. i \in Entry /\ j \in Entry /\ i < Len(b.lines) /\ j < Len(b.lines)
      BY <1>1, <2>2 DEF Entry
    <2>4. TimingPoints'[i] = b.lines[i + 1] /\ TimingPoints'[j] = b.lines[j + 1]
      BY <1>1, <2>3 DEF Overwritten
    <2>5. i + 1 \in 1..Len(b.lines) /\ j + 1 \in 1..Len(b.lines) /\ i + 1 < j + 1
      BY <2>1, <2>2, <1>1
    <2> QED BY <2>4, <2>5, BeatmapIs
  <1>5. Counted'
    BY <1>1 DEF Counted
  <1>6. size' \in 0..OSU_TIMING_MAX /\ lead' \in Nat /\ at' \in Int /\ metered' \in BOOLEAN
    <2>1. at' = 0 /\ metered' \in BOOLEAN
      BY <1>1
    <2>2. size' = Len(b.lines) /\ lead' = b.lead
      BY <1>1
    <2>3. size' \in 1..OSU_TIMING_MAX /\ lead' \in Nat
      BY <2>2, BeatmapIs
    <2> QED BY <2>1, <2>3, TimingAssumption
  <1> DEFINE Reds == {j \in Entry : TimingPoints'[j].red}
  <1>7. CASE getFirstTiming' = NULL
    <2>1. UNCHANGED <<songTime, position, reported, nowTiming>>
      BY <1>7 DEF Open
    <2>2. Typed'
      BY <1>3, <1>6, <2>1 DEF Inv, Typed
    <2>3. FirstOf(Reds) = NULL \/ FirstOf(Reds) = OSU_TIMING_MAX - 1
      <3>1. FirstOf(Reds) \in Reds \cup {NULL}
        BY FirstOfIs
      <3>2. FirstOf(Reds) # NULL => FirstOf(Reds) + 1 # NULL
        BY <3>1, EntryNat DEF NULL
      <3> QED BY <1>7, <3>2 DEF getFirstTiming, Red
    <2>4. \A i \in 0..(OSU_TIMING_MAX - 2) : i \notin Reds
      BY <2>3, NoFirst
    <2>5. \A i \in 0..(OSU_TIMING_MAX - 2) : i \in Entry
      BY TimingAssumption DEF Entry
    <2>6. Followable'
      BY <2>4, <2>5 DEF Followable, Red
    <2> QED BY <1>4, <1>5, <2>2, <2>6 DEF Inv
  <1>8. CASE getFirstTiming' # NULL
    <2>1. /\ songTime' = -((b.lead \div Second) * Second)
          /\ position' = 0 /\ reported' = 0
          /\ nowTiming' = LastOf({i \in Entry : TimingPoints'[i].red /\ TimingPoints'[i].offset <= -b.lead})
      BY <1>8 DEF Open, Restart, getTimingFromPosition2, Red, Offset
    <2>2. nowTiming' \in Entry \cup {NULL} /\ (nowTiming' # NULL => TimingPoints'[nowTiming'].red)
      BY <2>1, LastOfIs
    <2>3. songTime' \in Int /\ position' \in 0..End /\ reported' \in 0..End
      BY <2>1, BeatmapIs, TimingAssumption
    <2>4. Typed'
      BY <1>3, <1>6, <2>2, <2>3 DEF Typed
    <2>5. Followable'
      BY <2>2 DEF Followable, Red
    <2> QED BY <1>4, <1>5, <2>4, <2>5 DEF Inv
  <1> QED BY <1>7, <1>8

LEMMA AdvanceType ==
    ASSUME Typed, NEW played \in Positions, Advance(played)
    PROVE  songTime' \in Int /\ position' \in 0..End /\ reported' \in 0..End
  <1>1. played \in 0..End /\ songTime \in Int /\ reported \in 0..End /\ End \in Nat
    BY TimingAssumption DEF Positions, Typed
  <1> DEFINE next == Min({songTime + 1, End + 1})
  <1>2. next \in Int
    <2>1. songTime + 1 \in Int /\ End + 1 \in Int
      BY <1>1
    <2>2. \A x, y \in Int : Min({x, y}) \in Int
      <3>1. SUFFICES ASSUME NEW x \in Int, NEW y \in Int PROVE Min({x, y}) \in Int
        OBVIOUS
      <3>2. \E m \in {x, y} : \A k \in {x, y} : m <= k
        OBVIOUS
      <3>3. Min({x, y}) \in {x, y}
        BY <3>2 DEF Min
      <3> QED BY <3>3
    <2> QED BY <2>1, <2>2
  <1> HIDE DEF next
  <1>3. songTime' = next \/ songTime' = (next + played) \div 2
    BY DEF Advance, next
  <1>4. position' = played /\ (reported' = reported \/ reported' = played)
    BY DEF Advance
  <1> QED BY <1>1, <1>2, <1>3, <1>4

LEMMA TickInv ==
    ASSUME Inv, NEW played \in Positions, Tick(played)
    PROVE  Inv'
  <1>1. songTime' \in Int /\ position' \in 0..End /\ reported' \in 0..End /\ UNCHANGED file
    BY AdvanceType DEF Tick, Inv
  <1>2. CASE ~isNC
    <2>1. metered' = FALSE /\ at' \in Int /\ nowTiming' = nowTiming
      BY <1>2 DEF Tick, Rests
    <2> QED BY <1>1, <2>1, Unread DEF Inv, Typed
  <1>3. CASE isNC
    <2> DEFINE now == getTimingFromPosition(nowTiming, songTime)
    <2>1. Begun(now, songTime)
      BY FollowedBegun
    <2>2. /\ nowTiming' = now /\ metered' = TRUE /\ at' = songTime
          /\ now # NULL => bar' = Place(now)
      BY <1>3 DEF Tick, Metronome, Remembered
    <2> HIDE DEF now
    <2>3. Typed'
      BY <1>1, <2>1, <2>2 DEF Inv, Typed, Begun, file
    <2>4. Followable'
      BY <1>1, <2>1, <2>2 DEF Followable, Begun, Red, file
    <2>5. Sorted'
      BY <1>1 DEF Inv, Sorted, Offset, file
    <2>6. Counted'
      BY <1>1, <2>1, <2>2 DEF Counted, Begun, Red, Offset, Place, HalfBeat, file
    <2> QED BY <2>3, <2>4, <2>5, <2>6 DEF Inv
  <1> QED BY <1>2, <1>3

LEMMA StepInv == Inv /\ [Next]_vars => Inv'
  <1> SUFFICES ASSUME Inv, [Next]_vars PROVE Inv'
    OBVIOUS
  <1>1. CASE UNCHANGED vars
    BY <1>1 DEF vars, file, past, Inv, Typed, Followable, Sorted, Counted, Red, Offset
  <1>2. ASSUME NEW b \in Beatmaps, NEW playable \in BOOLEAN, Open(b, playable) PROVE Inv'
    BY <1>2, OpenInv
  <1>3. ASSUME NEW nc \in BOOLEAN, Rate(nc) PROVE Inv'
    <2>1. metered' = FALSE /\ at' \in Int /\ UNCHANGED file /\ nowTiming' = nowTiming
      BY <1>3 DEF Rate, Rests
    <2>2. songTime' \in Int /\ position' \in 0..End /\ reported' \in 0..End
          /\ nowTiming' \in Entry \cup {NULL}
      BY <1>3 DEF Rate, Inv, Typed
    <2> QED BY <2>1, <2>2, Unread
  <1>4. ASSUME NEW p \in 0..End, Seek(p) PROVE Inv'
    <2>1. metered' = FALSE /\ at' \in Int /\ UNCHANGED file /\ nowTiming' = nowTiming
      BY <1>4 DEF Seek, Rests
    <2>2. songTime \in Int
      BY DEF Inv, Typed
    <2>3. songTime' \in Int
      BY <1>4, <2>2 DEF Seek
    <2>4. position' \in 0..End /\ reported' \in 0..End /\ nowTiming' \in Entry \cup {NULL}
      BY <1>4 DEF Seek, Inv, Typed
    <2> QED BY <2>1, <2>3, <2>4, Unread
  <1>5. CASE SongEnds
    BY <1>5, RestartInv
  <1> QED BY <1>1, <1>2, <1>3, <1>4, <1>5, TickInv DEF Next
-----------------------------------------------------------------------------
(* Whatever the files, the jumps and the order they come in, the metronome *)
(* counts from a red line that has begun (beatmap.c:19-56, bpm.c:217-230). *)
THEOREM CountsFromBegun == Spec => []NowHasBegun
  <1>1. Inv => NowHasBegun
    BY DEF Inv, Counted, NowHasBegun
  <1> QED BY <1>1, InitInv, StepInv, PTL DEF Spec

(* Of two numbers next to each other the remainders differ.                *)
LEMMA NextPlace ==
    ASSUME NEW m \in Nat, m > 1, NEW n \in Int
    PROVE  (n + 1) % m # n % m
  <1>1. n = m * (n \div m) + (n % m) /\ n \div m \in Int /\ n % m \in Int
    OBVIOUS
  <1>2. n + 1 = m * ((n + 1) \div m) + ((n + 1) % m) /\ (n + 1) \div m \in Int /\ (n + 1) % m \in Int
    OBVIOUS
  <1>3. SUFFICES ASSUME (n + 1) % m = n % m PROVE FALSE
    OBVIOUS
  <1> DEFINE q == n \div m
             p == (n + 1) \div m
  <1>4. m * p = m * q + 1 /\ p \in Int /\ q \in Int
    BY <1>1, <1>2, <1>3
  <1> HIDE DEF q, p
  <1>5. m * (p - q) = 1
    BY <1>4
  <1>6. PICK d \in Int : d = p - q
    BY <1>4
  <1>7. d <= 0 \/ d >= 1
    BY <1>6
  <1>8. m * d = 1
    BY <1>5, <1>6
  <1> QED BY <1>7, <1>8

LEMMA EvenPlace ==
    ASSUME NEW n \in Int, n % 2 = 0
    PROVE  n % 4 = 0 \/ n % 4 = 2
  OBVIOUS

LEMMA NoRemainder ==
    ASSUME NEW m \in Nat \ {0}, NEW q \in Int
    PROVE  (m * q) % m = 0
  <1> DEFINE n == m * q
  <1>1. n \in Int
    OBVIOUS
  <1> HIDE DEF n
  <1>2. n = m * (n \div m) + (n % m) /\ n \div m \in Int /\ n % m \in 0..(m - 1)
    BY <1>1
  <1>3. PICK d \in Int : d = q - (n \div m)
    BY <1>2
  <1>4. n % m = m * d
    BY <1>2, <1>3 DEF n
  <1>5. n % m >= 0 /\ n % m < m
    BY <1>2
  <1>6. CASE d <= -1
    <2>1. m * d < 0
      BY <1>6
    <2> QED BY <1>4, <1>5, <2>1
  <1>7. CASE d >= 1
    <2>1. m * d >= m
      BY <1>7
    <2> QED BY <1>2, <1>4, <1>5, <2>1
  <1>8. CASE d = 0
    BY <1>4, <1>8
  <1>9. d <= -1 \/ d = 0 \/ d >= 1
    BY <1>3
  <1> QED BY <1>6, <1>7, <1>8, <1>9 DEF n

(* The beats are struck when the half beat is another than the last one.   *)
LEMMA StruckSome ==
    ASSUME NEW i \in Entry, Place(i) % 2 = 0 \/ evenRate, Place(i) \in Int
    PROVE  Struck(i) # {}
  <1>1. Place(i) % 4 = 0 \/ Place(i) % 4 = 2 \/ evenRate
    BY EvenPlace
  <1> QED BY <1>1 DEF Struck

(* At an odd place of the bar nothing but the hat is struck.               *)
LEMMA StruckNone ==
    ASSUME Inv, NEW i \in Entry, HalfBeat(i) \in Int, TimingPoints[i].meter \in Nat \ {0},
           Place(i) % 2 # 0, ~evenRate
    PROVE  Struck(i) = {}
  <1> DEFINE m == TimingPoints[i].meter
             n == HalfBeat(i)
             p == Place(i)
  <1>1. p = n % m /\ p \in Int
    BY DEF Place
  <1>2. p % 4 # 0 /\ p % 4 # 2
    <2>1. p % 2 # 0
      OBVIOUS
    <2> HIDE DEF p
    <2> QED BY <1>1, <2>1
  <1>3. n % (8 * m) # 0
    <2> SUFFICES ASSUME n % (8 * m) = 0 PROVE FALSE
      OBVIOUS
    <2>1. m \in Nat \ {0} /\ n \in Int /\ 8 * m \in Nat \ {0} /\ p % 2 # 0
      OBVIOUS
    <2> HIDE DEF m, n, p
    <2>2. n = (8 * m) * (n \div (8 * m)) + (n % (8 * m)) /\ n \div (8 * m) \in Int
      BY <2>1
    <2>3. PICK q \in Int : q = 8 * (n \div (8 * m))
      BY <2>2
    <2>4. n = m * q
      BY <2>1, <2>2, <2>3
    <2>5. n % m = 0
      BY <2>1, <2>4, NoRemainder
    <2> QED BY <1>1, <2>1, <2>5
  <1> HIDE DEF m, n, p
  <1> QED BY <1>2, <1>3 DEF Struck, m, n, p

LEMMA MetronomeStrikes ==
    ASSUME Inv, NEW now \in {nowTiming} \ {NULL}, metered, metered', nowTiming' = now,
           [Next]_vars, vars' # vars
    PROVE  LET before == ((at - Offset(now)) * 2) \div TimingPoints[now].length
               after  == ((at' - Offset(now)) * 2) \div TimingPoints[now].length
               place  == after % TimingPoints[now].meter
           IN  /\ after = before => sound' = {}
               /\ after = before + 1 =>
                     (sound' # {} <=> TimingPoints[now].meter # 1 /\ (place % 2 = 0 \/ evenRate))
  <1> DEFINE before == ((at - Offset(now)) * 2) \div TimingPoints[now].length
             m == TimingPoints[now].meter
  <1>1. \E played \in Positions : Tick(played)
    BY DEF Next, Open, Rate, Seek, SongEnds, Unmetered, Rests
  <1>2. Metronome
    BY <1>1 DEF Tick, Rests
  <1>3. now \in Entry /\ now # NULL /\ songTime \in Int /\ at \in Int
    BY DEF Inv, Typed
  <1>4. /\ Offset(now) \in Int /\ TimingPoints[now].length \in Nat \ {0} /\ m \in Nat \ {0}
        /\ bar = before % m
    BY <1>3, Entries DEF Inv, Counted
  <1>5. before \in Int /\ HalfBeat(now) \in Int
    BY <1>3, <1>4 DEF HalfBeat
  <1>6. Place(now) \in Int
    BY <1>4, <1>5 DEF Place
  <1>7. /\ at' = songTime
        /\ IF Place(now) = bar THEN sound' = {} ELSE sound' = Struck(now)
    BY <1>2, <1>3 DEF Metronome
  <1>8. HalfBeat(now) = ((at' - Offset(now)) * 2) \div TimingPoints[now].length
    BY <1>7 DEF HalfBeat
  <1>9. HalfBeat(now) = before => sound' = {}
    BY <1>4, <1>7 DEF Place
  <1>10. ASSUME HalfBeat(now) = before + 1, m # 1, Place(now) % 2 = 0 \/ evenRate
         PROVE  sound' # {}
    <2>0. m > 1
      BY <1>4, <1>10
    <2>1. Place(now) # bar
      BY <1>4, <1>5, <1>10, <2>0, NextPlace DEF Place
    <2> QED BY <1>3, <1>6, <1>7, <1>10, <2>1, StruckSome
  <1>11. ASSUME m = 1 \/ ~(Place(now) % 2 = 0 \/ evenRate)
         PROVE  sound' = {}
    <2>1. CASE m = 1
      <3>1. before % m = 0 /\ HalfBeat(now) % m = 0
        BY <1>5, <2>1
      <3> QED BY <1>4, <1>7, <3>1 DEF Place
    <2>2. CASE ~(Place(now) % 2 = 0 \/ evenRate)
      BY <1>3, <1>4, <1>5, <1>7, <2>2, StruckNone
    <2> QED BY <1>11, <2>1, <2>2
  <1> HIDE DEF before, m
  <1> QED BY <1>8, <1>9, <1>10, <1>11 DEF Place, before, m

(* Of two ticks in a row on one line the second is silent while the half   *)
(* beat goes on; at the next half beat it strikes, except on a line of     *)
(* metre 1, which is silent after its first tick, and at odd places of the *)
(* bar with an odd tick rate (bpm.c:229-246).                              *)
THEOREM StruckOnce == Spec => BeatsStruckOnce
  <1>1. Inv /\ [Next]_vars =>
          [\A now \in {nowTiming} \ {NULL} :
             (metered /\ metered' /\ nowTiming' = now /\ vars' # vars) =>
                LET before == ((at - Offset(now)) * 2) \div TimingPoints[now].length
                    after  == ((at' - Offset(now)) * 2) \div TimingPoints[now].length
                    place  == after % TimingPoints[now].meter
                IN  /\ after = before => sound' = {}
                    /\ after = before + 1 =>
                          (sound' # {} <=> TimingPoints[now].meter # 1 /\ (place % 2 = 0 \/ evenRate))]_vars
    BY MetronomeStrikes
  <1> QED BY <1>1, InitInv, StepInv, PTL DEF Spec, BeatsStruckOnce
-----------------------------------------------------------------------------
(* A tick from a line that has begun finds the line the song is at.        *)

LEMMA Fresh ==
    ASSUME Inv, ~Stale, NEW i \in Entry, Red(i)
    PROVE  i \in 0..(size - 1)
  <1>1. ~(i >= size)
    BY DEF Stale
  <1>2. i \in Nat /\ size \in Nat
    BY EntryNat, TimingAssumption DEF Inv, Typed
  <1> QED BY <1>1, <1>2

LEMMA RightIsLast ==
    ASSUME Inv, ~Stale, NEW pos
    PROVE  Right(pos) = getTimingFromPosition2(pos)
  <1>1. 0..(size - 1) \subseteq Entry
    BY TimingAssumption DEF Inv, Typed, Entry
  <1>2. {i \in 0..(size - 1) : Red(i) /\ Offset(i) <= pos} = {i \in Entry : Red(i) /\ Offset(i) <= pos}
    BY <1>1, Fresh
  <1> QED BY <1>2 DEF Right, getTimingFromPosition2

(* Red lines beyond a next line that is not reached are not reached.       *)
LEMMA NoneBeyond ==
    ASSUME Inv, ~Stale, NEW i \in Entry, NEW pos \in Int, NotReached(getNextTiming(i), pos),
           NEW k \in Entry, Red(k), k > getTimingIndex(i)
    PROVE  Offset(k) > pos
  <1> DEFINE N == {j \in Entry : j > getTimingIndex(i) /\ Red(j)}
             f == FirstOf(N)
  <1>1. f \in N /\ f <= k
    BY FirstOfIs
  <1>2. f \in Entry /\ Red(f) /\ f # NULL /\ f \in Nat /\ k \in Nat
    BY <1>1, EntryNat DEF NULL
  <1>3. Offset(f) > pos
    BY <1>2 DEF NotReached, getNextTiming
  <1>4. Offset(f) \in Int /\ Offset(k) \in Int
    BY <1>2, Entries DEF Inv
  <1>5. f \in 0..(size - 1) /\ k \in 0..(size - 1)
    BY <1>2, Fresh
  <1> HIDE DEF f, N
  <1>6. f = k \/ f < k
    BY <1>1, <1>2
  <1>7. Offset(f) <= Offset(k)
    BY <1>4, <1>5, <1>6 DEF Inv, Sorted
  <1> QED BY <1>3, <1>4, <1>7

LEMMA KnownRight ==
    ASSUME Inv, ~Stale, NEW i \in Entry, NEW pos \in Int,
           Red(i) \/ \A j \in 0..(OSU_TIMING_MAX - 2) : ~Red(j) \/ j >= i,
           i = 0 \/ ~(Offset(i) > pos)
    PROVE  Known(i, pos) = Right(pos)
  <1> DEFINE R == {j \in Entry : Red(j) /\ Offset(j) <= pos}
  <1>1. Right(pos) = LastOf(R)
    BY RightIsLast DEF getTimingFromPosition2
  <1>2. getTimingIndex(i) \in Nat /\ getTimingIndex(i) <= i /\ i \in Nat /\ Offset(i) \in Int
    BY IndexIs, EntryNat, Entries DEF Inv
  <1>3. CASE Offset(i) > pos
    <2>1. i = 0 /\ getTimingIndex(i) = 0
      BY <1>2, <1>3
    <2>2. {j \in Entry : j < 0 /\ Red(j) /\ Offset(j) <= pos} = {}
      BY EntryNat
    <2>3. Known(i, pos) = NULL
      BY <1>3, <2>1, <2>2, LastOfIs DEF Known, Before
    <2>4. ASSUME NEW k \in R PROVE FALSE
      <3>1. k \in 0..(size - 1) /\ Offset(k) \in Int /\ 0 \in 0..(size - 1)
        BY <2>4, Fresh, Entries DEF Inv, Typed
      <3>2. Offset(0) <= Offset(k)
        BY <3>1, <2>1, <1>2 DEF Inv, Sorted
      <3> QED BY <1>2, <1>3, <2>1, <2>4, <3>1, <3>2
    <2> QED BY <1>1, <2>3, <2>4, LastOfIs
  <1>4. CASE ~(Offset(i) > pos) /\ ~NotReached(getNextTiming(i), pos)
    BY <1>4, RightIsLast DEF Known
  <1>5. CASE ~(Offset(i) > pos) /\ NotReached(getNextTiming(i), pos) /\ Red(i)
    <2>1. i \in R
      BY <1>2, <1>5
    <2>2. LastOf(R) \in R /\ LastOf(R) >= i
      BY <2>1, LastOfIs
    <2>3. ASSUME NEW k \in R, k >= i PROVE k = i
      <3>1. k \in Nat /\ Offset(k) \in Int
        BY <2>3, EntryNat, Entries DEF Inv
      <3>2. SUFFICES ASSUME k > i PROVE FALSE
        BY <1>2, <2>3, <3>1
      <3>3. k > getTimingIndex(i)
        BY <1>2, <3>1, <3>2
      <3>4. Offset(k) > pos
        BY <1>5, <2>3, <3>3, NoneBeyond
      <3> QED BY <2>3, <3>1, <3>4
    <2> HIDE DEF R
    <2>4. Right(pos) = i
      BY <1>1, <2>2, <2>3
    <2> QED BY <1>5, <2>4 DEF Known
  <1>6. CASE ~(Offset(i) > pos) /\ NotReached(getNextTiming(i), pos) /\ ~Red(i)
    <2>1. Known(i, pos) = NULL
      BY <1>6, LooksBackInVain DEF Known
    <2>2. ASSUME NEW k \in R PROVE FALSE
      <3>1. k \in Nat /\ Offset(k) \in Int /\ k # i /\ Red(k) /\ k \in Entry /\ Offset(k) <= pos
        BY <1>6, <2>2, EntryNat, Entries DEF Inv
      <3>2. k >= i
        <4>1. k = OSU_TIMING_MAX - 1 \/ k \in 0..(OSU_TIMING_MAX - 2)
          BY <3>1, TimingAssumption DEF Entry
        <4>2. i <= OSU_TIMING_MAX - 1
          BY TimingAssumption DEF Entry
        <4> QED BY <1>6, <3>1, <4>1, <4>2
      <3>3. k > getTimingIndex(i)
        BY <1>2, <3>1, <3>2
      <3>4. Offset(k) > pos
        BY <1>6, <3>1, <3>3, NoneBeyond
      <3> QED BY <3>1, <3>4
    <2> QED BY <1>1, <2>1, <2>2, LastOfIs
  <1> QED BY <1>3, <1>4, <1>5, <1>6

LEMMA FollowedRight ==
    ASSUME Inv, ~Stale, nowTiming # NULL => ~(Offset(nowTiming) > songTime)
    PROVE  getTimingFromPosition(nowTiming, songTime) = Right(songTime)
  <1>1. songTime \in Int /\ Followable /\ nowTiming \in Entry \cup {NULL} /\ 0 \in Entry
    BY EntryNat DEF Inv, Typed
  <1>2. CASE nowTiming = NULL
    <2>1. \A j \in 0..(OSU_TIMING_MAX - 2) : j >= 0
      OBVIOUS
    <2>2. Known(0, songTime) = Right(songTime)
      BY <1>1, <2>1, KnownRight
    <2> QED BY <1>2, <2>2 DEF getTimingFromPosition, Unknown
  <1>3. CASE nowTiming # NULL
    <2>1. Known(nowTiming, songTime) = Right(songTime)
      BY <1>1, <1>3, KnownRight DEF Followable
    <2> QED BY <1>3, <2>1 DEF getTimingFromPosition
  <1> QED BY <1>2, <1>3

(* A tick finds the red line the song is at, or that there is none, unless *)
(* it starts from a line that has not begun or files read before were      *)
(* longer (beatmap.h:62-70, beatmap.c:29-38).                              *)
THEOREM FindsTheLine == Spec => []AstrayOnlyAfterJump
  <1>1. Init => AstrayOnlyAfterJump
    BY DEF Init, AstrayOnlyAfterJump
  <1>2. Inv /\ AstrayOnlyAfterJump /\ [Next]_vars => AstrayOnlyAfterJump'
    <2>1. SUFFICES ASSUME Inv, AstrayOnlyAfterJump, [Next]_vars, metered', astray'
                   PROVE  back' \/ Stale'
      BY DEF AstrayOnlyAfterJump
    <2>2. CASE UNCHANGED vars
      BY <2>1, <2>2 DEF vars, file, past, AstrayOnlyAfterJump, Stale, Red
    <2>3. CASE ~UNCHANGED vars
      <3>1. PICK played \in Positions : Tick(played)
        BY <2>1, <2>3 DEF Next, Open, Rate, Seek, SongEnds, Unmetered, Rests
      <3>2. Metronome /\ UNCHANGED file
        BY <2>1, <3>1 DEF Tick, Rests
      <3>3. /\ astray' = (getTimingFromPosition(nowTiming, songTime) # Right(songTime))
            /\ back' = (nowTiming # NULL /\ Offset(nowTiming) > songTime)
        BY <3>2 DEF Metronome
      <3>4. Stale' = Stale
        BY <3>2 DEF Stale, Red, file
      <3> QED BY <2>1, <3>3, <3>4, FollowedRight
    <2> QED BY <2>2, <2>3
  <1> QED BY <1>1, <1>2, InitInv, StepInv, PTL DEF Spec

(* The metronome keeps to the lines of the song: both of the above.        *)
THEOREM FollowsTheLine == Spec => []KeepsToTheLines
  BY CountsFromBegun, FindsTheLine, PTL DEF KeepsToTheLines
-----------------------------------------------------------------------------
LEMMA TimesIs ==
    ASSUME NEW t
    PROVE  t \in Times <=> \E l \in {0} \cup {b.lead : b \in Beatmaps} : t \in -l..(End + 1)
  BY DEF Times

(* The song's time stays between some file's lead-in and what follows End. *)
LEMMA ZeroTime == 0 \in Times
  BY TimesIs, TimingAssumption

LEMMA AdvanceTimes ==
    ASSUME songTime \in Times, NEW played \in 0..End, Advance(played)
    PROVE  songTime' \in Times
  <1>1. PICK l \in {0} \cup {b.lead : b \in Beatmaps} : songTime \in -l..(End + 1)
    BY TimesIs
  <1>2. l \in Nat /\ End \in Nat /\ played \in 0..End
    BY TimingAssumption
  <1> DEFINE next == Min({songTime + 1, End + 1})
  <1>3. next \in -l..(End + 1)
    <2>1. songTime + 1 \in Int /\ End + 1 \in Int /\ songTime + 1 >= -l /\ End + 1 >= -l
      BY <1>1, <1>2
    <2>2. \E m \in {songTime + 1, End + 1} : \A k \in {songTime + 1, End + 1} : m <= k
      BY <2>1
    <2>3. next \in {songTime + 1, End + 1} /\ next <= End + 1
      BY <2>2 DEF Min
    <2> QED BY <2>1, <2>3
  <1>4. songTime' = next \/ (next >= 0 /\ songTime' = (next + played) \div 2)
    <2>1. next < 0 \/ next >= 0
      BY <1>2, <1>3
    <2> QED BY <2>1 DEF Advance
  <1> HIDE DEF next
  <1>5. songTime' \in -l..(End + 1)
    BY <1>2, <1>3, <1>4
  <1> QED BY <1>5, TimesIs

LEMMA RestartTimes ==
    ASSUME NEW l \in {0} \cup {b.lead : b \in Beatmaps}, NEW now, Restart(l, now)
    PROVE  songTime' \in Times /\ position' \in 0..End /\ reported' \in 0..End
  <1>1. l \in Nat /\ End \in Nat /\ Second \in Nat \ {0}
    BY TimingAssumption
  <1> DEFINE q == l \div Second
  <1>2. q \in Nat /\ l = Second * q + (l % Second) /\ l % Second \in Nat
    BY <1>1
  <1>3. songTime' = -(q * Second)
    BY DEF Restart
  <1> HIDE DEF q
  <1>4. q * Second \in Nat /\ q * Second <= l
    BY <1>1, <1>2
  <1>5. songTime' \in -l..(End + 1)
    BY <1>1, <1>3, <1>4
  <1> QED BY <1>1, <1>5, TimesIs DEF Restart

LEMMA PlaceInBar ==
    ASSUME Typed, NEW i \in Entry, Red(i)
    PROVE  Place(i) \in Bars
  <1> DEFINE l == TimingPoints[i]
  <1>1. l \in Lines /\ Offset(i) \in Int /\ l.length \in Nat \ {0} /\ l.meter \in Nat \ {0}
    BY Entries
  <1>2. HalfBeat(i) \in Int
    BY <1>1 DEF HalfBeat, Typed
  <1>3. Place(i) \in 0..(l.meter - 1)
    BY <1>1, <1>2 DEF Place
  <1> QED BY <1>1, <1>3 DEF Bars

LEMMA InitType == Init => TypeOK
  <1> SUFFICES ASSUME Init PROVE TypeOK
    OBVIOUS
  <1>1. Typed
    BY InitInv DEF Inv
  <1> QED BY <1>1, ZeroTime, TimingAssumption DEF Init, TypeOK, Typed, Bars

LEMMA StepType == Inv /\ Inv' /\ TypeOK /\ [Next]_vars => TypeOK'
  <1> SUFFICES ASSUME Inv, Inv', TypeOK, [Next]_vars PROVE TypeOK'
    OBVIOUS
  <1>1. /\ TimingPoints' \in [Entry -> Lines] /\ size' \in 0..OSU_TIMING_MAX
        /\ nowTiming' \in Entry \cup {NULL} /\ metered' \in BOOLEAN
        /\ position' \in 0..End /\ reported' \in 0..End
    BY DEF Inv, Typed
  <1> DEFINE Rest == /\ lead' \in {0} \cup {b.lead : b \in Beatmaps} /\ evenRate' \in BOOLEAN
                     /\ running' \in BOOLEAN /\ isNC' \in BOOLEAN
                     /\ songTime' \in Times /\ bar' \in Bars /\ at' \in Times
                     /\ back' \in BOOLEAN /\ astray' \in BOOLEAN
                     /\ sound' \subseteq {"bass_dry", "finish", "clap", "hat"}
  <1>2. SUFFICES Rest
    BY <1>1 DEF TypeOK
  <1>3. CASE UNCHANGED vars
    BY <1>3 DEF vars, file, past, TypeOK
  <1>4. ASSUME NEW b \in Beatmaps, NEW playable \in BOOLEAN, Open(b, playable) PROVE Rest
    <2>1. lead' = b.lead /\ b.evenRate \in BOOLEAN
      BY <1>4, TimingAssumption DEF Open
    <2>2. songTime' \in Times /\ sound' \subseteq {"bass_dry", "finish", "clap", "hat"}
      <3>1. CASE getFirstTiming' = NULL
        BY <1>4, <3>1 DEF Open, TypeOK
      <3>2. CASE getFirstTiming' # NULL
        <4>1. Restart(b.lead, getTimingFromPosition2(-b.lead)')
          BY <1>4, <3>2 DEF Open
        <4> QED BY <4>1, RestartTimes DEF Restart
      <3> QED BY <3>1, <3>2
    <2>3. running' \in BOOLEAN /\ bar' \in Bars
      BY <1>4 DEF Open, TypeOK
    <2> QED BY <1>4, <2>1, <2>2, <2>3, ZeroTime DEF Open, Unmetered
  <1>5. ASSUME NEW nc \in BOOLEAN, Rate(nc) PROVE Rest
    BY <1>5, ZeroTime DEF Rate, Rests, file, TypeOK
  <1>6. ASSUME NEW p \in 0..End, Seek(p) PROVE Rest
    <2>1. PICK l \in {0} \cup {b.lead : b \in Beatmaps} : songTime \in -l..(End + 1)
      BY TimesIs DEF TypeOK
    <2>2. l \in Nat /\ End \in Nat /\ songTime' = (songTime + p) \div 2
      BY <1>6, TimingAssumption DEF Seek
    <2>3. songTime' \in -l..(End + 1)
      BY <2>1, <2>2
    <2>4. songTime' \in Times
      BY <2>3, TimesIs
    <2> QED BY <1>6, <2>4, ZeroTime DEF Seek, Rests, file, TypeOK
  <1>7. CASE SongEnds
    <2>1. Restart(lead, getTimingFromPosition2(-lead)) /\ lead \in {0} \cup {b.lead : b \in Beatmaps}
      BY <1>7 DEF SongEnds, TypeOK
    <2>2. songTime' \in Times
      BY <2>1, RestartTimes
    <2> QED BY <1>7, <2>1, <2>2, ZeroTime DEF SongEnds, Restart, Unmetered, file, TypeOK
  <1>8. ASSUME NEW played \in Positions, Tick(played) PROVE Rest
    <2>1. played \in 0..End
      BY TimingAssumption DEF Positions, TypeOK
    <2>2. songTime' \in Times
      BY <1>8, <2>1, AdvanceTimes DEF Tick, TypeOK
    <2>3. UNCHANGED <<lead, evenRate, running, isNC>>
      BY <1>8 DEF Tick, file
    <2>4. CASE ~isNC
      BY <1>8, <2>2, <2>3, <2>4, ZeroTime DEF Tick, Rests, TypeOK
    <2>5. CASE isNC
      <3>1. Metronome
        BY <1>8, <2>5 DEF Tick
      <3> DEFINE now == getTimingFromPosition(nowTiming, songTime)
      <3>2. nowTiming' = now /\ metered' = TRUE /\ at' = songTime
        BY <3>1 DEF Metronome
      <3>3. now # NULL => now \in Entry /\ Red(now)
        <4>1. now # NULL => TimingPoints'[now].red
          BY <3>2 DEF Inv, Counted, Red
        <4>2. TimingPoints' = TimingPoints
          BY <1>8 DEF Tick, file
        <4> QED BY <1>1, <3>2, <4>1, <4>2 DEF Red
      <3>4. bar' = bar \/ (now # NULL /\ bar' = Place(now))
        BY <3>1 DEF Metronome, Remembered
      <3>5. bar' \in Bars
        BY <3>3, <3>4, PlaceInBar DEF Inv, TypeOK
      <3>6. sound' = {} \/ sound' = Struck(now)
        BY <3>1 DEF Metronome
      <3>7. back' \in BOOLEAN /\ astray' \in BOOLEAN
        BY <3>1 DEF Metronome
      <3> HIDE DEF now
      <3>8. Struck(now) \subseteq {"bass_dry", "finish", "clap", "hat"}
        BY DEF Struck
      <3> QED BY <2>2, <2>3, <3>2, <3>5, <3>6, <3>7, <3>8 DEF TypeOK
    <2> QED BY <2>4, <2>5
  <1> QED BY <1>3, <1>4, <1>5, <1>6, <1>7, <1>8 DEF Next

(* Every reachable state is well-typed: the song's time stays between a    *)
(* lead-in and the end, the place in the bar within a bar of the file.     *)
THEOREM WellTyped == Spec => []TypeOK
  BY InitInv, StepInv, InitType, StepType, PTL DEF Spec
=============================================================================
