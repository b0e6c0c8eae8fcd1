---------------------------- MODULE PlayerProofs ----------------------------
(***************************************************************************)
(* Proofs about Player, for any timers, channels and bounds.               *)
(***************************************************************************)
EXTENDS Player, SequenceTheorems, TLAPS

-----------------------------------------------------------------------------
(* Stacks: sequences whose last element is the innermost call.             *)

LEMMA LastIs ==
    ASSUME NEW S, NEW s \in Seq(S), s # <<>>
    PROVE  Last(s) \in S /\ Len(s) \in Nat \ {0} /\ Last(s) = s[Len(s)]
  <1>1. Len(s) \in Nat \ {0}
    BY EmptySeq
  <1>2. s[Len(s)] \in S
    BY <1>1, ElementOfSeq
  <1> QED BY <1>1, <1>2 DEF Last

LEMMA FrontIs ==
    ASSUME NEW S, NEW s \in Seq(S), s # <<>>
    PROVE  /\ Front(s) \in Seq(S) /\ Len(Front(s)) = Len(s) - 1
           /\ \A i \in 1..(Len(s) - 1) : Front(s)[i] = s[i]
  <1>1. Len(s) \in Nat \ {0}
    BY EmptySeq
  <1>2. \A i \in 1..(Len(s) - 1) : s[i] \in S
    BY <1>1, ElementOfSeq
  <1>3. /\ SubSeq(s, 1, Len(s) - 1) \in Seq(S)
        /\ Len(SubSeq(s, 1, Len(s) - 1)) = IF 1 <= Len(s) - 1 THEN (Len(s) - 1) - 1 + 1 ELSE 0
        /\ \A i \in 1..((Len(s) - 1) - 1 + 1) : SubSeq(s, 1, Len(s) - 1)[i] = s[1 + i - 1]
    BY <1>1, <1>2, SubSeqProperties
  <1>4. Len(SubSeq(s, 1, Len(s) - 1)) = Len(s) - 1
    <2> DEFINE l == Len(SubSeq(s, 1, Len(s) - 1))
               n == Len(s) - 1
    <2>1. n \in Nat /\ l = IF 1 <= n THEN n - 1 + 1 ELSE 0
      BY <1>1, <1>3
    <2> HIDE DEF l, n
    <2>2. l = n
      BY <2>1
    <2> QED BY <2>2 DEF l, n
  <1>5. \A i \in 1..(Len(s) - 1) : SubSeq(s, 1, Len(s) - 1)[i] = s[i]
    BY <1>1, <1>3
  <1> QED BY <1>3, <1>4, <1>5 DEF Front

LEMMA AppendIs ==
    ASSUME NEW S, NEW s \in Seq(S), NEW e \in S
    PROVE  /\ Append(s, e) \in Seq(S) /\ Len(Append(s, e)) = Len(s) + 1
           /\ Append(s, e) # <<>> /\ Append(s, e)[Len(s) + 1] = e /\ Last(Append(s, e)) = e
           /\ \A i \in 1..Len(s) : Append(s, e)[i] = s[i]
  BY DEF Last

LEMMA ReplacedLastIs ==
    ASSUME NEW S, NEW s \in Seq(S), s # <<>>, NEW e \in S
    PROVE  LET t == Append(Front(s), e)
           IN  /\ t \in Seq(S) /\ Len(t) = Len(s) /\ t # <<>> /\ t[Len(s)] = e /\ Last(t) = e
               /\ \A i \in 1..(Len(s) - 1) : t[i] = s[i]
  <1>1. Len(s) \in Nat \ {0}
    BY EmptySeq
  <1> DEFINE f == Front(s)
  <1>2. f \in Seq(S) /\ Len(f) = Len(s) - 1 /\ \A i \in 1..(Len(s) - 1) : f[i] = s[i]
    BY FrontIs
  <1> HIDE DEF f
  <1>3. /\ Append(f, e) \in Seq(S) /\ Len(Append(f, e)) = Len(f) + 1
        /\ Append(f, e) # <<>> /\ Append(f, e)[Len(f) + 1] = e /\ Last(Append(f, e)) = e
        /\ \A i \in 1..Len(f) : Append(f, e)[i] = f[i]
    BY <1>2, AppendIs
  <1>4. Len(f) + 1 = Len(s)
    BY <1>1, <1>2
  <1>5. \A i \in 1..(Len(s) - 1) : Append(f, e)[i] = s[i]
    BY <1>2, <1>3
  <1>6. Append(f, e)[Len(s)] = e /\ Len(Append(f, e)) = Len(s)
    BY <1>3, <1>4
  <1> QED BY <1>3, <1>5, <1>6 DEF f
-----------------------------------------------------------------------------

Call   == [at : Handlers, timer : Timers \cup {NULL}]
Waits  == {"killed", "reset", "seek"}     \* where the thread of the window handles messages
Between == {"reset", "resetting", "free", "create", "start"}   \* the kill and the new timer

Typed ==
    /\ ui \in Seq(Call)
    /\ phase \in {"dialog", "ended", "noMutex", "noBass", "exited"}
    /\ tick \in [Timers -> Ticks] /\ closed \subseteq Timers
    /\ sync \in {"idle", "wait", "write"}
    /\ owner \in Timers \cup {"nobody", "window", "bass"}
    /\ chan \in Channels \cup {NULL} /\ channel \in [Channels -> {"unused", "live", "freed"}]
    /\ playing \subseteq Channels
    /\ pt \in Timers \cup {NULL}
    /\ songTime \in {"lead", "song"} /\ seen \in [Timers -> {"lead", "song"}]
    /\ inputs \in 0..MaxInputs
    /\ lost \subseteq {"held", "time", "play"} /\ stale \subseteq Timers /\ early \subseteq Timers

Flagged ==
    /\ closing \in BOOLEAN /\ isNC \in BOOLEAN /\ isPlay \in BOOLEAN /\ loading \in BOOLEAN
    /\ fault \in BOOLEAN /\ reentered \in BOOLEAN /\ gaveUp \in BOOLEAN

(* A handler inside another began while that one was waiting; the beatmap  *)
(* is written by the innermost.                                            *)
Nested ==
    /\ ui # <<>> => phase = "dialog"
    /\ \A i \in 1..(Len(ui) - 1) : ui[i].at \in Waits
    /\ loading => ui # <<>> /\ Top.at = "load" /\ ~isNC

-----------------------------------------------------------------------------
(* The three ways the stack of handlers changes.                           *)

LEMMA TopIs ==
    ASSUME Typed, ui # <<>>
    PROVE  Top \in Call /\ Len(ui) \in Nat \ {0} /\ Top = ui[Len(ui)]
  BY LastIs DEF Typed, Top

LEMMA NowIs ==
    ASSUME Typed, ui # <<>>, NEW f \in Call, ui' = Append(Front(ui), f)
    PROVE  /\ ui' \in Seq(Call) /\ Len(ui') = Len(ui) /\ ui' # <<>>
           /\ ui'[Len(ui)] = f /\ Top' = f
           /\ \A i \in 1..(Len(ui) - 1) : ui'[i] = ui[i]
  BY ReplacedLastIs DEF Typed, Top

LEMMA DoneIs ==
    ASSUME Typed, ui # <<>>, ui' = Front(ui)
    PROVE  /\ ui' \in Seq(Call) /\ Len(ui') = Len(ui) - 1
           /\ \A i \in 1..(Len(ui) - 1) : ui'[i] = ui[i]
           /\ ui' # <<>> => Top' = ui[Len(ui) - 1] /\ Len(ui) - 1 \in 1..(Len(ui) - 1)
  <1>1. /\ ui' \in Seq(Call) /\ Len(ui') = Len(ui) - 1
        /\ \A i \in 1..(Len(ui) - 1) : ui'[i] = ui[i]
    BY FrontIs DEF Typed
  <1>2. ASSUME ui' # <<>>
        PROVE  Top' = ui[Len(ui) - 1] /\ Len(ui) - 1 \in 1..(Len(ui) - 1)
    <2>1. Last(ui') = ui'[Len(ui')] /\ Len(ui') \in Nat \ {0}
      BY <1>1, <1>2, LastIs
    <2>2. Len(ui) - 1 \in 1..(Len(ui) - 1)
      BY <1>1, <2>1
    <2> QED BY <1>1, <2>1, <2>2 DEF Top
  <1> QED BY <1>1, <1>2

LEMMA EnterIs ==
    ASSUME Typed, NEW f \in Call, ui' = Append(ui, f)
    PROVE  /\ ui' \in Seq(Call) /\ Len(ui') = Len(ui) + 1 /\ ui' # <<>>
           /\ ui'[Len(ui) + 1] = f /\ Top' = f
           /\ \A i \in 1..Len(ui) : ui'[i] = ui[i]
  BY AppendIs DEF Typed, Top
-----------------------------------------------------------------------------
(* What a step does to the stack: the handler at its top goes on, it       *)
(* returns, a new one begins, or nothing happens to it.                    *)
Opens(a, b) == /\ ui # <<>> /\ Top.at = a
               /\ \E f \in Call : f.at \in b /\ ui' = Append(Front(ui), f)
Returns(a)  == ui # <<>> /\ Top.at = a /\ ui' = Front(ui)
Begins(a)   == /\ Input /\ \E f \in Call : f.at = a /\ ui' = Append(ui, f)

LEMMA NowOpens ==
    ASSUME Typed, NEW a, NEW b \in Handlers, At(a), Now(b)
    PROVE  Opens(a, {b})
  <1>1. ui # <<>> /\ Top.at = a /\ Top \in Call
    BY TopIs DEF At
  <1>2. [Top EXCEPT !.at = b] \in Call /\ [Top EXCEPT !.at = b].at = b
    BY <1>1 DEF Call
  <1> QED BY <1>1, <1>2 DEF Opens, Now

LEMMA DoneReturns ==
    ASSUME NEW a, At(a), Done
    PROVE  Returns(a)
  BY DEF At, Done, Returns

LEMMA EnterBegins ==
    ASSUME NEW a \in Handlers, Enter(a)
    PROVE  Begins(a)
  <1>1. [at |-> a, timer |-> NULL] \in Call /\ [at |-> a, timer |-> NULL].at = a
    BY DEF Call
  <1> QED BY <1>1 DEF Enter, Begins

LEMMA KillOpens ==
    ASSUME Typed, Kill
    PROVE  Opens("kill", {"killed", "reset"})
  <1>1. CASE Victim = NULL
    <2>1. Now("reset") /\ At("kill")
      BY <1>1 DEF Kill
    <2>2. Opens("kill", {"reset"})
      BY <2>1, NowOpens DEF Handlers
    <2> QED BY <2>2 DEF Opens
  <1>2. CASE Victim # NULL
    <2> DEFINE f == [at |-> "killed", timer |-> Victim]
    <2>1. ui' = Append(Front(ui), f) /\ ui # <<>> /\ Top.at = "kill"
      BY <1>2 DEF Kill, At
    <2>2. f \in Call /\ f.at \in {"killed", "reset"}
      BY DEF Call, Handlers, Victim, Typed
    <2> QED BY <2>1, <2>2 DEF Opens
  <1> QED BY <1>1, <1>2

LEMMA StackType ==
    ASSUME Typed, \/ UNCHANGED ui \/ \E a, b : Opens(a, b) \/ \E d : Returns(d) \/ \E e : Begins(e)
    PROVE  ui' \in Seq(Call)
  <1>1. CASE UNCHANGED ui
    BY <1>1 DEF Typed
  <1>2. ASSUME NEW a, NEW b, Opens(a, b) PROVE ui' \in Seq(Call)
    BY <1>2, NowIs DEF Opens
  <1>3. ASSUME NEW a, Returns(a) PROVE ui' \in Seq(Call)
    BY <1>3, DoneIs DEF Returns
  <1>4. ASSUME NEW a, Begins(a) PROVE ui' \in Seq(Call)
    BY <1>4, EnterIs DEF Begins
  <1> QED BY <1>1, <1>2, <1>3, <1>4

-----------------------------------------------------------------------------
(* The variables keep their types.                                         *)
LEMMA TypedStep == Typed /\ [Next]_vars => Typed'
  <1> SUFFICES ASSUME Typed, [Next]_vars PROVE Typed'
    OBVIOUS
  <1>1. CASE UNCHANGED vars
    BY <1>1 DEF vars, window, bass, clock, Typed
  <1>2. CASE Open
    <2>1. ui' \in Seq(Call)
      <3>1. \E a : Begins(a)
        BY <1>2, EnterBegins DEF Open, Handlers
      <3> QED BY <3>1, StackType
    <2>2. inputs' \in 0..MaxInputs
      BY <1>2, PlayerAssumption DEF Open, Enter, Typed
    <2> QED BY <1>2, <2>1, <2>2 DEF Open, Enter, window, bass, clock, Typed
  <1>3. ASSUME NEW b \in BOOLEAN, Loaded(b) PROVE Typed'
    <2>1. ui' \in Seq(Call)
      <3>1. Opens("load", {"kill"}) \/ Returns("load")
        BY <1>3, NowOpens, DoneReturns DEF Loaded, Handlers
      <3> QED BY <3>1, StackType
    <2> QED BY <1>3, <2>1 DEF Loaded, window, bass, clock, Typed
  <1>4. CASE Kill
    <2>1. ui' \in Seq(Call)
      <3>1. \E a, b : Opens(a, b)
        BY <1>4, KillOpens
      <3> QED BY <3>1, StackType
    <2> QED BY <1>4, <2>1 DEF Kill, Asked, Victim, window, bass, clock, Typed
  <1>5. CASE Killed
    <2>1. ui' \in Seq(Call)
      <3>1. \E a, b : Opens(a, b)
        BY <1>5, NowOpens DEF Killed, Handlers
      <3> QED BY <3>1, StackType
    <2> QED BY <1>5, <2>1 DEF Killed, window, bass, clock, Typed
  <1>6. CASE ResetLock
    <2>1. ui' \in Seq(Call)
      <3>1. \E a, b : Opens(a, b)
        BY <1>6, NowOpens DEF ResetLock, Handlers
      <3> QED BY <3>1, StackType
    <2> QED BY <1>6, <2>1 DEF ResetLock, window, bass, clock, Typed
  <1>7. CASE ResetWrite
    <2>1. ui' \in Seq(Call)
      <3>1. \E a, b : Opens(a, b)
        BY <1>7, NowOpens DEF ResetWrite, Handlers
      <3> QED BY <3>1, StackType
    <2> QED BY <1>7, <2>1 DEF ResetWrite, Reset, window, bass, clock, Typed
  <1>8. CASE FreeChannel
    <2>1. ui' \in Seq(Call)
      <3>1. \E a, b : Opens(a, b)
        BY <1>8, NowOpens DEF FreeChannel, Handlers
      <3> QED BY <3>1, StackType
    <2> QED BY <1>8, <2>1 DEF FreeChannel, window, bass, clock, Typed
  <1>9. ASSUME NEW c \in Channels \cup {NULL}, CreateChannel(c) PROVE Typed'
    <2>1. ui' \in Seq(Call)
      <3>1. Opens("create", {"start"}) \/ Returns("create")
        BY <1>9, NowOpens, DoneReturns DEF CreateChannel, Handlers
      <3> QED BY <3>1, StackType
    <2> QED BY <1>9, <2>1 DEF CreateChannel, window, bass, clock, Typed
  <1>10. ASSUME NEW t \in Timers \cup {NULL}, StartTimer(t) PROVE Typed'
    <2>1. ui' \in Seq(Call)
      <3>1. \E a : Returns(a)
        BY <1>10, DoneReturns DEF StartTimer
      <3> QED BY <3>1, StackType
    <2> QED BY <1>10, <2>1 DEF StartTimer, Kept, Ticks, window, bass, clock, Typed
  <1>11. ASSUME NEW b \in BOOLEAN, Rate(b) PROVE Typed'
    <2>1. ui' \in Seq(Call)
      BY <1>11 DEF Rate, window, Typed
    <2> QED BY <1>11, <2>1 DEF Rate, window, bass, clock, Typed
  <1>12. CASE Seek
    <2>1. ui' \in Seq(Call)
      <3>1. \E a : Begins(a)
        BY <1>12, EnterBegins DEF Seek, Handlers
      <3> QED BY <3>1, StackType
    <2>2. inputs' \in 0..MaxInputs
      BY <1>12, PlayerAssumption DEF Seek, Enter, Typed
    <2> QED BY <1>12, <2>1, <2>2 DEF Seek, Enter, window, bass, clock, Typed
  <1>13. CASE SeekLock
    <2>1. ui' \in Seq(Call)
      <3>1. \E a, b : Opens(a, b)
        BY <1>13, NowOpens DEF SeekLock, Handlers
      <3> QED BY <3>1, StackType
    <2> QED BY <1>13, <2>1 DEF SeekLock, window, bass, clock, Typed
  <1>14. ASSUME NEW to \in {"lead", "song"}, SeekWrite(to) PROVE Typed'
    <2>1. ui' \in Seq(Call)
      <3>1. \E a : Returns(a)
        BY <1>14, DoneReturns DEF SeekWrite
      <3> QED BY <3>1, StackType
    <2>2. owner' \in Timers \cup {"nobody", "window", "bass"} /\ songTime' \in {"lead", "song"}
      BY <1>14 DEF SeekWrite, Typed
    <2> QED BY <1>14, <2>1, <2>2 DEF SeekWrite, window, bass, clock, Typed
  <1>15. CASE Close
    <2>1. ui' \in Seq(Call)
      BY <1>15 DEF Close, window, Typed
    <2>2. inputs' \in 0..MaxInputs
      BY <1>15, PlayerAssumption DEF Close, Typed
    <2> QED BY <1>15, <2>1, <2>2 DEF Close, window, bass, clock, Typed
  <1>16. CASE Leave
    <2>1. ui' \in Seq(Call)
      BY <1>16 DEF Leave, window, Typed
    <2>2. phase' \in {"dialog", "ended", "noMutex", "noBass", "exited"}
      BY <1>16 DEF Leave, Running, Typed
    <2>3. channel' \in [Channels -> {"unused", "live", "freed"}] /\ playing' \subseteq Channels
          /\ owner' \in Timers \cup {"nobody", "window", "bass"}
      BY <1>16 DEF Leave, Typed
    <2> QED BY <1>16, <2>1, <2>2, <2>3 DEF Leave, window, bass, clock, Typed
  <1>17. ASSUME NEW t \in Timers, Tick(t) PROVE Typed'
    <2>1. ui' \in Seq(Call)
      BY <1>17 DEF Tick, TickLocks, TickChecks, TickFinds, TickSent, TickBeats, TickPlays, TickPlayed, TickReads, TickWrites,
             Step, Others, Overwrites, Released, window, Typed
    <2>2. CASE TickLocks(t) \/ TickChecks(t) \/ TickFinds(t) \/ TickSent(t) \/ TickBeats(t) \/ TickReads(t)
      <3>1. tick' \in [Timers -> Ticks] /\ early' \subseteq Timers
        BY <2>2 DEF TickLocks, TickChecks, TickFinds, TickSent, TickBeats, TickReads, Step, Typed, Ticks
      <3>2. owner' \in Timers \cup {"nobody", "window", "bass"} /\ seen' \in [Timers -> {"lead", "song"}]
        BY <2>2 DEF TickLocks, TickChecks, TickFinds, TickSent, TickBeats, TickReads, Typed
      <3>3. UNCHANGED <<Others, clock, playing, stale, lost>>
        BY <2>2 DEF TickLocks, TickChecks, TickFinds, TickSent, TickBeats, TickReads
      <3> QED BY <2>1, <3>1, <3>2, <3>3 DEF Others, window, bass, clock, Typed
    <2>4. CASE TickPlays(t)
      <3>1. playing' \subseteq Channels
        BY <2>4 DEF TickPlays, ChannelLives, Typed
      <3>2. tick' \in [Timers -> Ticks] /\ early' \subseteq Timers
        BY <2>4 DEF TickPlays, Step, Typed, Ticks
      <3> QED BY <2>1, <2>4, <3>1, <3>2 DEF TickPlays, Others, window, bass, clock, Typed
    <2>5. CASE TickPlayed(t)
      BY <2>1, <2>5 DEF TickPlayed, Step, Others, Overwrites, window, bass, clock, Typed, Ticks
    <2>7. CASE TickWrites(t)
      BY <2>1, <2>7 DEF TickWrites, Step, Others, Overwrites, Released, window, bass, clock, Typed, Ticks
    <2> QED BY <1>17, <2>2, <2>4, <2>5, <2>7 DEF Tick
  <1>18. CASE SongEnds
    <2>1. ui' \in Seq(Call)
      BY <1>18 DEF SongEnds, window, Typed
    <2> QED BY <1>18, <2>1 DEF SongEnds, window, bass, clock, Typed
  <1>19. CASE SyncLocks
    <2>1. ui' \in Seq(Call)
      BY <1>19 DEF SyncLocks, window, Typed
    <2> QED BY <1>19, <2>1 DEF SyncLocks, window, bass, clock, Typed
  <1>20. CASE SyncWrites
    <2>1. ui' \in Seq(Call)
      BY <1>20 DEF SyncWrites, Reset, window, Typed
    <2> QED BY <1>20, <2>1 DEF SyncWrites, Reset, window, bass, clock, Typed
  <1> QED BY <1>1, <1>2, <1>3, <1>4, <1>5, <1>6, <1>7, <1>8, <1>9, <1>10, <1>11, <1>12, <1>13, <1>14, <1>15, <1>16, <1>17, <1>18, <1>19, <1>20 DEF Next

-----------------------------------------------------------------------------
(* What handlers may be inside what handlers.                              *)

LEMMA NestedOpens ==
    ASSUME Typed, Nested, NEW a, NEW b, Opens(a, b), UNCHANGED phase, ~loading'
    PROVE  Nested'
  <1>1. PICK f \in Call : f.at \in b /\ ui' = Append(Front(ui), f)
    BY DEF Opens
  <1>2. /\ Len(ui') = Len(ui) /\ ui # <<>>
        /\ \A i \in 1..(Len(ui) - 1) : ui'[i] = ui[i]
    BY <1>1, NowIs DEF Opens
  <1> QED BY <1>2 DEF Nested

LEMMA NestedReturns ==
    ASSUME Typed, Nested, NEW a, Returns(a), UNCHANGED phase, ~loading'
    PROVE  Nested'
  <1>1. /\ Len(ui') = Len(ui) - 1 /\ ui # <<>> /\ Len(ui) \in Nat
        /\ \A i \in 1..(Len(ui) - 1) : ui'[i] = ui[i]
    BY DoneIs, TopIs DEF Returns
  <1>2. \A i \in 1..(Len(ui') - 1) : i \in 1..(Len(ui) - 1)
    BY <1>1
  <1> QED BY <1>1, <1>2 DEF Nested

LEMMA NestedBegins ==
    ASSUME Typed, Nested, NEW a, Begins(a), UNCHANGED phase,
           loading' => a = "load" /\ ~isNC'
    PROVE  Nested'
  <1>1. PICK f \in Call : f.at = a /\ ui' = Append(ui, f)
    BY DEF Begins
  <1>2. /\ Len(ui') = Len(ui) + 1 /\ ui' # <<>> /\ Top' = f
        /\ \A i \in 1..Len(ui) : ui'[i] = ui[i]
    BY <1>1, EnterIs
  <1>3. Len(ui) \in Nat /\ (ui # <<>> => Len(ui) \in Nat \ {0} /\ ui[Len(ui)].at \in Waits)
    BY TopIs DEF Begins, Input, Pumping, Waits, Typed
  <1>4. \A i \in 1..(Len(ui') - 1) : ui'[i].at \in Waits
    <2>1. SUFFICES ASSUME NEW i \in 1..Len(ui) PROVE ui[i].at \in Waits
      BY <1>2, <1>3
    <2>2. CASE i = Len(ui)
      <3>1. ui # <<>>
        BY <2>2, <1>3
      <3> QED BY <1>3, <2>2, <3>1
    <2>3. CASE i # Len(ui)
      <3>1. i \in 1..(Len(ui) - 1)
        BY <1>3, <2>3
      <3> QED BY <3>1 DEF Nested
    <2> QED BY <2>2, <2>3
  <1>5. phase' = "dialog"
    BY DEF Begins, Input
  <1>6. loading' => Top'.at = "load" /\ ~isNC'
    BY <1>1, <1>2
  <1> QED BY <1>2, <1>4, <1>5, <1>6 DEF Nested

LEMMA NestedSame ==
    ASSUME Nested, UNCHANGED ui, ui # <<>> => UNCHANGED phase, loading' = loading, loading => ~isNC'
    PROVE  Nested'
  BY DEF Nested, Top

LEMMA NestedStep == Typed /\ Nested /\ [Next]_vars => Nested'
  <1> SUFFICES ASSUME Typed, Nested, [Next]_vars PROVE Nested'
    OBVIOUS
  <1>1. CASE UNCHANGED vars
    BY <1>1 DEF vars, window, Nested, Top
  <1>2. CASE Open
    <2>1. Begins("load")
      BY <1>2, EnterBegins DEF Open, Handlers
    <2>2. loading' /\ ~isNC' /\ UNCHANGED phase
      BY <1>2 DEF Open, Quiet
    <2> QED BY <2>1, <2>2, NestedBegins
  <1>3. ASSUME NEW b \in BOOLEAN, Loaded(b) PROVE Nested'
    <2>1. Opens("load", {"kill"}) \/ Returns("load")
      BY <1>3, NowOpens, DoneReturns DEF Loaded, Handlers
    <2>2. ~loading' /\ UNCHANGED phase
      BY <1>3 DEF Loaded
    <2> QED BY <2>1, <2>2, NestedOpens, NestedReturns
  <1>4. CASE Kill
    <2>1. Opens("kill", {"killed", "reset"})
      BY <1>4, KillOpens DEF Kill, Handlers
    <2>2. ~loading' /\ UNCHANGED phase
      BY <1>4 DEF Kill, At, Nested
    <2> QED BY <2>1, <2>2, NestedOpens
  <1>5. CASE Killed
    <2>1. Opens("killed", {"reset"})
      BY <1>5, NowOpens DEF Killed, Handlers
    <2>2. ~loading' /\ UNCHANGED phase
      BY <1>5 DEF Killed, At, Nested
    <2> QED BY <2>1, <2>2, NestedOpens
  <1>6. CASE ResetLock
    <2>1. Opens("reset", {"resetting"})
      BY <1>6, NowOpens DEF ResetLock, Handlers
    <2>2. ~loading' /\ UNCHANGED phase
      BY <1>6 DEF ResetLock, At, Nested
    <2> QED BY <2>1, <2>2, NestedOpens
  <1>7. CASE ResetWrite
    <2>1. Opens("resetting", {"free"})
      BY <1>7, NowOpens DEF ResetWrite, Handlers
    <2>2. ~loading' /\ UNCHANGED phase
      BY <1>7 DEF ResetWrite, At, Nested
    <2> QED BY <2>1, <2>2, NestedOpens
  <1>8. CASE FreeChannel
    <2>1. Opens("free", {"create"})
      BY <1>8, NowOpens DEF FreeChannel, Handlers
    <2>2. ~loading' /\ UNCHANGED phase
      BY <1>8 DEF FreeChannel, At, Nested
    <2> QED BY <2>1, <2>2, NestedOpens
  <1>9. ASSUME NEW c \in Channels \cup {NULL}, CreateChannel(c) PROVE Nested'
    <2>1. Opens("create", {"start"}) \/ Returns("create")
      BY <1>9, NowOpens, DoneReturns DEF CreateChannel, Handlers
    <2>2. ~loading' /\ UNCHANGED phase
      BY <1>9 DEF CreateChannel, At, Nested
    <2> QED BY <2>1, <2>2, NestedOpens, NestedReturns
  <1>10. ASSUME NEW t \in Timers \cup {NULL}, StartTimer(t) PROVE Nested'
    <2>1. Returns("start")
      BY <1>10, DoneReturns DEF StartTimer, Handlers
    <2>2. ~loading' /\ UNCHANGED phase
      BY <1>10 DEF StartTimer, At, Nested
    <2> QED BY <2>1, <2>2, NestedReturns
  <1>11. ASSUME NEW b \in BOOLEAN, Rate(b) PROVE Nested'
    <2>1. ~loading
      BY <1>11 DEF Rate, Input, Pumping, Nested
    <2>2. loading' = loading /\ UNCHANGED <<ui, phase>>
      BY <1>11 DEF Rate
    <2> QED BY <2>1, <2>2, NestedSame
  <1>12. CASE Seek
    <2>1. Begins("seek")
      BY <1>12, EnterBegins DEF Seek, Handlers
    <2>2. UNCHANGED phase /\ loading' = loading
      BY <1>12 DEF Seek
    <2>3. ~loading
      BY <1>12 DEF Seek, Enter, Input, Pumping, Nested
    <2> QED BY <2>1, <2>2, <2>3, NestedBegins
  <1>13. CASE SeekLock
    <2>1. Opens("seek", {"seeking"})
      BY <1>13, NowOpens DEF SeekLock, Handlers
    <2>2. ~loading' /\ UNCHANGED phase
      BY <1>13 DEF SeekLock, At, Nested
    <2> QED BY <2>1, <2>2, NestedOpens
  <1>14. ASSUME NEW to \in {"lead", "song"}, SeekWrite(to) PROVE Nested'
    <2>1. Returns("seeking")
      BY <1>14, DoneReturns DEF SeekWrite, Handlers
    <2>2. ~loading' /\ UNCHANGED phase
      BY <1>14 DEF SeekWrite, At, Nested
    <2> QED BY <2>1, <2>2, NestedReturns
  <1>15. CASE Close
    BY <1>15, NestedSame DEF Close, window, Nested
  <1>16. CASE Leave
    <2>1. ui = <<>> /\ UNCHANGED <<ui, loading, isNC>>
      BY <1>16 DEF Leave
    <2> QED BY <2>1, NestedSame DEF Nested
  <1>17. ASSUME NEW t \in Timers, Tick(t) PROVE Nested'
    BY <1>17, NestedSame DEF Tick, TickLocks, TickChecks, TickFinds, TickSent, TickBeats, TickPlays, TickPlayed, TickReads, TickWrites,
             Step, Others, Overwrites, Released, window, Nested
  <1>18. CASE SongEnds
    BY <1>18, NestedSame DEF SongEnds, window, Nested
  <1>19. CASE SyncLocks
    BY <1>19, NestedSame DEF SyncLocks, window, Nested
  <1>20. CASE SyncWrites
    BY <1>20, NestedSame DEF SyncWrites, window, Nested
  <1> QED BY <1>1, <1>2, <1>3, <1>4, <1>5, <1>6, <1>7, <1>8, <1>9, <1>10, <1>11, <1>12, <1>13, <1>14, <1>15, <1>16, <1>17, <1>18, <1>19, <1>20 DEF Next

-----------------------------------------------------------------------------
(* ghMutex excludes those who hold it.                                     *)

(* What the innermost handler is doing.                                    *)
Doing == IF ui = <<>> THEN "nothing" ELSE Top.at

(* Whoever is about to write the reset holds ghMutex, or it is closed and  *)
(* nobody does; a tick that missed a reset does not hold it.               *)
Exclusive ==
    /\ HeldInside
    /\ phase \in {"noMutex", "noBass", "exited"} => owner = "nobody"
    /\ Doing = "resetting" => owner = "window"
    /\ sync = "write" => owner = "bass" \/ phase \in {"noMutex", "noBass", "exited"}
    /\ \A t \in stale : tick[t] \in {"played", "write"} /\ owner # t
    /\ "held" \notin lost

LEMMA Names == ASSUME NEW t \in Timers PROVE t \notin {NULL, "nobody", "window", "bass"}
  BY PlayerAssumption

LEMMA DoingAfter ==
    ASSUME Typed, Nested
    PROVE  /\ \A a, b : Opens(a, b) => Doing = a /\ Doing' \in b
           /\ \A a : Returns(a) => Doing = a /\ Doing' \in Waits \cup {"nothing"}
           /\ \A a : Begins(a) => Doing \in Waits \cup {"nothing"} /\ Doing' = a
  <1>1. ASSUME NEW a, NEW b, Opens(a, b) PROVE Doing = a /\ Doing' \in b
    BY <1>1, NowIs DEF Opens, Doing
  <1>2. ASSUME NEW a, Returns(a) PROVE Doing = a /\ Doing' \in Waits \cup {"nothing"}
    BY <1>2, DoneIs DEF Returns, Doing, Nested
  <1>3. ASSUME NEW a, Begins(a) PROVE Doing \in Waits \cup {"nothing"} /\ Doing' = a
    BY <1>3, EnterIs DEF Begins, Doing, Input, Pumping, Waits
  <1> QED BY <1>1, <1>2, <1>3

LEMMA WindowHolds ==
    ASSUME Exclusive, Doing \notin {"resetting", "seeking"}
    PROVE  owner # "window"
  BY DEF Exclusive, HeldInside, Doing

(* A handler goes on without ghMutex.                                      *)
LEMMA ExclusiveQuiet ==
    ASSUME Exclusive, Doing \notin {"resetting", "seeking"}, Doing' # "resetting",
           UNCHANGED <<owner, phase, sync, tick, stale, lost>>
    PROVE  Exclusive'
  BY WindowHolds DEF Exclusive, HeldInside

(* Another thread goes on.                                                 *)
Handed ==
    \/ owner' = owner
    \/ owner' \in Timers /\ owner = "nobody" /\ phase \in {"dialog", "ended"}
    \/ owner' = "nobody" /\ owner \in Timers

LEMMA ExclusiveOthers ==
    ASSUME Exclusive, ui' = ui, phase' = phase, sync' = sync, Handed,
           \A t \in Timers : owner' = t => tick'[t] \in Ticks \ {"unused", "delay", "gone"},
           \A t \in stale' : tick'[t] \in {"played", "write"} /\ owner' # t,
           "held" \notin lost'
    PROVE  Exclusive'
  <1>1. Doing' = Doing
    BY DEF Doing, Top
  <1>2. HeldInside'
    BY Names DEF Exclusive, HeldInside, Top, Handed
  <1>3. /\ phase' \in {"noMutex", "noBass", "exited"} => owner' = "nobody"
        /\ Doing' = "resetting" => owner' = "window"
        /\ sync' = "write" => owner' = "bass" \/ phase' \in {"noMutex", "noBass", "exited"}
    BY <1>1, Names DEF Exclusive, Handed
  <1> QED BY <1>2, <1>3 DEF Exclusive

LEMMA ExclusiveTick ==
    ASSUME Typed, Exclusive, NEW t \in Timers, Tick(t)
    PROVE  Exclusive'
  <1>1. CASE TickLocks(t)
    <2>1. tick[t] = "delay" /\ tick' = [tick EXCEPT ![t] = "check"]
          /\ UNCHANGED <<ui, phase, sync, stale, lost>>
      BY <1>1 DEF TickLocks, Step, Others, window
    <2>2. owner' = IF owner = "nobody" /\ phase \in {"dialog", "ended"} THEN t ELSE owner
      BY <1>1 DEF TickLocks
    <2>3. \A s \in Timers : tick'[s] = IF s = t THEN "check" ELSE tick[s]
      BY <2>1 DEF Typed
    <2>4. \A s \in Timers : owner' = s => tick'[s] \in Ticks \ {"unused", "delay", "gone"}
      BY <2>1, <2>2, <2>3 DEF Exclusive, HeldInside, Ticks
    <2>5. \A s \in stale' : tick'[s] \in {"played", "write"} /\ owner' # s
      BY <2>1, <2>2, <2>3 DEF Exclusive, Typed
    <2>6. Handed /\ ui' = ui /\ phase' = phase /\ sync' = sync /\ "held" \notin lost'
      BY <2>1, <2>2 DEF Handed, Exclusive
    <2> QED BY <2>4, <2>5, <2>6, ExclusiveOthers
  <1>2. CASE TickChecks(t) \/ TickFinds(t) \/ TickSent(t) \/ TickBeats(t) \/ TickPlays(t) \/ TickReads(t)
    <2>1. /\ tick[t] \in {"check", "line", "volume", "beats", "slider", "play", "read"}
          /\ UNCHANGED <<ui, phase, sync, stale, lost, owner>>
      BY <1>2 DEF TickChecks, TickFinds, TickSent, TickBeats, TickPlays, TickReads, Step, Others, window, clock
    <2>2. /\ tick'[t] \in Ticks \ {"unused", "delay", "gone"}
          /\ \A s \in Timers : s # t => tick'[s] = tick[s]
      BY <1>2 DEF TickChecks, TickFinds, TickSent, TickBeats, TickPlays, TickReads, Step, Typed, Ticks
    <2>3. \A s \in Timers : owner' = s => tick'[s] \in Ticks \ {"unused", "delay", "gone"}
      BY <2>1, <2>2 DEF Exclusive, HeldInside
    <2>4. \A s \in stale' : tick'[s] \in {"played", "write"} /\ owner' # s
      BY <2>1, <2>2 DEF Exclusive, Typed
    <2>5. Handed /\ ui' = ui /\ phase' = phase /\ sync' = sync /\ "held" \notin lost'
      BY <2>1 DEF Handed, Exclusive
    <2> QED BY <2>3, <2>4, <2>5, ExclusiveOthers
  <1>3. CASE TickPlayed(t)
    <2>1. tick' = [tick EXCEPT ![t] = "slider"] /\ UNCHANGED <<ui, phase, sync, owner>>
          /\ stale' = stale \ {t}
      BY <1>3 DEF TickPlayed, Step, Others, window, Overwrites
    <2>2. "held" \notin lost'
      BY <1>3 DEF TickPlayed, Overwrites, Exclusive
    <2>3. \A s \in Timers : tick'[s] = IF s = t THEN "slider" ELSE tick[s]
      BY <2>1 DEF Typed
    <2>4. \A s \in Timers : owner' = s => tick'[s] \in Ticks \ {"unused", "delay", "gone"}
      BY <2>1, <2>3 DEF Exclusive, HeldInside, Ticks
    <2>5. \A s \in stale' : tick'[s] \in {"played", "write"} /\ owner' # s
      BY <2>1, <2>3 DEF Exclusive, Typed
    <2>6. Handed /\ ui' = ui /\ phase' = phase /\ sync' = sync
      BY <2>1 DEF Handed
    <2> QED BY <2>2, <2>4, <2>5, <2>6, ExclusiveOthers
  <1>4. CASE TickWrites(t)
    <2>1. UNCHANGED <<ui, phase, sync>> /\ stale' = stale \ {t}
          /\ owner' = IF owner = t THEN "nobody" ELSE owner
      BY <1>4 DEF TickWrites, Others, window, Overwrites, Released
    <2>2. "held" \notin lost'
      BY <1>4 DEF TickWrites, Overwrites, Exclusive
    <2>3. \A s \in Timers : s # t => tick'[s] = tick[s]
      BY <1>4 DEF TickWrites, Step, Typed
    <2>4. \A s \in Timers : owner' = s => tick'[s] \in Ticks \ {"unused", "delay", "gone"}
      BY <2>1, <2>3, Names DEF Exclusive, HeldInside
    <2>5. \A s \in stale' : tick'[s] \in {"played", "write"} /\ owner' # s
      BY <2>1, <2>3, Names DEF Exclusive, Typed
    <2>6. Handed /\ ui' = ui /\ phase' = phase /\ sync' = sync
      BY <2>1 DEF Handed
    <2> QED BY <2>2, <2>4, <2>5, <2>6, ExclusiveOthers
  <1> QED BY <1>1, <1>2, <1>3, <1>4 DEF Tick

LEMMA ExclusiveStep == Typed /\ Nested /\ Exclusive /\ [Next]_vars => Exclusive'
  <1> SUFFICES ASSUME Typed, Nested, Exclusive, [Next]_vars PROVE Exclusive'
    OBVIOUS
  <1>1. CASE UNCHANGED vars
    BY <1>1 DEF vars, window, bass, clock, Exclusive, HeldInside, Doing, Top
  <1>2. CASE Open
    <2>1. Begins("load")
      BY <1>2, EnterBegins DEF Open, Handlers
    <2>2. Doing \notin {"resetting", "seeking"} /\ Doing' # "resetting"
      BY <2>1, DoingAfter DEF Waits
    <2>3. UNCHANGED <<owner, phase, sync, tick, stale, lost>>
      BY <1>2 DEF Open
    <2> QED BY <2>2, <2>3, ExclusiveQuiet
  <1>3. ASSUME NEW b \in BOOLEAN, Loaded(b) PROVE Exclusive'
    <2>1. Opens("load", {"kill"}) \/ Returns("load")
      BY <1>3, NowOpens, DoneReturns DEF Loaded, Handlers
    <2>2. Doing \notin {"resetting", "seeking"} /\ Doing' # "resetting"
      BY <2>1, DoingAfter DEF Waits
    <2>3. UNCHANGED <<owner, phase, sync, tick, stale, lost>>
      BY <1>3 DEF Loaded
    <2> QED BY <2>2, <2>3, ExclusiveQuiet
  <1>4. CASE Kill
    <2>1. Opens("kill", {"killed", "reset"})
      BY <1>4, KillOpens DEF Kill, Handlers
    <2>2. Doing \notin {"resetting", "seeking"} /\ Doing' # "resetting"
      BY <2>1, DoingAfter DEF Waits
    <2>3. UNCHANGED <<owner, phase, sync, tick, stale, lost>>
      BY <1>4 DEF Kill
    <2> QED BY <2>2, <2>3, ExclusiveQuiet
  <1>5. CASE Killed
    <2>1. Opens("killed", {"reset"})
      BY <1>5, NowOpens DEF Killed, Handlers
    <2>2. Doing \notin {"resetting", "seeking"} /\ Doing' # "resetting"
      BY <2>1, DoingAfter DEF Waits
    <2>3. UNCHANGED <<owner, phase, sync, tick, stale, lost>>
      BY <1>5 DEF Killed
    <2> QED BY <2>2, <2>3, ExclusiveQuiet
  <1>6. CASE ResetLock
    <2>1. Doing' = "resetting" /\ phase = "dialog" /\ owner = "nobody"
      BY <1>6, NowOpens, DoingAfter DEF ResetLock, Handlers, At, Free, Nested
    <2>2. owner' = "window" /\ UNCHANGED <<phase, sync, tick, stale, lost>>
      BY <1>6, <2>1 DEF ResetLock
    <2>3. sync # "write"
      BY <2>1 DEF Exclusive
    <2>4. HeldInside'
      BY <2>1, <2>2, Names DEF HeldInside, Doing
    <2> QED BY <2>1, <2>2, <2>3, <2>4, Names DEF Exclusive, Typed
  <1>7. CASE ResetWrite
    <2>1. Doing = "resetting" /\ Doing' = "free" /\ phase = "dialog"
      BY <1>7, NowOpens, DoingAfter DEF ResetWrite, Handlers, At, Nested
    <2>2. owner = "window" /\ owner' = "nobody" /\ UNCHANGED <<phase, sync, tick, lost>>
      BY <1>7, <2>1 DEF ResetWrite, Exclusive
    <2>3. sync # "write"
      BY <2>1, <2>2 DEF Exclusive
    <2>4. \A t \in stale' : t \in Timers /\ tick[t] \in {"played", "write"}
      BY <1>7 DEF ResetWrite, Reset, Exclusive, Typed
    <2>5. HeldInside'
      BY <2>2, Names DEF HeldInside
    <2> QED BY <2>1, <2>2, <2>3, <2>4, <2>5, Names DEF Exclusive
  <1>8. CASE FreeChannel
    <2>1. Opens("free", {"create"})
      BY <1>8, NowOpens DEF FreeChannel, Handlers
    <2>2. Doing \notin {"resetting", "seeking"} /\ Doing' # "resetting"
      BY <2>1, DoingAfter DEF Waits
    <2>3. UNCHANGED <<owner, phase, sync, tick, stale, lost>>
      BY <1>8 DEF FreeChannel
    <2> QED BY <2>2, <2>3, ExclusiveQuiet
  <1>9. ASSUME NEW c \in Channels \cup {NULL}, CreateChannel(c) PROVE Exclusive'
    <2>1. Opens("create", {"start"}) \/ Returns("create")
      BY <1>9, NowOpens, DoneReturns DEF CreateChannel, Handlers
    <2>2. Doing \notin {"resetting", "seeking"} /\ Doing' # "resetting"
      BY <2>1, DoingAfter DEF Waits
    <2>3. UNCHANGED <<owner, phase, sync, tick, stale, lost>>
      BY <1>9 DEF CreateChannel
    <2> QED BY <2>2, <2>3, ExclusiveQuiet
  <1>10. ASSUME NEW t \in Timers \cup {NULL}, StartTimer(t) PROVE Exclusive'
    <2>1. Doing = "start" /\ Doing' \in Waits \cup {"nothing"}
      BY <1>10, DoneReturns, DoingAfter DEF StartTimer
    <2>2. UNCHANGED <<owner, phase, sync, stale, lost>>
      BY <1>10 DEF StartTimer, window
    <2>3. \A s \in Timers : tick'[s] = tick[s] \/ tick[s] = "unused"
      BY <1>10, Names DEF StartTimer
    <2>4. HeldInside'
      BY <2>1, <2>2, <2>3, WindowHolds DEF Exclusive, HeldInside
    <2>5. \A s \in stale' : tick'[s] \in {"played", "write"} /\ owner' # s
      BY <2>2, <2>3 DEF Exclusive, Typed
    <2> QED BY <2>1, <2>2, <2>4, <2>5 DEF Exclusive, Waits
  <1>11. ASSUME NEW b \in BOOLEAN, Rate(b) PROVE Exclusive'
    BY <1>11 DEF Rate, Exclusive, HeldInside, Doing, Top
  <1>12. CASE Seek
    <2>1. Begins("seek")
      BY <1>12, EnterBegins DEF Seek, Handlers
    <2>2. Doing \notin {"resetting", "seeking"} /\ Doing' # "resetting"
      BY <2>1, DoingAfter DEF Waits
    <2>3. UNCHANGED <<owner, phase, sync, tick, stale, lost>>
      BY <1>12 DEF Seek
    <2> QED BY <2>2, <2>3, ExclusiveQuiet
  <1>13. CASE SeekLock
    <2>1. Doing = "seek" /\ Doing' = "seeking" /\ phase = "dialog"
      BY <1>13, NowOpens, DoingAfter DEF SeekLock, Handlers, At, Nested
    <2>2. UNCHANGED <<phase, sync, tick, stale, lost>>
          /\ owner' = IF owner = "nobody" THEN "window" ELSE owner
      BY <1>13 DEF SeekLock
    <2>3. sync = "write" => owner = "bass"
      BY <2>1 DEF Exclusive
    <2>4. HeldInside'
      BY <2>1, <2>2, Names DEF Exclusive, HeldInside, Doing
    <2> QED BY <2>1, <2>2, <2>3, <2>4, Names DEF Exclusive, Typed
  <1>14. ASSUME NEW to \in {"lead", "song"}, SeekWrite(to) PROVE Exclusive'
    <2>1. Doing = "seeking" /\ Doing' \in Waits \cup {"nothing"}
      BY <1>14, DoneReturns, DoingAfter DEF SeekWrite
    <2>2. UNCHANGED <<phase, sync, tick, stale, lost>>
          /\ owner' = IF owner = "window" THEN "nobody" ELSE owner
      BY <1>14 DEF SeekWrite
    <2>3. HeldInside'
      BY <2>2, Names DEF Exclusive, HeldInside
    <2>4. \A t \in stale' : tick'[t] \in {"played", "write"} /\ owner' # t
      BY <2>2, Names DEF Exclusive, Typed
    <2> QED BY <2>1, <2>2, <2>3, <2>4 DEF Exclusive, Waits
  <1>15. CASE Close
    BY <1>15 DEF Close, Exclusive, HeldInside, Doing, Top
  <1>16. CASE Leave
    <2>1. Doing' = "nothing" /\ UNCHANGED <<sync, tick, stale, lost>>
          /\ owner' = IF phase = "ended" THEN "nobody" ELSE owner
      BY <1>16 DEF Leave, Doing
    <2>2. /\ phase = "dialog" => phase' = "ended"
          /\ phase # "dialog" => phase' \in {"noMutex", "noBass", "exited"}
          /\ phase \notin {"dialog", "ended"} => phase \in {"noMutex", "noBass", "exited"}
      BY <1>16 DEF Leave, Running, Typed
    <2>3. owner # "window"
      BY <1>16, WindowHolds DEF Leave, Doing
    <2>4. HeldInside'
      BY <2>1, <2>3, Names DEF Exclusive, HeldInside
    <2>5. \A t \in stale' : tick'[t] \in {"played", "write"} /\ owner' # t
      BY <2>1, Names DEF Exclusive, Typed
    <2> QED BY <2>1, <2>2, <2>4, <2>5 DEF Exclusive
  <1>17. ASSUME NEW t \in Timers, Tick(t) PROVE Exclusive'
    BY <1>17, ExclusiveTick
  <1>18. CASE SongEnds
    BY <1>18 DEF SongEnds, window, Exclusive, HeldInside, Doing, Top
  <1>19. CASE SyncLocks
    <2>1. UNCHANGED <<ui, phase, tick, stale, lost>> /\ sync' = "write" /\ Free /\ phase # "exited"
          /\ owner' = IF owner = "nobody" /\ phase \in {"dialog", "ended"} THEN "bass" ELSE owner
      BY <1>19 DEF SyncLocks, window, Running, SyncMayLock
    <2>2. Doing' = Doing
      BY <2>1 DEF Doing, Top
    <2>3. HeldInside'
      BY <2>1, Names DEF Exclusive, HeldInside, Top
    <2>4. \A t \in stale' : tick'[t] \in {"played", "write"} /\ owner' # t
      BY <2>1, Names DEF Exclusive, Typed
    <2>5. owner' = "bass" \/ phase' \in {"noMutex", "noBass", "exited"}
      BY <2>1 DEF Free, Typed
    <2>6. Doing' = "resetting" => owner' = "window"
      BY <2>1, <2>2 DEF Exclusive
    <2> QED BY <2>1, <2>3, <2>4, <2>5, <2>6 DEF Exclusive
  <1>20. CASE SyncWrites
    <2>1. UNCHANGED <<ui, phase, tick, lost>> /\ sync' = "idle" /\ sync = "write"
          /\ owner' = IF owner = "bass" THEN "nobody" ELSE owner
      BY <1>20 DEF SyncWrites, window
    <2>2. owner' = "nobody" /\ owner # "window"
      BY <2>1 DEF Exclusive
    <2>3. Doing' # "resetting"
      BY <2>1, <2>2 DEF Exclusive, Doing, Top
    <2>4. HeldInside'
      BY <2>2, Names DEF HeldInside
    <2>5. \A t \in stale' : t \in Timers /\ tick[t] \in {"played", "write"}
      BY <1>20 DEF SyncWrites, Reset, Exclusive, Typed
    <2> QED BY <2>1, <2>2, <2>3, <2>4, <2>5, Names DEF Exclusive
  <1> QED BY <1>1, <1>2, <1>3, <1>4, <1>5, <1>6, <1>7, <1>8, <1>9, <1>10, <1>11, <1>12, <1>13, <1>14, <1>15, <1>16, <1>17, <1>18, <1>19, <1>20 DEF Next

-----------------------------------------------------------------------------
(* As long as no file is opened inside the opening of another there is one *)
(* timer, and it is the one that is killed.                                *)

Seeks == {"seek", "seeking"}
Outer == IF ui = <<>> THEN "nothing" ELSE ui[1].at
SeeksInside == \A i \in 2..Len(ui) : ui[i].at \in Seeks

Single ==
    ~reentered =>
        /\ SeeksInside
        /\ Live \subseteq {pt}
        /\ Outer = "killed" => ui[1].timer = pt
        /\ Outer \in Between => Live = {}
        /\ Outer = "start" => ChannelLives
        /\ (Live # {} /\ phase \in {"dialog", "ended", "noMutex"}) => ChannelLives
        /\ (~gaveUp /\ ~fault /\ Outer \notin Between \cup {"killed"}) => pt \notin closed

Killable ==
    /\ \A t \in Timers : tick[t] = "gone" => t \in closed
    /\ \A t \in closed : tick[t] # "unused"
    /\ pt \in Timers => tick[pt] # "unused"
    /\ fault => reentered \/ gaveUp

(* The opening of a file is the outermost handler and the only one.        *)
LEMMA OpeningAlone ==
    ASSUME Typed, SeeksInside, ui # <<>>, Top.at \notin Seeks
    PROVE  Len(ui) = 1 /\ Top = ui[1] /\ Outer = Top.at
  <1>1. Len(ui) \in Nat \ {0} /\ Top = ui[Len(ui)]
    BY TopIs
  <1>2. Len(ui) \notin 2..Len(ui)
    BY <1>1 DEF SeeksInside
  <1> QED BY <1>1, <1>2 DEF Outer

LEMMA OpeningOpens ==
    ASSUME Typed, SeeksInside, NEW a, a \notin Seeks, NEW b, Opens(a, b)
    PROVE  Outer = a /\ Outer' \in b /\ SeeksInside' /\ ui'[1] = Top'
  <1>1. Len(ui) = 1 /\ Outer = a /\ ui # <<>>
    BY OpeningAlone DEF Opens
  <1>2. PICK f \in Call : f.at \in b /\ ui' = Append(Front(ui), f)
    BY DEF Opens
  <1>3. Len(ui') = 1 /\ ui' # <<>> /\ ui'[1] = f /\ Top' = f
    BY <1>1, <1>2, NowIs
  <1> QED BY <1>1, <1>2, <1>3 DEF Outer, SeeksInside

LEMMA OpeningReturns ==
    ASSUME Typed, SeeksInside, NEW a, a \notin Seeks, Returns(a)
    PROVE  Outer = a /\ Outer' = "nothing" /\ SeeksInside'
  <1>1. Len(ui) = 1 /\ Outer = a /\ ui # <<>>
    BY OpeningAlone DEF Returns
  <1>2. Len(ui') = 0 /\ ui' \in Seq(Call)
    BY <1>1, DoneIs DEF Returns
  <1>3. ui' = <<>>
    BY <1>2
  <1> QED BY <1>1, <1>3 DEF Outer, SeeksInside

(* A jump changes nothing for whoever it is inside of.                     *)
LEMMA OneBefore ==
    ASSUME NEW n \in Nat \ {0}, n # 1
    PROVE  1 \in 1..(n - 1)
  OBVIOUS

LEMMA SeekInside ==
    ASSUME Typed, SeeksInside, Opens("seek", {"seeking"}) \/ Returns("seeking") \/ Begins("seek")
    PROVE  /\ SeeksInside'
           /\ \/ ui # <<>> /\ ui' # <<>> /\ ui'[1] = ui[1]
              \/ Outer \in Seeks \cup {"nothing"} /\ Outer' \in Seeks \cup {"nothing"}
  <1>1. CASE Opens("seek", {"seeking"})
    <2>1. PICK f \in Call : f.at = "seeking" /\ ui' = Append(Front(ui), f)
      BY <1>1 DEF Opens
    <2>2. /\ Len(ui') = Len(ui) /\ ui' # <<>> /\ ui'[Len(ui)] = f /\ ui # <<>>
          /\ \A i \in 1..(Len(ui) - 1) : ui'[i] = ui[i]
      BY <1>1, <2>1, NowIs DEF Opens
    <2>3. Len(ui) \in Nat \ {0} /\ ui[Len(ui)].at = "seek"
      BY <1>1, TopIs DEF Opens
    <2>4. SeeksInside'
      <3>1. SUFFICES ASSUME NEW i \in 2..Len(ui) PROVE ui'[i].at \in Seeks
        BY <2>2 DEF SeeksInside
      <3>2. i = Len(ui) \/ i \in 1..(Len(ui) - 1)
        BY <2>3
      <3> QED BY <2>1, <2>2, <3>2 DEF SeeksInside, Seeks
    <2>5. CASE Len(ui) = 1
      BY <2>1, <2>2, <2>3, <2>4, <2>5 DEF Outer, Seeks
    <2>6. CASE Len(ui) # 1
      <3>1. 1 \in 1..(Len(ui) - 1)
        BY <2>3, <2>6, OneBefore
      <3> QED BY <2>2, <2>4, <3>1
    <2> QED BY <2>5, <2>6
  <1>2. CASE Returns("seeking")
    <2>1. /\ ui' \in Seq(Call) /\ Len(ui') = Len(ui) - 1 /\ ui # <<>>
          /\ \A i \in 1..(Len(ui) - 1) : ui'[i] = ui[i]
      BY <1>2, DoneIs DEF Returns
    <2>2. Len(ui) \in Nat \ {0} /\ ui[Len(ui)].at = "seeking"
      BY <1>2, TopIs DEF Returns
    <2>3. SeeksInside'
      <3>1. SUFFICES ASSUME NEW i \in 2..(Len(ui) - 1) PROVE ui'[i].at \in Seeks
        BY <2>1 DEF SeeksInside
      <3>2. i \in 1..(Len(ui) - 1) /\ i \in 2..Len(ui)
        BY <2>2
      <3> QED BY <2>1, <3>2 DEF SeeksInside
    <2>4. CASE Len(ui) = 1
      <3>1. Len(ui') = 0
        BY <2>1, <2>4
      <3>2. ui' = <<>>
        BY <2>1, <3>1
      <3> QED BY <2>1, <2>2, <2>3, <2>4, <3>2 DEF Outer, Seeks
    <2>5. CASE Len(ui) # 1
      <3>1. 1 \in 1..(Len(ui) - 1)
        BY <2>2, <2>5, OneBefore
      <3>2. ui' # <<>>
        BY <2>1, <2>2, <2>5, EmptySeq, LenProperties
      <3> QED BY <2>1, <2>3, <3>1, <3>2
    <2> QED BY <2>4, <2>5
  <1>3. CASE Begins("seek")
    <2>1. PICK f \in Call : f.at = "seek" /\ ui' = Append(ui, f)
      BY <1>3 DEF Begins
    <2>2. /\ Len(ui') = Len(ui) + 1 /\ ui' # <<>> /\ ui'[Len(ui) + 1] = f
          /\ \A i \in 1..Len(ui) : ui'[i] = ui[i]
      BY <2>1, EnterIs
    <2>3. Len(ui) \in Nat /\ (ui # <<>> => Len(ui) # 0)
      BY TopIs DEF Typed
    <2>4. SeeksInside'
      <3>1. SUFFICES ASSUME NEW i \in 2..(Len(ui) + 1) PROVE ui'[i].at \in Seeks
        BY <2>2 DEF SeeksInside
      <3>2. CASE i = Len(ui) + 1
        BY <2>1, <2>2, <3>2 DEF Seeks
      <3>3. CASE i # Len(ui) + 1
        <4>1. i \in 1..Len(ui) /\ i \in 2..Len(ui)
          BY <2>3, <3>1, <3>3
        <4> QED BY <2>2, <4>1 DEF SeeksInside
      <3> QED BY <3>2, <3>3
    <2>5. CASE ui = <<>>
      <3>1. ui'[1] = f
        BY <2>2, <2>5
      <3> QED BY <2>1, <2>2, <2>4, <2>5, <3>1 DEF Outer, Seeks
    <2>6. CASE ui # <<>>
      <3>1. 1 \in 1..Len(ui)
        BY <2>3, <2>6
      <3> QED BY <2>2, <2>4, <2>6, <3>1
    <2> QED BY <2>5, <2>6
  <1> QED BY <1>1, <1>2, <1>3

(* What a jump leaves alone, and most other steps do.                      *)
opening == <<pt, closed, bass, reentered, gaveUp, fault>>

LEMMA SingleSeek ==
    ASSUME Typed, Single, Killable, UNCHANGED <<opening, tick, phase>>,
           Opens("seek", {"seeking"}) \/ Returns("seeking") \/ Begins("seek")
    PROVE  Single' /\ Killable'
  <1>1. Killable'
    BY DEF Killable, opening
  <1>2. ASSUME ~reentered PROVE Single'
    <2>1. /\ SeeksInside'
          /\ \/ ui # <<>> /\ ui' # <<>> /\ ui'[1] = ui[1]
             \/ Outer \in Seeks \cup {"nothing"} /\ Outer' \in Seeks \cup {"nothing"}
      BY <1>2, SeekInside DEF Single
    <2>2. Live' = Live /\ (ChannelLives' <=> ChannelLives)
      BY DEF Live, ChannelLives, opening, bass
    <2>3. CASE ui # <<>> /\ ui' # <<>> /\ ui'[1] = ui[1]
      <3>1. Outer' = Outer
        BY <2>3 DEF Outer
      <3> QED BY <1>2, <2>1, <2>2, <2>3, <3>1 DEF Single, opening
    <2>4. CASE Outer \in Seeks \cup {"nothing"} /\ Outer' \in Seeks \cup {"nothing"}
      BY <1>2, <2>1, <2>2, <2>4 DEF Single, opening, Seeks, Between
    <2> QED BY <2>1, <2>3, <2>4
  <1> QED BY <1>1, <1>2 DEF Single, opening

(* Another thread goes on, or nothing of the opening is touched.           *)
LEMMA SingleOthers ==
    ASSUME Typed, Single, Killable, UNCHANGED <<opening, ui>>,
           phase' = phase \/ phase' \notin {"dialog", "ended", "noMutex"} \/ phase \in {"dialog", "ended", "noMutex"},
           \A t \in Timers : \/ tick'[t] = tick[t]
                             \/ /\ tick[t] \notin {"unused", "gone"} /\ tick'[t] # "unused"
                                /\ tick'[t] = "gone" => t \in closed
    PROVE  Single' /\ Killable'
  <1>1. Killable'
    BY DEF Killable, opening, Typed
  <1>2. Live' \subseteq Live
    BY DEF Live
  <1>3. Outer' = Outer /\ (ChannelLives' <=> ChannelLives) /\ (SeeksInside' <=> SeeksInside)
    BY DEF Outer, ChannelLives, SeeksInside, opening, bass
  <1>4. Single'
    BY <1>2, <1>3 DEF Single, opening
  <1> QED BY <1>1, <1>4

LEMMA SingleTick ==
    ASSUME Typed, Single, Killable, NEW t \in Timers, Tick(t)
    PROVE  Single' /\ Killable'
  <1>1. UNCHANGED <<opening, ui>> /\ phase' = phase
    BY DEF Tick, TickLocks, TickChecks, TickFinds, TickSent, TickBeats, TickPlays, TickPlayed, TickReads, TickWrites, Others, window, opening
  <1>2. /\ tick[t] \notin {"unused", "gone"} /\ tick'[t] # "unused"
        /\ tick'[t] = "gone" => t \in closed
        /\ \A s \in Timers : s # t => tick'[s] = tick[s]
    <2>1. CASE TickWrites(t)
      BY <2>1 DEF TickWrites, Step, Typed
    <2>2. CASE ~TickWrites(t)
      BY <2>2 DEF Tick, TickLocks, TickChecks, TickFinds, TickSent, TickBeats, TickPlays, TickPlayed, TickReads, Step, Typed
    <2> QED BY <2>1, <2>2
  <1> QED BY <1>1, <1>2, SingleOthers

LEMMA SingleStep == Typed /\ Nested /\ Single /\ Killable /\ [Next]_vars => Single' /\ Killable'
  <1> SUFFICES ASSUME Typed, Nested, Single, Killable, [Next]_vars PROVE Single' /\ Killable'
    OBVIOUS
  <1>1. CASE UNCHANGED vars
    BY <1>1, SingleOthers DEF vars, window, opening
  <1>2. CASE Open
    <2>1. Begins("load") /\ (~reentered' => ui = <<>> /\ ~reentered)
      BY <1>2, EnterBegins DEF Open, Handlers
    <2>2. UNCHANGED <<pt, closed, bass, gaveUp, fault, tick, phase>>
      BY <1>2 DEF Open
    <2>3. Killable'
      BY <2>1, <2>2, <1>2 DEF Killable, Open
    <2>4. ASSUME ~reentered' PROVE Single'
      <3>1. PICK f \in Call : f.at = "load" /\ ui' = Append(ui, f)
        BY <2>1 DEF Begins
      <3>2. Len(ui') = 1 /\ ui' # <<>> /\ ui'[1] = f
        BY <2>1, <2>4, <3>1, EnterIs
      <3>3. Outer' = "load" /\ Outer = "nothing" /\ SeeksInside'
        BY <2>1, <2>4, <3>1, <3>2 DEF Outer, SeeksInside
      <3>4. Live' = Live /\ (ChannelLives' <=> ChannelLives)
        BY <2>2 DEF Live, ChannelLives, bass
      <3> QED BY <2>1, <2>2, <2>4, <3>3, <3>4 DEF Single, Between
    <2> QED BY <2>3, <2>4 DEF Single
  <1>3. ASSUME NEW b \in BOOLEAN, Loaded(b) PROVE Single' /\ Killable'
    <2>1. UNCHANGED <<opening, tick, phase>> /\ (Opens("load", {"kill"}) \/ Returns("load"))
      BY <1>3, NowOpens, DoneReturns DEF Loaded, Handlers, opening
    <2>2. Killable'
      BY <2>1 DEF Killable, opening
    <2>3. ASSUME ~reentered PROVE Single'
      <3>1. Outer = "load" /\ Outer' \in {"kill", "nothing"} /\ SeeksInside'
        BY <2>1, <2>3, OpeningOpens, OpeningReturns DEF Single, Seeks
      <3>2. Live' = Live /\ (ChannelLives' <=> ChannelLives)
        BY <2>1 DEF Live, ChannelLives, opening, bass
      <3> QED BY <2>1, <2>3, <3>1, <3>2 DEF Single, opening, Between
    <2> QED BY <2>1, <2>2, <2>3 DEF Single, opening
  <1>4. CASE Kill
    <2>1. UNCHANGED <<pt, bass, reentered, gaveUp, tick, phase>> /\ Opens("kill", {"killed", "reset"})
      BY <1>4, KillOpens DEF Kill
    <2>2. ~fault /\ closed' = closed \cup ({pt} \ {NULL})
          /\ IF pt = NULL THEN Now("reset") /\ fault' = fault
             ELSE fault' = (tick[pt] = "gone")
                  /\ ui' = Append(Front(ui), [at |-> "killed", timer |-> pt])
      BY <1>4 DEF Kill, At, Running, Asked, Victim
    <2>3. Live' = Live /\ (ChannelLives' <=> ChannelLives)
      BY <2>1 DEF Live, ChannelLives, bass
    <2>4. ASSUME ~reentered PROVE Single' /\ (fault' => gaveUp)
      <3>1. Outer = "kill" /\ Outer' \in {"killed", "reset"} /\ SeeksInside' /\ ui'[1] = Top'
        BY <2>1, <2>4, OpeningOpens DEF Single, Seeks
      <3>2. CASE pt = NULL
        <4>1. Live = {}
          BY <2>4, <3>2, Names DEF Single, Live
        <4>2. Outer' # "killed"
          <5>1. Opens("kill", {"reset"})
            BY <1>4, <2>2, <3>2, NowOpens DEF Kill, Handlers
          <5> QED BY <2>4, <5>1, OpeningOpens DEF Single, Seeks
        <4> QED BY <2>1, <2>2, <2>3, <2>4, <3>1, <3>2, <4>1, <4>2 DEF Single, Between
      <3>3. CASE pt # NULL
        <4>1. ui'[1] = [at |-> "killed", timer |-> pt] /\ ui' # <<>>
          <5>1. [at |-> "killed", timer |-> pt] \in Call /\ ui # <<>>
            BY <2>1 DEF Call, Handlers, Typed, Opens
          <5> QED BY <2>2, <3>1, <3>3, <5>1, NowIs
        <4>2. Outer' = "killed" /\ ui'[1].timer = pt
          BY <4>1 DEF Outer
        <4>3. ~gaveUp => pt \notin closed
          BY <2>2, <2>4, <3>1 DEF Single, Between
        <4>4. fault' => gaveUp
          BY <2>2, <3>3, <4>3 DEF Killable, Typed
        <4> QED BY <2>1, <2>3, <2>4, <3>1, <4>2, <4>4 DEF Single, Between
      <3> QED BY <3>2, <3>3
    <2>5. Killable'
      BY <2>1, <2>2, <2>4 DEF Killable, Typed
    <2> QED BY <2>1, <2>4, <2>5 DEF Single
  <1>5. CASE Killed
    <2>1. UNCHANGED <<opening, tick, phase>> /\ Opens("killed", {"reset"}) /\ tick[Top.timer] = "gone"
      BY <1>5, NowOpens DEF Killed, Handlers, opening
    <2>2. Killable'
      BY <2>1 DEF Killable, opening
    <2>3. ASSUME ~reentered PROVE Single'
      <3>1. Outer = "killed" /\ Outer' = "reset" /\ SeeksInside' /\ Top = ui[1]
        BY <2>1, <2>3, OpeningOpens, OpeningAlone DEF Single, Seeks, Opens
      <3>2. Live' = Live /\ (ChannelLives' <=> ChannelLives)
        BY <2>1 DEF Live, ChannelLives, opening, bass
      <3>3. Live = {}
        BY <2>1, <2>3, <3>1 DEF Single, Live
      <3> QED BY <2>1, <2>3, <3>1, <3>2, <3>3 DEF Single, opening, Between
    <2> QED BY <2>1, <2>2, <2>3 DEF Single, opening
  <1>6. CASE ResetLock
    <2>1. UNCHANGED <<opening, tick, phase>> /\ Opens("reset", {"resetting"})
      BY <1>6, NowOpens DEF ResetLock, Handlers, opening
    <2>2. Killable'
      BY <2>1 DEF Killable, opening
    <2>3. ASSUME ~reentered PROVE Single'
      <3>1. Outer = "reset" /\ Outer' = "resetting" /\ SeeksInside'
        BY <2>1, <2>3, OpeningOpens DEF Single, Seeks
      <3>2. Live' = Live /\ (ChannelLives' <=> ChannelLives)
        BY <2>1 DEF Live, ChannelLives, opening, bass
      <3> QED BY <2>1, <2>3, <3>1, <3>2 DEF Single, opening, Between
    <2> QED BY <2>1, <2>2, <2>3 DEF Single, opening
  <1>7. CASE ResetWrite
    <2>1. UNCHANGED <<opening, tick, phase>> /\ Opens("resetting", {"free"})
      BY <1>7, NowOpens DEF ResetWrite, Handlers, opening
    <2>2. Killable'
      BY <2>1 DEF Killable, opening
    <2>3. ASSUME ~reentered PROVE Single'
      <3>1. Outer = "resetting" /\ Outer' = "free" /\ SeeksInside'
        BY <2>1, <2>3, OpeningOpens DEF Single, Seeks
      <3>2. Live' = Live /\ (ChannelLives' <=> ChannelLives)
        BY <2>1 DEF Live, ChannelLives, opening, bass
      <3> QED BY <2>1, <2>3, <3>1, <3>2 DEF Single, opening, Between
    <2> QED BY <2>1, <2>2, <2>3 DEF Single, opening
  <1>8. CASE FreeChannel
    <2>1. UNCHANGED <<pt, closed, reentered, gaveUp, fault, tick, phase>> /\ Opens("free", {"create"})
      BY <1>8, NowOpens DEF FreeChannel, Handlers
    <2>2. Killable'
      BY <2>1 DEF Killable
    <2>3. ASSUME ~reentered PROVE Single'
      <3>1. Outer = "free" /\ Outer' = "create" /\ SeeksInside'
        BY <2>1, <2>3, OpeningOpens DEF Single, Seeks
      <3>2. Live' = {}
        BY <2>1, <2>3, <3>1 DEF Single, Live, Between
      <3> QED BY <2>1, <2>3, <3>1, <3>2 DEF Single, Between
    <2> QED BY <2>1, <2>2, <2>3 DEF Single
  <1>9. ASSUME NEW c \in Channels \cup {NULL}, CreateChannel(c) PROVE Single' /\ Killable'
    <2>1. UNCHANGED <<pt, closed, reentered, fault, tick, phase>>
      BY <1>9 DEF CreateChannel
    <2>2. IF c = NULL THEN Returns("create") /\ gaveUp'
          ELSE Opens("create", {"start"}) /\ UNCHANGED gaveUp /\ chan' = c /\ channel'[c] = "live"
      <3>1. CASE c = NULL
        BY <1>9, <3>1, DoneReturns DEF CreateChannel
      <3>2. CASE c # NULL
        <4>1. Opens("create", {"start"})
          BY <1>9, <3>2, NowOpens DEF CreateChannel, Handlers
        <4> QED BY <1>9, <3>2, <4>1 DEF CreateChannel, Typed
      <3> QED BY <3>1, <3>2
    <2>3. Killable'
      BY <2>1, <2>2 DEF Killable
    <2>4. ASSUME ~reentered PROVE Single'
      <3>1. Outer = "create" /\ SeeksInside' /\ Outer' = (IF c = NULL THEN "nothing" ELSE "start")
        BY <2>2, <2>4, OpeningOpens, OpeningReturns DEF Single, Seeks
      <3>2. Live' = {}
        BY <2>1, <2>4, <3>1 DEF Single, Live, Between
      <3>3. c # NULL => ChannelLives'
        BY <2>2 DEF ChannelLives
      <3> QED BY <2>1, <2>2, <2>4, <3>1, <3>2, <3>3 DEF Single, Between
    <2> QED BY <2>1, <2>3, <2>4 DEF Single
  <1>10. ASSUME NEW t \in Timers \cup {NULL}, StartTimer(t) PROVE Single' /\ Killable'
    <2>1. UNCHANGED <<closed, bass, reentered, gaveUp, fault, phase>> /\ Returns("start") /\ pt' = t
      BY <1>10, DoneReturns DEF StartTimer, window, Kept
    <2>2. /\ t \in Timers => tick[t] = "unused" /\ tick'[t] = "delay"
          /\ \A s \in Timers : s # t => tick'[s] = tick[s]
      BY <1>10, Names DEF StartTimer
    <2>3. Killable'
      BY <2>1, <2>2 DEF Killable, Typed
    <2>4. ASSUME ~reentered PROVE Single'
      <3>1. Outer = "start" /\ Outer' = "nothing" /\ SeeksInside'
        BY <2>1, <2>4, OpeningReturns DEF Single, Seeks
      <3>2. Live = {} /\ ChannelLives
        BY <2>4, <3>1 DEF Single, Between
      <3>3. Live' \subseteq {pt'} /\ ChannelLives'
        BY <2>1, <2>2, <3>2 DEF Live, ChannelLives, bass
      <3>4. pt' \notin closed'
        BY <2>1, <2>2, Names DEF Killable, Typed
      <3> QED BY <2>1, <2>4, <3>1, <3>3, <3>4 DEF Single, Between
    <2> QED BY <2>1, <2>3, <2>4 DEF Single
  <1>11. ASSUME NEW b \in BOOLEAN, Rate(b) PROVE Single' /\ Killable'
    BY <1>11, SingleOthers DEF Rate, opening
  <1>12. CASE Seek
    <2>1. Begins("seek")
      BY <1>12, EnterBegins DEF Seek, Handlers
    <2>2. UNCHANGED <<opening, tick, phase>>
      BY <1>12 DEF Seek, opening
    <2> QED BY <2>1, <2>2, SingleSeek
  <1>13. CASE SeekLock
    <2>1. Opens("seek", {"seeking"})
      BY <1>13, NowOpens DEF SeekLock, Handlers
    <2>2. UNCHANGED <<opening, tick, phase>>
      BY <1>13 DEF SeekLock, opening
    <2> QED BY <2>1, <2>2, SingleSeek
  <1>14. ASSUME NEW to \in {"lead", "song"}, SeekWrite(to) PROVE Single' /\ Killable'
    <2>1. Returns("seeking")
      BY <1>14, DoneReturns DEF SeekWrite, Handlers
    <2>2. UNCHANGED <<opening, tick, phase>>
      BY <1>14 DEF SeekWrite, opening
    <2> QED BY <2>1, <2>2, SingleSeek
  <1>15. CASE Close
    BY <1>15, SingleOthers DEF Close, opening
  <1>16. CASE Leave
    <2>1. UNCHANGED <<pt, closed, chan, reentered, gaveUp, fault, ui, tick>> /\ ui = <<>>
          /\ (phase' \in {"dialog", "ended", "noMutex"} => channel' = channel /\ phase \in {"dialog", "ended"})
      BY <1>16 DEF Leave, Running, Typed
    <2>2. Killable'
      BY <2>1 DEF Killable
    <2>3. Outer' = Outer /\ Outer = "nothing" /\ Live' = Live /\ (SeeksInside' <=> SeeksInside)
      BY <2>1 DEF Outer, Live, SeeksInside
    <2>4. phase' \in {"dialog", "ended", "noMutex"} => (ChannelLives' <=> ChannelLives)
      BY <2>1 DEF ChannelLives
    <2> QED BY <2>1, <2>2, <2>3, <2>4 DEF Single
  <1>17. ASSUME NEW t \in Timers, Tick(t) PROVE Single' /\ Killable'
    BY <1>17, SingleTick
  <1>18. CASE SongEnds
    BY <1>18, SingleOthers DEF SongEnds, opening, window
  <1>19. CASE SyncLocks
    BY <1>19, SingleOthers DEF SyncLocks, opening, window
  <1>20. CASE SyncWrites
    BY <1>20, SingleOthers DEF SyncWrites, opening, window
  <1> QED BY <1>1, <1>2, <1>3, <1>4, <1>5, <1>6, <1>7, <1>8, <1>9, <1>10, <1>11, <1>12, <1>13, <1>14, <1>15, <1>16, <1>17, <1>18, <1>19, <1>20 DEF Next

-----------------------------------------------------------------------------
(* A load meets no tick but the ones that were in the metronome before it. *)

LEMMA EarlySame ==
    ASSUME LoadMeetsEarlyTicksOnly, loading' => loading /\ UNCHANGED <<tick, early>>
    PROVE  LoadMeetsEarlyTicksOnly'
  BY DEF LoadMeetsEarlyTicksOnly

(* A tick comes to the metronome from the look at isNC, which is off as    *)
(* long as a load goes on.                                                 *)
LEMMA EarlyTick ==
    ASSUME Typed, Nested, LoadMeetsEarlyTicksOnly, NEW t \in Timers, Tick(t)
    PROVE  LoadMeetsEarlyTicksOnly'
  <1> SUFFICES ASSUME loading', NEW s \in Timers, tick'[s] \in Metronome PROVE s \in early'
    BY DEF LoadMeetsEarlyTicksOnly
  <1>1. loading /\ ~isNC
    BY DEF Nested, Tick, TickLocks, TickChecks, TickFinds, TickSent, TickBeats, TickPlays, TickPlayed,
           TickReads, TickWrites, Others, window
  <1>2. PICK from, to :
           /\ Step(t, from, to)
           /\ to \in Metronome => from \in Metronome
    <2>1. CASE TickLocks(t)
      BY <2>1 DEF TickLocks, Metronome
    <2>2. CASE TickChecks(t)
      BY <1>1, <2>2 DEF TickChecks, Metronome
    <2>3. CASE TickFinds(t)
      BY <2>3 DEF TickFinds, Metronome
    <2>4. CASE TickSent(t)
      BY <2>4 DEF TickSent, Metronome
    <2>5. CASE TickBeats(t)
      BY <2>5 DEF TickBeats, Metronome
    <2>6. CASE TickPlays(t)
      <3>1. Step(t, "play", IF MustPlay THEN "played" ELSE "slider")
        BY <2>6 DEF TickPlays
      <3> QED BY <3>1 DEF Metronome
    <2>7. CASE TickPlayed(t)
      BY <2>7 DEF TickPlayed, Metronome
    <2>8. CASE TickReads(t)
      BY <2>8 DEF TickReads, Metronome
    <2>9. CASE TickWrites(t)
      <3>1. Step(t, "write", IF t \in closed THEN "gone" ELSE "delay")
        BY <2>9 DEF TickWrites
      <3> QED BY <3>1 DEF Metronome
    <2> QED BY <2>1, <2>2, <2>3, <2>4, <2>5, <2>6, <2>7, <2>8, <2>9 DEF Tick
  <1>3. /\ tick[t] = from /\ tick'[t] = to
        /\ \A r \in Timers : r # t => tick'[r] = tick[r]
        /\ early' = IF to \in Metronome THEN early ELSE early \ {t}
    BY <1>2 DEF Step, Typed
  <1>4. CASE s = t
    BY <1>1, <1>2, <1>3, <1>4 DEF LoadMeetsEarlyTicksOnly
  <1>5. CASE s # t
    BY <1>1, <1>3, <1>5 DEF LoadMeetsEarlyTicksOnly
  <1> QED BY <1>4, <1>5

LEMMA EarlyStep == Typed /\ Nested /\ LoadMeetsEarlyTicksOnly /\ [Next]_vars => LoadMeetsEarlyTicksOnly'
  <1> SUFFICES ASSUME Typed, Nested, LoadMeetsEarlyTicksOnly, [Next]_vars
               PROVE  LoadMeetsEarlyTicksOnly'
    OBVIOUS
  <1>1. CASE UNCHANGED vars
    BY <1>1, EarlySame DEF vars, window
  <1>2. CASE Open
    BY <1>2 DEF Open, LoadMeetsEarlyTicksOnly
  <1>3. ASSUME NEW b \in BOOLEAN, Loaded(b) \/ Rate(b) PROVE LoadMeetsEarlyTicksOnly'
    BY <1>3, EarlySame DEF Loaded, Rate
  <1>4. CASE Kill \/ Killed \/ ResetLock \/ ResetWrite \/ FreeChannel
    BY <1>4, EarlySame DEF Kill, Killed, ResetLock, ResetWrite, FreeChannel
  <1>5. ASSUME NEW c \in Channels \cup {NULL}, CreateChannel(c) PROVE LoadMeetsEarlyTicksOnly'
    BY <1>5, EarlySame DEF CreateChannel
  <1>6. ASSUME NEW t \in Timers \cup {NULL}, StartTimer(t) PROVE LoadMeetsEarlyTicksOnly'
    <2>1. ~loading /\ loading' = loading
      BY <1>6 DEF StartTimer, At, Nested
    <2> QED BY <2>1, EarlySame
  <1>7. CASE Seek \/ SeekLock \/ Close \/ Leave
    BY <1>7, EarlySame DEF Seek, SeekLock, Close, Leave
  <1>8. ASSUME NEW to \in {"lead", "song"}, SeekWrite(to) PROVE LoadMeetsEarlyTicksOnly'
    BY <1>8, EarlySame DEF SeekWrite
  <1>9. ASSUME NEW t \in Timers, Tick(t) PROVE LoadMeetsEarlyTicksOnly'
    BY <1>9, EarlyTick
  <1>10. CASE SongEnds \/ SyncLocks \/ SyncWrites
    BY <1>10, EarlySame DEF SongEnds, SyncLocks, SyncWrites, window
  <1> QED BY <1>1, <1>2, <1>3, <1>4, <1>5, <1>6, <1>7, <1>8, <1>9, <1>10 DEF Next

-----------------------------------------------------------------------------
(* The theorems.                                                           *)

LEMMA FlaggedStep == Flagged /\ [Next]_vars => Flagged'
  <1> SUFFICES ASSUME Flagged, [Next]_vars PROVE Flagged'
    OBVIOUS
  <1>1. CASE UNCHANGED vars
    <2>1. closing' = closing /\ isNC' = isNC /\ isPlay' = isPlay /\ loading' = loading /\ fault' = fault /\ reentered' = reentered /\ gaveUp' = gaveUp
      BY <1>1 DEF vars, window, clock
    <2> QED BY <2>1 DEF Flagged
  <1>2. CASE Open
    <2>1. closing' = closing /\ isPlay' = isPlay /\ fault' = fault /\ gaveUp' = gaveUp
      BY <1>2 DEF Open, clock, Enter, Quiet
    <2>2. isNC' \in BOOLEAN /\ loading' \in BOOLEAN /\ reentered' \in BOOLEAN
      BY <1>2 DEF Open, clock, Enter, Quiet, Flagged
    <2> QED BY <2>1, <2>2 DEF Flagged
  <1>3. ASSUME NEW b \in BOOLEAN, Loaded(b) PROVE Flagged'
    <2>1. closing' = closing /\ isNC' = isNC /\ isPlay' = isPlay /\ fault' = fault /\ reentered' = reentered /\ gaveUp' = gaveUp
      BY <1>3 DEF Loaded, clock
    <2>2. loading' \in BOOLEAN
      BY <1>3 DEF Loaded, clock, Flagged
    <2> QED BY <2>1, <2>2 DEF Flagged
  <1>4. CASE Kill
    <2>1. closing' = closing /\ isNC' = isNC /\ isPlay' = isPlay /\ loading' = loading /\ reentered' = reentered /\ gaveUp' = gaveUp
      BY <1>4 DEF Kill, clock
    <2>2. fault' \in BOOLEAN
      BY <1>4 DEF Kill, clock, Flagged
    <2> QED BY <2>1, <2>2 DEF Flagged
  <1>5. CASE Killed
    <2>1. closing' = closing /\ isNC' = isNC /\ isPlay' = isPlay /\ loading' = loading /\ fault' = fault /\ reentered' = reentered /\ gaveUp' = gaveUp
      BY <1>5 DEF Killed, clock
    <2> QED BY <2>1 DEF Flagged
  <1>6. CASE ResetLock
    <2>1. closing' = closing /\ isNC' = isNC /\ isPlay' = isPlay /\ loading' = loading /\ fault' = fault /\ reentered' = reentered /\ gaveUp' = gaveUp
      BY <1>6 DEF ResetLock, clock
    <2> QED BY <2>1 DEF Flagged
  <1>7. CASE ResetWrite
    <2>1. closing' = closing /\ isNC' = isNC /\ loading' = loading /\ fault' = fault /\ reentered' = reentered /\ gaveUp' = gaveUp
      BY <1>7 DEF ResetWrite, Reset
    <2>2. isPlay' \in BOOLEAN
      BY <1>7 DEF ResetWrite, Reset, Flagged
    <2> QED BY <2>1, <2>2 DEF Flagged
  <1>8. CASE FreeChannel
    <2>1. closing' = closing /\ isNC' = isNC /\ isPlay' = isPlay /\ loading' = loading /\ fault' = fault /\ reentered' = reentered /\ gaveUp' = gaveUp
      BY <1>8 DEF FreeChannel, clock
    <2> QED BY <2>1 DEF Flagged
  <1>9. ASSUME NEW c \in Channels \cup {NULL}, CreateChannel(c) PROVE Flagged'
    <2>1. closing' = closing /\ isNC' = isNC /\ isPlay' = isPlay /\ loading' = loading /\ fault' = fault /\ reentered' = reentered
      BY <1>9 DEF CreateChannel, clock
    <2>2. gaveUp' \in BOOLEAN
      BY <1>9 DEF CreateChannel, clock, Flagged
    <2> QED BY <2>1, <2>2 DEF Flagged
  <1>10. ASSUME NEW t \in Timers \cup {NULL}, StartTimer(t) PROVE Flagged'
    <2>1. closing' = closing /\ isNC' = isNC /\ isPlay' = isPlay /\ loading' = loading /\ fault' = fault /\ reentered' = reentered /\ gaveUp' = gaveUp
      BY <1>10 DEF StartTimer, clock
    <2> QED BY <2>1 DEF Flagged
  <1>11. ASSUME NEW b \in BOOLEAN, Rate(b) PROVE Flagged'
    <2>1. closing' = closing /\ isPlay' = isPlay /\ loading' = loading /\ fault' = fault /\ reentered' = reentered /\ gaveUp' = gaveUp
      BY <1>11 DEF Rate, clock
    <2>2. isNC' \in BOOLEAN
      BY <1>11 DEF Rate, clock, Flagged
    <2> QED BY <2>1, <2>2 DEF Flagged
  <1>12. CASE Seek
    <2>1. closing' = closing /\ isNC' = isNC /\ isPlay' = isPlay /\ loading' = loading /\ fault' = fault /\ reentered' = reentered /\ gaveUp' = gaveUp
      BY <1>12 DEF Seek, clock
    <2> QED BY <2>1 DEF Flagged
  <1>13. CASE SeekLock
    <2>1. closing' = closing /\ isNC' = isNC /\ isPlay' = isPlay /\ loading' = loading /\ fault' = fault /\ reentered' = reentered /\ gaveUp' = gaveUp
      BY <1>13 DEF SeekLock, clock
    <2> QED BY <2>1 DEF Flagged
  <1>14. ASSUME NEW to \in {"lead", "song"}, SeekWrite(to) PROVE Flagged'
    <2>1. closing' = closing /\ isNC' = isNC /\ isPlay' = isPlay /\ loading' = loading /\ fault' = fault /\ reentered' = reentered /\ gaveUp' = gaveUp
      BY <1>14 DEF SeekWrite
    <2> QED BY <2>1 DEF Flagged
  <1>15. CASE Close
    <2>1. isNC' = isNC /\ isPlay' = isPlay /\ loading' = loading /\ fault' = fault /\ reentered' = reentered /\ gaveUp' = gaveUp
      BY <1>15 DEF Close, clock
    <2>2. closing' \in BOOLEAN
      BY <1>15 DEF Close, clock, Flagged
    <2> QED BY <2>1, <2>2 DEF Flagged
  <1>16. CASE Leave
    <2>1. closing' = closing /\ isNC' = isNC /\ isPlay' = isPlay /\ loading' = loading /\ fault' = fault /\ reentered' = reentered /\ gaveUp' = gaveUp
      BY <1>16 DEF Leave, clock
    <2> QED BY <2>1 DEF Flagged
  <1>17. ASSUME NEW t \in Timers, Tick(t) PROVE Flagged'
    <2>1. closing' = closing /\ isNC' = isNC /\ loading' = loading /\ fault' = fault /\ reentered' = reentered /\ gaveUp' = gaveUp
      BY <1>17 DEF Tick, TickLocks, TickChecks, TickFinds, TickSent, TickBeats, TickPlays, TickPlayed,
                TickReads, TickWrites, Others, window, clock
    <2>2. isPlay' \in BOOLEAN
      BY <1>17 DEF Tick, TickLocks, TickChecks, TickFinds, TickSent, TickBeats, TickPlays, TickPlayed,
                TickReads, TickWrites, Others, window, clock, Flagged
    <2> QED BY <2>1, <2>2 DEF Flagged
  <1>18. CASE SongEnds
    <2>1. closing' = closing /\ isNC' = isNC /\ isPlay' = isPlay /\ loading' = loading /\ fault' = fault /\ reentered' = reentered /\ gaveUp' = gaveUp
      BY <1>18 DEF SongEnds, window, clock
    <2> QED BY <2>1 DEF Flagged
  <1>19. CASE SyncLocks
    <2>1. closing' = closing /\ isNC' = isNC /\ isPlay' = isPlay /\ loading' = loading /\ fault' = fault /\ reentered' = reentered /\ gaveUp' = gaveUp
      BY <1>19 DEF SyncLocks, window, clock
    <2> QED BY <2>1 DEF Flagged
  <1>20. CASE SyncWrites
    <2>1. closing' = closing /\ isNC' = isNC /\ loading' = loading /\ fault' = fault /\ reentered' = reentered /\ gaveUp' = gaveUp
      BY <1>20 DEF SyncWrites, Reset, window
    <2>2. isPlay' \in BOOLEAN
      BY <1>20 DEF SyncWrites, Reset, window, Flagged
    <2> QED BY <2>1, <2>2 DEF Flagged
  <1> QED BY <1>1, <1>2, <1>3, <1>4, <1>5, <1>6, <1>7, <1>8, <1>9, <1>10, <1>11, <1>12, <1>13, <1>14, <1>15, <1>16, <1>17, <1>18, <1>19, <1>20 DEF Next

(* What every reachable state satisfies.                                   *)
Inv == Typed /\ Flagged /\ Nested /\ Exclusive /\ Single /\ Killable /\ LoadMeetsEarlyTicksOnly

LEMMA Initially == Init => Inv
  <1> SUFFICES ASSUME Init PROVE Inv
    OBVIOUS
  <1>0. ui = <<>> /\ ui \in Seq(Call) /\ Len(ui) = 0
    BY DEF Init
  <1>1. Typed
    BY <1>0, PlayerAssumption DEF Init, Typed, Ticks
  <1>2. Flagged
    BY DEF Init, Flagged
  <1>3. Nested
    BY <1>0 DEF Init, Nested
  <1>4. Exclusive
    BY <1>0, Names DEF Init, Exclusive, HeldInside, Doing
  <1>5. Single
    BY <1>0 DEF Init, Single, SeeksInside, Live, Outer, Between
  <1>6. Killable
    BY PlayerAssumption DEF Init, Killable
  <1>7. LoadMeetsEarlyTicksOnly
    BY DEF Init, LoadMeetsEarlyTicksOnly
  <1> QED BY <1>1, <1>2, <1>3, <1>4, <1>5, <1>6, <1>7 DEF Inv

LEMMA Invariant == Spec => []Inv
  <1>1. Init => Inv
    BY Initially
  <1>2. Inv /\ [Next]_vars => Inv'
    BY TypedStep, FlaggedStep, NestedStep, ExclusiveStep, SingleStep, EarlyStep DEF Inv
  <1> QED BY <1>1, <1>2, PTL DEF Spec

(* The variables keep their types, whatever the threads do.                *)
THEOREM WellTyped == Spec => []TypeOK
  <1>1. Inv => TypeOK
    BY DEF Inv, Typed, Flagged, TypeOK, Call
  <1> QED BY <1>1, Invariant, PTL

(* ghMutex is held only by a handler, a tick or an end of a song that is   *)
(* between its lock and its release, and a tick that got it never writes   *)
(* over a reset of songTime or isPlay (bpm.c:177-187, 212-301, 494-497).   *)
THEOREM OwnersExclude == Spec => []MutexExcludes
  <1>1. Inv => MutexExcludes
    BY DEF Inv, Exclusive, MutexExcludes, ResetSurvivesOwners
  <1> QED BY <1>1, Invariant, PTL

(* Unless a file is opened inside the opening of another, pt names the only *)
(* timer that runs, so that the next ID_OPEN kills it; a timer that is      *)
(* freed is killed again only after an opening that failed half way         *)
(* (bpm.c:339, 363, 390, 406).                                              *)
THEOREM OneTimerToKill == Spec => []TimersAreKilled
  <1>1. Inv => TimersAreKilled
    BY DEF Inv, Single, Killable, TimersAreKilled, RunningTimerIsNamed, KillFindsTimer
  <1> QED BY <1>1, Invariant, PTL

(* Until BASS is freed a callback works on a channel that lives, unless a  *)
(* file was opened inside the opening of another (bpm.c:339-406).          *)
THEOREM CallbacksHaveChannel == Spec => []TicksHaveChannel
  <1>1. Inv => TicksHaveChannel
    BY DEF Inv, Single, TicksHaveChannel
  <1> QED BY <1>1, Invariant, PTL

(* While loadBeatmap writes the beatmap, the metronome of a tick works on   *)
(* it only if it passed the look at isNC before the load began, and has not *)
(* left since (bpm.c:214-247, 329-330).                                     *)
THEOREM LoadMeetsOnlyEarly == Spec => []LoadMeetsEarlyTicksOnly
  <1>1. Inv => LoadMeetsEarlyTicksOnly
    BY DEF Inv
  <1> QED BY <1>1, Invariant, PTL
=============================================================================
