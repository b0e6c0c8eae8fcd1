------------------------------- MODULE Timer -------------------------------
(***************************************************************************)
(* The multimedia timer of preview/timer.c: each timer is a block of       *)
(* memory shared by the thread that calls back and by whoever kills it.    *)
(*                                                                         *)
(* A step of a thread is what it does between two accesses to the shared   *)
(* block that another thread can come between.  Touching a freed block is  *)
(* undefined behaviour: the build may still find the old bytes there, and  *)
(* then the code goes on as if the block were live, or it may do anything  *)
(* (`status' is then "undefined" and the model stops).                     *)
(***************************************************************************)
EXTENDS Naturals, FiniteSets

CONSTANTS
    Callers,    \* threads that set and kill timers
    UI,         \* the thread whose windows the callback sends messages to
    Timers,     \* blocks malloc may return, each returned once
    Flags,      \* the fuEvent values in use: records of two Booleans
    NULL

ASSUME TimerAssumption ==
    /\ UI \in Callers
    /\ Flags \subseteq [periodic : BOOLEAN, sync : BOOLEAN]
    /\ NULL \notin Timers

VARIABLES
    memory,    \* "unused", "live", "freed"
    fuEvent,   \* the flags the timer was set with
    close,     \* __close
    error,     \* __error
    event,     \* "none", "set", "unset", "closed"
    hThread,   \* "none", "open", "closed"
    thread,    \* where the timer's thread is
    call,      \* what each caller is doing: [at, timer]
    answer,    \* what its last call returned
    status,
    fired,     \* history: callbacks so far, counted to 2
    late,      \* history: those that began after a kill had returned TIMERR_NOERROR
    killed,    \* history: timers some caller has asked to kill
    done,      \* history: timers whose kill has returned TIMERR_NOERROR
    misused    \* history: a timer was killed twice, or one that is not synchronous

block   == <<memory, fuEvent, close, error, event, hThread>>
history == <<fired, late, killed, done, misused>>
vars    == <<block, thread, call, answer, status, history>>

ThreadStates == {"none", "created", "waiting", "callback", "sending", "sent",
                 "check", "finish", "close", "free", "exited"}
CallStates   == {"idle", "err", "enter", "close", "sync", "dup", "set", "wait"}
Answers      == {"none", "NULL", "timer", "NOERROR", "INVALPARAM"}

TypeOK ==
    /\ memory \in [Timers -> {"unused", "live", "freed"}]
    /\ fuEvent \in [Timers -> [periodic : BOOLEAN, sync : BOOLEAN]]
    /\ close \in [Timers -> BOOLEAN] /\ error \in [Timers -> BOOLEAN]
    /\ event \in [Timers -> {"none", "set", "unset", "closed"}]
    /\ hThread \in [Timers -> {"none", "open", "closed"}]
    /\ thread \in [Timers -> ThreadStates]
    /\ call \in [Callers -> [at : CallStates, timer : Timers \cup {NULL}]]
    /\ answer \in [Callers -> Answers]
    /\ status \in {"ok", "undefined"}
    /\ fired \in [Timers -> 0..2] /\ late \in [Timers -> 0..2]
    /\ killed \subseteq Timers /\ done \subseteq killed /\ misused \in BOOLEAN

Idle == [at |-> "idle", timer |-> NULL]

Init ==
    /\ memory = [t \in Timers |-> "unused"]
    /\ fuEvent = [t \in Timers |-> [periodic |-> FALSE, sync |-> FALSE]]
    /\ close = [t \in Timers |-> FALSE] /\ error = [t \in Timers |-> FALSE]
    /\ event = [t \in Timers |-> "none"]
    /\ hThread = [t \in Timers |-> "none"]
    /\ thread = [t \in Timers |-> "none"]
    /\ call = [c \in Callers |-> Idle]
    /\ answer = [c \in Callers |-> "none"]
    /\ status = "ok"
    /\ fired = [t \in Timers |-> 0] /\ late = [t \in Timers |-> 0]
    /\ killed = {} /\ done = {} /\ misused = FALSE

Capped(n) == IF n < 2 THEN n + 1 ELSE n

-----------------------------------------------------------------------------
(* The thread of a timer, lpStartAddress.  It works while the block lives. *)

Runs(t, from, to) ==
    /\ status = "ok"
    /\ thread[t] = from
    /\ thread' = [thread EXCEPT ![t] = to]

Start(t) ==
    /\ Runs(t, "created", IF error[t] THEN "exited" ELSE "waiting")
    /\ UNCHANGED <<block, call, answer, status, history>>

(* The delay is over, lpTimeProc is called.                                *)
Tick(t) ==
    /\ Runs(t, "waiting", "callback")
    /\ fired' = [fired EXCEPT ![t] = Capped(@)]
    /\ late' = IF t \in done THEN [late EXCEPT ![t] = Capped(@)] ELSE late
    /\ UNCHANGED <<block, call, answer, status, killed, done, misused>>

(* A callback like playTimerProc sends a message to a window and waits     *)
(* until the thread of that window has handled it.                         *)
Sends(t) ==
    /\ Runs(t, "callback", "sending")
    /\ UNCHANGED <<block, call, answer, status, history>>

Returns(t) ==
    /\ Runs(t, "callback", "check") \/ Runs(t, "sent", "check")
    /\ UNCHANGED <<block, call, answer, status, history>>

AfterCallback_Unchecked(t) == "waiting"
AfterCallback(t) == IF close[t] THEN "finish" ELSE "waiting"

Check(t) ==
    /\ Runs(t, "check", AfterCallback(t))
    /\ UNCHANGED <<block, call, answer, status, history>>

(* The event is auto-reset: the wait that it ends unsets it.               *)
Finish(t) ==
    /\ event[t] = "set"
    /\ Runs(t, "finish", "close")
    /\ event' = [event EXCEPT ![t] = "unset"]
    /\ UNCHANGED <<memory, fuEvent, close, error, hThread, call, answer, status, history>>

CloseHandles(t) ==
    /\ Runs(t, "close", "free")
    /\ event' = [event EXCEPT ![t] = "closed"]
    /\ hThread' = [hThread EXCEPT ![t] = "closed"]
    /\ UNCHANGED <<memory, fuEvent, close, error, call, answer, status, history>>

Free(t) ==
    /\ Runs(t, "free", "exited")
    /\ memory' = [memory EXCEPT ![t] = "freed"]
    /\ UNCHANGED <<fuEvent, close, error, event, hThread, call, answer, status, history>>

ThreadStep(t) ==
    \/ Start(t) \/ Tick(t) \/ Sends(t) \/ Returns(t) \/ Check(t)
    \/ Finish(t) \/ CloseHandles(t) \/ Free(t)

-----------------------------------------------------------------------------
(* TIMER_timeSetEvent.  The thread is created suspended, so that everything*)
(* up to ResumeThread is one step.                                         *)

Return(c, a) ==
    /\ call' = [call EXCEPT ![c] = Idle]
    /\ answer' = [answer EXCEPT ![c] = a]

(* malloc or CreateThread fails.                                           *)
TimeSetRefused(c) ==
    /\ status = "ok" /\ call[c] = Idle
    /\ Return(c, "NULL")
    /\ UNCHANGED <<block, thread, status, history>>

CloseAtStart_Never(f) == FALSE
CloseAtStart(f) == ~f.periodic

EventAtStart_ManualReset(f) == IF f.sync THEN "unset" ELSE "set until reset"
EventAtStart(f) == IF f.sync THEN "unset" ELSE "set"

ThreadOver_NoWait(t) == TRUE
ThreadOver(t) == thread[t] = "exited"

Made(t, f, failed, ev) ==
    /\ memory[t] = "unused"
    /\ memory' = [memory EXCEPT ![t] = "live"]
    /\ fuEvent' = [fuEvent EXCEPT ![t] = f]
    /\ close' = [close EXCEPT ![t] = CloseAtStart(f)]
    /\ error' = [error EXCEPT ![t] = failed]
    /\ event' = [event EXCEPT ![t] = ev]
    /\ hThread' = [hThread EXCEPT ![t] = "open"]
    /\ thread' = [thread EXCEPT ![t] = "created"]
    /\ UNCHANGED <<status, history>>

TimeSet(c, t, f) ==
    /\ status = "ok" /\ call[c] = Idle
    /\ Made(t, f, FALSE, EventAtStart(f))
    /\ Return(c, "timer")

(* No event, or no priority or resolution: the thread is let go to its end.*)
TimeSetFails(c, t, f) ==
    /\ status = "ok" /\ call[c] = Idle
    /\ \E ev \in {"none", "closed"} : Made(t, f, TRUE, ev)
    /\ call' = [call EXCEPT ![c] = [at |-> "err", timer |-> t]]
    /\ UNCHANGED answer

TimeSetGivesUp(c) ==
    LET t == call[c].timer IN
    /\ status = "ok" /\ call[c].at = "err" /\ ThreadOver(t)
    /\ hThread' = [hThread EXCEPT ![t] = "closed"]
    /\ memory' = [memory EXCEPT ![t] = "freed"]
    /\ Return(c, "NULL")
    /\ UNCHANGED <<fuEvent, close, error, event, thread, status, history>>

-----------------------------------------------------------------------------
(* TIMER_timeKillEvent, one step per access to the block.                  *)

Given == {t \in Timers : memory[t] # "unused" /\ ~error[t]}

Kill(c, t) ==
    /\ status = "ok" /\ call[c] = Idle
    /\ t \in Given
    /\ call' = [call EXCEPT ![c] = [at |-> "enter", timer |-> t]]
    /\ killed' = killed \cup {t}
    /\ misused' = (misused \/ t \in killed \/ ~fuEvent[t].sync)
    /\ UNCHANGED <<block, thread, answer, status, fired, late, done>>

In(c, at) == status = "ok" /\ call[c].at = at
Goes(c, at) == call' = [call EXCEPT ![c].at = at]
Freed(c) == memory[call[c].timer] = "freed"

(* 138-144: the handle names no thread once it is closed.                  *)
KillChecks(c) ==
    /\ In(c, "enter")
    /\ IF hThread[call[c].timer] = "closed"
       THEN Return(c, "INVALPARAM") ELSE Goes(c, "close") /\ UNCHANGED answer
    /\ UNCHANGED <<block, thread, status, history>>

KillCloses(c) ==
    /\ In(c, "close")
    /\ close' = [close EXCEPT ![call[c].timer] = TRUE]
    /\ Goes(c, "sync")
    /\ UNCHANGED <<memory, fuEvent, error, event, hThread, thread, answer, status, history>>

Done(c) ==
    /\ Return(c, "NOERROR")
    /\ done' = done \cup {call[c].timer}
    /\ UNCHANGED <<fired, late, killed, misused>>

KillReadsSync(c) ==
    /\ In(c, "sync")
    /\ IF fuEvent[call[c].timer].sync
       THEN Goes(c, "dup") /\ UNCHANGED <<answer, history>> ELSE Done(c)
    /\ UNCHANGED <<block, thread, status>>

(* 150: an open handle; a closed one leaves hThread uninitialised.         *)
KillDuplicates(c) ==
    /\ In(c, "dup") /\ hThread[call[c].timer] = "open"
    /\ Goes(c, "set")
    /\ UNCHANGED <<block, thread, answer, status, history>>

KillSetsEvent(c) ==
    LET t == call[c].timer IN
    /\ In(c, "set")
    /\ event' = [event EXCEPT ![t] = IF @ = "closed" THEN @ ELSE "set"]
    /\ Goes(c, "wait")
    /\ UNCHANGED <<memory, fuEvent, close, error, hThread, thread, answer, status, history>>

KillReturns(c) ==
    /\ In(c, "wait") /\ ThreadOver(call[c].timer)
    /\ Done(c)
    /\ UNCHANGED <<block, thread, status>>

(* The block or the handle is gone when the call comes to use it.          *)
KillUndefined(c) ==
    /\ \/ call[c].at \in {"enter", "close", "sync", "dup", "set"} /\ Freed(c)
       \/ call[c].at = "dup" /\ hThread[call[c].timer] = "closed"
    /\ status = "ok" /\ status' = "undefined"
    /\ UNCHANGED <<block, thread, call, answer, history>>

(* MsgWaitForSingleObject handles messages while it waits, like the loop   *)
(* of the idle program.                                                    *)
Pumping == call[UI].at \in {"idle", "err", "wait"}

Handles(t) ==
    /\ Pumping
    /\ Runs(t, "sending", "sent")
    /\ UNCHANGED <<block, call, answer, status, history>>

-----------------------------------------------------------------------------
CallStep(c) ==
    \/ TimeSetGivesUp(c) \/ KillChecks(c) \/ KillCloses(c) \/ KillReadsSync(c)
    \/ KillDuplicates(c) \/ KillSetsEvent(c) \/ KillReturns(c) \/ KillUndefined(c)

Next ==
    \/ \E t \in Timers : ThreadStep(t) \/ Handles(t)
    \/ \E c \in Callers :
          \/ TimeSetRefused(c) \/ CallStep(c)
          \/ \E t \in Timers : \/ Kill(c, t)
                             \/ \E f \in Flags : TimeSet(c, t, f) \/ TimeSetFails(c, t, f)

(* Threads run, delays end and callbacks return.  The thread of the window *)
(* comes back to its message loop between any two calls it makes, and there*)
(* messages sent by other threads go first, so a message that can be       *)
(* handled again and again is handled.  Nobody has to set or kill a timer. *)
Fairness ==
    /\ \A t \in Timers : WF_vars(ThreadStep(t)) /\ SF_vars(Handles(t))
    /\ \A c \in Callers : WF_vars(CallStep(c))

Spec == Init /\ [][Next]_vars
FairSpec == Spec /\ Fairness

-----------------------------------------------------------------------------
(* Properties.                                                             *)

(* timer.h:16, 35: once the kill of a TIME_KILL_SYNCHRONOUS timer has      *)
(* returned without error no callback begins or is still running; of the   *)
(* other timers one more event may come, never two, because the thread     *)
(* looks at __close between callbacks (timer.c:56-59, 147-155).            *)
SilentAfterKill ==
    \A t \in Timers :
       /\ late[t] <= 1
       /\ t \in done /\ fuEvent[t].sync => late[t] = 0 /\ thread[t] = "exited"

(* timer.h:24: a TIME_ONESHOT timer calls back at most once, whatever the  *)
(* callers do meanwhile (timer.c:56-59, 98).                               *)
OneShotOnce == \A t \in Timers : ~fuEvent[t].periodic => fired[t] <= 1

(* The protocol between killer and thread: as long as only timers set with *)
(* TIME_KILL_SYNCHRONOUS are killed, and each once, as bpm.c means to do,  *)
(* the thread does not free the block or close a handle before the killer  *)
(* has used them for the last time (timer.c:63-68, 146-154).               *)
KillerFindsTimer == status = "undefined" => misused

(* A block is freed when nobody can reach it any more: its thread is over, *)
(* its handles are closed, and it is not freed a second time               *)
(* (timer.c:62-69, 113, 119-127).                                          *)
FreedIsClosed ==
    \A t \in Timers : memory[t] = "freed" =>
       thread[t] = "exited" /\ hThread[t] = "closed" /\ event[t] \in {"closed", "none"}

(* The reason the functions were rewritten (timer.h:7): a kill that waits  *)
(* for a callback which itself waits for a window of the killer's thread   *)
(* comes back (timer.c:153, 159-183).                                      *)
KillComesBack ==
    \A c \in Callers : (call[c].at # "idle") ~> (call[c] = Idle \/ status = "undefined")

(* A timer that is to stop, with nobody's kill to wait for, is freed with  *)
(* its handles (timer.c:58-68).                                            *)
StoppedIsFreed ==
    \A t \in Timers :
       (memory[t] = "live" /\ close[t] /\ event[t] = "set")
          ~> (memory[t] = "freed" \/ status = "undefined")

(* Nobody waits for ever: kills come back and timers that stop are freed.  *)
TimersComeToRest == KillComesBack /\ StoppedIsFreed

(* Callbacks come as often as the flags say and end with the kill.         *)
CallbacksAsAsked == SilentAfterKill /\ OneShotOnce

(* A block is freed once everybody is through with it, its handles closed. *)
FreedInTime == KillerFindsTimer /\ FreedIsClosed
=============================================================================
