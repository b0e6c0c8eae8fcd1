---------------------------- MODULE TimerProofs ----------------------------
(***************************************************************************)
(* Proofs about Timer, for any number of timers and callers.               *)
(*                                                                         *)
(* The state of a timer is tied to where its thread is (Block), how often  *)
(* it has called back to its flags (Counted), what a caller has done to    *)
(* its timer to where the call is (Called), and killers exclude each other *)
(* as long as timers are used as meant (Alone, Protocol).                  *)
(***************************************************************************)
EXTENDS Timer, TLAPS

KillStates == {"enter", "close", "sync", "dup", "set", "wait"}
BeforeSet  == KillStates \ {"wait"}
Working    == {"created", "waiting", "callback", "sending", "sent", "check", "finish"}

(* Where the thread is, what is open, and whether the block is there.      *)
Block(t) ==
    /\ memory[t] = "unused" =>
          /\ thread[t] = "none" /\ ~error[t] /\ t \notin killed
          /\ fired[t] = 0 /\ late[t] = 0
    /\ error[t] => /\ t \notin killed /\ fired[t] = 0 /\ late[t] = 0
                   /\ event[t] \in {"none", "closed"} /\ thread[t] \in {"created", "exited"}
                   /\ memory[t] = "freed" => thread[t] = "exited" /\ hThread[t] = "closed"
    /\ ~error[t] /\ memory[t] = "live" =>
          \/ thread[t] \in Working \cup {"close"} /\ hThread[t] = "open" /\ event[t] \in {"set", "unset"}
          \/ thread[t] = "free" /\ hThread[t] = "closed" /\ event[t] = "closed"
    /\ ~error[t] /\ memory[t] = "freed" =>
          thread[t] = "exited" /\ hThread[t] = "closed" /\ event[t] = "closed"

(* How often the timer has called back.                                    *)
Counted(t) ==
    /\ ~fuEvent[t].periodic =>
          /\ memory[t] # "unused" => close[t]
          /\ fired[t] <= 1
          /\ thread[t] \in {"none", "created", "waiting"} => fired[t] = 0
    /\ t \in done => close[t]
    /\ late[t] <= 1
    /\ late[t] > 0 => t \in done /\ thread[t] \notin {"none", "created", "waiting"}
    /\ t \in done /\ fuEvent[t].sync => late[t] = 0 /\ thread[t] = "exited"

(* What a call has done to its timer.                                      *)
Called(c) ==
    LET t == call[c].timer IN
    /\ call[c].at # "idle" => t \in Timers /\ memory[t] # "unused"
    /\ call[c].at = "err" => error[t] /\ memory[t] = "live"
    /\ call[c].at \in KillStates => ~error[t] /\ t \in killed
    /\ call[c].at \in {"sync", "dup", "set", "wait"} => close[t]
    /\ call[c].at \in {"dup", "set", "wait"} => fuEvent[t].sync

Alone(c, d) ==
    c # d /\ call[c].timer = call[d].timer =>
       /\ call[c].at = "err" => call[d].at # "err"
       /\ ~misused /\ call[c].at \in KillStates => call[d].at \notin KillStates

(* Nobody has set the event yet that the thread waits for at its end.      *)
Waits(t) == event[t] = "unset" /\ thread[t] \in Working

(* As long as only synchronous timers are killed, and each once, the thread*)
(* waits for the killer.                                                   *)
Protocol(t) ==
    ~misused /\ memory[t] # "unused" /\ ~error[t] =>
       /\ t \in killed => fuEvent[t].sync
       /\ t \notin killed /\ fuEvent[t].sync => Waits(t)
       /\ \A c \in Callers : call[c].timer = t /\ call[c].at \in BeforeSet => Waits(t)

Inv ==
    /\ TypeOK
    /\ \A t \in Timers : Block(t) /\ Counted(t) /\ Protocol(t)
    /\ \A c \in Callers : Called(c)
    /\ \A c, d \in Callers : Alone(c, d)
    /\ status = "undefined" => misused

-----------------------------------------------------------------------------
LEMMA InitInv == Init => Inv
  <1> SUFFICES ASSUME Init PROVE Inv
    OBVIOUS
  <1>1. TypeOK
    <2>1. Idle \in [at : CallStates, timer : Timers \cup {NULL}]
      BY DEF Idle, CallStates
    <2>2. [periodic |-> FALSE, sync |-> FALSE] \in [periodic : BOOLEAN, sync : BOOLEAN]
      OBVIOUS
    <2>3. call \in [Callers -> [at : CallStates, timer : Timers \cup {NULL}]]
      BY <2>1 DEF Init
    <2>4. fuEvent \in [Timers -> [periodic : BOOLEAN, sync : BOOLEAN]]
      BY <2>2 DEF Init
    <2>5. fired \in [Timers -> 0..2] /\ late \in [Timers -> 0..2] /\ answer \in [Callers -> Answers]
      BY DEF Init, Answers
    <2>6. /\ memory \in [Timers -> {"unused", "live", "freed"}]
          /\ event \in [Timers -> {"none", "set", "unset", "closed"}]
          /\ hThread \in [Timers -> {"none", "open", "closed"}]
          /\ thread \in [Timers -> ThreadStates]
      BY DEF Init, ThreadStates
    <2>7. /\ close \in [Timers -> BOOLEAN] /\ error \in [Timers -> BOOLEAN]
          /\ status \in {"ok", "undefined"} /\ misused \in BOOLEAN
          /\ killed \subseteq Timers /\ done \subseteq killed
      BY DEF Init
    <2> QED BY <2>3, <2>4, <2>5, <2>6, <2>7 DEF TypeOK
  <1>2. \A t \in Timers : Block(t) /\ Counted(t) /\ Protocol(t)
    BY DEF Init, Block, Counted, Protocol
  <1>3. \A c \in Callers : call[c].at = "idle"
    BY DEF Init, Idle
  <1>4. \A c \in Callers : Called(c)
    BY <1>3 DEF Called, KillStates
  <1>5. \A c, d \in Callers : Alone(c, d)
    BY <1>3 DEF Alone, KillStates
  <1> QED BY <1>1, <1>2, <1>4, <1>5 DEF Inv, Init

(* A step of a thread that touches nothing but its own place.              *)
LEMMA Moves ==
    ASSUME Inv, NEW t \in Timers, NEW from, NEW to, Runs(t, from, to),
           UNCHANGED <<block, call, answer, status, history>>,
           IF error[t] THEN to = "exited"
           ELSE from \in Working /\ to \in Working \ {"created"},
           to = "waiting" => from = "created" \/ ~close[t],
           to \in ThreadStates
    PROVE  Inv'
  <1> USE DEF block, history
  <1>1. TypeOK'
    BY DEF Inv, TypeOK, Runs
  <1>2. /\ thread[t] = from /\ thread'[t] = to
        /\ \A u \in Timers : u # t => thread'[u] = thread[u]
    BY DEF Inv, TypeOK, Runs
  <1>3. memory[t] # "unused" /\ (~error[t] => memory[t] = "live")
    BY <1>2 DEF Inv, Block, TypeOK, Working
  <1>4. \A u \in Timers : Block(u)'
    BY <1>2, <1>3 DEF Inv, Block, Working
  <1>5. \A u \in Timers : Counted(u)'
    BY <1>2, <1>3 DEF Inv, TypeOK, Counted, Block, Working
  <1>6. \A u \in Timers : Protocol(u)'
    BY <1>2, <1>3 DEF Inv, Protocol, Waits
  <1>7. /\ \A c \in Callers : Called(c)'
        /\ \A c, d \in Callers : Alone(c, d)'
        /\ (status = "undefined" => misused)'
    BY DEF Inv, Called, Alone
  <1> QED BY <1>1, <1>4, <1>5, <1>6, <1>7 DEF Inv

LEMMA HandlesInv == ASSUME Inv, NEW t \in Timers, Handles(t) PROVE Inv'
  <1>1. ~error[t]
    BY DEF Handles, Runs, Inv, Block
  <1> QED BY <1>1, Moves DEF Handles, Working, ThreadStates

LEMMA MovingInv ==
    ASSUME Inv, NEW t \in Timers, Start(t) \/ Sends(t) \/ Returns(t) \/ Check(t)
    PROVE  Inv'
  <1>1. CASE Start(t)
    BY <1>1, Moves DEF Start, Working, ThreadStates
  <1>2. CASE Sends(t)
    <2>1. ~error[t]
      BY <1>2 DEF Sends, Runs, Inv, Block
    <2> QED BY <1>2, <2>1, Moves DEF Sends, Working, ThreadStates
  <1>3. CASE Returns(t)
    <2>1. ~error[t]
      BY <1>3 DEF Returns, Runs, Inv, Block
    <2> QED BY <1>3, <2>1, Moves DEF Returns, Working, ThreadStates
  <1>4. CASE Check(t)
    <2>1. ~error[t]
      BY <1>4 DEF Check, Runs, Inv, Block
    <2> QED BY <1>4, <2>1, Moves DEF Check, AfterCallback, Working, ThreadStates
  <1> QED BY <1>1, <1>2, <1>3, <1>4

LEMMA TickInv == ASSUME Inv, NEW t \in Timers, Tick(t) PROVE Inv'
  <1> USE DEF block
  <1>1. /\ thread[t] = "waiting" /\ thread'[t] = "callback" /\ status = "ok"
        /\ fired'[t] = Capped(fired[t])
        /\ late'[t] = IF t \in done THEN Capped(late[t]) ELSE late[t]
        /\ \A u \in Timers : u # t => thread'[u] = thread[u] /\ fired'[u] = fired[u] /\ late'[u] = late[u]
        /\ UNCHANGED <<block, call, answer, status, killed, done, misused>>
        /\ fired[t] \in 0..2 /\ late[t] \in 0..2
    BY DEF Inv, TypeOK, Runs, Tick
  <1>2. Capped(fired[t]) \in 0..2 /\ Capped(late[t]) \in 0..2
    BY <1>1 DEF Capped
  <1>3. TypeOK'
    BY <1>1, <1>2 DEF Inv, TypeOK, Runs, Tick, ThreadStates
  <1>4. ~error[t] /\ memory[t] = "live" /\ late[t] = 0
    BY <1>1 DEF Inv, Block, TypeOK, Counted
  <1>5. \A u \in Timers : Block(u)'
    BY <1>1, <1>4 DEF Inv, Block, Working
  <1>6. \A u \in Timers : Counted(u)'
    <2>1. Counted(t)'
      <3>1. late'[t] <= 1 /\ (late'[t] > 0 => t \in done)
        BY <1>1, <1>4 DEF Capped
      <3>2. ~fuEvent[t].periodic => close[t] /\ fired'[t] <= 1
        BY <1>1, <1>4 DEF Inv, Counted, Capped
      <3>3. t \in done => close[t] /\ ~fuEvent[t].sync
        BY <1>1 DEF Inv, Counted
      <3> QED BY <1>1, <3>1, <3>2, <3>3 DEF Counted
    <2> QED BY <1>1, <2>1 DEF Inv, Counted
  <1>7. \A u \in Timers : Protocol(u)'
    BY <1>1 DEF Inv, Protocol, Waits, Working
  <1>8. /\ \A c \in Callers : Called(c)'
        /\ \A c, d \in Callers : Alone(c, d)'
        /\ (status = "undefined" => misused)'
    BY <1>1 DEF Inv, Called, Alone
  <1> QED BY <1>3, <1>5, <1>6, <1>7, <1>8 DEF Inv

LEMMA FinishInv == ASSUME Inv, NEW t \in Timers, Finish(t) PROVE Inv'
  <1>1. /\ thread[t] = "finish" /\ thread'[t] = "close" /\ event[t] = "set" /\ event'[t] = "unset"
        /\ \A u \in Timers : u # t => thread'[u] = thread[u] /\ event'[u] = event[u]
        /\ UNCHANGED <<memory, fuEvent, close, error, hThread, call, answer, status, history>>
    BY DEF Inv, TypeOK, Runs, Finish
  <1> USE DEF history
  <1>2. TypeOK'
    BY <1>1 DEF Inv, TypeOK, Runs, Finish, ThreadStates
  <1>3. ~error[t] /\ memory[t] = "live"
    BY <1>1 DEF Inv, Block, TypeOK
  <1>4. \A u \in Timers : Block(u)'
    BY <1>1, <1>3 DEF Inv, Block, Working
  <1>5. \A u \in Timers : Counted(u)'
    BY <1>1 DEF Inv, Counted
  <1>6. \A u \in Timers : Protocol(u)'
    BY <1>1 DEF Inv, Protocol, Waits
  <1>7. /\ \A c \in Callers : Called(c)'
        /\ \A c, d \in Callers : Alone(c, d)'
        /\ (status = "undefined" => misused)'
    BY <1>1 DEF Inv, Called, Alone
  <1> QED BY <1>2, <1>4, <1>5, <1>6, <1>7 DEF Inv

LEMMA CloseHandlesInv == ASSUME Inv, NEW t \in Timers, CloseHandles(t) PROVE Inv'
  <1>1. /\ thread[t] = "close" /\ thread'[t] = "free" /\ event'[t] = "closed" /\ hThread'[t] = "closed"
        /\ \A u \in Timers : u # t =>
              thread'[u] = thread[u] /\ event'[u] = event[u] /\ hThread'[u] = hThread[u]
        /\ UNCHANGED <<memory, fuEvent, close, error, call, answer, status, history>>
    BY DEF Inv, TypeOK, Runs, CloseHandles
  <1> USE DEF history
  <1>2. TypeOK'
    BY <1>1 DEF Inv, TypeOK, Runs, CloseHandles, ThreadStates
  <1>3. ~error[t] /\ memory[t] = "live"
    BY <1>1 DEF Inv, Block, TypeOK
  <1>4. \A u \in Timers : Block(u)'
    BY <1>1, <1>3 DEF Inv, Block, Working
  <1>5. \A u \in Timers : Counted(u)'
    BY <1>1 DEF Inv, Counted
  <1>6. \A u \in Timers : Protocol(u)'
    BY <1>1 DEF Inv, Protocol, Waits, Working
  <1>7. /\ \A c \in Callers : Called(c)'
        /\ \A c, d \in Callers : Alone(c, d)'
        /\ (status = "undefined" => misused)'
    BY <1>1 DEF Inv, Called, Alone
  <1> QED BY <1>2, <1>4, <1>5, <1>6, <1>7 DEF Inv

LEMMA FreeInv == ASSUME Inv, NEW t \in Timers, Free(t) PROVE Inv'
  <1>1. /\ thread[t] = "free" /\ thread'[t] = "exited" /\ memory'[t] = "freed"
        /\ \A u \in Timers : u # t => thread'[u] = thread[u] /\ memory'[u] = memory[u]
        /\ UNCHANGED <<fuEvent, close, error, event, hThread, call, answer, status, history>>
    BY DEF Inv, TypeOK, Runs, Free
  <1> USE DEF history
  <1>2. TypeOK'
    BY <1>1 DEF Inv, TypeOK, Runs, Free, ThreadStates
  <1>3. ~error[t] /\ memory[t] = "live" /\ hThread[t] = "closed" /\ event[t] = "closed"
    BY <1>1 DEF Inv, Block, TypeOK, Working
  <1>4. \A u \in Timers : Block(u)'
    BY <1>1, <1>3 DEF Inv, Block
  <1>5. \A u \in Timers : Counted(u)'
    BY <1>1, <1>3 DEF Inv, Counted
  <1>6. \A u \in Timers : Protocol(u)'
    BY <1>1, <1>3 DEF Inv, Protocol, Waits, Working
  <1>7. \A c \in Callers : Called(c)'
    BY <1>1, <1>3 DEF Inv, Called
  <1>8. /\ \A c, d \in Callers : Alone(c, d)'
        /\ (status = "undefined" => misused)'
    BY <1>1 DEF Inv, Alone
  <1> QED BY <1>2, <1>4, <1>5, <1>6, <1>7, <1>8 DEF Inv

-----------------------------------------------------------------------------
(* What a call leaves behind in its caller.                                *)
LEMMA Returning ==
    ASSUME Inv, NEW c \in Callers, NEW a \in Answers, Return(c, a)
    PROVE  /\ call'[c].at = "idle" /\ call'[c].timer = NULL
           /\ \A d \in Callers : d # c => call'[d] = call[d]
           /\ call' \in [Callers -> [at : CallStates, timer : Timers \cup {NULL}]]
           /\ answer' \in [Callers -> Answers]
  BY DEF Inv, TypeOK, Return, Idle, CallStates

LEMMA GoesOn ==
    ASSUME Inv, NEW c \in Callers, NEW at \in CallStates, Goes(c, at)
    PROVE  /\ call'[c].at = at /\ call'[c].timer = call[c].timer
           /\ \A d \in Callers : d # c => call'[d] = call[d]
           /\ call' \in [Callers -> [at : CallStates, timer : Timers \cup {NULL}]]
  BY DEF Inv, TypeOK, Goes

(* A call that ends without touching its timer.                            *)
LEMMA ReturnInv ==
    ASSUME Inv, NEW c \in Callers, NEW a \in Answers, Return(c, a),
           UNCHANGED <<block, thread, status, history>>
    PROVE  Inv'
  <1> USE DEF block, history
  <1>1. /\ call'[c].at = "idle"
        /\ \A d \in Callers : d # c => call'[d] = call[d]
        /\ call' \in [Callers -> [at : CallStates, timer : Timers \cup {NULL}]]
        /\ answer' \in [Callers -> Answers]
    BY Returning
  <1>2. TypeOK'
    BY <1>1 DEF Inv, TypeOK
  <1>3. \A u \in Timers : Block(u)' /\ Counted(u)'
    BY DEF Inv, Block, Counted
  <1>4. \A u \in Timers : Protocol(u)'
    BY <1>1 DEF Inv, Protocol, Waits, BeforeSet, KillStates
  <1>5. \A d \in Callers : Called(d)'
    BY <1>1 DEF Inv, Called, KillStates
  <1>6. \A d, e \in Callers : Alone(d, e)'
    BY <1>1 DEF Inv, Alone, KillStates
  <1> QED BY <1>2, <1>3, <1>4, <1>5, <1>6 DEF Inv

(* One access of a kill to the block goes over to the next.                *)
LEMMA GoesInv ==
    ASSUME Inv, NEW c \in Callers, NEW at \in KillStates \ {"enter"},
           call[c].at \in BeforeSet, Goes(c, at),
           UNCHANGED <<block, thread, answer, status, history>>,
           at \in {"sync", "dup", "set", "wait"} => close[call[c].timer],
           at \in {"dup", "set", "wait"} => fuEvent[call[c].timer].sync
    PROVE  Inv'
  <1> USE DEF block, history
  <1>1. /\ call'[c].at = at /\ call'[c].timer = call[c].timer
        /\ \A d \in Callers : d # c => call'[d] = call[d]
        /\ call' \in [Callers -> [at : CallStates, timer : Timers \cup {NULL}]]
    BY GoesOn DEF KillStates, CallStates
  <1>2. TypeOK'
    BY <1>1 DEF Inv, TypeOK
  <1>3. \A u \in Timers : Block(u)' /\ Counted(u)'
    BY DEF Inv, Block, Counted
  <1>4. \A u \in Timers : Protocol(u)'
    BY <1>1 DEF Inv, Protocol, Waits
  <1>5. \A d \in Callers : Called(d)'
    BY <1>1 DEF Inv, Called, KillStates, BeforeSet
  <1>6. \A d, e \in Callers : Alone(d, e)'
    BY <1>1 DEF Inv, Alone, KillStates, BeforeSet
  <1> QED BY <1>2, <1>3, <1>4, <1>5, <1>6 DEF Inv

LEMMA KillChecksInv == ASSUME Inv, NEW c \in Callers, KillChecks(c) PROVE Inv'
  <1>1. call[c].at = "enter" /\ UNCHANGED <<block, thread, status, history>>
    BY DEF KillChecks, In
  <1>2. CASE hThread[call[c].timer] = "closed"
    BY <1>1, <1>2, ReturnInv DEF KillChecks, Answers
  <1>3. CASE hThread[call[c].timer] # "closed"
    BY <1>1, <1>3, GoesInv DEF KillChecks, BeforeSet, KillStates
  <1> QED BY <1>2, <1>3

LEMMA KillClosesInv == ASSUME Inv, NEW c \in Callers, KillCloses(c) PROVE Inv'
  <1> DEFINE t == call[c].timer
  <1>1. call[c].at = "close" /\ t \in Timers /\ memory[t] # "unused"
    BY DEF KillCloses, In, Inv, Called
  <1>2. /\ call'[c].at = "sync" /\ call'[c].timer = t
        /\ \A d \in Callers : d # c => call'[d] = call[d]
        /\ call' \in [Callers -> [at : CallStates, timer : Timers \cup {NULL}]]
    BY GoesOn DEF KillCloses, CallStates
  <1>3. /\ close'[t] /\ \A u \in Timers : u # t => close'[u] = close[u]
        /\ close' \in [Timers -> BOOLEAN]
        /\ UNCHANGED <<memory, fuEvent, error, event, hThread, thread, answer, status, history>>
    BY <1>1 DEF KillCloses, Inv, TypeOK
  <1> HIDE DEF t
  <1> USE DEF history
  <1>4. TypeOK'
    BY <1>2, <1>3 DEF Inv, TypeOK
  <1>5. \A u \in Timers : Block(u)'
    BY <1>3 DEF Inv, Block
  <1>6. \A u \in Timers : Counted(u)'
    BY <1>3 DEF Inv, Counted
  <1>7. \A u \in Timers : Protocol(u)'
    BY <1>1, <1>2, <1>3 DEF Inv, Protocol, Waits, BeforeSet, KillStates, t
  <1>8. \A d \in Callers : Called(d)'
    BY <1>1, <1>2, <1>3 DEF Inv, Called, KillStates, t
  <1>9. \A d, e \in Callers : Alone(d, e)'
    BY <1>1, <1>2, <1>3 DEF Inv, Alone, KillStates, t
  <1> QED BY <1>3, <1>4, <1>5, <1>6, <1>7, <1>8, <1>9 DEF Inv

(* A kill is answered: nothing comes from the timer any more.              *)
LEMMA DoneInv ==
    ASSUME Inv, NEW c \in Callers, Done(c), UNCHANGED <<block, thread, status>>,
           call[c].at \in {"sync", "wait"},
           fuEvent[call[c].timer].sync => thread[call[c].timer] = "exited"
    PROVE  Inv'
  <1> DEFINE t == call[c].timer
  <1> USE DEF block
  <1>1. t \in Timers /\ memory[t] # "unused" /\ t \in killed /\ close[t]
    BY DEF Inv, Called, KillStates
  <1>2. /\ call'[c].at = "idle"
        /\ \A d \in Callers : d # c => call'[d] = call[d]
        /\ call' \in [Callers -> [at : CallStates, timer : Timers \cup {NULL}]]
        /\ answer' \in [Callers -> Answers]
    BY Returning DEF Done, Answers
  <1>3. done' = done \cup {t} /\ UNCHANGED <<fired, late, killed, misused>>
    BY DEF Done
  <1>4. t \notin done => late[t] = 0
    BY <1>1 DEF Inv, Counted, TypeOK
  <1>5. fuEvent[t].sync => thread[t] = "exited"
    OBVIOUS
  <1> HIDE DEF t
  <1>6. TypeOK'
    BY <1>1, <1>2, <1>3 DEF Inv, TypeOK
  <1>7. \A u \in Timers : Block(u)'
    BY <1>3 DEF Inv, Block
  <1>8. \A u \in Timers : Counted(u)'
    BY <1>1, <1>3, <1>4, <1>5 DEF Inv, Counted
  <1>9. \A u \in Timers : Protocol(u)'
    BY <1>2, <1>3 DEF Inv, Protocol, Waits, BeforeSet, KillStates
  <1>10. \A d \in Callers : Called(d)'
    BY <1>2, <1>3 DEF Inv, Called, KillStates
  <1>11. \A d, e \in Callers : Alone(d, e)'
    BY <1>2, <1>3 DEF Inv, Alone, KillStates
  <1> QED BY <1>3, <1>6, <1>7, <1>8, <1>9, <1>10, <1>11 DEF Inv

LEMMA KillReadsSyncInv == ASSUME Inv, NEW c \in Callers, KillReadsSync(c) PROVE Inv'
  <1>1. call[c].at = "sync" /\ close[call[c].timer] /\ UNCHANGED <<block, thread, status>>
    BY DEF KillReadsSync, In, Inv, Called
  <1>2. CASE fuEvent[call[c].timer].sync
    BY <1>1, <1>2, GoesInv DEF KillReadsSync, BeforeSet, KillStates
  <1>3. CASE ~fuEvent[call[c].timer].sync
    BY <1>1, <1>3, DoneInv DEF KillReadsSync
  <1> QED BY <1>2, <1>3

LEMMA KillReturnsInv == ASSUME Inv, NEW c \in Callers, KillReturns(c) PROVE Inv'
  BY DoneInv DEF KillReturns, In, ThreadOver

LEMMA KillDuplicatesInv == ASSUME Inv, NEW c \in Callers, KillDuplicates(c) PROVE Inv'
  <1>1. call[c].at = "dup" /\ close[call[c].timer] /\ fuEvent[call[c].timer].sync
    BY DEF KillDuplicates, In, Inv, Called
  <1> QED BY <1>1, GoesInv DEF KillDuplicates, BeforeSet, KillStates

(* The event is set, and the thread may go on to free the block: nobody    *)
(* else needs it if the timer was used as meant.                           *)
LEMMA KillSetsEventInv == ASSUME Inv, NEW c \in Callers, KillSetsEvent(c) PROVE Inv'
  <1> DEFINE t == call[c].timer
  <1>1. /\ call[c].at = "set" /\ t \in Timers /\ memory[t] # "unused" /\ ~error[t] /\ t \in killed
        /\ close[t] /\ fuEvent[t].sync
    BY DEF KillSetsEvent, In, Inv, Called, KillStates
  <1>2. /\ call'[c].at = "wait" /\ call'[c].timer = t
        /\ \A d \in Callers : d # c => call'[d] = call[d]
        /\ call' \in [Callers -> [at : CallStates, timer : Timers \cup {NULL}]]
    BY GoesOn DEF KillSetsEvent, CallStates
  <1>3. /\ event'[t] = IF event[t] = "closed" THEN "closed" ELSE "set"
        /\ \A u \in Timers : u # t => event'[u] = event[u]
        /\ event' \in [Timers -> {"none", "set", "unset", "closed"}]
        /\ UNCHANGED <<memory, fuEvent, close, error, hThread, thread, answer, status, history>>
    BY <1>1 DEF KillSetsEvent, Inv, TypeOK
  <1>4. \A d \in Callers : d # c /\ call[d].timer = t /\ ~misused => call[d].at \notin BeforeSet
    BY <1>1 DEF Inv, Alone, BeforeSet, KillStates
  <1> HIDE DEF t
  <1> USE DEF history
  <1>5. TypeOK'
    BY <1>2, <1>3 DEF Inv, TypeOK
  <1>6. \A u \in Timers : Block(u)'
    BY <1>1, <1>3 DEF Inv, Block
  <1>7. \A u \in Timers : Counted(u)'
    BY <1>3 DEF Inv, Counted
  <1>8. \A u \in Timers : Protocol(u)'
    <2>1. UNCHANGED <<memory, error, fuEvent, thread, killed, misused>>
      BY <1>3
    <2>2. ASSUME ~misused, NEW d \in Callers, call'[d].at \in BeforeSet
          PROVE  d # c /\ call'[d] = call[d] /\ call'[d].timer # t
      BY <1>2, <1>4, <2>2 DEF BeforeSet
    <2>3. \A u \in Timers : u # t => Waits(u)' = Waits(u)
      BY <1>3, <2>1 DEF Waits
    <2> QED BY <1>1, <2>1, <2>2, <2>3 DEF Inv, Protocol
  <1>9. \A d \in Callers : Called(d)'
    BY <1>1, <1>2, <1>3 DEF Inv, Called, KillStates
  <1>10. \A d, e \in Callers : Alone(d, e)'
    BY <1>1, <1>2, <1>3 DEF Inv, Alone, KillStates, t
  <1> QED BY <1>3, <1>5, <1>6, <1>7, <1>8, <1>9, <1>10 DEF Inv

(* A killer that comes too late has misused its timer.                     *)
LEMMA KillUndefinedInv == ASSUME Inv, NEW c \in Callers, KillUndefined(c) PROVE Inv'
  <1> DEFINE t == call[c].timer
  <1> USE DEF block, history
  <1>1. /\ memory[t] = "freed" \/ hThread[t] = "closed"
        /\ call[c].at \in BeforeSet /\ t \in Timers /\ memory[t] # "unused" /\ ~error[t]
    BY DEF KillUndefined, Freed, BeforeSet, KillStates, Inv, Called
  <1>2. ~Waits(t)
    <2>1. Block(t) /\ memory[t] \in {"live", "freed"}
      BY <1>1 DEF Inv, TypeOK
    <2>2. memory[t] = "freed" => event[t] = "closed"
      BY <1>1, <2>1 DEF Block
    <2>3. memory[t] = "live" => event[t] = "closed"
      BY <1>1, <2>1 DEF Block
    <2> QED BY <2>1, <2>2, <2>3 DEF Waits
  <1>3. misused
    BY <1>1, <1>2 DEF Inv, Protocol
  <1>4. UNCHANGED <<block, thread, call, answer, history>> /\ status' = "undefined"
    BY DEF KillUndefined
  <1>5. TypeOK'
    BY <1>4 DEF Inv, TypeOK
  <1>6. \A u \in Timers : Block(u)' /\ Counted(u)' /\ Protocol(u)'
    BY <1>4 DEF Inv, Block, Counted, Protocol, Waits
  <1>7. \A d \in Callers : Called(d)'
    BY <1>4 DEF Inv, Called
  <1>8. \A d, e \in Callers : Alone(d, e)'
    BY <1>4 DEF Inv, Alone
  <1> QED BY <1>3, <1>4, <1>5, <1>6, <1>7, <1>8 DEF Inv

LEMMA KillInv == ASSUME Inv, NEW c \in Callers, NEW t \in Timers, Kill(c, t) PROVE Inv'
  <1>1. /\ memory[t] # "unused" /\ ~error[t] /\ call[c] = Idle
        /\ UNCHANGED <<block, thread, answer, status, fired, late, done>>
        /\ killed' = killed \cup {t}
        /\ misused' = (misused \/ t \in killed \/ ~fuEvent[t].sync)
    BY DEF Kill, Given
  <1>2. /\ call'[c].at = "enter" /\ call'[c].timer = t
        /\ \A d \in Callers : d # c => call'[d] = call[d]
        /\ call' \in [Callers -> [at : CallStates, timer : Timers \cup {NULL}]]
    BY DEF Kill, Inv, TypeOK, CallStates
  <1> USE DEF block
  <1>3. TypeOK'
    <2>1. misused' \in BOOLEAN
      BY <1>1
    <2> QED BY <1>1, <1>2, <2>1 DEF Inv, TypeOK
  <1>4. \A u \in Timers : Block(u)' /\ Counted(u)'
    BY <1>1 DEF Inv, Block, Counted
  <1>5. ~misused' => ~misused /\ t \notin killed /\ fuEvent[t].sync
    BY <1>1
  <1>6. \A u \in Timers : Protocol(u)'
    <2>1. ASSUME ~misused'
          PROVE  Protocol(t)'
      <3>1. Waits(t)
        BY <1>1, <1>5, <2>1 DEF Inv, Protocol
      <3> QED BY <1>1, <1>5, <2>1, <3>1 DEF Protocol, Waits
    <2>2. ASSUME ~misused', NEW u \in Timers, u # t
          PROVE  Protocol(u)'
      BY <1>1, <1>2, <1>5, <2>2 DEF Inv, Protocol, Waits
    <2>3. misused' => \A u \in Timers : Protocol(u)'
      BY DEF Protocol
    <2> QED BY <2>1, <2>2, <2>3
  <1>7. \A d \in Callers : Called(d)'
    BY <1>1, <1>2 DEF Inv, Called, KillStates
  <1>8. \A d, e \in Callers : Alone(d, e)'
    <2>1. \A d \in Callers : call[d].at \in KillStates /\ call[d].timer = t => t \in killed
      BY DEF Inv, Called
    <2> QED BY <1>1, <1>2, <1>5, <2>1 DEF Inv, Alone, KillStates
  <1>9. (status = "undefined" => misused)'
    BY <1>1 DEF Inv
  <1> QED BY <1>3, <1>4, <1>6, <1>7, <1>8, <1>9 DEF Inv

LEMMA TimeSetRefusedInv == ASSUME Inv, NEW c \in Callers, TimeSetRefused(c) PROVE Inv'
  BY ReturnInv DEF TimeSetRefused, Answers

(* A new timer: nobody knows its block yet.                                *)
LEMMA MadeInv ==
    ASSUME Inv, NEW c \in Callers, NEW t \in Timers, NEW f \in Flags, NEW failed \in BOOLEAN,
           NEW ev \in {"none", "set", "unset", "closed"}, Made(t, f, failed, ev),
           IF failed THEN ev \in {"none", "closed"} ELSE ev \in {"set", "unset"},
           ~failed /\ f.sync => ev = "unset",
           NEW at \in {"idle", "err"}, at = "err" <=> failed,
           call'[c].at = at, at = "err" => call'[c].timer = t,
           \A d \in Callers : d # c => call'[d] = call[d],
           call' \in [Callers -> [at : CallStates, timer : Timers \cup {NULL}]],
           answer' \in [Callers -> Answers]
    PROVE  Inv'
  <1>1. /\ memory[t] = "unused" /\ memory'[t] = "live" /\ fuEvent'[t] = f
        /\ close'[t] = ~f.periodic /\ error'[t] = failed /\ event'[t] = ev
        /\ hThread'[t] = "open" /\ thread'[t] = "created"
        /\ \A u \in Timers : u # t =>
              /\ memory'[u] = memory[u] /\ fuEvent'[u] = fuEvent[u] /\ close'[u] = close[u]
              /\ error'[u] = error[u] /\ event'[u] = event[u] /\ hThread'[u] = hThread[u]
              /\ thread'[u] = thread[u]
        /\ UNCHANGED <<status, history>>
    BY DEF Made, CloseAtStart, Inv, TypeOK
  <1>2. f \in [periodic : BOOLEAN, sync : BOOLEAN]
    BY TimerAssumption
  <1> USE DEF history
  <1>3. TypeOK'
    BY <1>2 DEF Made, CloseAtStart, Inv, TypeOK, ThreadStates
  <1>4. t \notin killed /\ t \notin done /\ fired[t] = 0 /\ late[t] = 0
    BY <1>1 DEF Inv, Block, TypeOK
  <1>5. \A u \in Timers : Block(u)'
    BY <1>1, <1>4 DEF Inv, Block, Working
  <1>6. \A u \in Timers : Counted(u)'
    <2>1. Counted(t)'
      <3>1. ~f.periodic => close'[t]
        BY <1>1
      <3> QED BY <1>1, <1>4, <3>1 DEF Counted
    <2>2. ASSUME NEW u \in Timers, u # t PROVE Counted(u)'
      BY <1>1, <2>2 DEF Inv, Counted
    <2> QED BY <2>1, <2>2
  <1>7. \A d \in Callers : call[d].at # "idle" => call[d].timer # t
    BY <1>1 DEF Inv, Called
  <1>8. \A u \in Timers : Protocol(u)'
    <2>1. Protocol(t)'
      BY <1>1, <1>4, <1>7 DEF Protocol, Waits, Working, BeforeSet, KillStates
    <2>2. ASSUME NEW u \in Timers, u # t PROVE Protocol(u)'
      BY <1>1, <2>2 DEF Inv, Protocol, Waits, BeforeSet, KillStates
    <2> QED BY <2>1, <2>2
  <1>9. \A d \in Callers : Called(d)'
    <2>1. Called(c)'
      BY <1>1 DEF Called, KillStates
    <2>2. ASSUME NEW d \in Callers, d # c PROVE Called(d)'
      BY <1>1, <1>7, <2>2 DEF Inv, Called, KillStates
    <2> QED BY <2>1, <2>2
  <1>10. \A d, e \in Callers : Alone(d, e)'
    BY <1>1, <1>7 DEF Inv, Alone, KillStates
  <1> QED BY <1>1, <1>3, <1>5, <1>6, <1>8, <1>9, <1>10 DEF Inv

LEMMA TimeSetInv ==
    ASSUME Inv, NEW c \in Callers, NEW t \in Timers, NEW f \in Flags, TimeSet(c, t, f)
    PROVE  Inv'
  <1>1. /\ call'[c].at = "idle"
        /\ \A d \in Callers : d # c => call'[d] = call[d]
        /\ call' \in [Callers -> [at : CallStates, timer : Timers \cup {NULL}]]
        /\ answer' \in [Callers -> Answers]
    BY Returning DEF TimeSet, Answers
  <1>2. /\ Made(t, f, FALSE, EventAtStart(f)) /\ EventAtStart(f) \in {"set", "unset"}
        /\ f.sync => EventAtStart(f) = "unset"
    BY DEF TimeSet, EventAtStart
  <1> QED BY <1>1, <1>2, MadeInv

LEMMA TimeSetFailsInv ==
    ASSUME Inv, NEW c \in Callers, NEW t \in Timers, NEW f \in Flags, TimeSetFails(c, t, f)
    PROVE  Inv'
  <1>1. /\ call'[c].at = "err" /\ call'[c].timer = t
        /\ \A d \in Callers : d # c => call'[d] = call[d]
        /\ call' \in [Callers -> [at : CallStates, timer : Timers \cup {NULL}]]
        /\ answer' \in [Callers -> Answers]
    BY DEF TimeSetFails, Inv, TypeOK, CallStates
  <1>2. PICK ev \in {"none", "closed"} : Made(t, f, TRUE, ev)
    BY DEF TimeSetFails
  <1> QED BY <1>1, <1>2, MadeInv

LEMMA TimeSetGivesUpInv == ASSUME Inv, NEW c \in Callers, TimeSetGivesUp(c) PROVE Inv'
  <1> DEFINE t == call[c].timer
  <1>1. /\ call[c].at = "err" /\ t \in Timers /\ memory[t] = "live" /\ error[t] /\ thread[t] = "exited"
    BY DEF TimeSetGivesUp, ThreadOver, Inv, Called
  <1>2. /\ call'[c].at = "idle"
        /\ \A d \in Callers : d # c => call'[d] = call[d]
        /\ call' \in [Callers -> [at : CallStates, timer : Timers \cup {NULL}]]
        /\ answer' \in [Callers -> Answers]
    BY Returning DEF TimeSetGivesUp, Answers
  <1>3. /\ memory'[t] = "freed" /\ hThread'[t] = "closed"
        /\ \A u \in Timers : u # t => memory'[u] = memory[u] /\ hThread'[u] = hThread[u]
        /\ memory' \in [Timers -> {"unused", "live", "freed"}]
        /\ hThread' \in [Timers -> {"none", "open", "closed"}]
        /\ UNCHANGED <<fuEvent, close, error, event, thread, status, history>>
    BY <1>1 DEF TimeSetGivesUp, Inv, TypeOK
  <1>4. \A d \in Callers : d # c /\ call[d].timer = t => call[d].at # "err"
    BY <1>1 DEF Inv, Alone
  <1> HIDE DEF t
  <1> USE DEF history
  <1>5. TypeOK'
    BY <1>2, <1>3 DEF Inv, TypeOK
  <1>6. \A u \in Timers : Block(u)'
    BY <1>1, <1>3 DEF Inv, Block
  <1>7. \A u \in Timers : Counted(u)'
    BY <1>1, <1>3 DEF Inv, Counted
  <1>8. \A u \in Timers : Protocol(u)'
    BY <1>1, <1>2, <1>3 DEF Inv, Protocol, Waits, BeforeSet, KillStates
  <1>9. \A d \in Callers : Called(d)'
    BY <1>1, <1>2, <1>3, <1>4 DEF Inv, Called, KillStates
  <1>10. \A d, e \in Callers : Alone(d, e)'
    BY <1>2, <1>3 DEF Inv, Alone, KillStates
  <1> QED BY <1>3, <1>5, <1>6, <1>7, <1>8, <1>9, <1>10 DEF Inv

-----------------------------------------------------------------------------
LEMMA NextInv == Inv /\ [Next]_vars => Inv'
  <1> SUFFICES ASSUME Inv, [Next]_vars PROVE Inv'
    OBVIOUS
  <1>1. ASSUME NEW t \in Timers, ThreadStep(t) \/ Handles(t)
        PROVE  Inv'
    BY <1>1, MovingInv, HandlesInv, TickInv, FinishInv, CloseHandlesInv, FreeInv DEF ThreadStep
  <1>2. ASSUME NEW c \in Callers, CallStep(c)
        PROVE  Inv'
    BY <1>2, TimeSetGivesUpInv, KillChecksInv, KillClosesInv, KillReadsSyncInv, KillDuplicatesInv,
       KillSetsEventInv, KillReturnsInv, KillUndefinedInv DEF CallStep
  <1>3. CASE UNCHANGED vars
    <2> USE DEF vars, block, history
    <2>1. TypeOK' /\ \A t \in Timers : Block(t)' /\ Counted(t)' /\ Protocol(t)'
      BY <1>3 DEF Inv, TypeOK, Block, Counted, Protocol, Waits
    <2>2. /\ \A c \in Callers : Called(c)'
          /\ \A c, d \in Callers : Alone(c, d)'
          /\ (status = "undefined" => misused)'
      BY <1>3 DEF Inv, Called, Alone
    <2> QED BY <2>1, <2>2 DEF Inv
  <1> QED BY <1>1, <1>2, <1>3, TimeSetRefusedInv, KillInv, TimeSetInv, TimeSetFailsInv DEF Next

LEMMA SpecInv == Spec => []Inv
  BY InitInv, NextInv, PTL DEF Spec

(* Every variable keeps its type, however many timers and callers.         *)
THEOREM WellTyped == Spec => []TypeOK
  <1>1. Inv => TypeOK
    BY DEF Inv
  <1> QED BY SpecInv, <1>1, PTL

(* A one-shot timer calls back once, a synchronous kill is followed by     *)
(* silence and any other by one callback at most (timer.c:56-59, 147-155). *)
THEOREM CalledAsAsked == Spec => []CallbacksAsAsked
  <1>1. Inv => CallbacksAsAsked
    BY DEF Inv, Counted, CallbacksAsAsked, SilentAfterKill, OneShotOnce
  <1> QED BY SpecInv, <1>1, PTL

(* No block is freed before its thread is over and its handles are closed, *)
(* and none while a killer needs it if only synchronous timers are killed  *)
(* and each once (timer.c:62-69, 113-127, 146-154).                        *)
THEOREM FreedAtTheEnd == Spec => []FreedInTime
  <1>1. Inv => FreedInTime
    BY DEF Inv, Block, TypeOK, FreedInTime, KillerFindsTimer, FreedIsClosed
  <1> QED BY SpecInv, <1>1, PTL
=============================================================================
