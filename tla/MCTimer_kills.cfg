\* A timer of any kind, killed by two threads at any time.
CONSTANTS
    UI = ui
    Callers = {ui, other}
    Timers = {t1}
    Flags <- AnyFlags
    NULL = NULL
SPECIFICATION FairSpec
INVARIANTS
    TypeOK
    CallbacksAsAsked
    FreedInTime
PROPERTIES
    TimersComeToRest
CHECK_DEADLOCK FALSE
