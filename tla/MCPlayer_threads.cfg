\* Two openings, seeks or closings, one inside another, two timers and two channels.
CONSTANTS
    Timers = {t1, t2}
    Channels = {c1, c2}
    NULL = NULL
    MaxInputs = 2
    MaxNested = 1
SPECIFICATION FairSpec
INVARIANTS
    TypeOK
    TicksHaveChannel
    MutexExcludes
    TimersAreKilled
    LoadMeetsEarlyTicksOnly
PROPERTIES
    HandlersComeBack
    SongIsReplayed
CHECK_DEADLOCK FALSE
