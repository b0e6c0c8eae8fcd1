\* Two connections, a login and two messages in each, a clock set back by up to two seconds.
CONSTANTS
    Kinds <- Sayings
    MaxCost = 3
    Limit = 4
    MaxConnects = 2
    MaxSaid = 3
    MaxJump = 2
SPECIFICATION FairSpec
INVARIANTS
    TypeOK
    ReconnectsAsWanted
PROPERTIES
    SilenceBounded
    ImplementsOutbox
    QueueDrains
CHECK_DEADLOCK FALSE
