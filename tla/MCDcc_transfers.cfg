\* Two offers of a file; two inputs or faults.
CONSTANTS
    MaxOffers = 2
    MaxInputs = 2
    Files <- SomeFiles
    Prefs <- AllPrefs
    Block = 2
    Wrap = 3
SPECIFICATION FairSpec
INVARIANTS
    TypeOK
    DoneMeansReceived
PROPERTIES
    WholeWhenDone
    FailsWithPeer
    TransfersEnd
CHECK_DEADLOCK FALSE
