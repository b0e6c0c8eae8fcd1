\* Two offers of a file that is partly there; the user does nothing.
CONSTANTS
    MaxOffers = 2
    MaxInputs = 0
    Files <- TwoOffers
    Prefs <- Automatic
    Block = 2
    Wrap = 3
SPECIFICATION Spec
INVARIANTS
    OneWriter
CHECK_DEADLOCK FALSE
