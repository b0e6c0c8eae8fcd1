\* The connection holds and nothing is reloaded.
CONSTANTS
    ann = ann
    ben = ben
    Players = {ann, ben}
    Nick = Nick
    BanchoBot = BanchoBot
    Namesakes = {ben}
    Zero = Zero
    Rooms = {r1, r2}
    None = None
    NameClasses = {"templated"}
    Chatter = {"chat"}
    FirstPrefs <- Configured
    NewStaff <- StaffLists
    MaxSaid = 3
    MaxTyped = 1
    MaxFaults = 0
SPECIFICATION FairSpec
PROPERTIES
    PendingResolved
    RegisteredIsConfigured
CHECK_DEADLOCK FALSE
