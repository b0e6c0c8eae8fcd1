\* Two staff members ask for a room one after the other.
CONSTANTS
    ann = ann
    ben = ben
    Players = {ann, ben}
    Nick = Nick
    BanchoBot = BanchoBot
    Namesakes = {}
    Zero = Zero
    Rooms = {r1, r2}
    None = None
    NameClasses = {"templated"}
    Chatter = {"chat"}
    FirstPrefs <- BothStaff
    NewStaff <- StaffLists
    MaxSaid = 3
    MaxTyped = 0
    MaxFaults = 0
SPECIFICATION Spec
INVARIANTS
    CreatorAskedForRoom
CHECK_DEADLOCK FALSE
