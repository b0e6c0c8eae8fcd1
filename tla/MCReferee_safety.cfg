\* Every preference file; three messages of people; a disconnection, reload or restart.
CONSTANTS
    ann = ann
    ben = ben
    Players = {ann, ben}
    Nick = Nick
    BanchoBot = BanchoBot
    Namesakes = {ben}
    Zero = Zero
    Rooms = {r1, r2}
    None = None
    NameClasses = {"templated", "empty"}
    Chatter = {"chat"}
    FirstPrefs <- AnyPrefs
    NewStaff <- StaffLists
    MaxSaid = 3
    MaxTyped = 1
    MaxFaults = 1
SPECIFICATION Spec
SYMMETRY RoomSymmetry
INVARIANTS
    TypeOK
    ConfigIsCurrent
    OnePending
    OnlyStaffServed
    PasswordBeforeInvite
PROPERTIES
    RoomProtocol
CHECK_DEADLOCK FALSE
