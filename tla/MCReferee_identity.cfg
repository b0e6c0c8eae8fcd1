\* The first start, with no preference file.
CONSTANTS
    ann = ann
    ben = ben
    Players = {ann, ben}
    Nick = Nick
    BanchoBot = BanchoBot
    Namesakes = {}
    Zero = Zero
    Rooms = {r1, r2}
    None = None
    NameClasses = {"templated"}
    Chatter = {"chat"}
    FirstPrefs <- FirstStart
    NewStaff <- StaffLists
    MaxSaid = 1
    MaxTyped = 1
    MaxFaults = 0
SPECIFICATION Spec
INVARIANTS
    BotUserIsStaff
CHECK_DEADLOCK FALSE
