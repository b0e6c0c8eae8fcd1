----------------------------- MODULE MCReferee -----------------------------
(***************************************************************************)
(* Instances of Referee for TLC.                                           *)
(***************************************************************************)
EXTENDS Referee, TLC

CONSTANTS ann, ben   \* two people

(* A file left by an earlier session whose operator set "wait" to the      *)
(* bot's account, with ann as staff.                                       *)
Configured == {[version |-> TRUE, staff |-> {ann}, wait |-> Nick]}

(* No file yet, and every file a session can leave.                        *)
AnyPrefs ==
    {NoFile} \cup
    {[version |-> TRUE, staff |-> {ann}, wait |-> w] : w \in {None, Zero, Nick}}

StaffLists == {{ben}, {ann, ben}}

FirstStart == {NoFile}
BothStaff == {[version |-> TRUE, staff |-> {ann, ben}, wait |-> Nick]}

(* Rooms are alike: BanchoBot gives any number to any room.                *)
RoomSymmetry == Permutations(Rooms)
=============================================================================
