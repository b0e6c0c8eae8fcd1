------------------------------ MODULE RoomLife ------------------------------
(***************************************************************************)
(* What the referee promises about every multiplayer room: BanchoBot opens *)
(* it, its game mode is set, it gets its password, and only then the guest *)
(* who asked for it is invited, and made its referee after that.  A room   *)
(* may stop at any of these stages; it never skips one and never goes      *)
(* back.  It gets a second guest only when somebody else's message was     *)
(* mistaken for BanchoBot's announcement of the room.                      *)
(***************************************************************************)
CONSTANTS Rooms, People

VARIABLES stage, guests, refs, mistaken
life == <<stage, guests, refs, mistaken>>

LifeTypeOK ==
    /\ stage \in [Rooms -> {"none", "open", "set", "locked"}]
    /\ guests \in [Rooms -> SUBSET People]
    /\ refs \in [Rooms -> SUBSET People]
    /\ mistaken \in SUBSET Rooms

LifeInit ==
    /\ stage = [r \in Rooms |-> "none"]
    /\ guests = [r \in Rooms |-> {}]
    /\ refs = [r \in Rooms |-> {}]
    /\ mistaken = {}

Advance(r, from, to) ==
    /\ stage[r] = from
    /\ stage' = [stage EXCEPT ![r] = to]
    /\ UNCHANGED <<guests, refs, mistaken>>

Open(r)  == Advance(r, "none", "open")
SetUp(r) == Advance(r, "open", "set")
Lock(r)  == Advance(r, "set", "locked")

Invite(r, u) ==
    /\ stage[r] = "locked" /\ u \notin guests[r]
    /\ guests[r] = {} \/ r \in mistaken
    /\ guests' = [guests EXCEPT ![r] = @ \cup {u}]
    /\ UNCHANGED <<stage, refs, mistaken>>

AddRef(r, u) ==
    /\ u \in guests[r] \ refs[r]
    /\ refs' = [refs EXCEPT ![r] = @ \cup {u}]
    /\ UNCHANGED <<stage, guests, mistaken>>

Mistake(r) ==
    /\ stage[r] # "none" /\ r \notin mistaken
    /\ mistaken' = mistaken \cup {r}
    /\ UNCHANGED <<stage, guests, refs>>

LifeNext ==
    \E r \in Rooms :
       \/ Open(r) \/ SetUp(r) \/ Lock(r) \/ Mistake(r)
       \/ \E u \in People : Invite(r, u) \/ AddRef(r, u)

LifeSpec == LifeInit /\ [][LifeNext]_life
=============================================================================
