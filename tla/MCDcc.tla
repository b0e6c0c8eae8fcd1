------------------------------- MODULE MCDcc -------------------------------
(* Model values and choices for TLC. *)
EXTENDS Dcc

\* a file that is partly there, offered twice; one whose size an acknowledgement cannot hold
SomeFiles == {[size |-> 2, partial |-> 1, offers |-> 2], [size |-> 4, partial |-> 0, offers |-> 1],
              [size |-> 4, partial |-> 1, offers |-> 1]}
TwoOffers == {f \in SomeFiles : f.offers = 2}
AllPrefs  == [resume : BOOLEAN, fast : BOOLEAN, auto : BOOLEAN]
Automatic == {[resume |-> TRUE, fast |-> TRUE, auto |-> TRUE]}
=============================================================================
