------------------------------ MODULE MCTimer ------------------------------
(***************************************************************************)
(* Instances of Timer for TLC.                                             *)
(***************************************************************************)
EXTENDS Timer

AnyFlags == [periodic : BOOLEAN, sync : BOOLEAN]
=============================================================================
