------------------------------ MODULE MCPlayer ------------------------------
(***************************************************************************)
(* Instances of Player for TLC.                                            *)
(***************************************************************************)
EXTENDS Player
=============================================================================
