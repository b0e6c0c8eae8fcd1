------------------------------ MODULE MCServer ------------------------------
(***************************************************************************)
(* Instances of Server for TLC.                                            *)
(***************************************************************************)
EXTENDS Server

\* A long PRIVMSG and a WHO; logins, QUITs and commands are of priority 2.
Sayings == {[pri |-> 1, cost |-> 3], [pri |-> 0, cost |-> 2]}
=============================================================================
