----------------------------- MODULE MCHookList -----------------------------
(***************************************************************************)
(* Instances of HookList for TLC.                                          *)
(***************************************************************************)
EXTENDS HookList, TLC

CONSTANTS line   \* the name of an event

Hookable == {[type |-> "PRINT", name |-> line, pri |-> 0],
             [type |-> "PRINT_ATTRS", name |-> line, pri |-> 1],
             [type |-> "SERVER", name |-> RawLine, pri |-> 0],
             [type |-> "TIMER", name |-> line, pri |-> 0]}
Happening == {[mask |-> {"PRINT", "PRINT_ATTRS"}, name |-> line],
              [mask |-> {"SERVER", "SERVER_ATTRS"}, name |-> line]}
Symmetric == Permutations(Plugins) \cup Permutations(Addresses)
=============================================================================
