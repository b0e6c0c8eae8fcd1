------------------------------ MODULE MCTiming ------------------------------
(***************************************************************************)
(* Instances of Timing for TLC.                                            *)
(***************************************************************************)
EXTENDS Timing

Line(offset, meter, red) ==
    [offset |-> offset, meter |-> meter, red |-> red, length |-> 2, omit |-> meter = 2]

\* Many lines, the last of metre 1, and a lead-in; two lines; a file without a red line.
Files ==
    {[lines |-> <<Line(0, 4, TRUE), Line(2, 3, TRUE), Line(3, 3, FALSE), Line(4, 2, TRUE),
                Line(5, 3, TRUE), Line(6, 1, TRUE)>>,
      lead |-> 3, evenRate |-> TRUE],
     [lines |-> <<Line(1, 2, FALSE), Line(2, 3, TRUE)>>, lead |-> 0, evenRate |-> FALSE],
     [lines |-> <<Line(3, 4, FALSE)>>, lead |-> 1, evenRate |-> TRUE]}
=============================================================================
