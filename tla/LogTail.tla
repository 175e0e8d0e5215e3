--------------------------------- MODULE LogTail ---------------------------------
(***************************************************************************)
(* What the log page is promised: the last lines in order, at most         *)
(* Capacity of them, numbered without gaps.                                *)
(***************************************************************************)
EXTENDS Naturals, Sequences

CONSTANT Capacity

VARIABLES
    last,  \* the number of lines written
    tail   \* the numbers of the lines that are kept

tailVars == <<last, tail>>

Init == last = 0 /\ tail = <<>>

Append1 ==
    /\ last' = last + 1
    /\ LET all == Append(tail, last')
       IN  tail' = IF Len(all) > Capacity THEN Tail(all) ELSE all

Next == Append1

Spec == Init /\ [][Next]_tailVars

=============================================================================
