--------------------------------- MODULE LogRing ---------------------------------
(***************************************************************************)
(* The ring of log lines (logbuf.go).  A line is its number; slots are     *)
(* numbered from 0 as in the code.                                         *)
(***************************************************************************)
EXTENDS Integers, Sequences

CONSTANT Capacity  \* logRingCapacity

ASSUME CapacityAssumption == Capacity \in Nat \ {0}

\* Number 0 stands for an entry that was never written.
Slots == 0..Capacity - 1

NewRing == [entries |-> [i \in Slots |-> 0], next |-> 0, filled |-> 0, seq |-> 0]

\* Mutant: filled counts on when the ring is full.
WrittenOver(r) ==
    [entries |-> [r.entries EXCEPT ![r.next] = r.seq + 1],
     next |-> (r.next + 1) % Capacity,
     filled |-> r.filled + 1,
     seq |-> r.seq + 1]

Written(r) ==
    [entries |-> [r.entries EXCEPT ![r.next] = r.seq + 1],
     next |-> (r.next + 1) % Capacity,
     filled |-> IF r.filled < Capacity THEN r.filled + 1 ELSE r.filled,
     seq |-> r.seq + 1]

\* The lines from the oldest to the newest.
InOrder(r) == [i \in 1..r.filled |-> r.entries[(r.next - r.filled + (i - 1) + Capacity) % Capacity]]

\* Mutant: the line next to the cursor is taken for read.
AfterSkipping(r, seq) == {InOrder(r)[i] : i \in {j \in 1..r.filled : InOrder(r)[j] > seq + 1}}

\* The lines that are newer than seq; the page shows them by their numbers.
After(r, seq) == {InOrder(r)[i] : i \in {j \in 1..r.filled : InOrder(r)[j] > seq}}

=============================================================================
