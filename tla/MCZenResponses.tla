---------------------------- MODULE MCZenResponses ----------------------------
(* Small instances of ZenResponses. *)
EXTENDS ZenResponses

\* Token counts that leave the total to be added up.
MCUsages == {[in |-> 1, out |-> 1, total |-> 0]}

================================================================================
