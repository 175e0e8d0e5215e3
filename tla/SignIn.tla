--------------------------------- MODULE SignIn ---------------------------------
(***************************************************************************)
(* What the admin plane promises about sign-ins: they run one at a time,   *)
(* each ends with one verdict, and a verdict stands.                       *)
(***************************************************************************)
CONSTANT Flows

VARIABLE verdict   \* how far each sign-in is

Init == verdict = [f \in Flows |-> "unborn"]

\* No sign-in begins while another one may still be completed.
Begin(f) ==
    /\ verdict[f] = "unborn"
    /\ \A g \in Flows : verdict[g] # "open"
    /\ verdict' = [verdict EXCEPT ![f] = "open"]

\* No further callback is taken.
Close(f) ==
    /\ verdict[f] = "open"
    /\ verdict' = [verdict EXCEPT ![f] = "closing"]

Succeed(f) ==
    /\ verdict[f] = "closing"
    /\ verdict' = [verdict EXCEPT ![f] = "success"]

\* A sign-in may also fail while it is open, when its time is over.
Fail(f) ==
    /\ verdict[f] \in {"open", "closing"}
    /\ verdict' = [verdict EXCEPT ![f] = "failed"]

Next == \E f \in Flows : Begin(f) \/ Close(f) \/ Succeed(f) \/ Fail(f)

Spec == Init /\ [][Next]_verdict

=============================================================================
