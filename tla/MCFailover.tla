------------------------------- MODULE MCFailover -------------------------------
(***************************************************************************)
(* Instances of Failover for TLC.                                          *)
(***************************************************************************)
EXTENDS Failover, TLC

CONSTANTS k1, k2, k3, k4

\* Identifiers are truncated hashes: k1 and k4 collide, the others do not.
MCAccountID == (k1 :> "a1") @@ (k2 :> "a2") @@ (k3 :> "a3") @@ (k4 :> "a1")

Entry(k, e) == [key |-> k, enabled |-> e]

TwoAccounts == <<Entry(k1, TRUE), Entry(k2, TRUE)>>
ThreeAccounts == <<Entry(k1, TRUE), Entry(k2, TRUE), Entry(k3, TRUE)>>

\* Requests are interchangeable; only a run without liveness uses this.
RequestSymmetry == Permutations(Requests)

=============================================================================
