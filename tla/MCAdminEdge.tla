------------------------------ MODULE MCAdminEdge ------------------------------
(* Small instances of AdminEdge. *)
EXTENDS AdminEdge, TLC

Symmetry == Permutations(IPs) \cup Permutations(Procs)

================================================================================
