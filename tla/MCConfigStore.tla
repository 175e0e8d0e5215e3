----------------------------- MODULE MCConfigStore -----------------------------
(* Small instances of ConfigStore. *)
EXTENDS ConfigStore, TLC

CONSTANTS a1, c1, s0

\* A file of the time before gateways and lists of client keys.
Legacy == [Blank EXCEPT !.legacy[a1] = "on", !.apiKey = c1, !.setting = s0]

\* One that has gateways, written by hand, and still a single client key.
SingleKey == [Blank EXCEPT !.accounts[a1] = "on", !.apiKey = c1, !.setting = s0]

MCLegacy == {Legacy}

MCSingleKey == {SingleKey}

Symmetry == Permutations(Handlers)

================================================================================
