------------------------------ MODULE MCOAuthFlow ------------------------------
(***************************************************************************)
(* Instances of OAuthFlow for TLC: the names of the credentials.           *)
(***************************************************************************)
EXTENDS OAuthFlow

CONSTANTS k1, k2

=============================================================================
