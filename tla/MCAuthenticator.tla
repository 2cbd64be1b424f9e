-------------------------- MODULE MCAuthenticator --------------------------
(* Small instances of Authenticator.                                       *)
EXTENDS Authenticator, TLC

CONSTANTS c1, c2, c3, alice, bob

Symmetry == Permutations({c1, c2, c3}) \cup Permutations({alice, bob})
=============================================================================
