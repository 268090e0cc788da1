------------------------------- MODULE MCJwks --------------------------------
(***************************************************************************)
(* An instance of Jwks for TLC.                                            *)
(***************************************************************************)
EXTENDS Jwks, TLC

CONSTANTS k1, k2, r1, r2, background

\* Requests are alike, and so are keys.
JwksSymmetry == Permutations({k1, k2}) \cup Permutations({r1, r2})
=============================================================================
