----------------------------- MODULE MCListing -------------------------------
(***************************************************************************)
(* An instance of Listing for TLC.                                         *)
(***************************************************************************)
EXTENDS Listing, TLC

CONSTANTS r1, r2, r3, r4, r5

\* Two rows in the middle of the list are tied.
TiedRank == r1 :> 1 @@ r2 :> 2 @@ r3 :> 2 @@ r4 :> 3 @@ r5 :> 4

Sizes == {0, 1, 2, 3}
=============================================================================
