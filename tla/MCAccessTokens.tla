--------------------------- MODULE MCAccessTokens ---------------------------
(***************************************************************************)
(* Instances of AccessTokens.  The requests are interchangeable, and so    *)
(* are the tokens that exist at the start.                                 *)
(***************************************************************************)
EXTENDS AccessTokens, TLC

TokenSymmetry == Permutations(Requests) \cup Permutations(Existing)
=============================================================================
