----------------------------- MODULE MCSessions -----------------------------
(***************************************************************************)
(* Instances of Sessions.  The requests are interchangeable.               *)
(***************************************************************************)
EXTENDS Sessions, TLC

RequestSymmetry == Permutations(Requests)
=============================================================================
