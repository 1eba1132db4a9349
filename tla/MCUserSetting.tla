--------------------------- MODULE MCUserSetting ---------------------------
(***************************************************************************)
(* The row alone: any goroutine may make any access.  Goroutines are       *)
(* interchangeable, and so are tokens as long as none exists at the start. *)
(***************************************************************************)
EXTENDS UserSetting, TLC

SettingSymmetry == Permutations(Procs) \cup Permutations(Tokens)
=============================================================================
