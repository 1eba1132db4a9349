------------------------------ MODULE MCSSEHub ------------------------------
(***************************************************************************)
(* Instances of SSEHub: a creator, another user and an administrator, and  *)
(* events of each kind that CanReceive tells apart: private ones of the    *)
(* creator and of the other user, a public one and one of no known kind.   *)
(***************************************************************************)
EXTENDS SSEHub

CONSTANTS author, reader, admin, private, own, public, unknown

MCUserOf == [c \in Clients |-> CASE c = author -> 1 [] c = reader -> 2 [] OTHER -> 3]
MCRoleOf == [c \in Clients |-> IF c = admin THEN "ADMIN" ELSE "USER"]
MCVisibilityOf ==
    [e \in Events |->
        CASE e \in {private, own} -> "PRIVATE" [] e = public -> "PUBLIC" [] OTHER -> "UNKNOWN"]
MCCreatorOf == [e \in Events |-> IF e = own THEN 2 ELSE 1]
=============================================================================
