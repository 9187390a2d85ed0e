------------------------------- MODULE Access -------------------------------
(***************************************************************************)
(* The two sides of access control: the console's users (Users) and the    *)
(* API's keys with the customers' rows (ApiKeys).  They share the rules    *)
(* of Roles and no table, so a behaviour is about one of the two.          *)
(***************************************************************************)
EXTENDS Users, ApiKeys

VARIABLE side
accessVars == <<userVars, apiVars, side>>

AccessInit == UsersInit /\ ApiInit /\ side \in {"users", "keys"}
AccessNext ==
    \/ side = "users" /\ UsersNext /\ UNCHANGED <<apiVars, side>>
    \/ side = "keys" /\ ApiNext /\ UNCHANGED <<userVars, side>>
AccessSpec == AccessInit /\ [][AccessNext]_accessVars
=============================================================================
