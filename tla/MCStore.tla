------------------------------- MODULE MCStore -------------------------------
(* Store instantiated for TLC: two handlers, two registered users, two     *)
(* group ids, READ and ADMIN as the permissions AddUser may grant.         *)
EXTENDS Store

MCAddUserPerms == {PERMISSION_READ, PERMISSION_ADMIN}
MCUlidRandom == 0..1

=============================================================================
