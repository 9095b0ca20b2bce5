---------------------------- MODULE MCUsersStore ----------------------------
(* Model values and small sets for TLC.                                    *)
EXTENDS UsersStore

CONSTANTS alice, bob

MCUsername == {alice, bob}
MCPermission == {USERS_READ, USERS_WRITE}
=============================================================================
