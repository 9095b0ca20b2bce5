-------------------------- MODULE UsersRepository --------------------------
(***************************************************************************)
(* The collection of users in MongoDB and what MongoUsersRepository does   *)
(* to it: each operation is one atomic update of one document.  The        *)
(* collection is a function from the users that exist to their             *)
(* permissions; passwords are left out.                                    *)
(***************************************************************************)
CONSTANTS
    Username,     \* the names users may have
    Permission,   \* Permission.ALL
    USERS_WRITE,  \* the permission to change users
    USERS_READ    \* the permission to list users

ASSUME PermissionAssumption == {USERS_READ, USERS_WRITE} \subseteq Permission

Collection == UNION {[S -> SUBSET Permission] : S \in SUBSET Username}

Empty == [u \in {} |-> {}]

(* A mistake to catch: an upsert, which replaces the document.             *)
UpsertUser(users, u, permissions) ==
    [v \in DOMAIN users \cup {u} |-> IF v = u THEN permissions ELSE users[v]]

(* DuplicateUser: the document that is there stays as it is.               *)
CreateUser(users, u, permissions) ==
    IF u \in DOMAIN users
      THEN users
      ELSE [v \in DOMAIN users \cup {u} |->
              IF v = u THEN permissions ELSE users[v]]

DeleteUser(users, u) == [v \in DOMAIN users \ {u} |-> users[v]]

(* $addToSet and $pull; UserNotFound when no document matches.             *)
AddPermission(users, u, p) ==
    [v \in DOMAIN users |-> IF v = u THEN users[v] \cup {p} ELSE users[v]]

RemovePermission(users, u, p) ==
    [v \in DOMAIN users |-> IF v = u THEN users[v] \ {p} ELSE users[v]]

(* Who passes the check for users.write.                                   *)
Writers(users) == {u \in DOMAIN users : USERS_WRITE \in users[u]}
=============================================================================
