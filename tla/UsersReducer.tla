---------------------------- MODULE UsersReducer ----------------------------
(***************************************************************************)
(* The users in the frontend's store as a pure function: the states, the   *)
(* actions that may be dispatched, the reducer and the selectors.  The map *)
(* of the users is a function from their names to their permissions.       *)
(***************************************************************************)
CONSTANTS
    Username,     \* the names the form and the backend accept
    Permission,   \* PERMISSIONS
    USERS_WRITE,  \* PERMISSION_USER_WRITE
    USERS_READ,   \* PERMISSION_USER_READ
    None          \* null; no call under way

Repository == INSTANCE UsersRepository

Users == Repository!Collection

(* 'code-' with the status of the answer, or with none after the last of   *)
(* the retries.                                                            *)
Code == {"code-403", "code-404", "code-409", "code-undefined"}

AddUserState == [running : BOOLEAN, error : Code \cup {None}]

State == [fetching : BOOLEAN,
          error : BOOLEAN,
          users : Users,
          create : AddUserState]

initialState == [fetching |-> FALSE,
                 error |-> FALSE,
                 users |-> Repository!Empty,
                 create |-> [running |-> FALSE, error |-> None]]

-----------------------------------------------------------------------------
Plain(type) == [type |-> type]
With(type, payload) == [type |-> type, payload |-> payload]

FetchUsers == Plain("FETCH_USERS")
FetchUsersSuccess(users) == With("FETCH_USERS_SUCCESS", users)
FetchUsersFailure == Plain("FETCH_USERS_FAILURE")
CreateUser(u, permissions) ==
    With("CREATE_USER", [username |-> u, permissions |-> permissions])
CreateUserSuccess == Plain("CREATE_USER_SUCCESS")
CreateUserFailure(code) == With("CREATE_USER_FAILURE", code)
DeleteUser(u) == With("DELETE_USER", u)
AddPermission(u, p) ==
    With("ADD_PERMISSION", [username |-> u, permission |-> p])
RemovePermission(u, p) ==
    With("REMOVE_PERMISSION", [username |-> u, permission |-> p])

All == {FetchUsers, FetchUsersFailure, CreateUserSuccess}
    \cup {FetchUsersSuccess(users) : users \in Users}
    \cup {CreateUserFailure(code) : code \in Code}
    \cup {CreateUser(u, ps) : u \in Username, ps \in SUBSET Permission}
    \cup {DeleteUser(u) : u \in Username}
    \cup {AddPermission(u, p) : u \in Username, p \in Permission}
    \cup {RemovePermission(u, p) : u \in Username, p \in Permission}

-----------------------------------------------------------------------------
Fetching(s) == [s EXCEPT !.fetching = TRUE, !.error = FALSE]

(* A mistake to catch: the users fetched are added to those known.         *)
FetchedMore(s, users) ==
    [s EXCEPT !.fetching = FALSE, !.error = FALSE,
              !.users = [u \in DOMAIN s.users \cup DOMAIN users |->
                           IF u \in DOMAIN users THEN users[u]
                           ELSE s.users[u]]]

Fetched(s, users) ==
    [s EXCEPT !.fetching = FALSE, !.error = FALSE, !.users = users]

(* A mistake to catch: an error leaves the spinner on.                     *)
NotFetchedYet(s) == [s EXCEPT !.error = TRUE]

NotFetched(s) == [s EXCEPT !.fetching = FALSE, !.error = TRUE]

Create(s, running, error) ==
    [s EXCEPT !.create = [running |-> running, error |-> error]]

(* On DELETE_USER, not on its success.                                     *)
Hide(s, u) == [s EXCEPT !.users = Repository!DeleteUser(s.users, u)]

reducer(s, action) ==
    CASE action.type = "FETCH_USERS"         -> Fetching(s)
      [] action.type = "FETCH_USERS_SUCCESS" -> Fetched(s, action.payload)
      [] action.type = "FETCH_USERS_FAILURE" -> NotFetched(s)
      [] action.type = "CREATE_USER"         -> Create(s, TRUE, None)
      [] action.type = "CREATE_USER_SUCCESS" -> Create(s, FALSE, None)
      [] action.type = "CREATE_USER_FAILURE" ->
            Create(s, FALSE, action.payload)
      [] action.type = "DELETE_USER"         -> Hide(s, action.payload)
      [] OTHER                               -> s

getUsers(s) == s.users
isFetchingUsers(s) == s.fetching
isCreatingUser(s) == s.create.running
=============================================================================
