----------------------------- MODULE UsersStore -----------------------------
(***************************************************************************)
(* The users in the frontend, in the browser tab of one user: the pages,   *)
(* the table with its checkboxes, the dialog that confirms a deletion, the *)
(* form of a new user, the effects and their calls to the backend.         *)
(*                                                                         *)
(* Each effect has a call of its own, and exhaustMap ignores the actions   *)
(* that come before its answer.  A call changes the backend at one moment  *)
(* (Execute) and is answered at a later one.                               *)
(***************************************************************************)
EXTENDS Naturals, UsersReducer

CONSTANTS
    Self,       \* the user of this tab
    MaxClicks,  \* changes the user of this tab makes
    MaxOthers   \* changes others make

ASSUME SelfAssumption == Self \in Username
ASSUME MaxAssumption == MaxClicks \in Nat /\ MaxOthers \in Nat

VARIABLES
    status,       \* the state the reducer keeps
    ticked,       \* the boxes of the table, as the user sees them
    dialog,       \* the deletion to confirm; live: for a table still there
    page,         \* the page shown
    fetchCall,    \* the call of fetchUsers$, with what it has read
    calls,        \* the calls of the other effects
    alive,        \* the store has not ended with an error
    currentUser,  \* the permissions of Self as ME has brought them
    users,        \* the collection of the backend
    clicks, others

frontend == <<status, ticked, dialog, page, fetchCall, calls, alive,
              currentUser>>
vars == <<frontend, users, clicks, others>>

Page == {"users", "new", "other"}

Change == {"createUser", "deleteUser", "addPermission", "removePermission"}

Answer == Code \cup {"ok"}
Call == [user : Username, permissions : SUBSET Permission,
         answer : {None} \cup Answer]
Fetch == [read : {None} \cup Users]
Dialog == [user : Username, live : BOOLEAN]

ASSUME NoneAssumption ==
    /\ \A x \in Answer : x # None
    /\ \A x \in Users : x # None
    /\ \A x \in SUBSET Permission : x # None
    /\ \A x \in Call : x # None
    /\ \A x \in Fetch : x # None
    /\ \A x \in Dialog : x # None

TypeOK ==
    /\ status \in State
    /\ ticked \in Users
    /\ dialog \in {None} \cup Dialog
    /\ page \in Page
    /\ fetchCall \in {None} \cup Fetch
    /\ calls \in [Change -> {None} \cup Call]
    /\ alive \in BOOLEAN
    /\ currentUser \in {None} \cup SUBSET Permission
    /\ users \in Users
    /\ clicks \in 0 .. MaxClicks
    /\ others \in 0 .. MaxOthers

Init ==
    /\ status = initialState
    /\ ticked = initialState.users
    /\ dialog = None
    /\ page = "other"
    /\ fetchCall = None
    /\ calls = [e \in Change |-> None]
    /\ alive = TRUE
    /\ currentUser = None
    /\ users \in {c \in Users : Self \in DOMAIN c /\ c[Self] = Permission}
    /\ clicks = 0
    /\ others = 0

-----------------------------------------------------------------------------
(* What the templates show: the table only while no users are fetched.     *)
TableShown == page = "users" /\ ~isFetchingUsers(status)
Rows == DOMAIN getUsers(status)

hasPrivilege(permissions, p) == p \in permissions

canEditPermission(u, p) ==
    /\ currentUser # None
    /\ hasPrivilege(currentUser, USERS_WRITE)
    /\ u # Self \/ p \notin {USERS_READ, USERS_WRITE}

canDeleteUser(u) ==
    /\ currentUser # None
    /\ hasPrivilege(currentUser, USERS_WRITE)
    /\ u # Self

(* A mistake to catch: a dialog that outlives the table it was opened from. *)
TableReplaced(s) == ticked' = getUsers(s) /\ UNCHANGED dialog

(* The table is taken away, and the outputs it had bound with it; a new    *)
(* one will show the store.                                                *)
TableGone(s) ==
    /\ ticked' = getUsers(s)
    /\ dialog' = IF dialog = None THEN None ELSE [dialog EXCEPT !.live = FALSE]

-----------------------------------------------------------------------------
(* An action that is dispatched: nothing is reduced after the error of the *)
(* store, and no effect is started.                                        *)
dispatch(action) == status' = IF alive THEN reducer(status, action) ELSE status

(* The effects: exhaustMap.                                                *)
Ask(e, u, permissions) ==
    calls' = IF alive /\ calls[e] = None
             THEN [calls EXCEPT ![e] = [user |-> u,
                                        permissions |-> permissions,
                                        answer |-> None]]
             ELSE calls

fetchUsers ==
    fetchCall' = IF fetchCall = None
                 THEN [read |-> None] ELSE fetchCall

createUser(u, permissions) == Ask("createUser", u, permissions)
deleteUser(u) == Ask("deleteUser", u, {})
addPermission(u, p) == Ask("addPermission", u, {p})
removePermission(u, p) == Ask("removePermission", u, {p})

-----------------------------------------------------------------------------
(* What the backend does with a call of Self: the code of its answer, and  *)
(* the collection afterwards.                                              *)
OwnRight(e, call) ==
    /\ call.user = Self
    /\ \/ e = "deleteUser"
       \/ /\ e = "removePermission"
          /\ call.permissions \subseteq {USERS_READ, USERS_WRITE}

CodeOf(e, call, c) ==
    CASE Self \notin Repository!Writers(c) \/ OwnRight(e, call) -> "code-403"
      [] e = "createUser" /\ call.user \in DOMAIN c -> "code-409"
      [] e # "createUser" /\ call.user \notin DOMAIN c -> "code-404"
      [] OTHER -> "ok"

Done(e, call, c) ==
    IF CodeOf(e, call, c) # "ok" THEN c
    ELSE CASE e = "createUser" ->
                Repository!CreateUser(c, call.user, call.permissions)
           [] e = "deleteUser" -> Repository!DeleteUser(c, call.user)
           [] e = "addPermission" ->
                [c EXCEPT ![call.user] = @ \cup call.permissions]
           [] e = "removePermission" ->
                [c EXCEPT ![call.user] = @ \ call.permissions]

(* Carried out and answered; carried out twice, because the first answer   *)
(* was lost and the interceptor has sent it again; carried out, and no     *)
(* answer to any of the retries.                                           *)
Execute(e) ==
    /\ calls[e] # None
    /\ calls[e].answer = None
    /\ users' = Done(e, calls[e], users)
    /\ \E answer \in {CodeOf(e, calls[e], users), CodeOf(e, calls[e], users'),
                      "code-undefined"} :
          calls' = [calls EXCEPT ![e].answer = answer]
    /\ UNCHANGED <<status, ticked, dialog, page, fetchCall, alive,
                   currentUser, clicks, others>>

(* No attempt has reached the backend.                                     *)
Fail(e) ==
    /\ calls[e] # None
    /\ calls[e].answer = None
    /\ calls' = [calls EXCEPT ![e].answer = "code-undefined"]
    /\ UNCHANGED <<status, ticked, dialog, page, fetchCall, alive,
                   currentUser, users, clicks, others>>

(* The list needs the permission to read users.                            *)
MayRead == Self \in DOMAIN users /\ USERS_READ \in users[Self]

Read ==
    /\ fetchCall # None
    /\ fetchCall.read = None
    /\ MayRead
    /\ fetchCall' = [read |-> users]
    /\ UNCHANGED <<status, ticked, dialog, page, calls, alive, currentUser,
                   users, clicks, others>>

(* What administrators do elsewhere, and late repetitions of calls.        *)
OthersChange ==
    /\ others < MaxOthers
    /\ others' = others + 1
    /\ \E u \in Username :
          \/ \E ps \in SUBSET Permission :
                users' = Repository!CreateUser(users, u, ps)
          \/ users' = Repository!DeleteUser(users, u)
          \/ \E p \in Permission :
                \/ users' = Repository!AddPermission(users, u, p)
                \/ users' = Repository!RemovePermission(users, u, p)
    /\ UNCHANGED <<frontend, clicks>>

-----------------------------------------------------------------------------
(* The answers.                                                            *)
FetchSucceeds ==
    /\ fetchCall # None
    /\ fetchCall.read # None
    /\ status' = reducer(status, FetchUsersSuccess(fetchCall.read))
    /\ ticked' = getUsers(status')
    /\ fetchCall' = None
    /\ UNCHANGED <<dialog, page, calls, alive, currentUser, users, clicks,
                   others>>

FetchFails ==
    /\ fetchCall # None
    /\ fetchCall.read = None
    /\ status' = reducer(status, FetchUsersFailure)
    /\ fetchCall' = None
    /\ UNCHANGED <<ticked, dialog, page, calls, alive, currentUser, users,
                   clicks, others>>

Answered(e) == calls[e] # None /\ calls[e].answer # None

(* createUserSuccess$ leads to the table from wherever the user is by now. *)
CreateSucceeds ==
    /\ Answered("createUser")
    /\ calls["createUser"].answer = "ok"
    /\ status' = reducer(status, CreateUserSuccess)
    /\ page' = "users"
    /\ calls' = [calls EXCEPT !["createUser"] = None]
    /\ UNCHANGED <<ticked, dialog, fetchCall, alive, currentUser, users,
                   clicks, others>>

(* A mistake to catch: any answer is taken for an error.                   *)
CreateAlwaysFails ==
    /\ Answered("createUser")
    /\ status' = reducer(status, CreateUserFailure(calls["createUser"].answer))
    /\ calls' = [calls EXCEPT !["createUser"] = None]
    /\ UNCHANGED <<ticked, dialog, page, fetchCall, alive, currentUser, users,
                   clicks, others>>

CreateFails ==
    /\ Answered("createUser")
    /\ calls["createUser"].answer # "ok"
    /\ status' = reducer(status, CreateUserFailure(calls["createUser"].answer))
    /\ calls' = [calls EXCEPT !["createUser"] = None]
    /\ UNCHANGED <<ticked, dialog, page, fetchCall, alive, currentUser, users,
                   clicks, others>>

(* Neither a success nor an error that is caught does anything more.       *)
End(e) ==
    /\ Answered(e)
    /\ \/ e \in {"addPermission", "removePermission"}
       \/ e = "deleteUser" /\ calls[e].answer = "ok"
    /\ calls' = [calls EXCEPT ![e] = None]
    /\ UNCHANGED <<status, ticked, dialog, page, fetchCall, alive,
                   currentUser, users, clicks, others>>

(* deleteUser$ catches nothing, and as it does not dispatch, its error is  *)
(* no notification but ends the one stream of all effects; the store, to   *)
(* which that stream is subscribed, takes it as an error of its own.  All  *)
(* calls are cancelled.                                                    *)
DeleteFails ==
    /\ Answered("deleteUser")
    /\ calls["deleteUser"].answer # "ok"
    /\ alive' = FALSE
    /\ calls' = [e \in Change |-> None]
    /\ fetchCall' = None
    /\ UNCHANGED <<status, ticked, dialog, page, currentUser, users, clicks,
                   others>>

(* ME arrives, with the permissions the user has at that moment.           *)
MeArrives ==
    /\ alive
    /\ currentUser = None
    /\ Self \in DOMAIN users
    /\ currentUser' = users[Self]
    /\ UNCHANGED <<status, ticked, dialog, page, fetchCall, calls, alive,
                   users, clicks, others>>

-----------------------------------------------------------------------------
(* The timer of the page, at once and then every minute.                   *)
LoadUsers ==
    /\ alive
    /\ page = "users"
    /\ status' = reducer(status, FetchUsers)
    /\ TableGone(status)
    /\ fetchUsers
    /\ UNCHANGED <<page, calls, alive, currentUser, users, clicks, others>>

(* Nothing of the page can be clicked behind the dialog.                   *)
Click ==
    /\ dialog = None
    /\ clicks < MaxClicks
    /\ clicks' = clicks + 1

(* The box shows the click, whatever becomes of it.                        *)
ChangePermission(u, p) ==
    /\ TableShown
    /\ u \in Rows
    /\ canEditPermission(u, p)
    /\ Click
    /\ IF p \in ticked[u]
       THEN /\ ticked' = Repository!RemovePermission(ticked, u, p)
            /\ dispatch(RemovePermission(u, p))
            /\ removePermission(u, p)
       ELSE /\ ticked' = Repository!AddPermission(ticked, u, p)
            /\ dispatch(AddPermission(u, p))
            /\ addPermission(u, p)
    /\ UNCHANGED <<dialog, page, fetchCall, alive, currentUser, users, others>>

OpenDialog(u) ==
    /\ TableShown
    /\ u \in Rows
    /\ canDeleteUser(u)
    /\ Click
    /\ dialog' = [user |-> u, live |-> TRUE]
    /\ UNCHANGED <<status, ticked, page, fetchCall, calls, alive, currentUser,
                   users, others>>

Refuse ==
    /\ dialog # None
    /\ dialog' = None
    /\ UNCHANGED <<status, ticked, page, fetchCall, calls, alive, currentUser,
                   users, clicks, others>>

(* A dialog whose table was reloaded meanwhile speaks to nobody.           *)
Confirm ==
    /\ dialog # None
    /\ dialog' = None
    /\ IF dialog.live
       THEN /\ dispatch(DeleteUser(dialog.user))
            /\ ticked' = [u \in DOMAIN ticked \cap DOMAIN getUsers(status') |->
                            ticked[u]]
            /\ deleteUser(dialog.user)
       ELSE UNCHANGED <<status, ticked, calls>>
    /\ UNCHANGED <<page, fetchCall, alive, currentUser, users, clicks, others>>

(* The form can be sent unless a creation is pending.                      *)
SubmitForm(u, permissions) ==
    /\ page = "new"
    /\ ~isCreatingUser(status)
    /\ Click
    /\ dispatch(CreateUser(u, permissions))
    /\ createUser(u, permissions)
    /\ UNCHANGED <<ticked, dialog, page, fetchCall, alive, currentUser, users,
                   others>>

(* NewUserGuard: an error, which keeps the page, as long as the user is    *)
(* not known; the table for who may not create users.                      *)
checkRoute ==
    IF hasPrivilege(currentUser, USERS_WRITE) THEN "new" ELSE "users"

OpenPage(p) ==
    /\ p # page
    /\ p = "new" => currentUser # None
    /\ page' = IF p = "new" THEN checkRoute ELSE p
    /\ IF page = "users" /\ page' # "users"
       THEN TableGone(status)
       ELSE UNCHANGED <<ticked, dialog>>
    /\ UNCHANGED <<status, fetchCall, calls, alive, currentUser, users,
                   clicks, others>>

-----------------------------------------------------------------------------
Next ==
    \/ \E e \in Change : Execute(e) \/ Fail(e) \/ End(e)
    \/ Read \/ FetchSucceeds \/ FetchFails
    \/ CreateSucceeds \/ CreateFails \/ DeleteFails
    \/ MeArrives
    \/ OthersChange
    \/ LoadUsers
    \/ \E u \in Username, p \in Permission : ChangePermission(u, p)
    \/ \E u \in Username : OpenDialog(u)
    \/ Refuse \/ Confirm
    \/ \E u \in Username, ps \in SUBSET Permission : SubmitForm(u, ps)
    \/ \E p \in Page : OpenPage(p)

(* The timer ticks, the calls end, and a backend that is asked again and   *)
(* again is able to answer some time; the people do as they like.          *)
Fairness ==
    /\ WF_vars(LoadUsers)
    /\ SF_vars(Read)
    /\ WF_vars(FetchSucceeds \/ FetchFails)
    /\ \A e \in Change : WF_vars(Execute(e) \/ Fail(e))

Spec == Init /\ [][Next]_vars
FairSpec == Spec /\ Fairness

-----------------------------------------------------------------------------
(* A spinner turns and a form is disabled only while a call will end it,   *)
(* although exhaustMap drops actions: unless the store has ended.          *)
WaitersHaveCalls ==
    alive => /\ status.fetching => fetchCall # None
             /\ status.create.running => calls["createUser"] # None

(* A dialog that still has an effect is about a row of the table, however  *)
(* often the table was reloaded since it was opened, and nothing is asked  *)
(* of the backend against which it protects the user's own account: what   *)
(* the templates disable and what the controllers forbid agree.            *)
AsksForWhatItShows ==
    /\ dialog # None /\ dialog.live => dialog.user \in Rows \ {Self}
    /\ \A e \in Change : calls[e] # None => ~OwnRight(e, calls[e])

(* The table, which shows deletions and clicks before the backend knows    *)
(* them, and clicks that were dropped or refused, comes to show what the   *)
(* backend has; unless the page is left, the store has ended, or the user  *)
(* may not read.                                                           *)
TableKeepsUp ==
    (page = "users" /\ ticked # users) ~>
        \/ ticked = users
        \/ page # "users"
        \/ ~alive
        \/ ~MayRead
=============================================================================
