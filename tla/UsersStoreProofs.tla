-------------------------- MODULE UsersStoreProofs --------------------------
(***************************************************************************)
(* Theorems about UsersStore, for any users, permissions and clicks.       *)
(***************************************************************************)
EXTENDS UsersStore, TLAPS

(* Which actions of the store change what waits for a call.                *)
LEMMA ReducerActions ==
    ASSUME NEW s, NEW c, NEW code, NEW u
    PROVE  /\ reducer(s, FetchUsers) = Fetching(s)
           /\ reducer(s, FetchUsersSuccess(c)) = Fetched(s, c)
           /\ reducer(s, FetchUsersFailure) = NotFetched(s)
           /\ reducer(s, CreateUserSuccess) = Create(s, FALSE, None)
           /\ reducer(s, CreateUserFailure(code)) = Create(s, FALSE, code)
           /\ reducer(s, DeleteUser(u)) = Hide(s, u)
BY DEF reducer, Plain, With, FetchUsers, FetchUsersSuccess, FetchUsersFailure,
   CreateUserSuccess, CreateUserFailure, DeleteUser

-----------------------------------------------------------------------------
(* The operations of the backend, which the tab applies to its table, too. *)
LEMMA CollectionOf ==
    ASSUME NEW c \in Users
    PROVE  c \in [DOMAIN c -> SUBSET Permission] /\ DOMAIN c \in SUBSET Username
BY DEF Users, Repository!Collection

LEMMA CollectionIs ==
    ASSUME NEW S \in SUBSET Username, NEW c \in [S -> SUBSET Permission]
    PROVE  c \in Users
BY DEF Users, Repository!Collection

LEMMA EmptyCollection == Repository!Empty \in Users
<1>1. Repository!Empty \in [{} -> SUBSET Permission] /\ {} \in SUBSET Username
  BY DEF Repository!Empty
<1> QED  BY <1>1, CollectionIs

LEMMA CreatedCollection ==
    ASSUME NEW c \in Users, NEW u \in Username, NEW ps \in SUBSET Permission
    PROVE  Repository!CreateUser(c, u, ps) \in Users
<1>1. c \in [DOMAIN c -> SUBSET Permission] /\ DOMAIN c \in SUBSET Username
  BY CollectionOf
<1> DEFINE S == DOMAIN c \cup {u}
           d == [v \in S |-> IF v = u THEN ps ELSE c[v]]
<1>2. S \in SUBSET Username
  BY <1>1
<1>3. d \in [S -> SUBSET Permission]
  BY <1>1
<1>4. d \in Users
  BY <1>2, <1>3, CollectionIs
<1> QED  BY <1>4 DEF Repository!CreateUser

LEMMA DeletedCollection ==
    ASSUME NEW c \in Users, NEW u
    PROVE  Repository!DeleteUser(c, u) \in Users
<1>1. c \in [DOMAIN c -> SUBSET Permission] /\ DOMAIN c \in SUBSET Username
  BY CollectionOf
<1>2. /\ DOMAIN c \ {u} \in SUBSET Username
      /\ [v \in DOMAIN c \ {u} |-> c[v]] \in [DOMAIN c \ {u} -> SUBSET Permission]
  BY <1>1
<1>3. [v \in DOMAIN c \ {u} |-> c[v]] \in Users
  BY <1>2, CollectionIs
<1> QED  BY <1>3 DEF Repository!DeleteUser

LEMMA ChangedCollection ==
    ASSUME NEW c \in Users, NEW u \in Username, NEW p \in Permission
    PROVE  /\ Repository!AddPermission(c, u, p) \in Users
           /\ Repository!RemovePermission(c, u, p) \in Users
<1>1. c \in [DOMAIN c -> SUBSET Permission] /\ DOMAIN c \in SUBSET Username
  BY CollectionOf
<1>2. /\ Repository!AddPermission(c, u, p) \in [DOMAIN c -> SUBSET Permission]
      /\ Repository!RemovePermission(c, u, p) \in [DOMAIN c -> SUBSET Permission]
  BY <1>1 DEF Repository!AddPermission, Repository!RemovePermission
<1> QED  BY <1>1, <1>2, CollectionIs

LEMMA DoneCollection ==
    ASSUME NEW c \in Users, NEW e \in Change, NEW call \in Call
    PROVE  Done(e, call, c) \in Users /\ CodeOf(e, call, c) \in Answer
<1>1. call.user \in Username /\ call.permissions \in SUBSET Permission
  BY DEF Call
<1>2. CodeOf(e, call, c) \in Answer
  BY DEF CodeOf, Answer, Code
<1>3. \A ps \in SUBSET Permission :
         /\ [c EXCEPT ![call.user] = @ \cup ps] \in Users
         /\ [c EXCEPT ![call.user] = @ \ ps] \in Users
  <2>1. TAKE ps \in SUBSET Permission
  <2>2. c \in [DOMAIN c -> SUBSET Permission] /\ DOMAIN c \in SUBSET Username
    BY CollectionOf
  <2>3. /\ [c EXCEPT ![call.user] = @ \cup ps] \in [DOMAIN c -> SUBSET Permission]
        /\ [c EXCEPT ![call.user] = @ \ ps] \in [DOMAIN c -> SUBSET Permission]
    BY <2>2
  <2> QED  BY <2>2, <2>3, CollectionIs
<1>4. Done(e, call, c) \in Users
  <2>1. CASE CodeOf(e, call, c) # "ok"
    BY <2>1 DEF Done
  <2>2. CASE CodeOf(e, call, c) = "ok"
    <3>1. CASE e = "createUser"
      BY <1>1, <2>2, <3>1, CreatedCollection DEF Done
    <3>2. CASE e = "deleteUser"
      BY <2>2, <3>2, DeletedCollection DEF Done
    <3>3. CASE e = "addPermission"
      BY <1>1, <1>3, <2>2, <3>3 DEF Done
    <3>4. CASE e = "removePermission"
      BY <1>1, <1>3, <2>2, <3>4 DEF Done
    <3> QED  BY <3>1, <3>2, <3>3, <3>4 DEF Change
  <2> QED  BY <2>1, <2>2
<1> QED  BY <1>2, <1>4

(* The parts of the state that the store keeps.                            *)
LEMMA ReducerFields ==
    ASSUME NEW s \in State
    PROVE  /\ Fetching(s) \in State
           /\ \A c \in Users : Fetched(s, c) \in State /\ Fetched(s, c).fetching = FALSE
                               /\ Fetched(s, c).create = s.create
                               /\ Fetched(s, c).users = c
           /\ NotFetched(s) \in State /\ NotFetched(s).fetching = FALSE
           /\ NotFetched(s).create = s.create /\ Fetching(s).create = s.create
           /\ \A b \in BOOLEAN, x \in Code \cup {None} :
                 /\ Create(s, b, x) \in State
                 /\ Create(s, b, x).fetching = s.fetching
                 /\ Create(s, b, x).create.running = b
           /\ \A u \in Username : Hide(s, u) \in State /\ Hide(s, u).create = s.create
                                  /\ Hide(s, u).fetching = s.fetching
<1>1. s \in [fetching : BOOLEAN, error : BOOLEAN, users : Users, create : AddUserState]
  BY DEF State
<1>2. /\ Fetching(s) \in State /\ Fetching(s).create = s.create
      /\ NotFetched(s) \in State /\ NotFetched(s).fetching = FALSE
      /\ NotFetched(s).create = s.create
  BY <1>1 DEF Fetching, NotFetched, State
<1>3. ASSUME NEW c \in Users
      PROVE  /\ Fetched(s, c) \in State /\ Fetched(s, c).fetching = FALSE
             /\ Fetched(s, c).create = s.create /\ Fetched(s, c).users = c
  BY <1>1 DEF Fetched, State
<1>4. ASSUME NEW b \in BOOLEAN, NEW x \in Code \cup {None}
      PROVE  /\ Create(s, b, x) \in State /\ Create(s, b, x).fetching = s.fetching
             /\ Create(s, b, x).create.running = b
  <2>1. [running |-> b, error |-> x] \in AddUserState
    BY DEF AddUserState
  <2> QED  BY <1>1, <2>1 DEF Create, State
<1>5. ASSUME NEW u \in Username
      PROVE  /\ Hide(s, u) \in State /\ Hide(s, u).create = s.create
             /\ Hide(s, u).fetching = s.fetching
  <2>1. Repository!DeleteUser(s.users, u) \in Users
    BY <1>1, DeletedCollection
  <2> QED  BY <1>1, <2>1 DEF Hide, State
<1> QED  BY <1>2, <1>3, <1>4, <1>5

-----------------------------------------------------------------------------
(* The invariant, and what the actions have in common: a call that is      *)
(* asked for is under way unless the store has ended, and no other call is *)
(* disturbed.                                                              *)
UsersInv == TypeOK /\ WaitersHaveCalls

LEMMA AskStartsCall ==
    ASSUME calls \in [Change -> {None} \cup Call],
           NEW e \in Change, NEW u \in Username, NEW ps \in SUBSET Permission,
           Ask(e, u, ps)
    PROVE  /\ calls' \in [Change -> {None} \cup Call]
           /\ \A f \in Change : calls[f] # None => calls'[f] # None
           /\ alive => calls'[e] # None
<1> DEFINE new == [user |-> u, permissions |-> ps, answer |-> None]
<1>1. new \in Call
  BY DEF Call
<1>2. new # None
  BY <1>1, NoneAssumption
<1>3. calls' = IF alive /\ calls[e] = None
               THEN [calls EXCEPT ![e] = new] ELSE calls
  BY DEF Ask
<1> HIDE DEF new
<1> QED  BY <1>1, <1>2, <1>3

LEMMA AnswerCall ==
    ASSUME calls \in [Change -> {None} \cup Call], NEW e \in Change,
           calls[e] # None, NEW answer \in Answer,
           calls' = [calls EXCEPT ![e].answer = answer]
    PROVE  /\ calls' \in [Change -> {None} \cup Call]
           /\ \A f \in Change : calls[f] # None => calls'[f] # None
<1>1. calls[e] \in Call
  OBVIOUS
<1> DEFINE new == [calls[e] EXCEPT !.answer = answer]
<1>2. new \in Call
  BY <1>1 DEF Call
<1>3. new # None
  BY <1>2, NoneAssumption
<1>4. calls' = [calls EXCEPT ![e] = new]
  OBVIOUS
<1> HIDE DEF new
<1> QED  BY <1>2, <1>3, <1>4

LEMMA TableGoneTypes ==
    ASSUME TypeOK, TableGone(status)
    PROVE  ticked' \in Users /\ dialog' \in {None} \cup Dialog
<1>1. status.users \in Users
  BY DEF TypeOK, State
<1>2. CASE dialog = None
  BY <1>1, <1>2 DEF TableGone, getUsers
<1>3. CASE dialog # None
  <2>1. dialog \in Dialog
    BY <1>3 DEF TypeOK
  <2>2. [dialog EXCEPT !.live = FALSE] \in Dialog
    BY <2>1 DEF Dialog
  <2> QED  BY <1>1, <1>3, <2>2 DEF TableGone, getUsers
<1> QED  BY <1>2, <1>3

-----------------------------------------------------------------------------
(* The steps of the backend.                                               *)
LEMMA ExecuteStep ==
    ASSUME UsersInv, NEW e \in Change, Execute(e)
    PROVE  UsersInv'
<1>1. calls[e] \in Call /\ calls \in [Change -> {None} \cup Call] /\ users \in Users
  BY DEF Execute, UsersInv, TypeOK
<1>2. users' \in Users /\ CodeOf(e, calls[e], users) \in Answer
  BY <1>1, DoneCollection DEF Execute
<1>3. CodeOf(e, calls[e], users') \in Answer
  BY <1>1, <1>2, DoneCollection
<1>4. PICK answer \in Answer : calls' = [calls EXCEPT ![e].answer = answer]
  BY <1>2, <1>3 DEF Execute, Answer, Code
<1>5. /\ calls' \in [Change -> {None} \cup Call]
      /\ \A f \in Change : calls[f] # None => calls'[f] # None
  BY <1>1, <1>4, AnswerCall DEF Execute
<1>6. UNCHANGED <<status, ticked, dialog, page, fetchCall, alive, currentUser,
                  clicks, others>>
  BY DEF Execute
<1>7. TypeOK'
  BY <1>2, <1>5, <1>6 DEF UsersInv, TypeOK
<1>8. WaitersHaveCalls'
  BY <1>5, <1>6 DEF UsersInv, WaitersHaveCalls, Change
<1> QED  BY <1>7, <1>8 DEF UsersInv

LEMMA FailStep ==
    ASSUME UsersInv, NEW e \in Change, Fail(e)
    PROVE  UsersInv'
<1>1. "code-undefined" \in Answer
  BY DEF Answer, Code
<1>2. /\ calls' \in [Change -> {None} \cup Call]
      /\ \A f \in Change : calls[f] # None => calls'[f] # None
  BY <1>1, AnswerCall DEF Fail, UsersInv, TypeOK
<1>3. UNCHANGED <<status, ticked, dialog, page, fetchCall, alive, currentUser,
                  users, clicks, others>>
  BY DEF Fail
<1>4. TypeOK'
  BY <1>2, <1>3 DEF UsersInv, TypeOK
<1>5. WaitersHaveCalls'
  BY <1>2, <1>3 DEF UsersInv, WaitersHaveCalls, Change
<1> QED  BY <1>4, <1>5 DEF UsersInv

LEMMA ReadStep ==
    ASSUME UsersInv, Read
    PROVE  UsersInv'
<1>1. fetchCall' \in Fetch
  BY DEF Read, UsersInv, TypeOK, Fetch
<1>2. fetchCall' # None
  BY <1>1, NoneAssumption
<1>3. UNCHANGED <<status, ticked, dialog, page, calls, alive, currentUser, users,
                  clicks, others>>
  BY DEF Read
<1>4. TypeOK'
  BY <1>1, <1>3 DEF UsersInv, TypeOK
<1>5. WaitersHaveCalls'
  BY <1>2, <1>3 DEF UsersInv, WaitersHaveCalls
<1> QED  BY <1>4, <1>5 DEF UsersInv

LEMMA OthersStep ==
    ASSUME UsersInv, OthersChange
    PROVE  UsersInv'
<1>1. users \in Users
  BY DEF UsersInv, TypeOK
<1>2. users' \in Users
  <2>1. PICK u \in Username :
          \/ \E ps \in SUBSET Permission :
                users' = Repository!CreateUser(users, u, ps)
          \/ users' = Repository!DeleteUser(users, u)
          \/ \E p \in Permission :
                \/ users' = Repository!AddPermission(users, u, p)
                \/ users' = Repository!RemovePermission(users, u, p)
    BY DEF OthersChange
  <2> QED  BY <1>1, <2>1, CreatedCollection, DeletedCollection, ChangedCollection
<1>3. UNCHANGED <<frontend, clicks>> /\ others < MaxOthers /\ others' = others + 1
  BY DEF OthersChange
<1>4. TypeOK'
  BY <1>2, <1>3, MaxAssumption DEF UsersInv, TypeOK, frontend
<1>5. WaitersHaveCalls'
  BY <1>3 DEF UsersInv, WaitersHaveCalls, frontend
<1> QED  BY <1>4, <1>5 DEF UsersInv

-----------------------------------------------------------------------------
(* The steps of the answers: each ends with its call what waits for it.    *)
LEMMA FetchSucceedsStep ==
    ASSUME UsersInv, FetchSucceeds
    PROVE  UsersInv'
<1>1. fetchCall.read \in Users /\ status \in State
  BY DEF FetchSucceeds, UsersInv, TypeOK, Fetch
<1>2. status' = Fetched(status, fetchCall.read) /\ fetchCall' = None
  BY ReducerActions DEF FetchSucceeds
<1>3. /\ status' \in State /\ status'.fetching = FALSE
      /\ status'.create = status.create /\ status'.users \in Users
  BY <1>1, <1>2, ReducerFields
<1>4. ticked' = status'.users
  BY DEF FetchSucceeds, getUsers
<1>5. UNCHANGED <<dialog, page, calls, alive, currentUser, users, clicks, others>>
  BY DEF FetchSucceeds
<1>6. TypeOK'
  BY <1>2, <1>3, <1>4, <1>5 DEF UsersInv, TypeOK
<1>7. WaitersHaveCalls'
  BY <1>3, <1>5 DEF UsersInv, WaitersHaveCalls
<1> QED  BY <1>6, <1>7 DEF UsersInv

LEMMA FetchFailsStep ==
    ASSUME UsersInv, FetchFails
    PROVE  UsersInv'
<1>1. status' = NotFetched(status) /\ fetchCall' = None /\ status \in State
  BY ReducerActions DEF FetchFails, UsersInv, TypeOK
<1>2. status' \in State /\ status'.fetching = FALSE /\ status'.create = status.create
  BY <1>1, ReducerFields
<1>3. UNCHANGED <<ticked, dialog, page, calls, alive, currentUser, users, clicks,
                  others>>
  BY DEF FetchFails
<1>4. TypeOK'
  BY <1>1, <1>2, <1>3 DEF UsersInv, TypeOK
<1>5. WaitersHaveCalls'
  BY <1>2, <1>3 DEF UsersInv, WaitersHaveCalls
<1> QED  BY <1>4, <1>5 DEF UsersInv

LEMMA CreateEndsStep ==
    ASSUME UsersInv, CreateSucceeds \/ CreateFails
    PROVE  UsersInv'
<1>1. calls["createUser"] \in Call /\ status \in State
  BY DEF CreateSucceeds, CreateFails, Answered, UsersInv, TypeOK, Change
<1>2. PICK x \in Code \cup {None} : status' = Create(status, FALSE, x)
  <2>1. CASE CreateSucceeds
    BY <2>1, ReducerActions DEF CreateSucceeds
  <2>2. CASE CreateFails
    <3>1. calls["createUser"].answer \in Code
      BY <1>1, <2>2 DEF CreateFails, Answered, Call, Answer
    <3> QED  BY <2>2, <3>1, ReducerActions DEF CreateFails
  <2> QED  BY <2>1, <2>2
<1>3. /\ status' \in State /\ status'.fetching = status.fetching
      /\ status'.create.running = FALSE
  BY <1>1, <1>2, ReducerFields
<1>4. /\ calls' = [calls EXCEPT !["createUser"] = None]
      /\ page' \in {"users", page}
      /\ UNCHANGED <<ticked, dialog, fetchCall, alive, currentUser, users, clicks,
                     others>>
  BY DEF CreateSucceeds, CreateFails
<1>5. TypeOK'
  BY <1>3, <1>4 DEF UsersInv, TypeOK, Page
<1>6. WaitersHaveCalls'
  BY <1>3, <1>4 DEF UsersInv, WaitersHaveCalls
<1> QED  BY <1>5, <1>6 DEF UsersInv

LEMMA EndStep ==
    ASSUME UsersInv, NEW e \in Change, End(e)
    PROVE  UsersInv'
<1>1. /\ e # "createUser" /\ calls' = [calls EXCEPT ![e] = None]
      /\ UNCHANGED <<status, ticked, dialog, page, fetchCall, alive, currentUser,
                     users, clicks, others>>
  BY DEF End
<1>2. TypeOK'
  BY <1>1 DEF UsersInv, TypeOK
<1>3. calls'["createUser"] = calls["createUser"]
  BY <1>1 DEF UsersInv, TypeOK, Change
<1>4. WaitersHaveCalls'
  BY <1>1, <1>3 DEF UsersInv, WaitersHaveCalls
<1> QED  BY <1>2, <1>4 DEF UsersInv

(* The store has ended: nothing is left to wait for.                       *)
LEMMA DeleteFailsStep ==
    ASSUME UsersInv, DeleteFails
    PROVE  UsersInv'
<1>1. /\ ~alive' /\ alive' \in BOOLEAN
      /\ calls' = [e \in Change |-> None]
      /\ fetchCall' = None
      /\ UNCHANGED <<status, ticked, dialog, page, currentUser, users, clicks, others>>
  BY DEF DeleteFails
<1>2. TypeOK'
  BY <1>1 DEF UsersInv, TypeOK
<1>3. WaitersHaveCalls'
  BY <1>1 DEF WaitersHaveCalls
<1> QED  BY <1>2, <1>3 DEF UsersInv

LEMMA MeArrivesStep ==
    ASSUME UsersInv, MeArrives
    PROVE  UsersInv'
<1>1. users \in [DOMAIN users -> SUBSET Permission]
  BY CollectionOf DEF UsersInv, TypeOK
<1>2. currentUser' \in SUBSET Permission
  BY <1>1 DEF MeArrives
<1>3. UNCHANGED <<status, ticked, dialog, page, fetchCall, calls, alive, users,
                  clicks, others>>
  BY DEF MeArrives
<1>4. TypeOK'
  BY <1>2, <1>3 DEF UsersInv, TypeOK
<1>5. WaitersHaveCalls'
  BY <1>3 DEF UsersInv, WaitersHaveCalls
<1> QED  BY <1>4, <1>5 DEF UsersInv

-----------------------------------------------------------------------------
(* The steps of the pages.                                                 *)
LEMMA LoadUsersStep ==
    ASSUME UsersInv, LoadUsers
    PROVE  UsersInv'
<1>1. status' = Fetching(status) /\ status \in State
  BY ReducerActions DEF LoadUsers, UsersInv, TypeOK
<1>2. status' \in State /\ status'.create = status.create
  BY <1>1, ReducerFields
<1>3. ticked' \in Users /\ dialog' \in {None} \cup Dialog
  BY TableGoneTypes DEF LoadUsers, UsersInv
<1>4. /\ fetchCall' \in {None} \cup Fetch
      /\ fetchCall' # None
  <2>1. [read |-> None] \in Fetch
    BY DEF Fetch
  <2>2. [read |-> None] # None
    BY <2>1, NoneAssumption
  <2> QED  BY <2>1, <2>2 DEF LoadUsers, fetchUsers, UsersInv, TypeOK
<1>5. UNCHANGED <<page, calls, alive, currentUser, users, clicks, others>>
  BY DEF LoadUsers
<1>6. TypeOK'
  BY <1>2, <1>3, <1>4, <1>5 DEF UsersInv, TypeOK
<1>7. WaitersHaveCalls'
  BY <1>2, <1>4, <1>5 DEF UsersInv, WaitersHaveCalls
<1> QED  BY <1>6, <1>7 DEF UsersInv

LEMMA ClickCounts ==
    ASSUME UsersInv, Click
    PROVE  clicks' \in 0 .. MaxClicks
BY MaxAssumption DEF UsersInv, TypeOK, Click

LEMMA ChangePermissionStep ==
    ASSUME UsersInv, NEW u \in Username, NEW p \in Permission,
           ChangePermission(u, p)
    PROVE  UsersInv'
<1>1. clicks' \in 0 .. MaxClicks
  BY ClickCounts DEF ChangePermission
<1>2. status' = status /\ ticked' \in Users
  <2>1. ticked \in Users
    BY DEF UsersInv, TypeOK
  <2>2. /\ Repository!AddPermission(ticked, u, p) \in Users
        /\ Repository!RemovePermission(ticked, u, p) \in Users
    BY <2>1, ChangedCollection
  <2>3. /\ reducer(status, AddPermission(u, p)) = status
        /\ reducer(status, RemovePermission(u, p)) = status
    BY DEF reducer, With, AddPermission, RemovePermission
  <2> QED  BY <2>2, <2>3 DEF ChangePermission, dispatch
<1>3. PICK e \in Change : Ask(e, u, {p})
  BY DEF ChangePermission, removePermission, addPermission, Change
<1>4. /\ calls' \in [Change -> {None} \cup Call]
      /\ \A f \in Change : calls[f] # None => calls'[f] # None
  BY <1>3, AskStartsCall DEF UsersInv, TypeOK
<1>5. UNCHANGED <<dialog, page, fetchCall, alive, currentUser, users, others>>
  BY DEF ChangePermission
<1>6. TypeOK'
  BY <1>1, <1>2, <1>4, <1>5 DEF UsersInv, TypeOK
<1>7. WaitersHaveCalls'
  BY <1>2, <1>4, <1>5 DEF UsersInv, WaitersHaveCalls, Change
<1> QED  BY <1>6, <1>7 DEF UsersInv

LEMMA DialogStep ==
    ASSUME UsersInv, Refuse \/ \E u \in Username : OpenDialog(u)
    PROVE  UsersInv'
<1>1. dialog' \in {None} \cup Dialog
  <2>1. \A u \in Username : [user |-> u, live |-> TRUE] \in Dialog
    BY DEF Dialog
  <2> QED  BY <2>1 DEF Refuse, OpenDialog
<1>2. clicks' \in 0 .. MaxClicks
  BY ClickCounts DEF Refuse, OpenDialog, UsersInv, TypeOK
<1>3. UNCHANGED <<status, ticked, page, fetchCall, calls, alive, currentUser, users,
                  others>>
  BY DEF Refuse, OpenDialog
<1>4. TypeOK'
  BY <1>1, <1>2, <1>3 DEF UsersInv, TypeOK
<1>5. WaitersHaveCalls'
  BY <1>3 DEF UsersInv, WaitersHaveCalls
<1> QED  BY <1>4, <1>5 DEF UsersInv

LEMMA ConfirmStep ==
    ASSUME UsersInv, Confirm
    PROVE  UsersInv'
<1>1. dialog \in Dialog /\ dialog' = None
  BY DEF Confirm, UsersInv, TypeOK
<1>2. UNCHANGED <<page, fetchCall, alive, currentUser, users, clicks, others>>
  BY DEF Confirm
<1>3. CASE ~dialog.live
  <2>1. UNCHANGED <<status, ticked, calls>>
    BY <1>3 DEF Confirm
  <2>2. TypeOK'
    BY <1>1, <1>2, <2>1 DEF UsersInv, TypeOK
  <2>3. WaitersHaveCalls'
    BY <1>2, <2>1 DEF UsersInv, WaitersHaveCalls
  <2> QED  BY <2>2, <2>3 DEF UsersInv
<1>4. CASE dialog.live
  <2>1. dialog.user \in Username /\ status \in State /\ ticked \in Users
    BY <1>1 DEF Dialog, UsersInv, TypeOK
  <2>2. status' = status \/ status' = Hide(status, dialog.user)
    BY <1>4, ReducerActions DEF Confirm, dispatch
  <2>3. /\ status' \in State /\ status'.create = status.create
        /\ status'.fetching = status.fetching
    <3>1. CASE status' = status
      BY <2>1, <3>1
    <3>2. CASE status' = Hide(status, dialog.user)
      BY <2>1, <3>2, ReducerFields
    <3> QED  BY <2>2, <3>1, <3>2
  <2>4. ticked' \in Users
    <3> DEFINE S == DOMAIN ticked \cap DOMAIN getUsers(status')
    <3>1. ticked \in [DOMAIN ticked -> SUBSET Permission]
          /\ DOMAIN ticked \in SUBSET Username
      BY <2>1, CollectionOf
    <3>2. S \in SUBSET Username /\ S \subseteq DOMAIN ticked
      BY <3>1
    <3>3. ticked' = [u \in S |-> ticked[u]]
      BY <1>4 DEF Confirm
    <3> HIDE DEF S
    <3>4. ticked' \in [S -> SUBSET Permission]
      BY <3>1, <3>2, <3>3
    <3> QED  BY <3>2, <3>4, CollectionIs
  <2>5. Ask("deleteUser", dialog.user, {})
    BY <1>4 DEF Confirm, deleteUser
  <2>6. /\ calls' \in [Change -> {None} \cup Call]
        /\ \A f \in Change : calls[f] # None => calls'[f] # None
    BY <2>1, <2>5, AskStartsCall DEF UsersInv, TypeOK, Change
  <2>7. TypeOK'
    BY <1>1, <1>2, <2>3, <2>4, <2>6 DEF UsersInv, TypeOK
  <2>8. WaitersHaveCalls'
    BY <1>2, <2>3, <2>6 DEF UsersInv, WaitersHaveCalls, Change
  <2> QED  BY <2>7, <2>8 DEF UsersInv
<1> QED  BY <1>3, <1>4

LEMMA SubmitFormStep ==
    ASSUME UsersInv, NEW u \in Username, NEW ps \in SUBSET Permission,
           SubmitForm(u, ps)
    PROVE  UsersInv'
<1>1. clicks' \in 0 .. MaxClicks
  BY ClickCounts DEF SubmitForm
<1>2. /\ status' = status \/ status' = Create(status, TRUE, None)
      /\ status \in State
  <2>1. reducer(status, CreateUser(u, ps)) = Create(status, TRUE, None)
    BY DEF reducer, With, CreateUser
  <2> QED  BY <2>1 DEF SubmitForm, dispatch, UsersInv, TypeOK
<1>3. status' \in State /\ status'.fetching = status.fetching
  <2>1. CASE status' = status
    BY <1>2, <2>1
  <2>2. CASE status' = Create(status, TRUE, None)
    BY <1>2, <2>2, ReducerFields
  <2> QED  BY <1>2, <2>1, <2>2
<1>4. Ask("createUser", u, ps)
  BY DEF SubmitForm, createUser
<1>5. /\ calls' \in [Change -> {None} \cup Call]
      /\ alive => calls'["createUser"] # None
  BY <1>4, AskStartsCall DEF UsersInv, TypeOK, Change
<1>6. UNCHANGED <<ticked, dialog, page, fetchCall, alive, currentUser, users, others>>
  BY DEF SubmitForm
<1>7. TypeOK'
  BY <1>1, <1>3, <1>5, <1>6 DEF UsersInv, TypeOK
<1>8. WaitersHaveCalls'
  BY <1>3, <1>5, <1>6 DEF UsersInv, WaitersHaveCalls
<1> QED  BY <1>7, <1>8 DEF UsersInv

LEMMA OpenPageStep ==
    ASSUME UsersInv, NEW p \in Page, OpenPage(p)
    PROVE  UsersInv'
<1>1. page' \in Page
  BY DEF OpenPage, checkRoute, Page
<1>2. ticked' \in Users /\ dialog' \in {None} \cup Dialog
  <2>1. CASE TableGone(status)
    BY <2>1, TableGoneTypes DEF UsersInv
  <2>2. CASE UNCHANGED <<ticked, dialog>>
    BY <2>2 DEF UsersInv, TypeOK
  <2> QED  BY <2>1, <2>2 DEF OpenPage
<1>3. UNCHANGED <<status, fetchCall, calls, alive, currentUser, users, clicks, others>>
  BY DEF OpenPage
<1>4. TypeOK'
  BY <1>1, <1>2, <1>3 DEF UsersInv, TypeOK
<1>5. WaitersHaveCalls'
  BY <1>3 DEF UsersInv, WaitersHaveCalls
<1> QED  BY <1>4, <1>5 DEF UsersInv

-----------------------------------------------------------------------------
LEMMA UsersInit == Init => UsersInv
<1> SUFFICES ASSUME Init PROVE UsersInv
  OBVIOUS
<1>1. initialState \in State /\ initialState.users \in Users
  <2>1. [running |-> FALSE, error |-> None] \in AddUserState
    BY DEF AddUserState
  <2> QED  BY <2>1, EmptyCollection DEF initialState, State
<1>2. TypeOK
  BY <1>1, MaxAssumption DEF Init, TypeOK, Page
<1>3. WaitersHaveCalls
  BY DEF Init, WaitersHaveCalls, initialState
<1> QED  BY <1>2, <1>3 DEF UsersInv

LEMMA UsersNext == UsersInv /\ [Next]_vars => UsersInv'
<1> SUFFICES ASSUME UsersInv, [Next]_vars PROVE UsersInv'
  OBVIOUS
<1>1. CASE \E e \in Change : Execute(e) \/ Fail(e) \/ End(e)
  BY <1>1, ExecuteStep, FailStep, EndStep
<1>2. CASE Read \/ OthersChange \/ MeArrives
  BY <1>2, ReadStep, OthersStep, MeArrivesStep
<1>3. CASE FetchSucceeds \/ FetchFails
  BY <1>3, FetchSucceedsStep, FetchFailsStep
<1>4. CASE CreateSucceeds \/ CreateFails \/ DeleteFails
  BY <1>4, CreateEndsStep, DeleteFailsStep
<1>5. CASE LoadUsers \/ Confirm
  BY <1>5, LoadUsersStep, ConfirmStep
<1>6. CASE Refuse \/ \E u \in Username : OpenDialog(u)
  BY <1>6, DialogStep
<1>7. CASE \E u \in Username, p \in Permission : ChangePermission(u, p)
  BY <1>7, ChangePermissionStep
<1>8. CASE \E u \in Username, ps \in SUBSET Permission : SubmitForm(u, ps)
  BY <1>8, SubmitFormStep
<1>9. CASE \E p \in Page : OpenPage(p)
  BY <1>9, OpenPageStep
<1>10. CASE UNCHANGED vars
  <2>1. TypeOK'
    BY <1>10 DEF vars, frontend, UsersInv, TypeOK
  <2>2. WaitersHaveCalls'
    BY <1>10 DEF vars, frontend, UsersInv, WaitersHaveCalls
  <2> QED  BY <2>1, <2>2 DEF UsersInv
<1> QED
  BY <1>1, <1>2, <1>3, <1>4, <1>5, <1>6, <1>7, <1>8, <1>9, <1>10 DEF Next

(* The strengthened invariant of the tab: what the variables hold, and     *)
(* what waits for a call.                                                  *)
THEOREM UsersInvariant == Spec => []UsersInv
BY UsersInit, UsersNext, PTL DEF Spec

(* The variables of UsersStore keep their types: the collection stays a    *)
(* map of users to permissions through all the calls, twice carried out or *)
(* not.                                                                    *)
THEOREM UsersStoreTypesHold == Spec => []TypeOK
<1>1. UsersInv => TypeOK
  BY DEF UsersInv
<1> QED  BY <1>1, UsersInvariant, PTL

(* A spinner or a disabled form of users.reducer.ts always has a call that *)
(* will end it, although exhaustMap drops actions: unless the store has    *)
(* ended.                                                                  *)
THEOREM WaitersAlwaysHaveCalls == Spec => []WaitersHaveCalls
<1>1. UsersInv => WaitersHaveCalls
  BY DEF UsersInv
<1> QED  BY <1>1, UsersInvariant, PTL

-----------------------------------------------------------------------------
(* The dialog that confirms a deletion, and the calls it leads to.         *)

(* A call that fetches the users turns the spinner, and takes the table    *)
(* with its outputs away: a dialog that still speaks to a table has seen   *)
(* none since.                                                             *)
DialogInv ==
    /\ fetchCall # None => status.fetching
    /\ dialog # None /\ dialog.live => fetchCall = None

AskInv == DialogInv /\ AsksForWhatItShows

(* A call that is asked for is as good as the one asked for, and all       *)
(* others stay.                                                            *)
LEMMA AskIsOfOthers ==
    ASSUME UsersInv, AsksForWhatItShows, NEW e \in Change, NEW u, NEW ps,
           Ask(e, u, ps),
           LET new == [user |-> u, permissions |-> ps, answer |-> None]
           IN  ~OwnRight(e, new)
    PROVE  \A f \in Change : calls'[f] # None => ~OwnRight(f, calls'[f])
<1> DEFINE new == [user |-> u, permissions |-> ps, answer |-> None]
<1>1. calls' = [calls EXCEPT ![e] = new] \/ calls' = calls
  BY DEF Ask
<1>2. ~OwnRight(e, new)
  OBVIOUS
<1>3. calls \in [Change -> {None} \cup Call]
  BY DEF UsersInv, TypeOK
<1> HIDE DEF new
<1>4. CASE calls' = calls
  BY <1>4 DEF AsksForWhatItShows
<1>5. CASE calls' = [calls EXCEPT ![e] = new]
  BY <1>2, <1>3, <1>5 DEF AsksForWhatItShows
<1> QED  BY <1>1, <1>4, <1>5

(* An answer changes nothing of what was asked for.                        *)
LEMMA AnswersAskNothing ==
    ASSUME UsersInv, AsksForWhatItShows, NEW e \in Change, calls[e] # None,
           NEW answer, calls' = [calls EXCEPT ![e].answer = answer]
    PROVE  \A f \in Change : calls'[f] # None => ~OwnRight(f, calls'[f])
<1>1. calls \in [Change -> {None} \cup Call] /\ calls[e] \in Call
  BY DEF UsersInv, TypeOK
<1>2. /\ calls'[e].user = calls[e].user
      /\ calls'[e].permissions = calls[e].permissions
  BY <1>1 DEF Call
<1>3. \A f \in Change \ {e} : calls'[f] = calls[f]
  BY <1>1
<1> QED  BY <1>2, <1>3 DEF AsksForWhatItShows, OwnRight

(* Steps that leave table and dialog alone, and ask for nothing.           *)
LEMMA QuietStep ==
    ASSUME AskInv, UNCHANGED dialog, status'.users = status.users,
           fetchCall' # None => fetchCall # None /\ status'.fetching,
           \A e \in Change : calls'[e] # None => ~OwnRight(e, calls'[e])
    PROVE  AskInv'
BY DEF AskInv, DialogInv, AsksForWhatItShows, Rows, getUsers

(* The table is gone, and with it what the dialog would speak to.          *)
LEMMA DialogFallsSilent ==
    ASSUME UsersInv, NEW s, TableGone(s)
    PROVE  dialog' # None => ~dialog'.live
<1>1. CASE dialog = None
  BY <1>1 DEF TableGone
<1>2. CASE dialog # None
  <2>1. dialog \in Dialog
    BY <1>2 DEF UsersInv, TypeOK
  <2> QED  BY <1>2, <2>1 DEF TableGone, Dialog
<1> QED  BY <1>1, <1>2

LEMMA AskInvInit == Init => AskInv
BY DEF Init, AskInv, DialogInv, AsksForWhatItShows

LEMMA AskInvNext ==
    ASSUME UsersInv, AskInv, [Next]_vars
    PROVE  AskInv'
<1>1. /\ calls \in [Change -> {None} \cup Call] /\ status \in State
      /\ \A e \in Change : calls[e] # None => ~OwnRight(e, calls[e])
      /\ fetchCall # None => status.fetching
      /\ dialog # None => dialog \in Dialog
  BY DEF UsersInv, TypeOK, AskInv, DialogInv, AsksForWhatItShows
<1>2. CASE UNCHANGED <<status, dialog, fetchCall, calls>>
  BY <1>2 DEF AskInv, DialogInv, AsksForWhatItShows, Rows
<1>3. ASSUME NEW e \in Change, Execute(e) \/ Fail(e)
      PROVE  AskInv'
  <2>1. PICK answer : calls' = [calls EXCEPT ![e].answer = answer]
    BY <1>3 DEF Execute, Fail
  <2>2. calls[e] # None
    BY <1>3 DEF Execute, Fail
  <2>3. \A f \in Change : calls'[f] # None => ~OwnRight(f, calls'[f])
    BY <2>1, <2>2, AnswersAskNothing DEF AskInv
  <2>4. UNCHANGED <<status, dialog, fetchCall>>
    BY <1>3 DEF Execute, Fail
  <2> QED  BY <1>1, <2>3, <2>4, QuietStep
<1>4. ASSUME NEW e \in Change, End(e)
      PROVE  AskInv'
  <2>1. \A f \in Change : calls'[f] # None => ~OwnRight(f, calls'[f])
    BY <1>1, <1>4 DEF End
  <2>2. UNCHANGED <<status, dialog, fetchCall>>
    BY <1>4 DEF End
  <2> QED  BY <1>1, <2>1, <2>2, QuietStep
<1>5. CASE Read
  <2>1. UNCHANGED <<status, dialog, calls>> /\ fetchCall # None
    BY <1>5 DEF Read
  <2> QED  BY <1>1, <2>1, QuietStep
<1>6. CASE FetchSucceeds
  <2>1. fetchCall # None /\ fetchCall' = None /\ UNCHANGED <<dialog, calls>>
    BY <1>6 DEF FetchSucceeds
  <2> QED  BY <2>1 DEF AskInv, DialogInv, AsksForWhatItShows
<1>7. CASE FetchFails
  <2>1. fetchCall' = None /\ UNCHANGED <<dialog, calls>>
    BY <1>7 DEF FetchFails
  <2>2. status' = NotFetched(status)
    BY <1>7, ReducerActions DEF FetchFails
  <2>3. status'.users = status.users
    BY <1>1, <2>2 DEF NotFetched, State
  <2> QED  BY <1>1, <2>1, <2>3, QuietStep
<1>8. CASE CreateSucceeds \/ CreateFails
  <2>1. PICK x : status' = Create(status, FALSE, x)
    BY <1>8, ReducerActions DEF CreateSucceeds, CreateFails
  <2>2. status'.users = status.users /\ status'.fetching = status.fetching
    BY <1>1, <2>1 DEF Create, State
  <2>3. /\ calls' = [calls EXCEPT !["createUser"] = None]
        /\ UNCHANGED <<dialog, fetchCall>>
    BY <1>8 DEF CreateSucceeds, CreateFails
  <2>4. \A f \in Change : calls'[f] # None => ~OwnRight(f, calls'[f])
    BY <1>1, <2>3
  <2> QED  BY <1>1, <2>2, <2>3, <2>4, QuietStep
<1>9. CASE DeleteFails
  <2>1. UNCHANGED <<status, dialog>> /\ fetchCall' \in {fetchCall, None}
    BY <1>9 DEF DeleteFails
  <2>2. \A f \in Change : calls'[f] # None => ~OwnRight(f, calls'[f])
    BY <1>1, <1>9 DEF DeleteFails
  <2> QED  BY <1>1, <2>1, <2>2, QuietStep
<1>10. CASE LoadUsers
  <2>1. status' = Fetching(status) /\ UNCHANGED calls
    BY <1>10, ReducerActions DEF LoadUsers
  <2>2. status'.fetching = TRUE
    BY <1>1, <2>1 DEF Fetching, State
  <2>3. dialog' # None => ~dialog'.live
    BY <1>10, DialogFallsSilent DEF LoadUsers
  <2> QED  BY <1>1, <2>1, <2>2, <2>3 DEF AskInv, DialogInv, AsksForWhatItShows
<1>11. ASSUME NEW u \in Username, NEW p \in Permission, ChangePermission(u, p)
       PROVE  AskInv'
  <2>1. /\ status' = status
        /\ UNCHANGED <<dialog, fetchCall>>
    BY <1>11 DEF ChangePermission, dispatch, reducer, With, AddPermission,
                 RemovePermission
  <2>2. u # Self \/ p \notin {USERS_READ, USERS_WRITE}
    BY <1>11 DEF ChangePermission, canEditPermission
  <2>3. PICK e \in {"addPermission", "removePermission"} : Ask(e, u, {p})
    BY <1>11 DEF ChangePermission, addPermission, removePermission
  <2>4. ~OwnRight(e, [user |-> u, permissions |-> {p}, answer |-> None])
    BY <2>2, <2>3 DEF OwnRight
  <2>5. e \in Change
    BY <2>3 DEF Change
  <2>6. \A f \in Change : calls'[f] # None => ~OwnRight(f, calls'[f])
    BY <2>3, <2>4, <2>5, AskIsOfOthers DEF AskInv
  <2> QED  BY <1>1, <2>1, <2>6, QuietStep
<1>12. ASSUME NEW u \in Username, OpenDialog(u)
       PROVE  AskInv'
  <2>1. /\ u \in Rows /\ u # Self /\ ~status.fetching
        /\ dialog' = [user |-> u, live |-> TRUE]
        /\ UNCHANGED <<status, fetchCall, calls>>
    BY <1>12 DEF OpenDialog, TableShown, isFetchingUsers, canDeleteUser
  <2>2. fetchCall = None
    BY <1>1, <2>1
  <2> QED  BY <1>1, <2>1, <2>2 DEF AskInv, DialogInv, AsksForWhatItShows, Rows
<1>13. CASE Refuse
  BY <1>1, <1>13 DEF Refuse, AskInv, DialogInv, AsksForWhatItShows
<1>14. CASE Confirm
  <2>1. dialog # None /\ dialog' = None /\ UNCHANGED fetchCall
    BY <1>14 DEF Confirm
  <2>2. CASE ~dialog.live
    BY <1>1, <1>14, <2>1, <2>2 DEF Confirm, AskInv, DialogInv, AsksForWhatItShows
  <2>3. CASE dialog.live
    <3>1. dialog.user \in Username /\ dialog.user # Self
      BY <1>1, <2>1, <2>3 DEF Dialog, AskInv, AsksForWhatItShows
    <3>2. Ask("deleteUser", dialog.user, {}) /\ "deleteUser" \in Change
      BY <1>14, <2>3 DEF Confirm, deleteUser, Change
    <3>3. ~OwnRight("deleteUser",
                    [user |-> dialog.user, permissions |-> {}, answer |-> None])
      BY <3>1 DEF OwnRight
    <3>4. \A f \in Change : calls'[f] # None => ~OwnRight(f, calls'[f])
      BY <3>2, <3>3, AskIsOfOthers DEF AskInv
    <3>5. status' = status \/ status' = Hide(status, dialog.user)
      BY <1>14, <2>3, ReducerActions DEF Confirm, dispatch
    <3>6. status'.fetching = status.fetching
      <4>1. CASE status' = status
        BY <4>1
      <4>2. CASE status' = Hide(status, dialog.user)
        BY <1>1, <3>1, <4>2, ReducerFields
      <4> QED  BY <3>5, <4>1, <4>2
    <3> QED  BY <1>1, <2>1, <3>4, <3>6 DEF AskInv, DialogInv, AsksForWhatItShows
  <2> QED  BY <2>2, <2>3
<1>15. ASSUME NEW u \in Username, NEW ps \in SUBSET Permission,
              SubmitForm(u, ps)
       PROVE  AskInv'
  <2>1. status' = status \/ status' = Create(status, TRUE, None)
    BY <1>15 DEF SubmitForm, dispatch, reducer, With, CreateUser
  <2>2. status'.users = status.users /\ status'.fetching = status.fetching
    BY <1>1, <2>1 DEF Create, State
  <2>3. Ask("createUser", u, ps) /\ "createUser" \in Change
    BY <1>15 DEF SubmitForm, createUser, Change
  <2>4. ~OwnRight("createUser",
                  [user |-> u, permissions |-> ps, answer |-> None])
    BY DEF OwnRight
  <2>5. \A f \in Change : calls'[f] # None => ~OwnRight(f, calls'[f])
    BY <2>3, <2>4, AskIsOfOthers DEF AskInv
  <2>6. UNCHANGED <<dialog, fetchCall>>
    BY <1>15 DEF SubmitForm
  <2> QED  BY <1>1, <2>2, <2>5, <2>6, QuietStep
<1>16. ASSUME NEW p \in Page, OpenPage(p)
       PROVE  AskInv'
  <2>1. UNCHANGED <<status, fetchCall, calls>>
    BY <1>16 DEF OpenPage
  <2>2. CASE TableGone(status)
    <3>1. dialog' # None => ~dialog'.live
      BY <2>2, DialogFallsSilent
    <3> QED  BY <1>1, <2>1, <3>1 DEF AskInv, DialogInv, AsksForWhatItShows
  <2>3. CASE UNCHANGED dialog
    BY <1>2, <2>1, <2>3
  <2> QED  BY <1>16, <2>2, <2>3 DEF OpenPage
<1> QED
  BY <1>2, <1>3, <1>4, <1>5, <1>6, <1>7, <1>8, <1>9, <1>10, <1>11, <1>12, <1>13,
     <1>14, <1>15, <1>16 DEF Next, vars, frontend, MeArrives, OthersChange

(* A deletion is confirmed for a row that is shown, never for oneself, and *)
(* the backend never has to protect the user's own account from this tab.  *)
THEOREM TabAsksForWhatItShows == Spec => []AsksForWhatItShows
<1>1. UsersInv /\ AskInv /\ [Next]_vars => AskInv'
  BY AskInvNext
<1>2. AskInv => AsksForWhatItShows
  BY DEF AskInv
<1> QED  BY <1>1, <1>2, AskInvInit, UsersInvariant, PTL DEF Spec

-----------------------------------------------------------------------------
(* CallsInterceptor sends a call again whose answer was lost.  A call that *)
(* is carried out twice in a row leaves the collection as the first time:  *)
(* what Execute says of its effect holds for any number of attempts that   *)
(* nobody else's change comes between.                                     *)
THEOREM TwiceIsOnce ==
    ASSUME NEW c \in Users, NEW e \in Change, NEW call \in Call
    PROVE  Done(e, call, Done(e, call, c)) = Done(e, call, c)
<1> DEFINE d == Done(e, call, c)
<1>1. c \in [DOMAIN c -> SUBSET Permission]
  BY CollectionOf
<1>2. CASE CodeOf(e, call, c) # "ok"
  BY <1>2 DEF Done
<1>3. CASE CodeOf(e, call, c) = "ok" /\ e = "createUser"
  <2>1. call.user \in DOMAIN d
    BY <1>3 DEF Done, Repository!CreateUser
  <2>2. CodeOf(e, call, d) # "ok"
    <3> HIDE DEF d
    <3> QED  BY <1>3, <2>1 DEF CodeOf
  <2> QED  BY <2>2 DEF Done
<1>4. CASE CodeOf(e, call, c) = "ok" /\ e = "deleteUser"
  <2>1. call.user \notin DOMAIN d
    BY <1>4 DEF Done, Repository!DeleteUser
  <2>2. CodeOf(e, call, d) # "ok"
    <3> HIDE DEF d
    <3> QED  BY <1>4, <2>1 DEF CodeOf
  <2> QED  BY <2>2 DEF Done
<1>5. CASE CodeOf(e, call, c) = "ok" /\ e \in {"addPermission", "removePermission"}
  <2>1. /\ DOMAIN d = DOMAIN c
        /\ e = "addPermission" =>
              d = [c EXCEPT ![call.user] = @ \cup call.permissions]
        /\ e = "removePermission" =>
              d = [c EXCEPT ![call.user] = @ \ call.permissions]
    BY <1>5 DEF Done
  <2>2. /\ [d EXCEPT ![call.user] = @ \cup call.permissions] = d
           \/ e # "addPermission"
        /\ [d EXCEPT ![call.user] = @ \ call.permissions] = d
           \/ e # "removePermission"
    <3> HIDE DEF d
    <3> QED  BY <1>1, <1>5, <2>1
  <2>3. Done(e, call, d) \in {d, [d EXCEPT ![call.user] = @ \cup call.permissions]}
           \/ e # "addPermission"
    BY <1>5 DEF Done
  <2>4. Done(e, call, d) \in {d, [d EXCEPT ![call.user] = @ \ call.permissions]}
           \/ e # "removePermission"
    BY <1>5 DEF Done
  <2> QED  BY <1>5, <2>2, <2>3, <2>4
<1> QED  BY <1>2, <1>3, <1>4, <1>5 DEF Change

(* What the backend does with a call of this tab is the one operation of   *)
(* MongoUsersRepository, or nothing: a conflict and a user who is not      *)
(* there need no case of their own, since the operation leaves the         *)
(* collection as it is then.                                               *)
THEOREM DoneIsOneOperation ==
    ASSUME NEW c \in Users, NEW u \in Username, NEW ps \in SUBSET Permission,
           NEW p \in Permission, NEW answer, Self \in Repository!Writers(c)
    PROVE  LET call(qs) == [user |-> u, permissions |-> qs, answer |-> answer]
           IN  /\ Done("createUser", call(ps), c) = Repository!CreateUser(c, u, ps)
               /\ u # Self =>
                     Done("deleteUser", call({}), c) = Repository!DeleteUser(c, u)
               /\ Done("addPermission", call({p}), c)
                     = Repository!AddPermission(c, u, p)
               /\ u # Self \/ p \notin {USERS_READ, USERS_WRITE} =>
                     Done("removePermission", call({p}), c)
                        = Repository!RemovePermission(c, u, p)
<1> DEFINE call(qs) == [user |-> u, permissions |-> qs, answer |-> answer]
<1>1. c = [v \in DOMAIN c |-> c[v]]
  BY CollectionOf
<1>2. Done("createUser", call(ps), c) = Repository!CreateUser(c, u, ps)
  BY DEF Done, CodeOf, OwnRight, Repository!CreateUser
<1>3. u # Self => Done("deleteUser", call({}), c) = Repository!DeleteUser(c, u)
  BY <1>1 DEF Done, CodeOf, OwnRight, Repository!DeleteUser
<1>4. Done("addPermission", call({p}), c) = Repository!AddPermission(c, u, p)
  BY <1>1 DEF Done, CodeOf, OwnRight, Repository!AddPermission
<1>5. u # Self \/ p \notin {USERS_READ, USERS_WRITE} =>
         Done("removePermission", call({p}), c) = Repository!RemovePermission(c, u, p)
  BY <1>1 DEF Done, CodeOf, OwnRight, Repository!RemovePermission
<1> QED  BY <1>2, <1>3, <1>4, <1>5
=============================================================================
