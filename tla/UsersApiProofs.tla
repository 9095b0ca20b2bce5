--------------------------- MODULE UsersApiProofs ---------------------------
(***************************************************************************)
(* Theorems of UsersApi, for any number of users, clients and backends.    *)
(***************************************************************************)
EXTENDS UsersApi, TLAPS

(* Creating a user leaves a collection.                                    *)
LEMMA CreateType ==
  ASSUME NEW db \in Collection, NEW u \in Username,
         NEW ps \in SUBSET Permission
  PROVE  CreateUser(db, u, ps) \in Collection
<1>1. PICK S \in SUBSET Username : db \in [S -> SUBSET Permission]
  BY DEF Collection
<1>2. S \cup {u} \in SUBSET Username
  BY <1>1
<1>3. [v \in S \cup {u} |-> IF v = u THEN ps ELSE db[v]]
         \in [S \cup {u} -> SUBSET Permission]
  BY <1>1
<1>4. [S \cup {u} -> SUBSET Permission] \subseteq Collection
  BY <1>2 DEF Collection
<1>5. DOMAIN db = S
  BY <1>1
<1> QED
  BY <1>3, <1>4, <1>5 DEF CreateUser

(* Deleting a user does.                                                   *)
LEMMA DeleteType ==
  ASSUME NEW db \in Collection, NEW u \in Username
  PROVE  DeleteUser(db, u) \in Collection
<1>1. PICK S \in SUBSET Username : db \in [S -> SUBSET Permission]
  BY DEF Collection
<1>2. DeleteUser(db, u) \in [S \ {u} -> SUBSET Permission]
  BY <1>1 DEF DeleteUser
<1>3. [S \ {u} -> SUBSET Permission] \subseteq Collection
  BY <1>1 DEF Collection
<1> QED
  BY <1>2, <1>3

(* Granting and revoking a permission do.                                  *)
LEMMA PermissionType ==
  ASSUME NEW db \in Collection, NEW u \in Username, NEW p \in Permission
  PROVE  /\ AddPermission(db, u, p) \in Collection
         /\ RemovePermission(db, u, p) \in Collection
<1>1. PICK S \in SUBSET Username : db \in [S -> SUBSET Permission]
  BY DEF Collection
<1>2. /\ AddPermission(db, u, p) \in [S -> SUBSET Permission]
      /\ RemovePermission(db, u, p) \in [S -> SUBSET Permission]
  BY <1>1 DEF AddPermission, RemovePermission
<1>3. [S -> SUBSET Permission] \subseteq Collection
  BY DEF Collection
<1> QED
  BY <1>2, <1>3

(* So does whatever a request asks for.                                    *)
LEMMA AppliedType ==
  ASSUME users \in Collection, NEW call \in Operation
  PROVE  Applied(call) \in Collection
<1>1. CASE call \in [op : {"create"}, user : Username,
                     perms : SUBSET Permission]
  BY <1>1, CreateType DEF Applied
<1>2. CASE call \in [op : {"delete"}, user : Username]
  BY <1>2, DeleteType DEF Applied
<1>3. CASE call \in [op : {"addPermission", "removePermission"},
                     user : Username, perm : Permission]
  BY <1>3, PermissionType DEF Applied
<1> QED
  BY <1>1, <1>2, <1>3 DEF Operation

(* Every step keeps the types.                                             *)
LEMMA UsersTypeNext == TypeOK /\ [Next]_vars => TypeOK'
<1> SUFFICES ASSUME TypeOK, [Next]_vars
             PROVE  TypeOK'
  OBVIOUS
<1>1. CASE Replicate \/ ElectPrimary \/ LosePrimary
  <2>1. CASE Replicate
    BY <2>1 DEF TypeOK, Replicate
  <2>2. CASE ElectPrimary
    BY <2>2 DEF TypeOK, ElectPrimary
  <2>3. CASE LosePrimary
    <3>1. stepDowns' \in Nat
      BY <2>3 DEF TypeOK, LosePrimary
    <3>2. UNCHANGED <<users, replica, tokens, requests, bootstrap, restarts>>
      BY <2>3 DEF LosePrimary
    <3>3. primary' \in BOOLEAN
      BY <2>3, Zenon DEF LosePrimary
    <3> QED
      BY <3>1, <3>2, <3>3 DEF TypeOK
  <2> QED
    BY <1>1, <2>1, <2>2, <2>3
<1>2. ASSUME NEW b \in Backend, BootstrapList(b)
      PROVE  TypeOK'
  BY <1>2 DEF TypeOK, BootstrapList
<1>3. ASSUME NEW b \in Backend, BootstrapCreate(b)
      PROVE  TypeOK'
  <2>1. users' \in Collection
    BY <1>3, CreateType, DefaultUserAssumption DEF TypeOK, BootstrapCreate
  <2> QED
    BY <1>3, <2>1 DEF TypeOK, BootstrapCreate
<1>4. ASSUME NEW b \in Backend, RestartBackend(b)
      PROVE  TypeOK'
  BY <1>4 DEF TypeOK, RestartBackend
<1>5. ASSUME NEW u \in Username, Login(u) \/ Expire(u)
      PROVE  TypeOK'
  BY <1>5 DEF TypeOK, Login, Expire
<1>6. ASSUME NEW c \in Client, NEW u \in Username, NEW call \in Operation,
             Send(c, u, call)
      PROVE  TypeOK'
  BY <1>6 DEF TypeOK, Send, Request
<1>7. ASSUME NEW c \in Client, Authorise(c)
      PROVE  TypeOK'
  <2>1. requests[c] \in Request
    BY <1>7 DEF TypeOK, Authorise
  <2>2. [requests[c] EXCEPT !.authorised = TRUE] \in Request
    BY <2>1 DEF Request
  <2>3. requests' \in [Client -> Request \cup {NoRequest}]
    BY <1>7, <2>2 DEF TypeOK, Authorise
  <2> QED
    BY <1>7, <2>3 DEF TypeOK, Authorise
<1>8. ASSUME NEW c \in Client, Execute(c)
      PROVE  TypeOK'
  <2>1. requests[c].call \in Operation
    BY <1>8 DEF TypeOK, Execute, Request
  <2>2. users' \in Collection
    BY <1>8, <2>1, AppliedType DEF TypeOK, Execute
  <2> QED
    BY <1>8, <2>2 DEF TypeOK, Execute
<1>9. CASE UNCHANGED vars
  BY <1>9 DEF TypeOK, vars
<1> QED
  BY <1>1, <1>2, <1>3, <1>4, <1>5, <1>6, <1>7, <1>8, <1>9 DEF Next

(* The collection only ever holds validated users, whatever runs at once.  *)
THEOREM UsersTypesHold == Spec => []TypeOK
<1>1. Init => TypeOK
  <2>1. Empty \in [{} -> SUBSET Permission]
    BY DEF Empty
  <2>2. Empty \in Collection
    BY <2>1 DEF Collection
  <2> QED
    BY <2>2 DEF Init, TypeOK
<1> QED
  BY <1>1, UsersTypeNext, PTL DEF Spec

-----------------------------------------------------------------------------
(* The insert of a user takes no permission from anybody.                  *)
LEMMA CreateKeepsWriters ==
  ASSUME NEW db, NEW u, NEW ps
  PROVE  Writers(db) \subseteq Writers(CreateUser(db, u, ps))
  BY DEF Writers, CreateUser

(* A request that is not refused never takes users.write from its own      *)
(* subject.                                                                *)
LEMMA SubjectKeepsRight ==
  ASSUME NEW r \in Request, ~OwnRight(r), r.subject \in Writers(users)
  PROVE  r.subject \in Writers(Applied(r.call))
<1>1. r.call \in Operation
  BY DEF Request
<1>2. CASE r.call \in [op : {"create"}, user : Username,
                       perms : SUBSET Permission]
  <2>1. Applied(r.call) = CreateUser(users, r.call.user, r.call.perms)
    BY <1>2 DEF Applied
  <2> QED
    BY <2>1, CreateKeepsWriters
<1>3. CASE r.call \in [op : {"delete"}, user : Username]
  <2>1. /\ Applied(r.call) = DeleteUser(users, r.call.user)
        /\ r.call.user # r.subject
    BY <1>3 DEF Applied, OwnRight
  <2> QED
    BY <2>1 DEF Writers, DeleteUser
<1>4. CASE r.call \in [op : {"addPermission"}, user : Username,
                       perm : Permission]
  <2>1. Applied(r.call) = AddPermission(users, r.call.user, r.call.perm)
    BY <1>4 DEF Applied
  <2> QED
    BY <2>1 DEF Writers, AddPermission
<1>5. CASE r.call \in [op : {"removePermission"}, user : Username,
                       perm : Permission]
  <2>1. /\ Applied(r.call) =
             RemovePermission(users, r.call.user, r.call.perm)
        /\ r.call.user # r.subject \/ r.call.perm # USERS_WRITE
    BY <1>5 DEF Applied, OwnRight
  <2> QED
    BY <2>1 DEF Writers, RemovePermission
<1> QED
  BY <1>1, <1>2, <1>3, <1>4, <1>5 DEF Operation

(* Who takes the last users.write away has lost it himself.                *)
LEMMA LossNeedsLoser ==
  ASSUME TypeOK, [Next]_vars, Writers(users) # {}, Writers(users') = {}
  PROVE  \E c \in Client :
            /\ Execute(c)
            /\ requests[c] # NoRequest /\ requests'[c] = NoRequest
            /\ requests[c].authorised
            /\ requests[c].subject \notin Writers(users)
<1>1. users' # users
  OBVIOUS
<1>2. ASSUME NEW b \in Backend, BootstrapCreate(b)
      PROVE  FALSE
  BY <1>1, <1>2, CreateKeepsWriters DEF BootstrapCreate
<1>3. PICK c \in Client : Execute(c)
  BY <1>1, <1>2
     DEF Next, vars, Replicate, ElectPrimary, LosePrimary, BootstrapList,
         RestartBackend, Login, Expire, Send, Authorise
<1>4. /\ requests[c] \in Request
      /\ requests'[c] = NoRequest
      /\ users' = Applied(requests[c].call)
      /\ ~OwnRight(requests[c])
  BY <1>1, <1>3 DEF Execute, TypeOK
<1>5. requests[c].subject \notin Writers(users)
  BY <1>4, SubjectKeepsRight
<1> QED
  BY <1>3, <1>4, <1>5 DEF Execute

(* The last holder of users.write is lost only in a race.                  *)
THEOREM NoLoneLockOut == Spec => LastWriterLostOnlyInRace
<1>1. TypeOK /\ [Next]_vars =>
        [(Writers(users) # {} /\ Writers(users') = {}) =>
           \E c \in Client :
              /\ requests[c] # NoRequest /\ requests'[c] = NoRequest
              /\ requests[c].authorised
              /\ requests[c].subject \notin Writers(users)]_vars
  BY LossNeedsLoser
<1> QED
  BY <1>1, UsersTypesHold, PTL DEF Spec, LastWriterLostOnlyInRace

-----------------------------------------------------------------------------
(* With one client and fresh reads, a request that was let through still   *)
(* has its right when it is executed.                                      *)
SerialInv ==
    \A c \in Client :
       (requests[c] # NoRequest /\ requests[c].authorised)
          => requests[c].subject \in Writers(users)

(* No step takes the right from the subject of the only request.           *)
LEMMA SerialNext ==
  ASSUME Lag = FALSE, \A c, d \in Client : c = d,
         TypeOK, SerialInv, [Next]_vars
  PROVE  SerialInv'
<1>1. ASSUME NEW b \in Backend, BootstrapCreate(b)
      PROVE  SerialInv'
  BY <1>1, CreateKeepsWriters DEF BootstrapCreate, SerialInv
<1>2. ASSUME NEW c \in Client, NEW u \in Username, NEW call \in Operation,
             Send(c, u, call)
      PROVE  SerialInv'
  BY <1>2 DEF Send, SerialInv, TypeOK
<1>3. ASSUME NEW c \in Client, Authorise(c)
      PROVE  SerialInv'
  <2>1. requests[c] \in Request /\ users' = users
    BY <1>3 DEF Authorise, TypeOK
  <2>2. requests'[c] # NoRequest => requests[c].subject \in Writers(users)
    BY <1>3 DEF Authorise, TypeOK, Visible
  <2>3. requests'[c] # NoRequest =>
           requests'[c].subject = requests[c].subject
    BY <1>3, <2>1 DEF Authorise, TypeOK, Request
  <2> QED
    BY <2>1, <2>2, <2>3 DEF SerialInv
<1>4. ASSUME NEW c \in Client, Execute(c)
      PROVE  SerialInv'
  BY <1>4 DEF Execute, SerialInv, TypeOK
<1>5. CASE UNCHANGED <<users, requests>>
  BY <1>5 DEF SerialInv
<1> QED
  BY <1>1, <1>2, <1>3, <1>4, <1>5
     DEF Next, vars, Replicate, ElectPrimary, LosePrimary, BootstrapList,
         RestartBackend, Login, Expire

(* One request at a time, on fresh reads, never locks everybody out.       *)
THEOREM SerialKeepsWriter ==
  ASSUME Lag = FALSE, \A c, d \in Client : c = d
  PROVE  Spec => WriterRemains
<1>1. Init => SerialInv
  BY DEF Init, SerialInv
<1>2. TypeOK /\ SerialInv /\ [Next]_vars => SerialInv'
  BY SerialNext
<1>3. TypeOK /\ SerialInv /\ [Next]_vars =>
        [Writers(users) # {} => Writers(users') # {}]_vars
  BY LossNeedsLoser DEF SerialInv
<1> QED
  BY <1>1, <1>2, <1>3, UsersTypesHold, PTL DEF Spec, WriterRemains

-----------------------------------------------------------------------------
(* A backend that is about to create the default user has found nobody,    *)
(* and nobody has come since.                                              *)
BootstrapInv == \A b \in Backend : bootstrap[b] = "creating" => DOMAIN users = {}

(* While nobody exists, nobody is let through who could create a user.     *)
LEMMA BootstrapNext ==
  ASSUME Lag = FALSE, \A b, d \in Backend : b = d,
         TypeOK, SerialInv, BootstrapInv, [Next]_vars
  PROVE  BootstrapInv'
<1>1. ASSUME NEW b \in Backend, BootstrapList(b)
      PROVE  BootstrapInv'
  BY <1>1 DEF BootstrapList, Visible, BootstrapInv, TypeOK
<1>2. ASSUME NEW b \in Backend, BootstrapCreate(b)
      PROVE  BootstrapInv'
  BY <1>2 DEF BootstrapCreate, BootstrapInv, TypeOK
<1>3. ASSUME NEW b \in Backend, RestartBackend(b)
      PROVE  BootstrapInv'
  BY <1>3 DEF RestartBackend, BootstrapInv, TypeOK
<1>4. ASSUME NEW c \in Client, Execute(c)
      PROVE  BootstrapInv'
  <2>1. DOMAIN users # {}
    BY <1>4 DEF Execute, SerialInv, Writers
  <2> QED
    BY <1>4, <2>1 DEF Execute, BootstrapInv
<1>5. CASE UNCHANGED <<users, bootstrap>>
  BY <1>5 DEF BootstrapInv
<1> QED
  BY <1>1, <1>2, <1>3, <1>4, <1>5
     DEF Next, vars, Replicate, ElectPrimary, LosePrimary, Login, Expire, Send,
         Authorise

(* What the comment of BootstrapUsersRepository says is true of a single   *)
(* backend that reads from the primary and is sent one request at a time:  *)
(* other backends, stale reads and races between requests are all that     *)
(* can make the default user come back beside others, however often the    *)
(* backend restarts and MongoDB loses its primary.                         *)
THEOREM LoneBackendCreatesFirstUser ==
  ASSUME Lag = FALSE, \A c, d \in Client : c = d, \A b, d \in Backend : b = d
  PROVE  Spec => DefaultUserOnlyWhenEmpty
<1>1. Init => SerialInv /\ BootstrapInv
  BY DEF Init, SerialInv, BootstrapInv
<1>2. TypeOK /\ SerialInv /\ [Next]_vars => SerialInv'
  BY SerialNext
<1>3. TypeOK /\ SerialInv /\ BootstrapInv /\ [Next]_vars => BootstrapInv'
  BY BootstrapNext
<1>4. BootstrapInv /\ [Next]_vars =>
        [\A b \in Backend :
           (bootstrap[b] = "creating" /\ bootstrap'[b] = "done"
              /\ users' # users) => DOMAIN users = {}]_vars
  BY DEF BootstrapInv
<1> QED
  BY <1>1, <1>2, <1>3, <1>4, UsersTypesHold, PTL
     DEF Spec, DefaultUserOnlyWhenEmpty

(* Under the same assumptions, every change of the collection is the first *)
(* user's creation, or is made for somebody who may change users at that   *)
(* very moment: the check and the write are as good as one step.           *)
ChangesAreAuthorised ==
    [][users' # users =>
          \/ DOMAIN users = {}
          \/ \E c \in Client : /\ Execute(c)
                               /\ requests[c].subject \in Writers(users)]_vars

THEOREM SerialChangesAreAuthorised ==
  ASSUME Lag = FALSE, \A c, d \in Client : c = d, \A b, d \in Backend : b = d
  PROVE  Spec => ChangesAreAuthorised
<1>1. Init => SerialInv /\ BootstrapInv
  BY DEF Init, SerialInv, BootstrapInv
<1>2. TypeOK /\ SerialInv /\ [Next]_vars => SerialInv'
  BY SerialNext
<1>3. TypeOK /\ SerialInv /\ BootstrapInv /\ [Next]_vars => BootstrapInv'
  BY BootstrapNext
<1>4. ASSUME SerialInv, BootstrapInv, [Next]_vars, users' # users
      PROVE  \/ DOMAIN users = {}
             \/ \E c \in Client : /\ Execute(c)
                                  /\ requests[c].subject \in Writers(users)
  <2>1. ASSUME NEW b \in Backend, BootstrapCreate(b)
        PROVE  DOMAIN users = {}
    BY <1>4, <2>1 DEF BootstrapCreate, BootstrapInv
  <2>2. ASSUME NEW c \in Client, Execute(c)
        PROVE  requests[c].subject \in Writers(users)
    BY <1>4, <2>2 DEF Execute, SerialInv
  <2> QED
    BY <1>4, <2>1, <2>2
       DEF Next, vars, Replicate, ElectPrimary, LosePrimary, BootstrapList,
           RestartBackend, Login, Expire, Send, Authorise
<1>5. SerialInv /\ BootstrapInv /\ [Next]_vars =>
        [users' # users =>
           \/ DOMAIN users = {}
           \/ \E c \in Client :
                 /\ Execute(c)
                 /\ requests[c].subject \in Writers(users)]_vars
  BY <1>4
<1> QED
  BY <1>1, <1>2, <1>3, <1>5, UsersTypesHold, PTL DEF Spec, ChangesAreAuthorised
=============================================================================
