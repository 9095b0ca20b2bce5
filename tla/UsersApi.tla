------------------------------ MODULE UsersApi ------------------------------
(***************************************************************************)
(* The users' part of the backend: LoginController, UsersController behind *)
(* Authorization, and BootstrapUsersRepository, running in several         *)
(* backends over one MongoDB replica set.                                  *)
(*                                                                         *)
(* A request is authorised by one read of the database and executed by a   *)
(* later, separate write: between the two, other requests go on.  Reads    *)
(* use ReadPreference.nearest and may come from a secondary.               *)
(***************************************************************************)
EXTENDS UsersRepository, Naturals

CONSTANTS
    Backend,       \* replicas of the backend
    Client,        \* requests that may be under way at once
    DEFAULT_USER,  \* "admin", created with every permission
    NoRequest,     \* a client that waits for nothing
    Lag,           \* whether a secondary may be behind
    MaxStepDowns,  \* bound: times MongoDB loses its primary
    MaxRestarts    \* bound: restarts of backends

ASSUME DefaultUserAssumption == DEFAULT_USER \in Username
ASSUME LagAssumption == Lag \in BOOLEAN
ASSUME UsersBoundsAssumption == MaxStepDowns \in Nat /\ MaxRestarts \in Nat

VARIABLES
    users,      \* MongoDB: the collection, as the primary has it
    replica,    \* MongoDB: the collection, as a secondary has it
    primary,    \* MongoDB: a primary is elected, so writes are possible
    stepDowns,  \* primaries lost so far
    tokens,     \* names in tokens handed out and not expired
    requests,   \* the request of every client
    bootstrap,  \* how far BootstrapUsersRepository is in every backend
    restarts    \* restarts so far

vars == <<users, replica, primary, stepDowns, tokens, requests, bootstrap,
          restarts>>

(* A mistake to catch: a body is not validated.                            *)
AnyOperation ==
    [op : {"create"}, user : Username,
     perms : SUBSET (Permission \cup {"unknown"})]
      \cup [op : {"delete"}, user : Username]
      \cup [op : {"addPermission", "removePermission"}, user : Username,
            perm : Permission \cup {"unknown"}]

(* The bodies that pass validation: known permissions only.                *)
Operation ==
    [op : {"create"}, user : Username, perms : SUBSET Permission]
      \cup [op : {"delete"}, user : Username]
      \cup [op : {"addPermission", "removePermission"}, user : Username,
            perm : Permission]

Request == [subject : Username, call : Operation, authorised : BOOLEAN]

TypeOK ==
    /\ users \in Collection
    /\ replica \in Collection
    /\ primary \in BOOLEAN
    /\ stepDowns \in Nat
    /\ tokens \subseteq Username
    /\ requests \in [Client -> Request \cup {NoRequest}]
    /\ bootstrap \in [Backend -> {"listing", "creating", "done"}]
    /\ restarts \in Nat

Init ==
    /\ users = Empty
    /\ replica = Empty
    /\ primary \in BOOLEAN
    /\ stepDowns = 0
    /\ tokens = {}
    /\ requests = [c \in Client |-> NoRequest]
    /\ bootstrap = [b \in Backend |-> "listing"]
    /\ restarts = 0

(* What a read may see.                                                    *)
Visible == {users} \cup (IF Lag THEN {replica} ELSE {})

-----------------------------------------------------------------------------
(* MongoDB.                                                                *)
Replicate ==
    /\ Lag
    /\ replica # users
    /\ replica' = users
    /\ UNCHANGED <<users, primary, stepDowns, tokens, requests, bootstrap,
                   restarts>>

ElectPrimary ==
    /\ ~primary
    /\ primary' = TRUE
    /\ UNCHANGED <<users, replica, stepDowns, tokens, requests, bootstrap,
                   restarts>>

LosePrimary ==
    /\ primary
    /\ stepDowns < MaxStepDowns
    /\ primary' = FALSE
    /\ stepDowns' = stepDowns + 1
    /\ UNCHANGED <<users, replica, tokens, requests, bootstrap, restarts>>

-----------------------------------------------------------------------------
(* A mistake to catch: isEmpty and its opposite are swapped.               *)
BootstrapListSwapped(b) ==
    /\ bootstrap[b] = "listing"
    /\ \E seen \in Visible :
         bootstrap' = [bootstrap EXCEPT ![b] =
                         IF DOMAIN seen = {} THEN "done" ELSE "creating"]
    /\ UNCHANGED <<users, replica, primary, stepDowns, tokens, requests,
                   restarts>>

(* BootstrapUsersRepository: list, retried until it answers...             *)
BootstrapList(b) ==
    /\ bootstrap[b] = "listing"
    /\ \E seen \in Visible :
         bootstrap' = [bootstrap EXCEPT ![b] =
                         IF DOMAIN seen = {} THEN "creating" ELSE "done"]
    /\ UNCHANGED <<users, replica, primary, stepDowns, tokens, requests,
                   restarts>>

(* ... then create, whose result nobody looks at: without a primary the    *)
(* default user is not created, and this backend will not try again.       *)
BootstrapCreate(b) ==
    /\ bootstrap[b] = "creating"
    /\ users' = IF primary
                  THEN CreateUser(users, DEFAULT_USER, Permission)
                  ELSE users
    /\ bootstrap' = [bootstrap EXCEPT ![b] = "done"]
    /\ UNCHANGED <<replica, primary, stepDowns, tokens, requests, restarts>>

(* The orchestrator replaces a backend.                                    *)
RestartBackend(b) ==
    /\ restarts < MaxRestarts
    /\ restarts' = restarts + 1
    /\ bootstrap' = [bootstrap EXCEPT ![b] = "listing"]
    /\ UNCHANGED <<users, replica, primary, stepDowns, tokens, requests>>

-----------------------------------------------------------------------------
(* LoginController.login with the password of u.                           *)
Login(u) ==
    /\ \E seen \in Visible : u \in DOMAIN seen
    /\ tokens' = tokens \cup {u}
    /\ UNCHANGED <<users, replica, primary, stepDowns, requests, bootstrap,
                   restarts>>

(* A token is good for seven days; nothing revokes it.                     *)
Expire(u) ==
    /\ tokens' = tokens \ {u}
    /\ UNCHANGED <<users, replica, primary, stepDowns, requests, bootstrap,
                   restarts>>

Send(c, u, call) ==
    /\ requests[c] = NoRequest
    /\ u \in tokens
    /\ requests' = [requests EXCEPT ![c] =
                      [subject |-> u, call |-> call, authorised |-> FALSE]]
    /\ UNCHANGED <<users, replica, primary, stepDowns, tokens, bootstrap,
                   restarts>>

(* Authorization.getSubject and the pattern users.write: the token must be *)
(* valid and its user, as one read finds him, must hold the permission.    *)
(* Any failure is answered at once, with 403.                              *)
Authorise(c) ==
    /\ requests[c] # NoRequest
    /\ ~requests[c].authorised
    /\ \E seen \in Visible :
         requests' = [requests EXCEPT ![c] =
            IF requests[c].subject \in tokens \cap Writers(seen)
              THEN [@ EXCEPT !.authorised = TRUE]
              ELSE NoRequest]
    /\ UNCHANGED <<users, replica, primary, stepDowns, tokens, bootstrap,
                   restarts>>

(* Mistakes to catch: one of the two refusals is missing.                  *)
OwnDeletion(r) == r.call.user = r.subject /\ r.call.op = "delete"

OwnRevocation(r) ==
    /\ r.call.user = r.subject
    /\ r.call.op = "removePermission"
    /\ r.call.perm \in {USERS_READ, USERS_WRITE}

(* UsersController's refusals: a user can not delete itself, nor take its  *)
(* own permissions on users.                                               *)
OwnRight(r) ==
    /\ r.call.user = r.subject
    /\ \/ r.call.op = "delete"
       \/ /\ r.call.op = "removePermission"
          /\ r.call.perm \in {USERS_READ, USERS_WRITE}

(* The repository's part of the four operations.                           *)
Applied(call) ==
    CASE call.op = "create" -> CreateUser(users, call.user, call.perms)
      [] call.op = "delete" -> DeleteUser(users, call.user)
      [] call.op = "addPermission" ->
            AddPermission(users, call.user, call.perm)
      [] call.op = "removePermission" ->
            RemovePermission(users, call.user, call.perm)

(* The body of UsersController.create, delete, addPermission and           *)
(* removePermission; without a primary the answer is 503.                  *)
Execute(c) ==
    /\ requests[c] # NoRequest
    /\ requests[c].authorised
    /\ users' = IF primary /\ ~OwnRight(requests[c])
                  THEN Applied(requests[c].call)
                  ELSE users
    /\ requests' = [requests EXCEPT ![c] = NoRequest]
    /\ UNCHANGED <<replica, primary, stepDowns, tokens, bootstrap, restarts>>

-----------------------------------------------------------------------------
Next ==
    \/ Replicate
    \/ ElectPrimary
    \/ LosePrimary
    \/ \E b \in Backend : BootstrapList(b)
    \/ \E b \in Backend : BootstrapCreate(b)
    \/ \E b \in Backend : RestartBackend(b)
    \/ \E u \in Username : Login(u)
    \/ \E u \in Username : Expire(u)
    \/ \E c \in Client, u \in Username, call \in Operation : Send(c, u, call)
    \/ \E c \in Client : Authorise(c)
    \/ \E c \in Client : Execute(c)

(* Backends take their steps; a primary is elected in the end.  Nothing is *)
(* assumed of people and their requests.                                   *)
Fairness ==
    /\ WF_vars(ElectPrimary)
    /\ \A b \in Backend : WF_vars(BootstrapList(b))
    /\ \A b \in Backend : WF_vars(BootstrapCreate(b))

Spec == Init /\ [][Next]_vars
FairSpec == Spec /\ Fairness

-----------------------------------------------------------------------------
(* The last user who can administer users disappears only by a request of  *)
(* somebody who was let through but no longer has that right himself: what *)
(* UsersController refuses can be got round by nothing but a race between  *)
(* two requests (or a stale read), whatever bootstrap and MongoDB do.      *)
LastWriterLostOnlyInRace ==
    [][(Writers(users) # {} /\ Writers(users') = {}) =>
          \E c \in Client :
             /\ requests[c] # NoRequest /\ requests'[c] = NoRequest
             /\ requests[c].authorised
             /\ requests[c].subject \notin Writers(users)]_vars

(* When requests come one at a time and reads are fresh, somebody who can  *)
(* administer users always remains: the self-protection of UsersController *)
(* is enough for that.                                                     *)
WriterRemains ==
    [][Writers(users) # {} => Writers(users') # {}]_vars

(* If MongoDB has its primary all the time, the first start ends with a    *)
(* user to log in as.                                                      *)
FirstUserAppears == []primary => <>(DOMAIN users # {})

(* StartupModule.scala:8-10: the initialisation "allows to automatically   *)
(* deploy the software, without any manual intervention to initialize the  *)
(* databases".  The insert of the default user is tried once, and may be   *)
(* tried before the replica set has a primary.                             *)
DeployedWithoutIntervention == <>(DOMAIN users # {})

(* BootstrapUsersRepository.scala:26: "if not user is present, create a    *)
(* default one".  Not so in general: list and insert are two steps, and    *)
(* the list may be stale, so that with two backends the default user may   *)
(* come back beside users who are there.                                   *)
DefaultUserOnlyWhenEmpty ==
    [][\A b \in Backend :
         (bootstrap[b] = "creating" /\ bootstrap'[b] = "done"
            /\ users' # users) => DOMAIN users = {}]_vars
=============================================================================
