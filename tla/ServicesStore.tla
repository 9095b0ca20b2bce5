--------------------------- MODULE ServicesStore ---------------------------
(***************************************************************************)
(* The services, from the browser tab of one user to the Docker Swarm: the *)
(* pages and forms, the effect that fetches the list, ServicesController   *)
(* and its client, of which an update makes two calls to the Swarm.        *)
(*                                                                         *)
(* The forms and the button to delete send a call for each click, and      *)
(* nothing but the list waits for another call.  CallsInterceptor sends a  *)
(* call again that was answered by a server error.                         *)
(***************************************************************************)
EXTENDS ServicesReducer

CONSTANTS
    None,
    MaxClicks,  \* clicks that send a call
    MaxTroubles \* changes others make, and answers that are lost

ASSUME MaxAssumption == {MaxClicks, MaxTroubles} \subseteq Nat

VARIABLES
    status,   \* the state the reducer keeps
    page,     \* the page shown
    id,       \* the service of the form to update
    fetches,  \* calls of fetch$, with the list and its moment once read
    shownAt,  \* the moment of the list that is shown
    calls,    \* all other calls of this tab, one for each click
    swarm,    \* the services
    index,    \* of the latest change in the Swarm
    owed,     \* the list must not be older, since a deletion asked for it
    clicks, troubles

tab == <<status, page, id, fetches, shownAt, owed>>
cluster == <<swarm, index>>
vars == <<tab, calls, cluster, clicks, troubles>>

Page == {"services", "new", "update", "other"}
Kind == {"create", "update", "delete"}
Step == {"sent", "read", "answered"}
Slot == 1 .. MaxClicks

Fetch == [list : {None}, at : {0}] \cup [list : Components, at : Nat]
Unread == [list |-> None, at |-> 0]

\* version: the one read before an update, or the index after a deletion;
\* touched: the service was changed since its version was read;
\* done: an attempt had its effect
Call == [kind : Kind, name : Name, spec : Scale \cup {None}, step : Step,
         version : Nat, touched : BOOLEAN, done : BOOLEAN, ok : BOOLEAN]

ASSUME NoneAssumption == None \notin Components \cup Name \cup Call

TypeOK ==
    /\ status \in State
    /\ page \in Page
    /\ id \in Name \cup {None}
    /\ fetches \subseteq Fetch
    /\ shownAt \in Nat
    /\ owed \in Nat
    /\ calls \in [Slot -> {None} \cup Call]
    /\ IsServices(swarm)
    /\ index \in Nat
    /\ clicks \in 0 .. MaxClicks
    /\ troubles \in 0 .. MaxTroubles

Init ==
    /\ status = initialState
    /\ page = "other"
    /\ id = None
    /\ fetches = {}
    /\ shownAt = 0
    /\ owed = 0
    /\ calls = [i \in Slot |-> None]
    /\ swarm \in UNION {[S -> [spec : Scale \ Invalid, version : {1}]] :
                          S \in SUBSET Name}
    /\ index = 1
    /\ clicks = 0
    /\ troubles = 0

-----------------------------------------------------------------------------
(* A mistake to catch: mergeMap, which lets calls overtake one another.    *)
fetchMerged == fetches' = fetches \cup {Unread}

(* exhaustMap.                                                             *)
fetch == fetches' = IF fetches = {} THEN {Unread} ELSE fetches

(* A mistake to catch: only a list that is not there yet is loaded.        *)
LoadUnlessKnown ==
    /\ page = "services"
    /\ DOMAIN getComponents(status) = {}
    /\ status' = reducer(status, FetchComponents)
    /\ fetch
    /\ UNCHANGED <<page, id, shownAt, owed, calls, cluster, clicks, troubles>>

(* The timer of the page, at once and then every minute.                   *)
LoadServices ==
    /\ page = "services"
    /\ status' = reducer(status, FetchComponents)
    /\ fetch
    /\ UNCHANGED <<page, id, shownAt, owed, calls, cluster, clicks, troubles>>

Read(f) ==
    /\ f = Unread
    /\ fetches' = (fetches \ {f}) \cup
                     {[list |-> getServices(swarm), at |-> index]}
    /\ UNCHANGED <<status, page, id, shownAt, owed, calls, cluster, clicks,
                   troubles>>

FetchSucceeds(f) ==
    /\ f # Unread
    /\ status' = reducer(status, FetchComponentsSuccess(f.list))
    /\ shownAt' = f.at
    /\ fetches' = fetches \ {f}
    /\ UNCHANGED <<page, id, owed, calls, cluster, clicks, troubles>>

(* ServiceUnavailable, and so were all retries; or any other error.        *)
FetchFails(f) ==
    /\ f = Unread
    /\ status' = reducer(status, FetchComponentsFailure)
    /\ fetches' = fetches \ {f}
    /\ UNCHANGED <<page, id, shownAt, owed, calls, cluster, clicks, troubles>>

-----------------------------------------------------------------------------
Rows == DOMAIN getComponents(status)

OpenPage(p) ==
    /\ p \notin {page, "update"}
    /\ page' = p
    /\ id' = None
    /\ UNCHANGED <<status, fetches, shownAt, owed, calls, cluster, clicks,
                   troubles>>

OpenUpdate(n) ==
    /\ page = "services"
    /\ n \in Rows
    /\ page' = "update"
    /\ id' = n
    /\ UNCHANGED <<status, fetches, shownAt, owed, calls, cluster, clicks,
                   troubles>>

Send(kind, n, s) ==
    /\ clicks < MaxClicks
    /\ clicks' = clicks + 1
    /\ calls' = [calls EXCEPT ![clicks'] =
                   [kind |-> kind, name |-> n, spec |-> s, step |-> "sent",
                    version |-> 0, touched |-> FALSE, done |-> FALSE,
                    ok |-> FALSE]]
    /\ UNCHANGED <<tab, cluster, troubles>>

(* The forms can be sent again while they wait for an answer.              *)
onServiceSubmit(n, s) == page = "new" /\ Send("create", n, s)
onServiceUpdateSubmit(s) == page = "update" /\ Send("update", id, s)
onDeleteService(n) == page = "services" /\ n \in Rows /\ Send("delete", n, None)

-----------------------------------------------------------------------------
At(i, step) == calls[i] # None /\ calls[i].step = step
Sent(i, kind) == At(i, "sent") /\ calls[i].kind = kind

(* Every change gets an index, and touches the updates between their two   *)
(* calls to the Swarm.                                                     *)
Changes(c) ==
    /\ swarm' = c
    /\ index' = IF c = swarm THEN index ELSE index + 1

Same(n) ==
    /\ (n \in DOMAIN swarm') = (n \in DOMAIN swarm)
    /\ n \in DOMAIN swarm => swarm'[n] = swarm[n]

Touching(cs) ==
    [i \in Slot |->
       IF cs[i] # None /\ cs[i].step = "read" /\ ~Same(cs[i].name)
       THEN [cs[i] EXCEPT !.touched = TRUE] ELSE cs[i]]

Answer(i, version, ok) ==
    calls' = Touching([calls EXCEPT
               ![i].step = "answered", ![i].version = version, ![i].ok = ok,
               ![i].done = @ \/ swarm' # swarm])

(* Created or Conflict.                                                    *)
CreateService(i) ==
    /\ Sent(i, "create")
    /\ \E c \in Attempts(swarm, Created(swarm, calls[i].name, calls[i].spec,
                                       index + 1)) :
          /\ Changes(c)
          /\ \E ok \in createService(swarm, c, calls[i].name) : Answer(i, 0, ok)
    /\ UNCHANGED <<tab, clicks, troubles>>

(* The first call of updateService; if there is no such service, or the    *)
(* Swarm answers with an error, the missing version is a server error, and *)
(* the call is sent again.                                                 *)
ReadVersion(i) ==
    /\ Sent(i, "update")
    /\ calls[i].name \in DOMAIN swarm
    /\ calls' = [calls EXCEPT ![i].step = "read",
                              ![i].version = swarm[calls[i].name].version,
                              ![i].touched = FALSE]
    /\ UNCHANGED <<tab, cluster, clicks, troubles>>

(* The second call: NoContent, whatever the Swarm says.                    *)
UpdateService(i) ==
    /\ At(i, "read")
    /\ \E c \in Attempts(swarm, Updated(swarm, calls[i].name, calls[i].spec,
                                       calls[i].version, index + 1)) :
          Changes(c)
    /\ Answer(i, 0, TRUE)
    /\ UNCHANGED <<tab, clicks, troubles>>

(* NoContent, whatever the Swarm says.                                     *)
DeleteService(i) ==
    /\ Sent(i, "delete")
    /\ \E c \in Attempts(swarm, Deleted(swarm, calls[i].name)) : Changes(c)
    /\ Answer(i, index', TRUE)
    /\ UNCHANGED <<tab, clicks, troubles>>

(* No attempt was carried out: forbidden, offline, or 20 retries over.     *)
Fail(i) ==
    /\ At(i, "sent") \/ At(i, "read")
    /\ calls' = [calls EXCEPT ![i].step = "answered", ![i].ok = FALSE]
    /\ UNCHANGED <<tab, cluster, clicks, troubles>>

(* An answer that is lost is a server error of the proxy, and the call is  *)
(* sent again; or it is an error of the connection, and it is not.         *)
LoseAnswer(i) ==
    /\ At(i, "answered")
    /\ troubles < MaxTroubles
    /\ troubles' = troubles + 1
    /\ \/ calls' = [calls EXCEPT ![i].step = "sent"]
       \/ calls' = [calls EXCEPT ![i].ok = FALSE]
    /\ UNCHANGED <<tab, cluster, clicks>>

(* What others do, and attempts of this tab that were given up.            *)
OthersChange ==
    /\ troubles < MaxTroubles
    /\ troubles' = troubles + 1
    /\ \E n \in Name :
          \/ \E s \in Scale : Changes(Created(swarm, n, s, index + 1))
          \/ /\ n \in DOMAIN swarm
             /\ \E s \in Scale :
                   Changes(Updated(swarm, n, s, swarm[n].version, index + 1))
          \/ Changes(Deleted(swarm, n))
    /\ calls' = Touching(calls)
    /\ UNCHANGED <<tab, clicks>>

-----------------------------------------------------------------------------
Over(i) == calls' = [calls EXCEPT ![i] = None]

(* Both forms lead to the list from wherever the user is by now.           *)
FormSucceeds(i) ==
    /\ At(i, "answered")
    /\ calls[i].ok
    /\ calls[i].kind # "delete"
    /\ page' = "services"
    /\ id' = None
    /\ Over(i)
    /\ UNCHANGED <<status, fetches, shownAt, owed, cluster, clicks, troubles>>

Owe(i, asked) ==
    owed' = IF asked /\ calls[i].version > owed THEN calls[i].version ELSE owed

(* A mistake to catch: the list is left to the timer.                      *)
DeleteSucceedsQuietly(i) ==
    /\ At(i, "answered")
    /\ calls[i].ok
    /\ calls[i].kind = "delete"
    /\ Owe(i, fetches = {})
    /\ Over(i)
    /\ UNCHANGED <<status, page, id, fetches, shownAt, cluster, clicks, troubles>>

(* The list is loaded, also from another page, unless it is on its way.    *)
DeleteSucceeds(i) ==
    /\ At(i, "answered")
    /\ calls[i].ok
    /\ calls[i].kind = "delete"
    /\ status' = reducer(status, FetchComponents)
    /\ fetch
    /\ Owe(i, fetches = {})
    /\ Over(i)
    /\ UNCHANGED <<page, id, shownAt, cluster, clicks, troubles>>

(* No error is handled, nor shown.                                         *)
CallFails(i) ==
    /\ At(i, "answered")
    /\ ~calls[i].ok
    /\ Over(i)
    /\ UNCHANGED <<tab, cluster, clicks, troubles>>

-----------------------------------------------------------------------------
Next ==
    \/ LoadServices
    \/ \E f \in fetches : Read(f) \/ FetchSucceeds(f) \/ FetchFails(f)
    \/ \E p \in Page : OpenPage(p)
    \/ \E n \in Name : OpenUpdate(n)
    \/ \E n \in Name, s \in Scale : onServiceSubmit(n, s)
    \/ \E s \in Scale : onServiceUpdateSubmit(s)
    \/ \E n \in Name : onDeleteService(n)
    \/ \E i \in Slot :
          \/ CreateService(i) \/ ReadVersion(i) \/ UpdateService(i)
          \/ DeleteService(i) \/ Fail(i) \/ LoseAnswer(i)
          \/ FormSucceeds(i) \/ DeleteSucceeds(i) \/ CallFails(i)
    \/ OthersChange

(* The timer ticks, the list that was read arrives, and a backend that is  *)
(* asked again and again can read it some time.                            *)
Fairness ==
    /\ WF_vars(LoadServices)
    /\ SF_vars(\E f \in fetches : Read(f))
    /\ WF_vars(\E f \in fetches : FetchSucceeds(f) \/ FetchFails(f))

Spec == Init /\ [][Next]_vars
FairSpec == Spec /\ Fairness

-----------------------------------------------------------------------------
(* The result of the Swarm is returned to the client, as the report says   *)
(* of the services: a call that is answered with a success was carried     *)
(* out.  It is not so: controller and client drop the answers of the Swarm *)
(* to updates and deletions.                                               *)
AcknowledgedIsDone ==
    \A i \in Slot : At(i, "answered") /\ calls[i].ok => calls[i].done

(* An update never overwrites a change that was made, by anybody, after its *)
(* own first call has read the version: the version that updateService     *)
(* sends along is refused by then, even if the service was deleted and     *)
(* created anew in the meantime.                                           *)
NoUpdateIsLost ==
    [][swarm' # swarm =>
          \A i \in Slot :
             At(i, "read") /\ At(i, "answered")' => ~calls[i].touched]_vars

(* The list never goes back to an earlier one, however slowly its calls    *)
(* are answered, and whether the timer or a deletion has asked.            *)
TableNeverGoesBack == [][shownAt' >= shownAt]_vars

(* When a deletion has asked for a list and none is on its way, the list   *)
(* that is shown is not from before that deletion, even if it was carried  *)
(* out twice; but for a list that could not be fetched.                    *)
DeletionsShow == fetches = {} => owed <= shownAt \/ status.error

(* The list comes to show what runs in the Swarm, if the page stays open,  *)
(* although reloads are ignored and calls fail.                            *)
TableCatchesUp ==
    (page = "services" /\ getComponents(status) # getServices(swarm)) ~>
        \/ getComponents(status) = getServices(swarm)
        \/ page # "services"
=============================================================================
