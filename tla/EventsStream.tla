---------------------------- MODULE EventsStream ----------------------------
(***************************************************************************)
(* The events on their way from Kafka and Cassandra to the table in the    *)
(* frontend: the websockets of EventsController, EventsService, which      *)
(* opens and reopens them, and the store.                                  *)
(*                                                                         *)
(* The records and the rows come from producer and consumer, as the        *)
(* abstract archive says.  The day does not change meanwhile.              *)
(***************************************************************************)
EXTENDS EventsReducer

CONSTANTS
    Partition, Malformed, MaxLog,  \* as in EventsArchive
    Today,       \* the day of the websockets
    User,        \* who may log in
    Allowed,     \* users with the permission to see events
    None,        \* no token; no websocket
    MaxSockets,  \* websockets of a tab at one moment
    MaxBatch,    \* events in 250 ms
    MaxTokens,   \* logins and logouts
    MaxFaults    \* failures of websockets and of their Kafka sources

ASSUME AllowedAssumption == Allowed \subseteq User
ASSUME MaxAssumption == {MaxSockets, MaxBatch, MaxTokens, MaxFaults} \subseteq Nat

VARIABLES
    log, rows,  \* of the archive
    token,      \* getToken of the authentication store
    stream,     \* of EventsService: "on", or "waiting" to try again
    sockets,    \* its websockets, with what each has read of Kafka
    buffer,     \* of bufferTime
    status,     \* the state of the store
    closed,     \* a websocket was closed cleanly since one was opened
    tokens, faults

archive == <<log, rows>>
client == <<token, stream, sockets, buffer, status, closed>>
vars == <<archive, client, tokens, faults>>

Archive == INSTANCE EventsArchive WITH committed <- [p \in Partition |-> 0]

Record == Event \cup {Malformed}
Slot == 1 .. MaxSockets
Socket == [user : User, pos : [Partition -> Nat]]

ASSUME MalformedAssumption == Malformed \notin Event
ASSUME NoneAssumption == None \notin User \cup Socket

TypeOK ==
    /\ log \in [Partition -> Seq(Record)]
    /\ rows \subseteq Event
    /\ token \in User \cup {None}
    /\ stream \in {"on", "waiting"}
    /\ sockets \in [Slot -> {None} \cup Socket]
    /\ buffer \in Seq(Event)
    /\ status \in State
    /\ closed \in BOOLEAN
    /\ tokens \in 0 .. MaxTokens
    /\ faults \in 0 .. MaxFaults

(* The effect starts to listen when the page of the events is opened, with *)
(* a token; records and rows come before or after that.                    *)
Init ==
    /\ Archive!Init
    /\ token \in User
    /\ stream = "waiting"
    /\ sockets = [i \in Slot |-> None]
    /\ buffer = <<>>
    /\ status = initialState
    /\ closed = FALSE
    /\ tokens = 0
    /\ faults = 0

-----------------------------------------------------------------------------
Publish ==
    /\ \E p \in Partition, r \in Record : Archive!Publish(p, r)
    /\ UNCHANGED <<client, tokens, faults>>

StoreRecord ==
    /\ \E p \in Partition : \E k \in DOMAIN log[p] : Archive!StoreRecord(p, k)
    /\ UNCHANGED <<client, tokens, faults>>

-----------------------------------------------------------------------------
(* A websocket with the token, a reader of Kafka from the earliest record. *)
Opened(open, user) ==
    LET free == CHOOSE i \in Slot : open[i] = None
    IN  /\ \E i \in Slot : open[i] = None
        /\ sockets' = [open EXCEPT ![free] =
                         [user |-> user, pos |-> [p \in Partition |-> 0]]]
        /\ closed' = FALSE

(* getToken emits: mergeMap opens one more websocket for a token, and      *)
(* closes none, neither at a logout nor for another user.                  *)
ChangeToken(t) ==
    /\ t # token
    /\ tokens < MaxTokens
    /\ tokens' = tokens + 1
    /\ token' = t
    /\ IF stream = "on" /\ t # None
       THEN Opened(sockets, t)
       ELSE UNCHANGED <<sockets, closed>>
    /\ UNCHANGED <<archive, stream, buffer, status, faults>>

(* A mistake to catch: only the next token opens a websocket again.        *)
ReconnectLater ==
    /\ stream = "waiting"
    /\ stream' = "on"
    /\ UNCHANGED <<archive, token, sockets, closed, buffer, status, tokens,
                   faults>>

(* retryWhen, a second after the error: the token is read again.           *)
Reconnect ==
    /\ stream = "waiting"
    /\ stream' = "on"
    /\ IF token # None
       THEN Opened(sockets, token)
       ELSE UNCHANGED <<sockets, closed>>
    /\ UNCHANGED <<archive, token, buffer, status, tokens, faults>>

(* The error of one websocket ends all, and loses what is buffered.        *)
Disconnect ==
    /\ stream' = "waiting"
    /\ sockets' = [i \in Slot |-> None]
    /\ buffer' = <<>>
    /\ UNCHANGED <<archive, token, status, closed, tokens>>

(* socket: Forbidden without the permission.                               *)
RefuseSocket(i) ==
    /\ sockets[i] # None
    /\ sockets[i].user \notin Allowed
    /\ Disconnect
    /\ UNCHANGED faults

SocketFails(i) ==
    /\ sockets[i] # None
    /\ faults < MaxFaults
    /\ faults' = faults + 1
    /\ Disconnect

(* A clean close completes a websocket, and nothing opens it again.        *)
CloseCleanly(i) ==
    /\ sockets[i] # None
    /\ sockets' = [sockets EXCEPT ![i] = None]
    /\ closed' = TRUE
    /\ UNCHANGED <<archive, token, stream, buffer, status, tokens, faults>>

-----------------------------------------------------------------------------
(* What a websocket sends ends up in the buffer of the client.             *)
Send(e) ==
    /\ Len(buffer) < MaxBatch
    /\ buffer' = Append(buffer, e)

Serves(i) == sockets[i] # None /\ sockets[i].user \in Allowed

(* The dates of yesterday and today, again after each end of the source.   *)
getOldEvents(i) ==
    /\ Serves(i)
    /\ \E e \in rows : EventDate(e) \in {Today - 1, Today} /\ Send(e)
    /\ UNCHANGED <<archive, token, stream, sockets, status, closed, tokens,
                   faults>>

(* A mistake to catch: an event that cannot be parsed ends the reading.    *)
LiveUntilMalformed(i, p) ==
    /\ Serves(i)
    /\ LET k == sockets[i].pos[p] + 1
       IN  /\ k \in DOMAIN log[p]
           /\ log[p][k] # Malformed
           /\ Send(log[p][k])
           /\ sockets' = [sockets EXCEPT ![i].pos[p] = k]
    /\ UNCHANGED <<archive, token, stream, status, closed, tokens, faults>>

(* A mistake to catch: what cannot be parsed is sent as it is.             *)
LiveUnparsed(i, p) ==
    /\ Serves(i)
    /\ LET k == sockets[i].pos[p] + 1
       IN  /\ k \in DOMAIN log[p]
           /\ Send(log[p][k])
           /\ sockets' = [sockets EXCEPT ![i].pos[p] = k]
    /\ UNCHANGED <<archive, token, stream, status, closed, tokens, faults>>

(* The next record of Kafka; what cannot be parsed is skipped.             *)
LiveEvent(i, p) ==
    /\ Serves(i)
    /\ LET k == sockets[i].pos[p] + 1
       IN  /\ k \in DOMAIN log[p]
           /\ IF log[p][k] = Malformed
              THEN UNCHANGED buffer
              ELSE Send(log[p][k])
           /\ sockets' = [sockets EXCEPT ![i].pos[p] = k]
    /\ UNCHANGED <<archive, token, stream, status, closed, tokens, faults>>

(* A source of Kafka that fails is replaced by one of a new group, which   *)
(* begins with the earliest record.                                        *)
RestartLive(i) ==
    /\ Serves(i)
    /\ faults < MaxFaults
    /\ faults' = faults + 1
    /\ sockets' = [sockets EXCEPT ![i].pos = [p \in Partition |-> 0]]
    /\ UNCHANGED <<archive, token, stream, buffer, status, closed, tokens>>

(* newEvent$: the events of 250 ms, one NEW_EVENTS.                        *)
Flush ==
    /\ buffer # <<>>
    /\ status' \in reducer(status, NewEvents(buffer))
    /\ buffer' = <<>>
    /\ UNCHANGED <<archive, token, stream, sockets, closed, tokens, faults>>

-----------------------------------------------------------------------------
Next ==
    \/ Publish
    \/ StoreRecord
    \/ \E t \in User \cup {None} : ChangeToken(t)
    \/ Reconnect
    \/ \E i \in Slot : RefuseSocket(i)
    \/ \E i \in Slot : SocketFails(i)
    \/ \E i \in Slot : CloseCleanly(i)
    \/ \E i \in Slot : getOldEvents(i)
    \/ \E i \in Slot, p \in Partition : LiveEvent(i, p)
    \/ \E i \in Slot : RestartLive(i)
    \/ Flush

(* Timers fire; a websocket that is there makes progress with the records  *)
(* of every partition, however many old events it sends as well.           *)
Fairness ==
    /\ WF_vars(Flush)
    /\ WF_vars(Reconnect)
    /\ \A i \in Slot : \A p \in Partition : SF_vars(LiveEvent(i, p))

Spec == Init /\ [][Next]_vars
FairSpec == Spec /\ Fairness

-----------------------------------------------------------------------------
Published == (UNION {Range(log[p]) : p \in Partition}) \ {Malformed}

(* Nothing is shown that was not published, whichever way it came, however *)
(* often, and with which other events in a batch.                          *)
ShownWasPublished ==
    rows \cup Range(buffer) \cup Rows(status) \subseteq Published

(* Whatever happens to websockets, buffers and tokens, the page is a view  *)
(* of what was published: every step shows more of it, or nothing.  Of the *)
(* events of a second the first to arrive stays, although the table in     *)
(* Cassandra keeps the last.                                               *)
View == INSTANCE EventsView WITH published <- Published,
                                 shown <- status.entities

ImplementsView == View!Spec

(* A tab with a token has a websocket or is about to open one, until a     *)
(* websocket is closed cleanly: errors, refusals, logouts and logins never *)
(* leave it silent.                                                        *)
Silent == token # None /\ stream = "on" /\ \A i \in Slot : sockets[i] = None
SilentOnlyByCleanClose == Silent => closed

(* The report says that the frontend detects closed websockets and opens a *)
(* new one after a small amount of time.  It is not so of a websocket that *)
(* was closed cleanly: retryWhen waits for an error, and there is none.    *)
Reconnects ==
    (token # None /\ \A i \in Slot : sockets[i] = None) ~>
        \/ token = None
        \/ \E i \in Slot : sockets[i] # None

(* The second of each event that is published gets its row in a tab that   *)
(* stays connected for a user who may see events.                          *)
EventsAppear ==
    \A e \in Event :
       e \in Published ~> \/ e.time \in DOMAIN status.entities
                          \/ \A i \in Slot : ~Serves(i)
=============================================================================
