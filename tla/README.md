# Verification of the WACC dashboard

TLA+ models of the dashboard for Docker Swarm clusters in this repository: the
workers and the REST API of the backend (Scala, Play, Akka Streams) and the
single-page frontend (TypeScript, Angular, ngrx). TLC checks the models on small
instances; TLAPS proves their safety properties for every instance.

## The system

    Docker Swarm -> producers -> Kafka -> consumer worker -> Cassandra
                                   |                            |
                                   +---- events websocket <-----+
                                                 |
    MongoDB <- users API <- REST -- frontend (one store per tab)
    Swarm   <- services API <-+

| Part | State it keeps | Operations | What is hard | What makes it correct |
|---|---|---|---|---|
| Events producer worker (`EventsProducerWorker`, `Swarm.streamEvents`) | two connections | reconnect, publish | events during a reconnection, an element lost by the sink | every event of the swarm is published by some producer |
| Events consumer worker (`EventsConsumerWorker`, `Retry`) | source, elements in flight, batch of offsets; offsets in Kafka, rows in Cassandra | initialise, fetch, save, emit, commit, restart | parallel saves, commits nobody waits for, failures of the source and the process, malformed records | no offset is committed before its events are stored; commits only grow; every event is stored in the end |
| Events table (`EventsRepository`, `EventsTable`) | rows by day and second | upsert, read by day | two events of the same second | the row of an event exists; it holds that event (it may not) |
| Events websocket (`EventsController`) | per socket: a read of Cassandra, a Kafka consumer of its own | open, merge, restart | order and duplicates; malformed records; authorisation only at the start | only published events are sent, and each of them while the socket lasts |
| Users repository (`MongoUsersRepository`) | documents in MongoDB | create, delete, add and remove a permission, list, read | reads from a secondary | an operation changes one document, and never one it should not |
| Users API (`UsersController`, `Authorization`, `JwtAuthentication`, `LoginController`) | tokens in the hands of clients | login, authorise, execute | the right is checked by one read, the change is a later write | users that administer users do not all disappear |
| Bootstrap (`BootstrapUsersRepository`) | progress in every backend | list, insert the default user | several backends, no primary, restarts | a fresh system gets a user to log in as |
| Services API (`ServicesController`, `Swarm`) | none; versions in Swarm | list, create, update, delete | read of a version, then an update that may be rejected; answers that nobody looks at | an update overwrites nothing that was done since; the list catches up; what is reported as a success was done (it may not be) |
| Authentication in the frontend (`authentication/`) | store, local storage, route, calls under way | load, login, logout, navigate, answers | late answers, actions dropped by `exhaustMap` | token, storage and page agree; nothing stays pending; the user shown is the owner of the token (he may not be) |
| Users in the frontend (`users/`) | store, table with its boxes, dialog, form, five calls | fetch, create, delete, change a permission | changes shown before they are done; actions dropped by `exhaustMap`; a store ended by an error | nothing waits in vain; the table comes to show what the backend has |
| Services in the frontend (`services/`) | store, page, a call for each click | fetch, create, update, delete | overlapping calls without a state of their own, errors nobody handles | the list never goes back, shows deletions, and catches up |
| Events in the frontend (`events/`) | websockets, buffer of 250 ms, store keyed by the second | connect, buffer, add | a websocket per token, one error for all, duplicates in a batch | rows are published events and never change; a tab does not fall silent (a clean close silences it) |
| HTTP retries (`CallsInterceptor`) | attempts of a call | retry, give up | calls that must not be repeated; attempts that outlive their call | with all its attempts a call is one call with one answer |
| MongoDB set-up (`mongo-setup/setup.sh`) | replica set | wait, configure | fails silently | the replica set gets a primary |

The rest (wiring, data classes, presentation, deployment files, load tests) keeps
no state worth a model; `PROJECT.json` lists it.

Components interact through calls and shared stores only: producers and
consumers through Kafka, the worker and the websocket through Cassandra,
backends through MongoDB, the frontend through REST calls and one websocket.

## Modules

| Module | Models |
|---|---|
| `EventsTable` | the table: key of a row, upsert |
| `EventsConsumer` | the consumer worker's stream over Kafka and Cassandra |
| `EventsArchive` | abstract: what the worker promises, without its pipeline |
| `EventsConsumerProofs` | its theorems |
| `UsersRepository` | MongoDB's collection of users and the operations on it |
| `UsersApi` | login, authorisation, the operations, bootstrap, over a replica set |
| `UsersApiProofs` | its theorems |
| `AuthenticationReducer` | the authentication part of the frontend's store as a function |
| `AuthenticationStore` | its effects and calls, the local storage, guard and form |
| `AuthenticationStoreProofs` | its theorems |
| `HttpCall` | abstract: what a caller of the HTTP client is promised |
| `CallsInterceptor` | one call with its retries |
| `CallsInterceptorProofs` | its theorems |
| `UsersReducer` | the users in the frontend's store as a function |
| `UsersStore` | table, dialog, form, effects and their calls, and what the backend does with them (over `UsersRepository`) |
| `UsersStoreProofs` | its theorems |
| `EventsReducer` | the entity store of the events (over `EventsTable`) |
| `EventsStream` | websockets and `EventsService` (over `EventsArchive` and `EventsReducer`) |
| `EventsView` | abstract: what the page of the events promises, without its websockets |
| `EventsStreamProofs` | its theorems |
| `Swarm` | Docker Swarm's services and versions, as the client sees them |
| `ServicesReducer` | the services in the frontend's store as a function |
| `ServicesStore` | list, forms and clicks, the controller and its calls to `Swarm` |
| `ServicesStoreProofs` | its theorems |
| `MCEventsConsumer`, `MCUsersApi`, `MCAuthenticationStore`, `MCUsersStore`, `MCEventsStream`, `MCServicesStore` | values for TLC |

Operators whose comment begins with "A mistake to catch" are not part of a
model. Each is a definition as a plausible bug would make it, and breaks the
property `PROJECT.json` names with it ("mutants"): that shows that the property
depends on the code.

### EventsConsumer

`log`, `committed` and `requests` are Kafka's: the records of every partition,
the offsets of the group `events-consumer-worker`, and the commits on their way.
`source` and `position` are those of the `RestartSource`; `inFlight` is the
buffer of `mapAsync(10)`, in order, with the outcome of each save; `batch` is the
`CommittableOffsetBatch` being gathered; `ready` and `rows` are Cassandra's.

| Action | Code (`EventsConsumerWorker.scala`) |
|---|---|
| `Initialize` | 45-51, the retried `initialize()`, which the stream does not wait for |
| `StartSource` | 57-60, a new consumer of the group (`earliest` without an offset) |
| `Fetch` | 62-69, parse; a malformed record is skipped and has no element |
| `Save` | 75-79, one attempt of `Retry.periodically` that reaches Cassandra; its answer may be lost |
| `Emit` | 75-81, `mapAsync` emits its oldest element when it is saved; `batch` takes its offset |
| `CommitBatch` | 82, `commitScaladsl()`; nobody looks at the future |
| `KafkaCommits`, `LoseCommit` | external: Kafka handles a commit, or it is lost |
| `FailSource` | the source fails and `RestartSource` will replace it; the rest of the stream goes on |
| `FailStream` | 90-99, the stream ends, the process exits and is restarted; also a crash |
| `Publish` | external to the worker: what `EventsProducerWorker` appends |

An element is `live` while the source it came from runs. Elements of a failed
source are saved and emitted like others, but their commits can not succeed:
akka-stream-kafka commits through the actor of their source, which is gone. A
batch is of one source; the library refuses to mix two, which fails the stream.
One worker runs at a time (`replicas: 1` in `wacc-gcp.yml`). A rebalance that takes
a running source back to the committed offset, while its old elements can still
commit, is not modelled: `CommitsNeverRegress` is about failures and restarts only.

The events themselves are a second and a detail. The table's key is the day and
the second, so a row may hold another event of the same second: "stored" in the
invariants means that there is a row for the second of the event, which is all
the code can promise. `EventsConsumerSameSecond` shows what is lost by that.

`EventsArchive` keeps `log`, `committed` and `rows` and has three steps: publish,
store any record, commit any larger offsets whose events all have rows. The
worker implements it with the identity as refinement mapping.

### UsersRepository and UsersApi

The collection is a function from the users to their permissions. `users` is the
collection on the primary, `replica` what a secondary has; writes need a primary,
reads (`ReadPreference.nearest`) may return either if `Lag`. A request is sent
with a token, then authorised by one read (`Authorization.getSubject` and the
pattern `users.write`), then executed by one write (`UsersController` and
`MongoUsersRepository`): three actions, between which everything else may
happen. `Execute` includes the refusals of the controller (`OwnRight`). A token
is its user name; `Expire` is the end of its seven days, nothing else revokes it.
`BootstrapList` and `BootstrapCreate` are the two steps of every backend's start.

### AuthenticationStore

One action per chain of ngrx actions that is dispatched at once: `LoginSucceeds`
is LOGIN_SUCCESS with the SAVE_TOKEN its effect dispatches, the write to the
local storage, the start of `me$` and the redirect. What comes back later is an
action of its own. `meCall` and `loginCall` hold the call that `exhaustMap` lets
run, with the token or the credentials it was sent with; a dispatch while one is
there starts no other. A token is written as the user it belongs to. `asked` and
`overtaken` are history: who sent the form last, and whether a logout came
between a login and its answer. The reducer is a function of its own module, with
a branch for each action type, as are those of the other parts of the store.
The retries of `CallsInterceptor` happen inside a call (with the header it was
first given) and end with one answer; that this is no loss is what `HttpCall` and
`CallsInterceptor` show.

### CallsInterceptor and HttpCall

`phase` follows the operators of `retryWhen`: an attempt runs, is served by the
backend, is answered, and after a server error the delay passes and `Retry` sends
the next one. `stray` counts attempts that are over for the interceptor and may
still be carried out. `take(20)` completes with its twentieth value, so that
`concat` throws while the attempt it has just triggered is under way: `Retry`
ends the call and leaves that attempt behind. Errors below 500 (also the status 0
of a lost connection) end the call at once. `HttpCall` keeps what the caller and
the backend can tell: sent, carried out some times, one outcome. The refinement
maps `running`, `served` and `waiting` to `sent`.

### UsersReducer and UsersStore

`status` is the store, `ticked` the boxes as the table shows them (a click is
shown at once), `dialog` the pending deletion with the mark whether the table
whose outputs it was bound to is still there. Each of the five effects has one call, as
`exhaustMap` has it: `Ask` drops an action while there is one. A call is carried
out (`Execute`) and answered in two steps; the code of the answer is computed as
`UsersController` does, and a repetition after a lost answer may turn it into that
of the second time (a conflict, a not found). `DeleteFails` is the error that
`deleteUser$` does not catch. The effect has `dispatch: false`, so that its error
reaches the one stream into which ngrx merges all effects, and from there the
store: calls are cancelled, `alive` becomes false, and from then on no effect
starts and `dispatch` reduces nothing. `OthersChange` is what other administrators
do.

### EventsReducer and EventsStream

`log` and `rows` change as `EventsArchive` says; the worker implements it, so
its behaviours are among those seen here. `EventsService` is `on` or waits for
its second before it tries again; `sockets` are the websockets of the tab with
the user whose token they were opened with and what they have read of every
partition. `ChangeToken` opens one more and closes none (`mergeMap`), any error
(`RefuseSocket`, `SocketFails`) ends all of them, and `CloseCleanly` ends one for
good. `buffer` is what `bufferTime` gathers, `Flush` the NEW_EVENTS of it.
`addMany` is the adapter's: it compares a batch with the store, not with itself,
so that a second can be listed several times with the entity that came last; the
order within a second is not fixed by the comparison, hence a set of results.

`EventsView` keeps what was published and the detail that is shown of each
second, and has two steps: publish an event, show some seconds with an event of
theirs each; what is shown stays. `EventsStream` implements it: the refinement
maps the records of all partitions that parse to `published`, and the entities of
the store to `shown`. Rows that are repeated or come late are beneath it.

### Swarm, ServicesReducer and ServicesStore

`swarm` maps names to a specification and the index of the last change. Every
click sends a call of its own (`calls`); an update is `ReadVersion` and
`UpdateService`, between which others may change the service (`touched`, a
history variable). The Swarm does what it is asked or answers with an error of its
own (`Attempts`), at every call. `ok` is what the controller says: for a creation
that the answer contains "ID", for updates and deletions success whatever the
Swarm says. `done` records whether some attempt had its effect. A list on its way keeps the
index at which it was read; `shownAt` is that of the list shown, `owed` the index
of the last deletion that asked for a list itself. `LoseAnswer` is an answer that
the proxy loses (the call is sent again) or the connection (it is not).

## Runs

| Run | Question | Result |
|---|---|---|
| `EventsConsumer` | types, `CommittedEventsHaveRows`, the inductive `PipelineInv`, `CommitsNeverRegress`, `ImplementsArchive`, and `EveryEventIsStored` under fairness | holds |
| `EventsConsumerSameSecond` | is a committed event itself in the table? | violated |
| `UsersApi` | types, and how the last administrator can disappear, with two requests at once, stale reads and loss of the primary; does the first start end with a user? | only in a race or by a stale read; yes, with a primary |
| `UsersApiNoPrimary` | does it without a primary at first? | violated |
| `AuthenticationStore` | consistency of the session, late answers, whose session begins, progress | holds |
| `AuthenticationMixedSessions` | is the current user the owner of the token? | violated |
| `CallsInterceptor` | is a call with 20 retries one call (`ImplementsHttpCall`), what is the last retry for, does it end? | holds |
| `UsersStore` | do dropped actions leave anything waiting, is the tab ever asking for what it does not show or may not do to itself, does the table keep up? | holds, until a refused deletion ends the store |
| `EventsStream` | what may rows show, is the page a view of what was published (`ImplementsView`), what makes a tab silent, do events appear? | holds |
| `EventsStreamCleanClose` | is a websocket that is closed opened again? | violated |
| `ServicesStore` | can an update undo a change it has not seen, do deletions show, is the list ever older, does it catch up? | holds |
| `ServicesAcknowledged` | is what is acknowledged done? | violated |

The five violations are disagreements of the code with its report or comments,
quoted in `PROJECT.json` ("findings"): rows are overwritten within a second; the
insert of the default user is tried once; a late answer of `me()` outlives its
session; a websocket that is closed cleanly is not opened again; the services API
does not return what the Swarm answers.

Two more disagreements are known and shown by no run. `BootstrapUsersRepository`
says that it creates the default user if there are no users: with several
backends that start together, or a list read from a secondary, the list may be
out of date at the insert, and the user is created beside others
(`LoneBackendCreatesFirstUser` proves the promise for one backend and fresh reads
only). And `EventsController` (41-43) and the report (`02_architecture.tex:163`)
leave it to the client to remove duplicated events, whereas the client shows those
that arrive in one batch twice (`DuplicatesOfABatchAreShown` proves it).

Some properties name the exceptions the code leaves, so that they say how far
its promises reach: `LastWriterLostOnlyInRace` (a race or a stale read),
`MixedOnlyByLateAnswer`, `SilentOnlyByCleanClose` (the exception is what
`EventsStreamCleanClose` shows), and `WaitersHaveCalls` and `TableKeepsUp` (as long
as the store lives). A mutant for each property shows that it depends on the code.

### Bounds

* `EventsConsumer`: two partitions with two records each, two seconds, malformed
  records, at most two elements in flight and two in a batch, one failure of the
  source or the stream. Two elements are enough to save out of order, two
  partitions to have batches that leave one of them alone, a failure to have
  elements and batches of an old source beside those of a new one.
* `UsersApi*`: the default user and another one, the two permissions on users
  (the others play no part in these operations), two requests and two backends.
  A race needs two requests, a wrong bootstrap two backends. `UsersApi` (`MCSpec`)
  adds the bound `OneTroubleAtATime`: the primary is lost, or a backend restarts,
  or a second request comes while a first one is let through but not carried out.
  The theorems about the same properties do without it.
* `AuthenticationStore`: two users and two protected pages: a session and the one
  before it.
* `CallsInterceptor`: the 20 of the code.
* `UsersStore`: the user of the tab and another one, two clicks, a change by
  others. A dropped action needs two clicks, a stale list a change beside them.
* `EventsStream`: one partition, two records, an event of an old day and one of
  today with two details each, two websockets, a user who may see events and one
  who may not, two logins or logouts, one failure. Two events of a second in a
  batch, and a second websocket whose failure ends the first, are in reach.
* `ServicesStore`: one name whose refusal contains "ID" and one without, one
  specification the Swarm accepts and one it refuses, two calls that overlap, and
  one change by others or lost answer; errors of the Swarm without a bound.
  `ServicesAcknowledged` leaves out the names with "ID" and needs one call.
* `EventsStreamCleanClose`: one websocket, one failure, no logins or logouts, so that
  nothing else can open a websocket again.

The configuration files hold the exact values. `MaxLog`, `MaxFaults`,
`MaxStepDowns`, `MaxRestarts`, `MaxClicks`, `MaxOthers`, `MaxTroubles`,
`MaxTokens`, `MaxSockets` and `MaxBatch` bound what is unbounded in the program;
no other bound is the model's own. Runs with liveness use no symmetry. Deadlock
is not checked in three places, where the system may rest: `EventsConsumer*` when
everything is stored and the bounded log is full, `EventsStream` when besides
nobody is logged in, `CallsInterceptor` when its only call is over.

### Fairness

* `EventsConsumer`: the source is restarted (`RestartSource`; for the process,
  `restart_policy: on-failure`), a running stream works while it has something
  to do, and one of the endless retries of a save gets through. A save is weakly
  fair for some element, as attempts are independent. Failures are finitely many.
  Nothing is assumed of producers and commits: all commits may be lost.
* `UsersApi`: backends start, a primary is elected in the end. Requests need not
  come.
* `AuthenticationStore`: a call is answered, if only by an error after its last
  retry. Nothing is assumed of the person.
* `CallsInterceptor`: an attempt is answered, if only by the proxy in front of
  the backend or the browser, and the delay of a second passes.
* `UsersStore`, `ServicesStore`: the timer of the page ticks every minute, calls
  end (`CallsInterceptor`), and a list that is asked for again and again is read
  some time (strong fairness: requests come and go, a backend is up repeatedly).
  Clicks, navigation, others and single failures are not fair.
* `EventsStream`: the timers of `bufferTime` and of the reconnection fire, and a
  websocket gets on with every partition, however many old events it sends as
  well (strong fairness, as the buffer is full at times). Producers, the archive
  and the person are not fair.

## Proofs

All theorems are for every value of the constants that satisfies their named
assumptions (`MalformedAssumption`, `PermissionAssumption`, ...).

* `TypesHold`, `UsersTypesHold`, `StoreTypesHold`: type correctness.
* `PipelineCorrect`: `Spec => []PipelineInv`. `CommittedEventsHaveRows` alone is
  not inductive: that a commit is harmless depends on the batch it was made
  from, the batch on the element that was emitted last, and the element on all
  elements before it. `PipelineInv` follows the offsets backwards through
  `RequestInv`, `BatchInv`, `NoneSkippedInv` (in front of a live element every
  event is stored or carried by an older live element) and `OrderInv` to the
  source's `position`; `NotBefore` orders the offsets on their way. There is one
  lemma for each action that moves offsets, and `CalmStep` for those that only
  add records or rows. TLC checks the same invariant in `EventsConsumer`.
* `AtLeastOnce`, `NoCommitRegresses`, `WorkerIsArchive` follow from it.
* `RowsAreRight`: the table holds published events, one of each second; this is
  inductive with the types. With `AtLeastOnce` it gives `OnlyTheSecondLoses`: the
  only way to lose a committed event is another published event of its second.
  `DistinctSecondsAreKept` turns that round: under the assumption the report makes
  ("each event is uniquely identified with the timestamp") the property that
  `EventsConsumerSameSecond` refutes is true. `SavesRepeatAndCommute` says why the
  pipeline may repeat saves and finish them in any order at all.
* `NoLoneLockOut`: the last administrator disappears only by a request whose
  subject has lost the right since it was authorised. Only two updates take the
  permission away, each of them from one user; the controller refuses to apply
  them to the subject itself, so the subject would remain.
* `SerialKeepsWriter`: with one client and `~Lag` the subject of an authorised
  request still has the right; the invariant says so, and the same lemma gives
  that an administrator remains.
  No run checks that property (`WriterRemains`); the theorem is its evidence.
* `LoneBackendCreatesFirstUser`: with one backend, one client and `~Lag` the
  default user is inserted into an empty collection only (`BootstrapInv`: a backend
  that is about to insert it still sees an empty one, as nobody who could create a
  user is let through while there is none). MongoDB may lose its primary and the
  backend may restart. So a default user beside others needs a second backend, a
  stale read or a race of two requests; `SerialChangesAreAuthorised`:
  under the same conditions whoever changes users may do so at that very moment.
* `SessionsAreConsistent`, `FormsAreEnabledAgain`, `UsersAreKnownOrAsked`: one
  inductive invariant, the types and the three properties together;
  `OnlyLateAnswersMix` and `SessionsAreAskedFor` are action properties on top of
  it. What the reducer does to each field is a lemma per action.
* `LastRetryIsInVain` and `CallIsImplemented`: the invariant bounds the attempts
  that were carried out or may still be by the retries, and knows that an attempt
  that was served was carried out; then every step is one of `HttpCall` or none.
* `UsersInvariant`: `UsersInv`, the types and `WaitersHaveCalls` together. The
  calls are records and so are never `None`; a step that starts a spinner starts
  its call or finds one, unless the store has ended; a step that takes a call
  away stops what waits for it, or ends the store.
* `TabAsksForWhatItShows`: what a dialog and a call are about is fixed long before
  it is sent or answered, and tables come and go in between. `AskInv` adds to it
  that a live dialog excludes a list on its way, which would take its table away
  (`DialogInv`: a list on its way turns the spinner, which replaces the table).
* `TwiceIsOnce`, `DoneIsOneOperation`: what `CallsInterceptor` may do to a call (send
  it again after a lost answer) is harmless for every operation on users, and its
  effect is the one of `MongoUsersRepository`. `RepeatedCallsChangeNothing` says the
  same of the services. If somebody else's change comes between two attempts, the
  second may undo it: in `UsersStore` that is a late repetition, one of the steps
  of `OthersChange`, in `ServicesStore` the call that `LoseAnswer` sends again.
* `ServicesInvariant`: `StoreInv`. `DeletionsShow` and `TableNeverGoesBack` follow
  from `FetchInv`: at most one list is on its way (`exhaustMap`), and once read it
  is no older than what is shown or owed. `CallInv` says that an update between
  its two calls still names the present version, or is marked as touched, and
  `VersionInv` makes the index of a change a new version. `UpdatesOverwriteNothing`
  needs the converse as well, `TouchedIsNewer`: a service that was touched is gone
  or has a newer version than the one that was read, also if it was deleted and
  created anew.
* `StreamInvariant`: `StreamInv`, the types, `ShownWasPublished`,
  `SilentOnlyByCleanClose`, and that no second without an entity is listed.
  `RepeatedEventsChangeNothing`: a batch of seconds that are shown already leaves
  the store as it is, so that restarted sources and new websockets do no harm.
  `DuplicatesOfABatchAreShown` is the other side: two events of a new second in one
  batch give it two rows, also if they are the same event twice.
* `StreamIsView`: the page is a view of what is published. Each step of
  `EventsStream` is one of `EventsView` or none: `Publish` publishes, `Flush` shows
  the seconds of the batch that are new. `EventsStream` changes `log` and `rows`
  with the actions of `EventsArchive`, and the worker implements `EventsArchive`
  (`WorkerIsArchive`), so that what the worker may do to them is among what the
  websockets are shown to cope with. The two modules are not composed into one.

The theorems with conditions (`SerialKeepsWriter`, `DistinctSecondsAreKept`,
`LoneBackendCreatesFirstUser`, `SerialChangesAreAuthorised`) say how far the
promises of the code reach where the runs show them broken; no run checks them
under those conditions. Other properties that are defined next to their proofs
(`RowsArePublished`, `OneRowPerSecond`, `LostOnlyToSameSecond`,
`ChangesAreAuthorised`) rest on the proofs as well.

Only model-checked, because they are liveness properties under fairness:
`EveryEventIsStored`, `FirstUserAppears`, `LoginEnds`, `UserBecomesKnown`,
`EveryCallEnds`, `TableKeepsUp`, `EventsAppear`, `TableCatchesUp`. The violated
properties are shown by counterexamples. All other properties of the runs are
theorems.

## Not modelled

* The producer worker (`EventsProducerWorker`, `Swarm.streamEvents`). What it may
  append to the log is the action `Publish` of the archive: anything, also records
  that do not parse. That it loses events while it reconnects, and elements when
  the sink fails, is in the hazards; nothing in the program notices or repairs
  it, so there is no promise to check.
* `mongo-setup/setup.sh`, a script that runs once. The models of the users begin
  with a replica set, and `UsersApiNoPrimary` shows what backends do without a
  primary.
* In the services: the number of running tasks that `getServices` counts, and the
  check of the permission (a refusal is one of the causes of `Fail`).
* In the websocket: the permission is checked when it is opened, as in the code,
  and a user who loses it later is not followed. The day does not change.
* In the frontend, the parts of one tab are modelled apart. A refused deletion of a
  user ends the whole store: `UsersStore` has that, but `AuthenticationStore`,
  `ServicesStore` and `EventsStream` speak of tabs in which it has not happened.
  `UsersStore` has one user per tab; the mixed sessions of
  `AuthenticationMixedSessions` are not combined with it.
* A Kafka rebalance of a running source of the worker (see `EventsConsumer`).
* Passwords, the text of events and their parsing (a record parses or it does
  not), signatures of tokens, status codes beyond those told apart, logging,
  layout. Time: delays and back-offs are steps that come in the end. The changes
  between summer and winter time in the day of an event: the second alone decides
  which events share a row.
* A second consumer worker, which the deployment does not run. Disks that fail:
  what Kafka, Cassandra and MongoDB have acknowledged stays.
* Wiring, data classes, presentation, deployment files and load tests.

## Order of the work

The most important first, all of it done but the last:

1. `EventsTable`, `EventsConsumer`, `EventsArchive`: the one part that must not
   lose data. Safety, liveness, refinement, proofs.
2. `UsersRepository`, `UsersApi`: the right to administer, the first start.
3. `AuthenticationReducer`, `AuthenticationStore`: sessions in a tab.
4. `HttpCall`, `CallsInterceptor`: what the other parts may take for one call.
5. `UsersReducer`, `UsersStore`: changes shown before they are done.
6. `EventsReducer`, `EventsStream`, `EventsView`: from the archive to the table in the tab.
7. `Swarm`, `ServicesReducer`, `ServicesStore`: versioned updates, and answers
   nobody looks at.
8. Open: the producer, if it is given a way to ask for the events it missed; then
   there is something to state about it.
