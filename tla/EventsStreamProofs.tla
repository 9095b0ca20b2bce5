------------------------- MODULE EventsStreamProofs -------------------------
(***************************************************************************)
(* Theorems about EventsStream, for any partitions, users, events, and     *)
(* numbers of websockets, batches, logins and failures.                    *)
(***************************************************************************)
EXTENDS EventsStream, FiniteSetTheorems, TLAPS

(* An event that has no entity has no place in the list of the table.      *)
NoStrayIds == \A t \in Times : t \notin DOMAIN status.entities => status.ids[t] = 0

StreamInv == TypeOK /\ ShownWasPublished /\ SilentOnlyByCleanClose /\ NoStrayIds

-----------------------------------------------------------------------------
(* What addMany does to the list and to the entities, second by second.    *)
NewTimes(batch, s) == {batch[k].time : k \in DOMAIN batch} \ DOMAIN s.entities

Added(batch, s, s1, last) ==
    /\ \A u \in NewTimes(batch, s) : last[u] \in OfSecond(batch, u)
    /\ s1 = [ids |-> s1.ids, entities |-> s1.entities]
    /\ s1.ids = [u \in Times |-> s.ids[u] +
                   IF u \in NewTimes(batch, s)
                   THEN Cardinality(OfSecond(batch, u)) ELSE 0]
    /\ s1.entities = [u \in DOMAIN s.entities \cup NewTimes(batch, s) |->
                        IF u \in NewTimes(batch, s)
                        THEN batch[last[u]].detail ELSE s.entities[u]]

LEMMA AddManyFields ==
    ASSUME NEW s, NEW batch, NEW s1 \in addMany(batch, s)
    PROVE  \E last : Added(batch, s, s1, last)
<1>1. PICK last \in [NewTimes(batch, s) -> DOMAIN batch] :
        /\ \A u \in NewTimes(batch, s) : last[u] \in OfSecond(batch, u)
        /\ s1 = [ids |-> [u \in Times |-> s.ids[u] +
                            IF u \in NewTimes(batch, s)
                            THEN Cardinality(OfSecond(batch, u)) ELSE 0],
                 entities |-> [u \in DOMAIN s.entities \cup NewTimes(batch, s) |->
                                 IF u \in NewTimes(batch, s)
                                 THEN batch[last[u]].detail ELSE s.entities[u]]]
  BY DEF addMany, NewTimes
<1>2. Added(batch, s, s1, last)
  <2> HIDE DEF NewTimes
  <2> QED  BY <1>1 DEF Added
<1> QED  BY <1>2

LEMMA AddManyKeepsEntities ==
    ASSUME NEW s, NEW batch, NEW s1 \in addMany(batch, s), NEW t \in DOMAIN s.entities
    PROVE  t \in DOMAIN s1.entities /\ s1.entities[t] = s.entities[t]
<1>1. t \notin NewTimes(batch, s)
  BY DEF NewTimes
<1>2. PICK last : Added(batch, s, s1, last)
  BY AddManyFields
<1> QED  BY <1>1, <1>2 DEF Added

LEMMA AddManyAddsEvents ==
    ASSUME NEW s, NEW batch \in Seq(Event), NEW s1 \in addMany(batch, s),
           NEW t \in DOMAIN s1.entities, t \notin DOMAIN s.entities
    PROVE  t \in Times /\ [time |-> t, detail |-> s1.entities[t]] \in Range(batch)
<1>1. PICK last : Added(batch, s, s1, last)
  BY AddManyFields
<1>2. t \in NewTimes(batch, s) /\ s1.entities[t] = batch[last[t]].detail
  BY <1>1 DEF Added
<1>3. last[t] \in DOMAIN batch /\ batch[last[t]].time = t /\ batch[last[t]] \in Event
  BY <1>1, <1>2 DEF Added, OfSecond
<1>4. batch[last[t]] = [time |-> t, detail |-> batch[last[t]].detail] /\ t \in Times
  BY <1>3 DEF Event
<1> QED  BY <1>2, <1>3, <1>4 DEF Range

LEMMA OfSecondCount ==
    ASSUME NEW batch \in Seq(Event), NEW t
    PROVE  Cardinality(OfSecond(batch, t)) \in Nat
<1>1. IsFiniteSet(1 .. Len(batch))
  BY FS_Interval
<1>2. OfSecond(batch, t) \subseteq 1 .. Len(batch)
  BY DEF OfSecond
<1> QED  BY <1>1, <1>2, FS_Subset, FS_CardinalityType

LEMMA AddManyIds ==
    ASSUME NEW s \in State, NEW batch \in Seq(Event), NEW s1 \in addMany(batch, s)
    PROVE  /\ s1.ids \in [Times -> Nat]
           /\ \A t \in Times :
                IF t \in DOMAIN s1.entities \ DOMAIN s.entities
                THEN s1.ids[t] = s.ids[t] + Cardinality(OfSecond(batch, t))
                ELSE s1.ids[t] = s.ids[t]
<1>1. /\ s1.ids = [u \in Times |-> s.ids[u] +
                     IF u \in NewTimes(batch, s)
                     THEN Cardinality(OfSecond(batch, u)) ELSE 0]
      /\ DOMAIN s1.entities = DOMAIN s.entities \cup NewTimes(batch, s)
  <2>1. PICK last : Added(batch, s, s1, last)
    BY AddManyFields
  <2> QED  BY <2>1 DEF Added
<1>2. s.ids \in [Times -> Nat]
  BY DEF State
<1>3. \A u \in Times : Cardinality(OfSecond(batch, u)) \in Nat
  BY OfSecondCount
<1>4. s1.ids \in [Times -> Nat]
  BY <1>1, <1>2, <1>3
<1>5. DOMAIN s1.entities \ DOMAIN s.entities = NewTimes(batch, s)
  BY <1>1 DEF NewTimes
<1> QED  BY <1>1, <1>2, <1>3, <1>4, <1>5

LEMMA AddManyState ==
    ASSUME NEW s \in State, NEW batch \in Seq(Event), NEW s1 \in addMany(batch, s)
    PROVE  s1 \in State
<1>1. s.entities \in [DOMAIN s.entities -> Details] /\ DOMAIN s.entities \subseteq Times
  BY DEF State, Entities
<1>2. \A t \in DOMAIN s1.entities : t \in Times /\ s1.entities[t] \in Details
  <2>1. TAKE t \in DOMAIN s1.entities
  <2>2. CASE t \in DOMAIN s.entities
    BY <1>1, <2>2, AddManyKeepsEntities
  <2>3. CASE t \notin DOMAIN s.entities
    <3>1. t \in Times /\ [time |-> t, detail |-> s1.entities[t]] \in Range(batch)
      BY <2>3, AddManyAddsEvents
    <3>2. [time |-> t, detail |-> s1.entities[t]] \in Event
      BY <3>1 DEF Range
    <3>3. [time |-> t, detail |-> s1.entities[t]].detail \in Details
      BY <3>2 DEF Event
    <3> QED  BY <3>1, <3>3
  <2> QED  BY <2>2, <2>3
<1>3. /\ s1.entities = [u \in DOMAIN s1.entities |-> s1.entities[u]]
      /\ s1 = [ids |-> s1.ids, entities |-> s1.entities]
  <2>1. PICK last : Added(batch, s, s1, last)
    BY AddManyFields
  <2> QED  BY <2>1 DEF Added
<1>4. s1.entities \in [DOMAIN s1.entities -> Details] /\ DOMAIN s1.entities \in SUBSET Times
  BY <1>2, <1>3
<1>5. s1.entities \in Entities
  BY <1>4 DEF Entities
<1>6. s1.ids \in [Times -> Nat]
  BY AddManyIds
<1> QED  BY <1>3, <1>5, <1>6 DEF State

-----------------------------------------------------------------------------
LEMMA PublishedMembers ==
    /\ \A r : r \in Published <=>
                 /\ r # Malformed
                 /\ \E p \in Partition : \E k \in DOMAIN log[p] : r = log[p][k]
    /\ \A r : r \in Published' <=>
                 /\ r # Malformed
                 /\ \E p \in Partition : \E k \in DOMAIN log'[p] : r = log'[p][k]
<1>1. \A r : r \in Published <=>
               r # Malformed /\ \E p \in Partition : r \in Range(log[p])
  BY DEF Published
<1>2. \A r : r \in Published' <=>
               r # Malformed /\ \E p \in Partition : r \in Range(log'[p])
  BY DEF Published
<1> QED  BY <1>1, <1>2 DEF Range

(* Kafka only gets more records.                                           *)
LEMMA PublishedGrows ==
    ASSUME log \in [Partition -> Seq(Record)], NEW p \in Partition,
           NEW r \in Record, log' = [log EXCEPT ![p] = Append(@, r)]
    PROVE  log' \in [Partition -> Seq(Record)] /\ Published \subseteq Published'
<1>1. log[p] \in Seq(Record) /\ Append(log[p], r) \in Seq(Record)
  OBVIOUS
<1>2. log' \in [Partition -> Seq(Record)]
  BY <1>1
<1>3. \A q \in Partition : \A k \in DOMAIN log[q] :
         k \in DOMAIN log'[q] /\ log'[q][k] = log[q][k]
  <2>1. TAKE q \in Partition
  <2>2. CASE q = p
    <3>1. log'[q] = Append(log[p], r)
      BY <2>2
    <3> QED  BY <1>1, <2>2, <3>1
  <2>3. CASE q # p
    BY <2>3
  <2> QED  BY <2>2, <2>3
<1>4. Published \subseteq Published'
  BY <1>3, PublishedMembers
<1> QED  BY <1>2, <1>4

LEMMA SendAppends ==
    ASSUME buffer \in Seq(Event), NEW e \in Event, Send(e)
    PROVE  buffer' \in Seq(Event) /\ Range(buffer') \subseteq Range(buffer) \cup {e}
<1>1. buffer' = Append(buffer, e)
  BY DEF Send
<1>2. \A k \in DOMAIN buffer' : buffer'[k] = e \/ (k \in DOMAIN buffer /\ buffer'[k] = buffer[k])
  BY <1>1
<1> QED  BY <1>1, <1>2 DEF Range

(* A websocket is opened in a free place, and then there is one.           *)
LEMMA OpenedSocket ==
    ASSUME NEW open \in [Slot -> {None} \cup Socket], NEW user \in User,
           Opened(open, user)
    PROVE  /\ sockets' \in [Slot -> {None} \cup Socket] /\ closed' = FALSE
           /\ \E i \in Slot : sockets'[i] # None
<1> DEFINE new == [user |-> user, pos |-> [p \in Partition |-> 0]]
<1>1. new \in Socket
  BY DEF Socket
<1>2. new # None
  BY <1>1, NoneAssumption
<1>3. PICK i \in Slot : sockets' = [open EXCEPT ![i] = new]
  BY DEF Opened
<1> HIDE DEF new
<1> QED  BY <1>1, <1>2, <1>3 DEF Opened

(* A websocket that has read on is a websocket.                            *)
LEMMA MovedSocket ==
    ASSUME sockets \in [Slot -> {None} \cup Socket], NEW i \in Slot,
           sockets[i] # None, NEW f \in [Partition -> Nat],
           sockets' = [sockets EXCEPT ![i].pos = f]
    PROVE  /\ sockets' \in [Slot -> {None} \cup Socket]
           /\ \A j \in Slot : sockets'[j] = None <=> sockets[j] = None
<1>1. sockets[i] \in Socket
  OBVIOUS
<1>2. [sockets[i] EXCEPT !.pos = f] \in Socket
  BY <1>1 DEF Socket
<1>3. [sockets[i] EXCEPT !.pos = f] # None
  BY <1>2, NoneAssumption
<1>4. sockets' = [sockets EXCEPT ![i] = [sockets[i] EXCEPT !.pos = f]]
  OBVIOUS
<1> QED  BY <1>2, <1>3, <1>4

-----------------------------------------------------------------------------
LEMMA PublishStep == ASSUME StreamInv, Publish PROVE StreamInv'
<1>1. PICK p \in Partition, r \in Record : log' = [log EXCEPT ![p] = Append(@, r)]
  BY DEF Publish, Archive!Publish
<1>2. UNCHANGED <<rows, client, tokens, faults>>
  BY DEF Publish, Archive!Publish
<1>3. log' \in [Partition -> Seq(Record)] /\ Published \subseteq Published'
  BY <1>1, PublishedGrows DEF StreamInv, TypeOK
<1>4. TypeOK'
  BY <1>2, <1>3 DEF StreamInv, TypeOK, client
<1>5. ShownWasPublished'
  BY <1>2, <1>3 DEF StreamInv, ShownWasPublished, Rows, client
<1>6. SilentOnlyByCleanClose' /\ NoStrayIds'
  BY <1>2 DEF StreamInv, SilentOnlyByCleanClose, Silent, NoStrayIds, client
<1> QED  BY <1>4, <1>5, <1>6 DEF StreamInv

LEMMA StoreRecordStep == ASSUME StreamInv, StoreRecord PROVE StreamInv'
<1>1. PICK p \in Partition :
        \E k \in DOMAIN log[p] :
           log[p][k] \in Event /\ rows' = SaveOrUpdate(rows, log[p][k])
  BY DEF StoreRecord, Archive!StoreRecord, Archive!SaveOrUpdate, SaveOrUpdate,
     Archive!RowKey, RowKey, Archive!EventDate, EventDate, Archive!Event, Event
<1>2. PICK k \in DOMAIN log[p] :
        log[p][k] \in Event /\ rows' = SaveOrUpdate(rows, log[p][k])
  BY <1>1
<1>3. UNCHANGED <<log, client, tokens, faults>>
  BY DEF StoreRecord, Archive!StoreRecord
<1>4. log[p][k] \in Published
  BY <1>2, MalformedAssumption, PublishedMembers
<1>5. rows' \subseteq rows \cup {log[p][k]}
  BY <1>2 DEF SaveOrUpdate
<1>6. TypeOK'
  BY <1>2, <1>3, <1>5 DEF StreamInv, TypeOK, client
<1>7. ShownWasPublished'
  <2>1. Published' = Published
    BY <1>3 DEF Published
  <2> QED  BY <1>3, <1>4, <1>5, <2>1 DEF StreamInv, ShownWasPublished, Rows, client
<1>8. SilentOnlyByCleanClose' /\ NoStrayIds'
  BY <1>3 DEF StreamInv, SilentOnlyByCleanClose, Silent, NoStrayIds, client
<1> QED  BY <1>6, <1>7, <1>8 DEF StreamInv

(* Steps of the connection change nothing that is shown.                   *)
LEMMA ConnectionKeeps ==
    ASSUME StreamInv, UNCHANGED <<archive, status>>, buffer' \in {buffer, <<>>}
    PROVE  ShownWasPublished' /\ NoStrayIds' /\ buffer' \in Seq(Event)
<1>1. Published' = Published
  BY DEF Published, archive
<1>2. Range(buffer') \subseteq Range(buffer)
  BY DEF Range
<1>3. ShownWasPublished'
  <2>1. rows' = rows /\ Rows(status') = Rows(status)
    BY DEF archive
  <2> QED  BY <1>1, <1>2, <2>1 DEF StreamInv, ShownWasPublished
<1>4. NoStrayIds'
  BY DEF StreamInv, NoStrayIds
<1>5. buffer' \in Seq(Event)
  <2>1. <<>> \in Seq(Event) /\ buffer \in Seq(Event)
    BY DEF StreamInv, TypeOK
  <2> QED  BY <2>1
<1> QED  BY <1>3, <1>4, <1>5

LEMMA ChangeTokenStep ==
    ASSUME StreamInv, NEW t \in User \cup {None}, ChangeToken(t)
    PROVE  StreamInv'
<1>1. ShownWasPublished' /\ NoStrayIds'
  BY ConnectionKeeps DEF ChangeToken
<1>2. tokens' \in 0 .. MaxTokens
  BY MaxAssumption DEF ChangeToken, StreamInv, TypeOK
<1>3. CASE stream = "on" /\ t # None
  <2>1. /\ sockets' \in [Slot -> {None} \cup Socket] /\ closed' = FALSE
        /\ \E i \in Slot : sockets'[i] # None
    BY <1>3, OpenedSocket DEF ChangeToken, StreamInv, TypeOK
  <2>2. TypeOK'
    BY <1>2, <2>1 DEF ChangeToken, StreamInv, TypeOK, archive
  <2>3. SilentOnlyByCleanClose'
    BY <2>1 DEF SilentOnlyByCleanClose, Silent
  <2> QED  BY <1>1, <2>2, <2>3 DEF StreamInv
<1>4. CASE ~(stream = "on" /\ t # None)
  <2>1. UNCHANGED <<sockets, closed>>
    BY <1>4 DEF ChangeToken
  <2>2. TypeOK'
    BY <1>2, <2>1 DEF ChangeToken, StreamInv, TypeOK, archive
  <2>3. SilentOnlyByCleanClose'
    BY <1>4 DEF ChangeToken, SilentOnlyByCleanClose, Silent
  <2> QED  BY <1>1, <2>2, <2>3 DEF StreamInv
<1> QED  BY <1>3, <1>4

LEMMA ReconnectStep == ASSUME StreamInv, Reconnect PROVE StreamInv'
<1>1. ShownWasPublished' /\ NoStrayIds'
  BY ConnectionKeeps DEF Reconnect
<1>2. CASE token # None
  <2>1. /\ sockets' \in [Slot -> {None} \cup Socket] /\ closed' = FALSE
        /\ \E i \in Slot : sockets'[i] # None
    BY <1>2, OpenedSocket DEF Reconnect, StreamInv, TypeOK
  <2>2. TypeOK'
    BY <2>1 DEF Reconnect, StreamInv, TypeOK, archive
  <2>3. SilentOnlyByCleanClose'
    BY <2>1 DEF SilentOnlyByCleanClose, Silent
  <2> QED  BY <1>1, <2>2, <2>3 DEF StreamInv
<1>3. CASE token = None
  <2>1. TypeOK'
    BY <1>3 DEF Reconnect, StreamInv, TypeOK, archive
  <2>2. SilentOnlyByCleanClose'
    BY <1>3 DEF Reconnect, SilentOnlyByCleanClose, Silent
  <2> QED  BY <1>1, <2>1, <2>2 DEF StreamInv
<1> QED  BY <1>2, <1>3

LEMMA DisconnectStep ==
    ASSUME StreamInv, Disconnect, faults' \in 0 .. MaxFaults
    PROVE  StreamInv'
<1>1. ShownWasPublished' /\ NoStrayIds' /\ buffer' \in Seq(Event)
  BY ConnectionKeeps DEF Disconnect
<1>2. TypeOK'
  BY <1>1 DEF Disconnect, StreamInv, TypeOK, archive
<1>3. SilentOnlyByCleanClose'
  BY DEF Disconnect, SilentOnlyByCleanClose, Silent
<1> QED  BY <1>1, <1>2, <1>3 DEF StreamInv

LEMMA CloseCleanlyStep ==
    ASSUME StreamInv, NEW i \in Slot, CloseCleanly(i)
    PROVE  StreamInv'
<1>1. ShownWasPublished' /\ NoStrayIds'
  BY ConnectionKeeps DEF CloseCleanly
<1>2. TypeOK'
  BY DEF CloseCleanly, StreamInv, TypeOK, archive
<1>3. SilentOnlyByCleanClose'
  BY DEF CloseCleanly, SilentOnlyByCleanClose
<1> QED  BY <1>1, <1>2, <1>3 DEF StreamInv

-----------------------------------------------------------------------------
(* What a websocket sends was published.                                   *)
LEMMA GetOldEventsStep ==
    ASSUME StreamInv, NEW i \in Slot, getOldEvents(i)
    PROVE  StreamInv'
<1>1. PICK e \in rows : Send(e)
  BY DEF getOldEvents
<1>2. e \in Event /\ e \in Published
  BY DEF StreamInv, TypeOK, ShownWasPublished
<1>3. buffer' \in Seq(Event) /\ Range(buffer') \subseteq Range(buffer) \cup {e}
  BY <1>1, <1>2, SendAppends DEF StreamInv, TypeOK
<1>4. UNCHANGED <<archive, token, stream, sockets, status, closed, tokens, faults>>
  BY DEF getOldEvents
<1>5. TypeOK'
  BY <1>3, <1>4 DEF StreamInv, TypeOK, archive
<1>6. ShownWasPublished'
  <2>1. Published' = Published
    BY <1>4 DEF Published, archive
  <2> QED  BY <1>2, <1>3, <1>4, <2>1 DEF StreamInv, ShownWasPublished, Rows, archive
<1>7. SilentOnlyByCleanClose' /\ NoStrayIds'
  BY <1>4 DEF StreamInv, SilentOnlyByCleanClose, Silent, NoStrayIds
<1> QED  BY <1>5, <1>6, <1>7 DEF StreamInv

LEMMA LiveEventStep ==
    ASSUME StreamInv, NEW i \in Slot, NEW p \in Partition, LiveEvent(i, p)
    PROVE  StreamInv'
<1> DEFINE k == sockets[i].pos[p] + 1
           f == [sockets[i].pos EXCEPT ![p] = k]
<1>1. /\ k \in DOMAIN log[p]
      /\ IF log[p][k] = Malformed THEN UNCHANGED buffer ELSE Send(log[p][k])
      /\ sockets' = [sockets EXCEPT ![i].pos[p] = k]
      /\ UNCHANGED <<archive, token, stream, status, closed, tokens, faults>>
      /\ sockets[i] # None
  BY DEF LiveEvent, Serves
<1>2. buffer' \in Seq(Event) /\ Range(buffer') \subseteq Range(buffer) \cup Published
  <2>1. CASE log[p][k] = Malformed
    BY <1>1, <2>1 DEF StreamInv, TypeOK
  <2>2. CASE log[p][k] # Malformed
    <3>1. log[p][k] \in Event
      BY <1>1, <2>2 DEF StreamInv, TypeOK, Record
    <3>2. log[p][k] \in Published
      BY <1>1, <2>2, PublishedMembers
    <3>3. Send(log[p][k])
      BY <1>1, <2>2
    <3> HIDE DEF k
    <3> QED  BY <3>1, <3>2, <3>3, SendAppends DEF StreamInv, TypeOK
  <2> QED  BY <2>1, <2>2
<1>3. sockets \in [Slot -> {None} \cup Socket]
  BY DEF StreamInv, TypeOK
<1>4. sockets[i] \in Socket
  BY <1>1, <1>3
<1>5. f \in [Partition -> Nat] /\ sockets' = [sockets EXCEPT ![i].pos = f]
  BY <1>1, <1>4 DEF Socket
<1>6. /\ sockets' \in [Slot -> {None} \cup Socket]
      /\ \A j \in Slot : sockets'[j] = None <=> sockets[j] = None
  <2> HIDE DEF f
  <2> QED  BY <1>1, <1>3, <1>5, MovedSocket
<1>7. TypeOK'
  BY <1>1, <1>2, <1>6 DEF StreamInv, TypeOK, archive
<1>8. ShownWasPublished'
  <2>1. Published' = Published
    BY <1>1 DEF Published, archive
  <2> QED  BY <1>1, <1>2, <2>1 DEF StreamInv, ShownWasPublished, Rows, archive
<1>9. SilentOnlyByCleanClose' /\ NoStrayIds'
  BY <1>1, <1>6 DEF StreamInv, SilentOnlyByCleanClose, Silent, NoStrayIds
<1> QED  BY <1>7, <1>8, <1>9 DEF StreamInv

LEMMA RestartLiveStep ==
    ASSUME StreamInv, NEW i \in Slot, RestartLive(i)
    PROVE  StreamInv'
<1>1. ShownWasPublished' /\ NoStrayIds'
  BY ConnectionKeeps DEF RestartLive
<1>2. [p \in Partition |-> 0] \in [Partition -> Nat]
  OBVIOUS
<1>3. /\ sockets' \in [Slot -> {None} \cup Socket]
      /\ \A j \in Slot : sockets'[j] = None <=> sockets[j] = None
  BY <1>2, MovedSocket DEF RestartLive, Serves, StreamInv, TypeOK
<1>4. faults' \in 0 .. MaxFaults
  BY MaxAssumption DEF RestartLive, StreamInv, TypeOK
<1>5. TypeOK'
  BY <1>3, <1>4 DEF RestartLive, StreamInv, TypeOK, archive
<1>6. SilentOnlyByCleanClose'
  BY <1>3 DEF RestartLive, StreamInv, SilentOnlyByCleanClose, Silent
<1> QED  BY <1>1, <1>5, <1>6 DEF StreamInv

(* A batch reaches the store: rows of before stay as they are.             *)
LEMMA FlushAdds ==
    ASSUME StreamInv, Flush
    PROVE  /\ status' \in addMany(buffer, status)
           /\ status \in State /\ buffer \in Seq(Event)
BY DEF Flush, reducer, NewEvents, StreamInv, TypeOK

LEMMA FlushStep == ASSUME StreamInv, Flush PROVE StreamInv'
<1>1. /\ status' \in addMany(buffer, status)
      /\ status \in State /\ buffer \in Seq(Event)
  BY FlushAdds
<1>2. status' \in State
  BY <1>1, AddManyState
<1>3. TypeOK'
  BY <1>2 DEF Flush, StreamInv, TypeOK, archive
<1>4. Rows(status') \subseteq Rows(status) \cup Range(buffer)
  <2>1. SUFFICES ASSUME NEW t \in DOMAIN status'.entities
                 PROVE  [time |-> t, detail |-> status'.entities[t]]
                           \in Rows(status) \cup Range(buffer)
    BY DEF Rows
  <2>2. CASE t \in DOMAIN status.entities
    <3>1. status'.entities[t] = status.entities[t]
      BY <1>1, <2>2, AddManyKeepsEntities
    <3> QED  BY <2>2, <3>1 DEF Rows
  <2>3. CASE t \notin DOMAIN status.entities
    BY <1>1, <2>3, AddManyAddsEvents
  <2> QED  BY <2>2, <2>3
<1>5. ShownWasPublished'
  <2>1. Published' = Published /\ rows' = rows /\ Range(buffer') = {}
    BY DEF Flush, Published, archive, Range
  <2>2. Rows(status') \subseteq Published
    BY <1>4 DEF StreamInv, ShownWasPublished
  <2> QED  BY <2>1, <2>2 DEF StreamInv, ShownWasPublished
<1>6. NoStrayIds'
  <2>1. SUFFICES ASSUME NEW t \in Times, t \notin DOMAIN status'.entities
                 PROVE  status'.ids[t] = 0
    BY DEF NoStrayIds
  <2>2. t \notin DOMAIN status.entities
    BY <1>1, <2>1, AddManyKeepsEntities
  <2>3. status'.ids[t] = status.ids[t]
    BY <1>1, <2>1, AddManyIds
  <2> QED  BY <2>2, <2>3 DEF StreamInv, NoStrayIds
<1>7. SilentOnlyByCleanClose'
  BY DEF Flush, StreamInv, SilentOnlyByCleanClose, Silent
<1> QED  BY <1>3, <1>5, <1>6, <1>7 DEF StreamInv

-----------------------------------------------------------------------------
LEMMA StreamInvInit == Init => StreamInv
<1> SUFFICES ASSUME Init PROVE StreamInv
  OBVIOUS
<1>1. log = [p \in Partition |-> <<>>] /\ rows = {}
  BY DEF Init, Archive!Init
<1>2. initialState \in State
  <2>1. [t \in {} |-> 0] \in Entities
    <3>1. [t \in {} |-> 0] \in [{} -> Details] /\ {} \in SUBSET Times
      OBVIOUS
    <3> QED  BY <3>1 DEF Entities
  <2>2. [t \in Times |-> 0] \in [Times -> Nat]
    OBVIOUS
  <2> QED  BY <2>1, <2>2 DEF initialState, State
<1>3. TypeOK
  <2>1. log \in [Partition -> Seq(Record)] /\ rows \subseteq Event
    BY <1>1
  <2>2. sockets \in [Slot -> {None} \cup Socket] /\ buffer \in Seq(Event)
    BY DEF Init
  <2>3. tokens \in 0 .. MaxTokens /\ faults \in 0 .. MaxFaults
    BY MaxAssumption DEF Init
  <2> QED  BY <1>2, <2>1, <2>2, <2>3 DEF Init, TypeOK
<1>4. ShownWasPublished /\ SilentOnlyByCleanClose /\ NoStrayIds
  BY <1>1 DEF Init, ShownWasPublished, Rows, Range, initialState,
     SilentOnlyByCleanClose, Silent, NoStrayIds
<1> QED  BY <1>3, <1>4 DEF StreamInv

LEMMA StreamInvNext == ASSUME StreamInv, [Next]_vars PROVE StreamInv'
<1>1. CASE Publish
  BY <1>1, PublishStep
<1>2. CASE StoreRecord
  BY <1>2, StoreRecordStep
<1>3. ASSUME NEW t \in User \cup {None}, ChangeToken(t) PROVE StreamInv'
  BY <1>3, ChangeTokenStep
<1>4. CASE Reconnect
  BY <1>4, ReconnectStep
<1>5. ASSUME NEW i \in Slot, RefuseSocket(i) \/ SocketFails(i) PROVE StreamInv'
  <2>1. Disconnect /\ faults' \in 0 .. MaxFaults
    BY <1>5, MaxAssumption DEF RefuseSocket, SocketFails, StreamInv, TypeOK
  <2> QED  BY <2>1, DisconnectStep
<1>6. ASSUME NEW i \in Slot, CloseCleanly(i) PROVE StreamInv'
  BY <1>6, CloseCleanlyStep
<1>7. ASSUME NEW i \in Slot, getOldEvents(i) PROVE StreamInv'
  BY <1>7, GetOldEventsStep
<1>8. ASSUME NEW i \in Slot, NEW p \in Partition, LiveEvent(i, p) PROVE StreamInv'
  BY <1>8, LiveEventStep
<1>9. ASSUME NEW i \in Slot, RestartLive(i) PROVE StreamInv'
  BY <1>9, RestartLiveStep
<1>10. CASE Flush
  BY <1>10, FlushStep
<1>11. CASE UNCHANGED vars
  BY <1>11 DEF vars, archive, client, StreamInv, TypeOK, ShownWasPublished, Rows,
     Published, SilentOnlyByCleanClose, Silent, NoStrayIds
<1> QED
  BY <1>1, <1>2, <1>3, <1>4, <1>5, <1>6, <1>7, <1>8, <1>9, <1>10, <1>11 DEF Next

(* Only a batch that reaches the store changes it.                         *)
LEMMA OnlyFlushShows ==
    ASSUME [Next]_vars, status' # status
    PROVE  Flush
BY DEF Next, vars, client, Publish, StoreRecord, ChangeToken, Reconnect,
   RefuseSocket, SocketFails, Disconnect, CloseCleanly, getOldEvents, LiveEvent,
   RestartLive

(* The invariant of websockets, buffer and store.                          *)
THEOREM StreamInvariant == Spec => []StreamInv
<1>1. StreamInv /\ [Next]_vars => StreamInv'
  BY StreamInvNext
<1> QED  BY <1>1, StreamInvInit, PTL DEF Spec

(* Records, websockets, buffer and store are well typed.                   *)
THEOREM StreamTypesHold == Spec => []TypeOK
<1>1. StreamInv => TypeOK
  BY DEF StreamInv
<1> QED  BY <1>1, StreamInvariant, PTL

(* The table shows published events only, each second with its own detail. *)
THEOREM OnlyPublishedIsShown == Spec => []ShownWasPublished
<1>1. StreamInv => ShownWasPublished
  BY DEF StreamInv
<1> QED  BY <1>1, StreamInvariant, PTL

(* Nothing but a clean close leaves a tab with a token silent.             *)
THEOREM OnlyCleanCloseSilences == Spec => []SilentOnlyByCleanClose
<1>1. StreamInv => SilentOnlyByCleanClose
  BY DEF StreamInv
<1> QED  BY <1>1, StreamInvariant, PTL

-----------------------------------------------------------------------------
(* EventsView: a record that is published is one more event, or none.      *)
LEMMA PublishIsOfView ==
    ASSUME StreamInv, Publish
    PROVE  [View!Next]_(View!vars)
<1>1. PICK p \in Partition, r \in Record : log' = [log EXCEPT ![p] = Append(@, r)]
  BY DEF Publish, Archive!Publish, Record, Archive!Event, Event
<1>2. log \in [Partition -> Seq(Record)] /\ log[p] \in Seq(Record)
  BY DEF StreamInv, TypeOK
<1>3. status' = status
  BY DEF Publish, client
<1>4. Published \subseteq Published'
  BY <1>1, <1>2, PublishedGrows
<1>5. \A e : e \in Published' => e \in Published \/ (e = r /\ r # Malformed)
  <2>1. SUFFICES ASSUME NEW e, e \in Published'
                 PROVE  e \in Published \/ (e = r /\ r # Malformed)
    OBVIOUS
  <2>2. PICK q \in Partition :
          e # Malformed /\ \E k \in DOMAIN log'[q] : e = log'[q][k]
    BY <2>1, PublishedMembers
  <2>3. PICK k \in DOMAIN log'[q] : e = log'[q][k]
    BY <2>2
  <2>4. CASE q # p
    <3>1. log'[q] = log[q]
      BY <1>1, <1>2, <2>4
    <3> QED  BY <2>2, <2>3, <3>1, PublishedMembers
  <2>5. CASE q = p
    <3>1. log'[q] = Append(log[p], r)
      BY <1>1, <1>2, <2>5
    <3>2. (k \in DOMAIN log[p] /\ e = log[p][k]) \/ e = r
      BY <1>2, <2>3, <3>1
    <3> QED  BY <2>2, <3>2, PublishedMembers
  <2> QED  BY <2>4, <2>5
<1>6. CASE r = Malformed
  <2>1. Published' = Published
    BY <1>4, <1>5, <1>6
  <2> QED  BY <1>3, <2>1 DEF View!vars
<1>7. CASE r # Malformed
  <2>1. r \in Published'
    <3>1. log'[p] = Append(log[p], r)
      BY <1>1, <1>2
    <3>2. Len(log[p]) + 1 \in DOMAIN log'[p] /\ log'[p][Len(log[p]) + 1] = r
      BY <1>2, <3>1
    <3> QED  BY <1>7, <3>2, PublishedMembers
  <2>2. Published' = Published \cup {r}
    BY <1>4, <1>5, <2>1
  <2>3. r \in View!Event
    BY <1>7 DEF Record, View!Event, Event
  <2>4. View!Publish(r)
    BY <1>3, <2>2 DEF View!Publish
  <2> QED  BY <2>3, <2>4 DEF View!Next
<1> QED  BY <1>6, <1>7

(* A batch that reaches the store gives rows to the seconds that are new.  *)
LEMMA FlushIsOfView ==
    ASSUME StreamInv, Flush
    PROVE  [View!Next]_(View!vars)
<1> DEFINE new == DOMAIN status'.entities \ DOMAIN status.entities
<1>1. /\ status' \in addMany(buffer, status)
      /\ status \in State /\ buffer \in Seq(Event)
  BY FlushAdds
<1>2. \A t \in DOMAIN status.entities :
         t \in DOMAIN status'.entities /\ status'.entities[t] = status.entities[t]
  BY <1>1, AddManyKeepsEntities
<1>3. \A t \in new :
         t \in Times /\ [time |-> t, detail |-> status'.entities[t]] \in Range(buffer)
  BY <1>1, AddManyAddsEvents
<1>4. Range(buffer) \subseteq Published
  BY DEF StreamInv, ShownWasPublished
<1>5. Published' = Published
  BY DEF Flush, Published, archive
<1>6. View!Show(new)
  <2>1. DOMAIN status'.entities = DOMAIN status.entities \cup new
    BY <1>2
  <2> HIDE DEF new
  <2> QED  BY <1>2, <1>3, <1>4, <1>5, <2>1 DEF View!Show
<1>7. new \in SUBSET Times
  BY <1>3
<1> QED  BY <1>6, <1>7 DEF View!Next

(* The page is a view of what was published.                               *)
THEOREM StreamIsView == Spec => ImplementsView
<1>1. Init => View!Init
  <2>1. Init => \A p \in Partition : log[p] = <<>>
    BY DEF Init, Archive!Init
  <2>2. Init => Published = {}
    BY <2>1, PublishedMembers
  <2> QED  BY <2>2 DEF Init, initialState, View!Init
<1>2. StreamInv /\ [Next]_vars => [View!Next]_(View!vars)
  <2> SUFFICES ASSUME StreamInv, [Next]_vars
               PROVE  [View!Next]_(View!vars)
    OBVIOUS
  <2>1. CASE UNCHANGED <<log, status>>
    BY <2>1 DEF View!vars, Published
  <2>2. CASE ~UNCHANGED <<log, status>>
    <3>1. Publish \/ Flush
      BY <2>2 DEF Next, vars, archive, client, StoreRecord, Archive!StoreRecord,
         ChangeToken, Reconnect, RefuseSocket, SocketFails, Disconnect,
         CloseCleanly, getOldEvents, LiveEvent, RestartLive
    <3> QED  BY <3>1, PublishIsOfView, FlushIsOfView
  <2> QED  BY <2>1, <2>2
<1> QED
  BY <1>1, <1>2, StreamInvariant, PTL DEF Spec, ImplementsView, View!Spec

-----------------------------------------------------------------------------
(* A websocket whose source starts again sends from the earliest record,   *)
(* and EventsService opens a websocket anew after each error: a batch of   *)
(* seconds that are shown already leaves the store as it is.               *)
THEOREM RepeatedEventsChangeNothing ==
    ASSUME NEW s \in State, NEW batch \in Seq(Event),
           \A k \in DOMAIN batch : batch[k].time \in DOMAIN s.entities
    PROVE  reducer(s, NewEvents(batch)) = {s}
<1>1. NewTimes(batch, s) = {}
  BY DEF NewTimes
<1>2. /\ s.ids \in [Times -> Nat]
      /\ s.entities = [u \in DOMAIN s.entities |-> s.entities[u]]
      /\ s = [ids |-> s.ids, entities |-> s.entities]
  BY DEF State, Entities
<1>3. ASSUME NEW s1 \in addMany(batch, s)
      PROVE  s1 = s
  <2>1. PICK last : Added(batch, s, s1, last)
    BY <1>3, AddManyFields
  <2>2. s1.ids = [u \in Times |-> s.ids[u] + 0]
    BY <1>1, <2>1 DEF Added
  <2>3. s1.ids = s.ids
    BY <1>2, <2>2
  <2>4. s1.entities = s.entities
    BY <1>1, <1>2, <2>1 DEF Added
  <2> QED  BY <1>2, <2>1, <2>3, <2>4 DEF Added
<1>4. addMany(batch, s) # {}
  <2>1. PICK f \in [NewTimes(batch, s) -> DOMAIN batch] :
               \A t \in NewTimes(batch, s) : f[t] \in OfSecond(batch, t)
    <3>1. [t \in {} |-> 0] \in [NewTimes(batch, s) -> DOMAIN batch]
      BY <1>1
    <3> QED  BY <1>1, <3>1
  <2> DEFINE added ==
               [ids |-> [t \in Times |-> s.ids[t] +
                           IF t \in NewTimes(batch, s)
                           THEN Cardinality(OfSecond(batch, t)) ELSE 0],
                entities |-> [t \in DOMAIN s.entities \cup NewTimes(batch, s) |->
                                IF t \in NewTimes(batch, s)
                                THEN batch[f[t]].detail ELSE s.entities[t]]]
  <2>2. added \in addMany(batch, s)
    BY <2>1 DEF addMany, NewTimes
  <2> QED  BY <2>2
<1>5. addMany(batch, s) = {s}
  BY <1>3, <1>4
<1> QED  BY <1>5 DEF reducer, NewEvents

(* EventsController leaves it to the client to remove the duplicates that  *)
(* come from Cassandra, Kafka and several websockets.  If two events of a  *)
(* second that is not shown yet are in one batch, be they the same or not, *)
(* the client removes none: the table lists the second twice or more.      *)
THEOREM DuplicatesOfABatchAreShown ==
    ASSUME StreamInv, Flush, NEW t \in Times, t \notin DOMAIN status.entities,
           NEW k \in DOMAIN buffer, NEW m \in DOMAIN buffer, k # m,
           buffer[k].time = t, buffer[m].time = t
    PROVE  status.ids[t] = 0 /\ status'.ids[t] >= 2
<1>1. /\ status' \in addMany(buffer, status)
      /\ status \in State /\ buffer \in Seq(Event)
  BY FlushAdds
<1>2. status.ids[t] = 0
  BY DEF StreamInv, NoStrayIds
<1>3. t \in DOMAIN status'.entities
  <2>1. t \in NewTimes(buffer, status)
    BY DEF NewTimes
  <2>2. PICK last : Added(buffer, status, status', last)
    BY <1>1, AddManyFields
  <2> QED  BY <2>1, <2>2 DEF Added
<1>4. status'.ids[t] = status.ids[t] + Cardinality(OfSecond(buffer, t))
  BY <1>1, <1>3, AddManyIds
<1>5. Cardinality(OfSecond(buffer, t)) \in Nat /\ Cardinality(OfSecond(buffer, t)) >= 2
  <2>1. {k, m} \subseteq OfSecond(buffer, t)
    BY DEF OfSecond
  <2>2. IsFiniteSet(OfSecond(buffer, t))
    <3>1. OfSecond(buffer, t) \subseteq 1 .. Len(buffer)
      BY <1>1 DEF OfSecond
    <3>2. Len(buffer) \in Nat
      BY <1>1
    <3>3. IsFiniteSet(1 .. Len(buffer))
      BY <3>2, FS_Interval
    <3> QED  BY <3>1, <3>3, FS_Subset
  <2>3. Cardinality({k, m}) = 2
    <3>1. IsFiniteSet({k}) /\ Cardinality({k}) = 1
      BY FS_Singleton
    <3>2. Cardinality({k} \cup {m}) = Cardinality({k}) + 1
      BY <3>1, FS_AddElement
    <3>3. {k, m} = {k} \cup {m}
      OBVIOUS
    <3>4. Cardinality({k, m}) = Cardinality({k} \cup {m})
      BY <3>3
    <3> QED  BY <3>1, <3>2, <3>4
  <2>4. Cardinality({k, m}) <= Cardinality(OfSecond(buffer, t))
    BY <2>1, <2>2, FS_Subset
  <2>5. Cardinality(OfSecond(buffer, t)) \in Nat
    BY <1>1, OfSecondCount
  <2> QED  BY <2>3, <2>4, <2>5
<1> QED  BY <1>2, <1>4, <1>5
=============================================================================
