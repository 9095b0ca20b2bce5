--------------------------- MODULE EventsReducer ---------------------------
(***************************************************************************)
(* The events in the frontend's store: entities that are identified by the *)
(* second of the event, and a list of these ids, by which the table shows  *)
(* its rows.  The list is sorted, so that it is given by how often it      *)
(* holds each id.                                                          *)
(***************************************************************************)
EXTENDS EventsTable, SequencesExt

(* selectId: event.time; the entities are a function of the ids.           *)
Entities == UNION {[S -> Details] : S \in SUBSET Times}

State == [ids : [Times -> Nat], entities : Entities]

initialState == [ids |-> [t \in Times |-> 0], entities |-> [t \in {} |-> 0]]

NewEvents(batch) == [type |-> "NEW_EVENTS", payload |-> batch]

OfSecond(batch, t) == {k \in DOMAIN batch : batch[k].time = t}

(* A mistake to catch: the latest event of a second replaces the others.   *)
addManyOver(batch, s) ==
    LET new == {batch[k].time : k \in DOMAIN batch}
    IN  {[ids |-> [t \in Times |-> s.ids[t] +
                       Cardinality(OfSecond(batch, t))],
          entities |-> [t \in DOMAIN s.entities \cup new |->
                          IF t \in new
                          THEN batch[CHOOSE k \in OfSecond(batch, t) :
                                 \A m \in OfSecond(batch, t) : m <= k].detail
                          ELSE s.entities[t]]]}

(* A mistake to catch: the rows are sorted, but not their details.         *)
addManyMixed(batch, s) ==
    LET new == {batch[k].time : k \in DOMAIN batch} \ DOMAIN s.entities
    IN  {[ids |-> [t \in Times |-> s.ids[t] +
                      IF t \in new THEN Cardinality(OfSecond(batch, t)) ELSE 0],
          entities |-> [t \in DOMAIN s.entities \cup new |->
                          IF t \in new THEN batch[1].detail
                          ELSE s.entities[t]]]}

(* The adapter's addMany: only events of new seconds are added; all of     *)
(* them get an id, and the last one in the order of the sort, which may be *)
(* any of the same second, becomes the entity.                             *)
addMany(batch, s) ==
    LET new == {batch[k].time : k \in DOMAIN batch} \ DOMAIN s.entities
        added(last) ==
          [ids |-> [t \in Times |-> s.ids[t] +
                      IF t \in new THEN Cardinality(OfSecond(batch, t)) ELSE 0],
           entities |-> [t \in DOMAIN s.entities \cup new |->
                           IF t \in new THEN batch[last[t]].detail
                           ELSE s.entities[t]]]
    IN  {added(last) : last \in {f \in [new -> DOMAIN batch] :
                          \A t \in new : f[t] \in OfSecond(batch, t)}}

(* The states an action may lead to.                                       *)
reducer(s, action) ==
    IF action.type = "NEW_EVENTS" THEN addMany(action.payload, s) ELSE {s}

(* getEvents: a row for each id, with the entity of that id.               *)
Rows(s) == {[time |-> t, detail |-> s.entities[t]] : t \in DOMAIN s.entities}
=============================================================================
