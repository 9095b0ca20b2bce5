---------------------------- MODULE EventsTable ----------------------------
(***************************************************************************)
(* The Cassandra table of the Docker events, as EventsRepository and       *)
(* EventsTable of the backend use it.  An event is identified by nothing   *)
(* but its date and the SECOND in which it occurred: saveOrUpdate is an    *)
(* upsert of the row (event_date, time).                                   *)
(***************************************************************************)
EXTENDS Naturals

CONSTANTS
    Times,      \* seconds at which events occur
    Details,    \* what else an event holds: action, service and host
    DayLength   \* seconds in a day of the zone the dates are computed in

ASSUME TimesAssumption == Times \subseteq Nat
ASSUME DayLengthAssumption == DayLength \in Nat \ {0}

Event == [time : Times, detail : Details]

(* convertDateToDateOnly: the midnight before the event, as a day number.  *)
EventDate(e) == e.time \div DayLength

(* The primary key: partition key event_date, clustering key time.         *)
RowKey(e) == <<EventDate(e), e.time>>

(* The table is the set of its rows; a row is the event it was made from.  *)
SaveOrUpdate(rows, e) == {r \in rows : RowKey(r) # RowKey(e)} \cup {e}

(* A row for the second of e exists, whichever event it holds.             *)
HasRow(rows, e) == \E r \in rows : RowKey(r) = RowKey(e)
=============================================================================
