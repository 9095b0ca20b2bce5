---------------------------- MODULE EventsArchive ----------------------------
(***************************************************************************)
(* What the events consumer worker promises to the rest of the system,     *)
(* without its pipeline: published events get rows, in any order and any   *)
(* number of times, and the committed offsets of the group only ever grow  *)
(* over records that are done with.                                        *)
(***************************************************************************)
EXTENDS EventsTable, Sequences

CONSTANTS Partition, Malformed, MaxLog

VARIABLES log, committed, rows

vars == <<log, committed, rows>>

Init ==
    /\ log = [p \in Partition |-> <<>>]
    /\ committed = [p \in Partition |-> 0]
    /\ rows = {}

Publish(p, r) ==
    /\ Len(log[p]) < MaxLog
    /\ log' = [log EXCEPT ![p] = Append(@, r)]
    /\ UNCHANGED <<committed, rows>>

StoreRecord(p, k) ==
    /\ log[p][k] \in Event
    /\ rows' = SaveOrUpdate(rows, log[p][k])
    /\ UNCHANGED <<log, committed>>

(* Several partitions may advance in one commit.                           *)
Commit ==
    /\ committed' \in [Partition -> Nat]
    /\ \A p \in Partition :
         /\ committed[p] <= committed'[p]
         /\ committed'[p] <= Len(log[p])
         /\ \A k \in 1..committed'[p] :
              log[p][k] \in Event => HasRow(rows, log[p][k])
    /\ UNCHANGED <<log, rows>>

Next ==
    \/ \E p \in Partition, r \in Event \cup {Malformed} : Publish(p, r)
    \/ \E p \in Partition : \E k \in DOMAIN log[p] : StoreRecord(p, k)
    \/ Commit

Spec == Init /\ [][Next]_vars
=============================================================================
