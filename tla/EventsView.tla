----------------------------- MODULE EventsView -----------------------------
(***************************************************************************)
(* What the page of the events promises to a user who looks at it, without *)
(* websockets, buffers, tokens and failures: a second that is shown was    *)
(* published with that detail, and stays as it is.  How long it takes, and *)
(* how often a row is repeated, is not said here.                          *)
(***************************************************************************)
EXTENDS EventsTable

VARIABLES
    published,  \* the events that were published so far
    shown       \* the detail that is shown, for each second that is shown

vars == <<published, shown>>

Init ==
    /\ published = {}
    /\ shown = [t \in {} |-> 0]

(* A record that is published again, or no event, changes nothing.         *)
Publish(e) ==
    /\ published' = published \cup {e}
    /\ UNCHANGED shown

(* Some seconds get rows, each one of its published events.                *)
Show(seconds) ==
    /\ DOMAIN shown' = DOMAIN shown \cup seconds
    /\ \A t \in DOMAIN shown : shown'[t] = shown[t]
    /\ \A t \in seconds \ DOMAIN shown :
         [time |-> t, detail |-> shown'[t]] \in published
    /\ UNCHANGED published

Next ==
    \/ \E e \in Event : Publish(e)
    \/ \E seconds \in SUBSET Times : Show(seconds)

Spec == Init /\ [][Next]_vars
=============================================================================
