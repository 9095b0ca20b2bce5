-------------------------- MODULE MCEventsConsumer --------------------------
(* Model values and small sets for TLC.                                    *)
EXTENDS EventsConsumer

CONSTANTS p1, p2, d1, d2

MCPartition == {p1, p2}
MCOneTime == {0}
MCTwoTimes == {0, 1}
MCOneDetail == {d1}
MCTwoDetails == {d1, d2}
=============================================================================
