--------------------------- MODULE MCEventsStream ---------------------------
(* Small sets for TLC: an event of an old day, and one of today.           *)
EXTENDS EventsStream

CONSTANTS alice, bob, created, removed, p1

MCTimes == {0, 2}
MCDetails == {created, removed}
MCPartition == {p1}
MCUser == {alice, bob}
MCAllowed == {alice}
=============================================================================
