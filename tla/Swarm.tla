------------------------------- MODULE Swarm -------------------------------
(***************************************************************************)
(* The services of the Docker Swarm as far as the client Swarm of the      *)
(* backend depends on them: each has a specification and a version, the    *)
(* index of its last change, which an update has to name.                  *)
(***************************************************************************)
EXTENDS Naturals

CONSTANTS
    Name,      \* names of services, by which the frontend addresses them
    Scale,     \* images and numbers of replicas
    Invalid,   \* specifications that the Swarm refuses
    Confusing  \* names that may put "ID" in the message of an error

ASSUME InvalidAssumption == Invalid \subseteq Scale
ASSUME ConfusingAssumption == Confusing \subseteq Name

Service == [spec : Scale \ Invalid, version : Nat]
IsServices(c) == DOMAIN c \subseteq Name /\ c \in [DOMAIN c -> Service]
Components == UNION {[S -> Scale \ Invalid] : S \in SUBSET Name}

(* A mistake to catch: the answer of the Swarm passed on as it is.         *)
getServicesRaw(c) == c

getServices(c) == [n \in DOMAIN c |-> c[n].spec]

CanCreate(c, n, s) == n \notin DOMAIN c /\ s \notin Invalid

With(c, n, s, index) ==
    [m \in DOMAIN c \cup {n} |->
       IF m = n THEN [spec |-> s, version |-> index] ELSE c[m]]

Created(c, n, s, index) == IF CanCreate(c, n, s) THEN With(c, n, s, index) ELSE c

(* The Swarm does what it is asked, or answers with an error of its own.   *)
Attempts(c, d) == {c, d}

(* Whether the answer to a creation contains "ID": always if the service   *)
(* was created, for the answer is its id, and perhaps if it is a message.  *)
createService(c, d, n) ==
    IF d # c THEN {TRUE} ELSE IF n \in Confusing THEN BOOLEAN ELSE {FALSE}

(* A mistake to catch: no version in the call of an update.                *)
UpdatedBlindly(c, n, s, version, index) ==
    IF n \in DOMAIN c /\ s \notin Invalid THEN With(c, n, s, index) ELSE c

(* The version is the one read before.                                     *)
Updated(c, n, s, version, index) ==
    IF n \in DOMAIN c /\ c[n].version = version /\ s \notin Invalid
    THEN With(c, n, s, index) ELSE c

Deleted(c, n) == [m \in DOMAIN c \ {n} |-> c[m]]
=============================================================================
