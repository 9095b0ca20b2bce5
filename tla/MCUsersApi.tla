----------------------------- MODULE MCUsersApi -----------------------------
(* Model values and small sets for TLC.                                    *)
EXTENDS UsersApi

CONSTANTS admin, bob, c1, c2, b1, b2

MCUsername == {admin, bob}
MCPermission == {USERS_READ, USERS_WRITE}
MCOneClient == {c1}
MCTwoClients == {c1, c2}
MCTwoBackends == {b1, b2}

(* A bound: the primary is lost, a backend restarts, or a second request   *)
(* comes, but no two of these.  Nothing is asked of a backend that has     *)
(* restarted; and the second request comes and goes while the first one is *)
(* let through but not yet carried out, when the backends have started and *)
(* a read can not be stale (afterwards it can).                            *)
OneTroubleAtATime ==
    LET second == IF requests[c2] = NoRequest THEN 0 ELSE 1
    IN  /\ stepDowns + restarts + second <= 1
        /\ restarts = 1 => requests[c1] = NoRequest
        /\ second = 1 => /\ requests[c1] # NoRequest
                         /\ requests[c1].authorised
                         /\ bootstrap = [b \in Backend |-> "done"]
                         /\ replica = users

(* None of the fair steps is held up by the bound.                         *)
MCSpec == Init /\ [][Next /\ OneTroubleAtATime']_vars /\ Fairness
=============================================================================
