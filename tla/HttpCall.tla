------------------------------ MODULE HttpCall ------------------------------
(***************************************************************************)
(* What a caller of the frontend's HTTP client is promised: one answer, a  *)
(* success only if the backend has carried the request out, and a bound on *)
(* how often it may carry it out, which is more than once.                 *)
(***************************************************************************)
EXTENDS Naturals

CONSTANT MaxSends  \* how often the request may be sent

VARIABLES
    phase,     \* what the caller sees
    executed   \* how often the backend has carried the request out

vars == <<phase, executed>>

Outcome == {"ok", "refused", "failed"}

Init == phase = "idle" /\ executed = 0

Send ==
    /\ phase = "idle"
    /\ phase' = "sent"
    /\ UNCHANGED executed

(* Also after the answer: a request that was given up may still arrive.    *)
Execute ==
    /\ phase # "idle"
    /\ executed < MaxSends
    /\ executed' = executed + 1
    /\ UNCHANGED phase

End(outcome) ==
    /\ phase = "sent"
    /\ outcome = "ok" => executed > 0
    /\ phase' = outcome
    /\ UNCHANGED executed

Next == Send \/ Execute \/ \E outcome \in Outcome : End(outcome)

Spec == Init /\ [][Next]_vars
=============================================================================
