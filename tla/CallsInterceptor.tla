-------------------------- MODULE CallsInterceptor --------------------------
(***************************************************************************)
(* One HTTP call of the frontend: CallsInterceptor sends the request again *)
(* a second after each answer with a status of 500 or more.                *)
(*                                                                         *)
(* An attempt that is answered by an error may be carried out all the same *)
(* (a proxy has given up waiting, the connection is lost): it is a stray   *)
(* one until the backend executes or loses it.                             *)
(***************************************************************************)
EXTENDS Naturals

CONSTANT MaxRetries  \* the argument of take(), 20

ASSUME MaxRetriesAssumption == MaxRetries \in Nat \ {0}

VARIABLES
    phase,     \* "served": the present attempt is executed, not answered
    retries,   \* how often the interceptor has sent the request again
    stray,     \* earlier attempts that the backend may still carry out
    executed   \* how often it has carried the request out

vars == <<phase, retries, stray, executed>>

TypeOK ==
    /\ phase \in {"idle", "running", "served", "waiting",
                  "ok", "refused", "failed"}
    /\ retries \in 0 .. MaxRetries
    /\ stray \in Nat
    /\ executed \in Nat

Init ==
    /\ phase = "idle"
    /\ retries = 0
    /\ stray = 0
    /\ executed = 0

-----------------------------------------------------------------------------
(* next.handle(request).                                                   *)
Intercept ==
    /\ phase = "idle"
    /\ phase' = "running"
    /\ UNCHANGED <<retries, stray, executed>>

Execute ==
    /\ phase = "running"
    /\ phase' = "served"
    /\ executed' = executed + 1
    /\ UNCHANGED <<retries, stray>>

ExecuteStray ==
    /\ stray > 0
    /\ stray' = stray - 1
    /\ executed' = executed + 1
    /\ UNCHANGED <<phase, retries>>

LoseStray ==
    /\ stray > 0
    /\ stray' = stray - 1
    /\ UNCHANGED <<phase, retries, executed>>

AnswerOk ==
    /\ phase = "served"
    /\ phase' = "ok"
    /\ UNCHANGED <<retries, stray, executed>>

(* The attempt is over for the interceptor, whatever becomes of it.        *)
GiveUpAttempt ==
    \/ phase = "running" /\ stray' = stray + 1
    \/ phase = "served" /\ UNCHANGED stray

(* A status below 500, that of a lost connection (0) included: the error   *)
(* goes to the caller at once.                                             *)
AnswerRefused ==
    /\ GiveUpAttempt
    /\ phase' = "refused"
    /\ UNCHANGED <<retries, executed>>

AnswerServerError ==
    /\ GiveUpAttempt
    /\ phase' = "waiting"
    /\ UNCHANGED <<retries, executed>>

(* Mistakes to catch: no take(), no concat(throw) so that the call ends as *)
(* if it had succeeded, or never, or fails only after the last answer.     *)
RetryForEver ==
    /\ phase = "waiting"
    /\ retries' = retries + 1
    /\ phase' = "running"
    /\ UNCHANGED <<stray, executed>>

RetryThenComplete ==
    /\ phase = "waiting"
    /\ retries' = retries + 1
    /\ phase' = IF retries' = MaxRetries THEN "ok" ELSE "running"
    /\ UNCHANGED <<stray, executed>>

RetryThenNothing ==
    /\ phase = "waiting"
    /\ retries + 1 < MaxRetries
    /\ retries' = retries + 1
    /\ phase' = "running"
    /\ UNCHANGED <<stray, executed>>

RetryAndWait ==
    /\ phase = "waiting"
    /\ retries' = IF retries < MaxRetries THEN retries + 1 ELSE retries
    /\ phase' = IF retries < MaxRetries THEN "running" ELSE "failed"
    /\ UNCHANGED <<stray, executed>>

(* After the delay.  With the last value take() sends the request once     *)
(* more and completes, so that concat() throws at once: that attempt is    *)
(* cancelled while it is under way, and the call fails.                    *)
Retry ==
    /\ phase = "waiting"
    /\ retries' = retries + 1
    /\ IF retries' < MaxRetries
       THEN phase' = "running" /\ UNCHANGED stray
       ELSE phase' = "failed" /\ stray' = stray + 1
    /\ UNCHANGED executed

Answer == AnswerOk \/ AnswerRefused \/ AnswerServerError

Next ==
    \/ Intercept
    \/ Execute
    \/ ExecuteStray
    \/ LoseStray
    \/ AnswerOk
    \/ AnswerRefused
    \/ AnswerServerError
    \/ Retry

(* A request that is sent is answered, if only by the proxy in front of    *)
(* the backend or by the browser; the delay of a retry passes.             *)
Fairness == WF_vars(Answer) /\ WF_vars(Retry)

Spec == Init /\ [][Next]_vars
FairSpec == Spec /\ Fairness

-----------------------------------------------------------------------------
(* The last retry is sent for nothing: a call that is answered was         *)
(* answered before it, and the request of a call that has failed may still *)
(* be carried out, up to MaxRetries + 1 times.                             *)
LastRetryNeverHelps ==
    /\ phase \in {"ok", "refused"} => retries < MaxRetries
    /\ executed + stray <= retries + 1

Call == INSTANCE HttpCall
        WITH MaxSends <- MaxRetries + 1,
             phase <- IF phase \in {"running", "served", "waiting"}
                      THEN "sent" ELSE phase

(* However often it is sent, the caller sees one call: a success only if   *)
(* the request was carried out, at most MaxRetries + 1 executions.         *)
ImplementsHttpCall == Call!Spec

(* No call waits for ever, not even for a backend that only fails.         *)
EveryCallEnds ==
    phase = "running" ~> phase \in {"ok", "refused", "failed"}
=============================================================================
