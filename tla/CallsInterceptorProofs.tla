----------------------- MODULE CallsInterceptorProofs -----------------------
(***************************************************************************)
(* For any number of retries: how often a call is carried out, when it may *)
(* be answered, and that it is one call to its caller.                     *)
(***************************************************************************)
EXTENDS CallsInterceptor, TLAPS

(* The present attempt, as long as it may still be carried out.            *)
Open == IF phase = "running" THEN 1 ELSE 0

(* Every attempt is executed, stray, open or lost, and the last one is     *)
(* never open; what is served shows in the number of executions.           *)
CallInv ==
    /\ TypeOK
    /\ phase = "idle" => retries = 0 /\ stray = 0 /\ executed = 0
    /\ phase # "failed" => retries < MaxRetries
    /\ executed + stray + Open <= retries + 1
    /\ phase = "served" => executed > 0

LEMMA CallInit == Init => CallInv
    BY MaxRetriesAssumption DEF Init, CallInv, TypeOK, Open

(* One step for each action of the interceptor and of the backend.         *)
LEMMA CallStep == CallInv /\ [Next]_vars => CallInv'
<1> SUFFICES ASSUME CallInv, [Next]_vars PROVE CallInv'
    OBVIOUS
<1> USE MaxRetriesAssumption DEF CallInv, TypeOK, Open
<1>1. CASE Intercept
    BY <1>1 DEF Intercept
<1>2. CASE Execute
    BY <1>2 DEF Execute
<1>3. CASE ExecuteStray \/ LoseStray
    BY <1>3 DEF ExecuteStray, LoseStray
<1>4. CASE AnswerOk
    BY <1>4 DEF AnswerOk
<1>5. CASE AnswerRefused
    BY <1>5 DEF AnswerRefused, GiveUpAttempt
<1>6. CASE AnswerServerError
    BY <1>6 DEF AnswerServerError, GiveUpAttempt
<1>7. CASE Retry
  <2>1. CASE retries + 1 < MaxRetries
      BY <1>7, <2>1 DEF Retry
  <2>2. CASE ~(retries + 1 < MaxRetries)
      BY <1>7, <2>2 DEF Retry
  <2> QED BY <2>1, <2>2
<1>8. CASE UNCHANGED vars
    BY <1>8 DEF vars
<1> QED
    BY <1>1, <1>2, <1>3, <1>4, <1>5, <1>6, <1>7, <1>8 DEF Next

LEMMA CallAlways == Spec => []CallInv
<1>1. Init => CallInv
    BY CallInit
<1>2. CallInv /\ [Next]_vars => CallInv'
    BY CallStep
<1> QED BY <1>1, <1>2, PTL DEF Spec

(* The counters stay in their bounds, whatever the backend answers.        *)
THEOREM CallTypesHold == Spec => []TypeOK
<1>1. CallInv => TypeOK
    BY DEF CallInv
<1> QED BY <1>1, CallAlways, PTL

(* A call is answered before its last retry, and carried out at most once  *)
(* for each time it is sent.                                               *)
THEOREM LastRetryIsInVain == Spec => []LastRetryNeverHelps
<1>1. CallInv => LastRetryNeverHelps
    BY DEF CallInv, TypeOK, Open, LastRetryNeverHelps
<1> QED BY <1>1, CallAlways, PTL

-----------------------------------------------------------------------------
(* Each step is one of the abstract call, or changes nothing it speaks of. *)
LEMMA StepOfCall ==
    ASSUME CallInv, [Next]_vars
    PROVE  [Call!Next]_(Call!vars)
<1> USE MaxRetriesAssumption
<1>1. CASE Intercept
  <2>1. Call!Send
      BY <1>1 DEF Intercept, Call!Send
  <2> QED BY <2>1 DEF Call!Next
<1>2. CASE Execute
  <2>1. Call!Execute
      BY <1>2 DEF Execute, Call!Execute, CallInv, TypeOK, Open
  <2> QED BY <2>1 DEF Call!Next
<1>3. CASE ExecuteStray
  <2>1. Call!Execute
      BY <1>3 DEF ExecuteStray, Call!Execute, CallInv, TypeOK, Open
  <2> QED BY <2>1 DEF Call!Next
<1>4. CASE AnswerOk
  <2>1. Call!End("ok")
      BY <1>4 DEF AnswerOk, Call!End, CallInv, TypeOK
  <2> QED BY <2>1 DEF Call!Next, Call!Outcome
<1>5. CASE AnswerRefused
  <2>1. Call!End("refused")
      BY <1>5 DEF AnswerRefused, GiveUpAttempt, Call!End
  <2> QED BY <2>1 DEF Call!Next, Call!Outcome
<1>6. CASE Retry /\ phase' = "failed"
  <2>1. Call!End("failed")
      BY <1>6 DEF Retry, Call!End
  <2> QED BY <2>1 DEF Call!Next, Call!Outcome
<1>7. CASE Retry /\ phase' # "failed"
    BY <1>7 DEF Retry, Call!vars
<1>8. CASE AnswerServerError \/ LoseStray \/ UNCHANGED vars
    BY <1>8 DEF AnswerServerError, GiveUpAttempt, LoseStray, vars,
              Call!vars
<1> QED
    BY <1>1, <1>2, <1>3, <1>4, <1>5, <1>6, <1>7, <1>8 DEF Next

(* With its retries, the call implements the abstract one.                 *)
THEOREM CallIsImplemented == Spec => ImplementsHttpCall
<1>1. Init => Call!Init
    BY DEF Init, Call!Init
<1>2. CallInv /\ [Next]_vars => [Call!Next]_(Call!vars)
    BY StepOfCall
<1> QED
    BY <1>1, <1>2, CallAlways, PTL DEF Spec, ImplementsHttpCall, Call!Spec
=============================================================================
