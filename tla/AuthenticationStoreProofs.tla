---------------------- MODULE AuthenticationStoreProofs ----------------------
(***************************************************************************)
(* For any users and pages: what the frontend's store keeps at every       *)
(* moment, and the only ways in which two sessions can mix.                *)
(***************************************************************************)
EXTENDS AuthenticationStore, TLAPS

(* A state of the store by the fields the invariants speak of.             *)
Is(s, token, user, pending) ==
    /\ s \in State
    /\ s.token = token
    /\ s.currentUser = user
    /\ s.loginPending = pending

LEMMA InitialReduced == Is(initialState, None, None, FALSE)
    BY HomeAssumption DEF Is, State, initialState

(* What the reducer makes of a state, for each of the actions.             *)
LEMMA SaveTokenReduced ==
    ASSUME NEW s \in State, NEW t \in User
    PROVE  Is(reducer(s, SaveToken(t)), t, s.currentUser, s.loginPending)
<1>1. reducer(s, SaveToken(t)) = [s EXCEPT !.token = t]
    BY DEF reducer, SaveToken, With
<1> QED BY <1>1 DEF Is, State

LEMMA MeReduced ==
    ASSUME NEW s \in State, NEW u \in User
    PROVE  Is(reducer(s, Me(u)), s.token, u, s.loginPending)
<1>1. reducer(s, Me(u)) = [s EXCEPT !.currentUser = u]
    BY DEF reducer, Me, With
<1> QED BY <1>1 DEF Is, State

LEMMA LoginReduced ==
    ASSUME NEW s \in State, NEW u
    PROVE  Is(reducer(s, Login(u)), s.token, s.currentUser, TRUE)
<1>1. reducer(s, Login(u)) =
         [s EXCEPT !.loginPending = TRUE, !.loginError = FALSE]
    BY DEF reducer, Login, With
<1> QED BY <1>1 DEF Is, State

LEMMA LoginSuccessReduced ==
    ASSUME NEW s \in State, NEW u \in User
    PROVE  Is(reducer(s, LoginSuccess(u)), s.token, u, FALSE)
<1>1. reducer(s, LoginSuccess(u)) =
         [LoginIsOver(s, FALSE) EXCEPT !.currentUser = u]
    BY DEF reducer, LoginSuccess, With
<1> QED BY <1>1 DEF Is, State, LoginIsOver

LEMMA LoginFailureReduced ==
    ASSUME NEW s \in State
    PROVE  Is(reducer(s, LoginFailure), s.token, s.currentUser, FALSE)
<1>1. reducer(s, LoginFailure) = LoginIsOver(s, TRUE)
    BY DEF reducer, LoginFailure, Plain
<1> QED BY <1>1 DEF Is, State, LoginIsOver

LEMMA LoginRedirectReduced ==
    ASSUME NEW s \in State, NEW page \in Page
    PROVE  Is(reducer(s, LoginRedirect(page)),
              s.token, s.currentUser, s.loginPending)
<1>1. reducer(s, LoginRedirect(page)) =
         [s EXCEPT !.redirectPageAfterLogin = page]
    BY DEF reducer, LoginRedirect, With
<1> QED BY <1>1 DEF Is, State

LEMMA LogoutReduced ==
    ASSUME NEW s
    PROVE  Is(reducer(s, Logout), None, None, FALSE)
<1>1. reducer(s, Logout) = initialState
    BY DEF reducer, Logout, Plain, LogoutForgets
<1> QED BY <1>1, InitialReduced

(* The reducer maps states to states, whichever of the actions it is given. *)
THEOREM ReducerKeepsState ==
    ASSUME NEW s \in State, NEW action \in All
    PROVE  reducer(s, action) \in State
<1> USE DEF Is
<1>1. reducer(s, LoadToken) = s
    BY DEF reducer, Plain, LoadToken
<1>2. CASE action = LoadToken
    BY <1>1, <1>2
<1>6. CASE action = LoginFailure
    BY <1>6, LoginFailureReduced
<1>7. CASE action = Logout
    BY <1>7, LogoutReduced
<1>3. ASSUME NEW u \in User,
             action = SaveToken(u) \/ action = Me(u)
      PROVE  reducer(s, action) \in State
  <2>1. CASE action = SaveToken(u)
      BY <2>1, SaveTokenReduced
  <2>2. CASE action = Me(u)
      BY <2>2, MeReduced
  <2> QED BY <1>3, <2>1, <2>2
<1>4. ASSUME NEW u \in User,
             action = Login(u) \/ action = LoginSuccess(u)
      PROVE  reducer(s, action) \in State
  <2>1. CASE action = Login(u)
      BY <2>1, LoginReduced
  <2>2. CASE action = LoginSuccess(u)
      BY <2>2, LoginSuccessReduced
  <2> QED BY <1>4, <2>1, <2>2
<1>5. CASE \E p \in Page : action = LoginRedirect(p)
    BY <1>5, LoginRedirectReduced
<1> QED BY <1>2, <1>3, <1>4, <1>5, <1>6, <1>7 DEF All

(* A page opens with a state of the right type, and neither the token nor  *)
(* the user nor the pending login depend on it.                            *)
LEMMA GuardKeepsSession ==
    ASSUME NEW s \in State, NEW page \in Route
    PROVE  /\ Is(checkLogin(s, page), s.token, s.currentUser, s.loginPending)
           /\ Shown(s, page) \in Route
           /\ Shown(s, page) # LoginPage => s.token # None
<1>1. page # LoginPage => page \in Page
    BY DEF Route
<1>2. Is(checkLogin(s, page), s.token, s.currentUser, s.loginPending)
    BY <1>1, LoginRedirectReduced DEF checkLogin, Is
<1> QED BY <1>2 DEF Shown, isLoggedIn, Route

(* The state after LOAD_TOKEN: the token, and nobody known yet.            *)
LEMMA LoadedToken ==
    ASSUME NEW t \in User \cup {None}
    PROVE  Is(loadToken(t), t, None, FALSE)
    BY InitialReduced, SaveTokenReduced DEF loadToken, Is

-----------------------------------------------------------------------------
(* The call of login() is for the one who asked at the form, unless LOGOUT *)
(* has overtaken it.                                                       *)
CallIsTheOneAsked ==
    /\ status.loginPending => asked # None
    /\ loginCall # None /\ asked # loginCall => overtaken

(* The types and the invariants rest on one another: that a session is     *)
(* consistent needs the types of the calls.  That the answer of login() is *)
(* for the one who asked needs that a form which can be sent waits for no  *)
(* call, but one that a LOGOUT has overtaken.                              *)
SessionInv ==
    /\ TypeOK
    /\ SessionConsistent
    /\ PendingHasCall
    /\ UserKnownOrAsked
    /\ CallIsTheOneAsked
    /\ loginCall # None => status.loginPending \/ overtaken

(* A first visit, with or without a token, starts in the invariant.        *)
LEMMA SessionInit == Init => SessionInv
<1> SUFFICES ASSUME Init PROVE SessionInv
    OBVIOUS
<1>1. PICK page \in Route :
         /\ status = checkLogin(loadToken(stored), page)
         /\ route = Shown(loadToken(stored), page)
    BY DEF Init
<1>2. /\ stored \in User \cup {None}
      /\ meCall = stored /\ loginCall = None
      /\ asked = None /\ overtaken = FALSE
    BY DEF Init
<1>3. Is(loadToken(stored), stored, None, FALSE)
    BY <1>2, LoadedToken
<1>4. /\ status \in State /\ status.token = stored
      /\ status.loginPending = FALSE
      /\ route \in Route /\ (route # LoginPage => stored # None)
    BY <1>1, <1>3, GuardKeepsSession DEF Is
<1> QED
    BY <1>2, <1>4
       DEF SessionInv, TypeOK, SessionConsistent, PendingHasCall,
           UserKnownOrAsked, CallIsTheOneAsked, LoggedIn, isLoggedIn

(* The end of a session, by the user or by an error of me().               *)
LEMMA LoggedOutStep ==
    ASSUME SessionInv, LoggedOut, meCall' \in User \cup {None}
    PROVE  SessionInv'
<1>1. Is(status', None, None, FALSE)
    BY LogoutReduced DEF LoggedOut
<1> QED
    BY <1>1
       DEF LoggedOut, SessionInv, TypeOK, SessionConsistent, PendingHasCall,
           UserKnownOrAsked, CallIsTheOneAsked, LoggedIn, isLoggedIn, Route,
           Is

(* A reload and a navigation change no token.                              *)
LEMMA ReloadStep ==
    ASSUME SessionInv, NEW page \in Route, Reload(page)
    PROVE  /\ SessionInv'
           /\ status'.token = status.token /\ status'.currentUser = None
<1>1. stored \in User \cup {None} /\ stored = status.token
    BY DEF SessionInv, TypeOK, SessionConsistent
<1>2. Is(loadToken(stored), stored, None, FALSE)
    BY <1>1, LoadedToken
<1>3. /\ status' \in State /\ status'.token = stored
      /\ status'.loginPending = FALSE /\ status'.currentUser = None
      /\ route' \in Route /\ (route' # LoginPage => stored # None)
    BY <1>2, GuardKeepsSession DEF Reload, Is
<1> QED
    BY <1>1, <1>3
       DEF Reload, SessionInv, TypeOK, SessionConsistent, PendingHasCall,
           UserKnownOrAsked, CallIsTheOneAsked, LoggedIn, isLoggedIn

LEMMA NavigateStep ==
    ASSUME SessionInv, NEW page \in Page, Navigate(page)
    PROVE  /\ SessionInv'
           /\ status'.token = status.token
           /\ status'.currentUser = status.currentUser
<1>1. status \in State /\ page \in Route
    BY DEF SessionInv, TypeOK, Route
<1>2. /\ status' \in State /\ status'.token = status.token
      /\ status'.loginPending = status.loginPending
      /\ status'.currentUser = status.currentUser
      /\ route' \in Route /\ (route' # LoginPage => status.token # None)
    BY <1>1, GuardKeepsSession DEF Navigate, Is
<1> QED
    BY <1>2
       DEF Navigate, SessionInv, TypeOK, SessionConsistent, PendingHasCall,
           UserKnownOrAsked, CallIsTheOneAsked, LoggedIn, isLoggedIn

(* The state after a successful login.                                     *)
LEMMA LoginSucceedsStep ==
    ASSUME SessionInv, LoginSucceeds
    PROVE  /\ SessionInv'
           /\ status'.token = loginCall /\ status'.currentUser = loginCall
<1>1. status \in State /\ loginCall \in User /\ loginCall # None
    BY NoneAssumption DEF SessionInv, TypeOK, LoginSucceeds
<1>2. Is(reducer(status, LoginSuccess(loginCall)),
         status.token, loginCall, FALSE)
    BY <1>1, LoginSuccessReduced
<1>3. Is(status', loginCall, loginCall, FALSE)
    BY <1>1, <1>2, SaveTokenReduced DEF LoginSucceeds, Is
<1>4. meCall' \in User \cup {None} /\ route' \in Page
    BY <1>1, <1>3
       DEF LoginSucceeds, me, Authorization, SessionInv, TypeOK, State, Is,
           getRedirectPathAfterLogin
<1> QED
    BY <1>1, <1>3, <1>4
       DEF LoginSucceeds, SessionInv, TypeOK, SessionConsistent, Route, Is,
           PendingHasCall, UserKnownOrAsked, CallIsTheOneAsked, LoggedIn,
           isLoggedIn

(* Every action of the page, of a user or of an answer keeps it.           *)
LEMMA SessionStep == SessionInv /\ [Next]_vars => SessionInv'
<1> SUFFICES ASSUME SessionInv, [Next]_vars PROVE SessionInv'
    OBVIOUS
<1> USE NoneAssumption DEF SessionInv, TypeOK, SessionConsistent, LoggedIn,
        PendingHasCall, UserKnownOrAsked, CallIsTheOneAsked, isLoggedIn
<1>1. ASSUME NEW page \in Route, Reload(page)
      PROVE  SessionInv'
    BY <1>1, ReloadStep
<1>2. ASSUME NEW page \in Page, Navigate(page)
      PROVE  SessionInv'
    BY <1>2, NavigateStep
<1>3. CASE OpenLogin
    BY <1>3 DEF OpenLogin, Route
<1>4. ASSUME NEW u \in User, SubmitLogin(u)
      PROVE  SessionInv'
  <2>1. Is(status', status.token, status.currentUser, TRUE)
      BY <1>4, LoginReduced DEF SubmitLogin
  <2>2. ~status.loginPending
      BY <1>4 DEF SubmitLogin, isLoginPending
  <2> QED BY <1>4, <2>1, <2>2 DEF SubmitLogin, login, Is
<1>5. CASE LoginSucceeds
    BY <1>5, LoginSucceedsStep
<1>6. CASE LoginFails
  <2>1. Is(status', status.token, status.currentUser, FALSE)
      BY <1>6, LoginFailureReduced DEF LoginFails
  <2> QED BY <1>6, <2>1 DEF LoginFails, Is
<1>7. CASE MeSucceeds
  <2>1. Is(status', status.token, meCall, status.loginPending)
      BY <1>7, MeReduced DEF MeSucceeds
  <2> QED BY <1>7, <2>1 DEF MeSucceeds, Is
<1>8. CASE MeFails
    BY <1>8, LoggedOutStep DEF MeFails
<1>9. CASE ClickLogout
    BY <1>9, LoggedOutStep DEF ClickLogout
<1>10. CASE UNCHANGED vars
    BY <1>10 DEF vars
<1> QED
    BY <1>1, <1>2, <1>3, <1>4, <1>5, <1>6, <1>7, <1>8, <1>9, <1>10 DEF Next

(* The invariant holds in every state of every behaviour.                  *)
LEMMA SessionAlways == Spec => []SessionInv
<1>1. Init => SessionInv
    BY SessionInit
<1>2. SessionInv /\ [Next]_vars => SessionInv'
    BY SessionStep
<1> QED BY <1>1, <1>2, PTL DEF Spec

(* The store, the local storage, the route and the calls under way have    *)
(* their types.                                                            *)
THEOREM StoreTypesHold == Spec => []TypeOK
<1>1. SessionInv => TypeOK
    BY DEF SessionInv
<1> QED BY <1>1, SessionAlways, PTL

(* The store and the local storage hold the same token, and no protected   *)
(* page is shown without one, whatever answers arrive and whenever.        *)
THEOREM SessionsAreConsistent == Spec => []SessionConsistent
<1>1. SessionInv => SessionConsistent
    BY DEF SessionInv
<1> QED BY <1>1, SessionAlways, PTL

(* A login form that is disabled waits for a call: a LOGIN which exhaustMap *)
(* drops leaves behind the answer of an earlier one.                       *)
THEOREM FormsAreEnabledAgain == Spec => []PendingHasCall
<1>1. SessionInv => PendingHasCall
    BY DEF SessionInv
<1> QED BY <1>1, SessionAlways, PTL

(* With a token, the user is known or a call of me() is under way.         *)
THEOREM UsersAreKnownOrAsked == Spec => []UserKnownOrAsked
<1>1. SessionInv => UserKnownOrAsked
    BY DEF SessionInv
<1> QED BY <1>1, SessionAlways, PTL

(* A single step mixes two sessions only if it is the answer of me() for   *)
(* a token that is not the present one, and starts a session of another    *)
(* than the one who asked only after a LOGOUT in between.                  *)
LEMMA MixingStep ==
    SessionInv /\ [Next]_vars =>
       /\ (Matching /\ ~Matching') => meCall \notin {None, status.token}
       /\ status'.token \notin {status.token, None} =>
             status'.token = asked \/ overtaken
<1> SUFFICES ASSUME SessionInv, [Next]_vars
             PROVE  /\ Matching' \/ ~Matching
                             \/ meCall \notin {None, status.token}
                    /\ \/ status'.token \in {status.token, None}
                       \/ status'.token = asked \/ overtaken
    OBVIOUS
<1> USE NoneAssumption DEF Matching
<1>0. status \in State
    BY DEF SessionInv, TypeOK
<1>1. ASSUME NEW page \in Route, Reload(page)
      PROVE  Matching' /\ status'.token = status.token
    BY <1>1, ReloadStep
<1>2. ASSUME NEW page \in Page, Navigate(page)
      PROVE  (Matching' \/ ~Matching) /\ status'.token = status.token
    BY <1>2, NavigateStep
<1>3. CASE OpenLogin \/ UNCHANGED vars
    BY <1>3 DEF OpenLogin, vars
<1>4. ASSUME NEW u \in User, SubmitLogin(u)
      PROVE  (Matching' \/ ~Matching) /\ status'.token = status.token
    BY <1>0, <1>4, LoginReduced DEF SubmitLogin, Is
<1>5. CASE LoginSucceeds
  <2>1. asked = loginCall \/ overtaken
      BY <1>5 DEF LoginSucceeds, SessionInv, CallIsTheOneAsked
  <2> QED BY <1>5, <2>1, LoginSucceedsStep
<1>6. CASE LoginFails
    BY <1>0, <1>6, LoginFailureReduced DEF LoginFails, Is
<1>7. CASE MeSucceeds
    BY <1>0, <1>7, MeReduced DEF MeSucceeds, SessionInv, TypeOK, Is
<1>8. CASE MeFails \/ ClickLogout
  <2>1. Is(status', None, None, FALSE)
      BY <1>8, LogoutReduced DEF MeFails, ClickLogout, LoggedOut
  <2> QED BY <2>1 DEF Is
<1> QED
    BY <1>1, <1>2, <1>3, <1>4, <1>5, <1>6, <1>7, <1>8 DEF Next

(* Nothing but such a late answer makes the user shown differ from the     *)
(* owner of the token, in any behaviour of the store.                      *)
THEOREM OnlyLateAnswersMix == Spec => MixedOnlyByLateAnswer
<1> DEFINE Late ==
      (Matching /\ ~Matching') => meCall \notin {None, status.token}
<1>1. SessionInv /\ [Next]_vars => [Late]_vars
    BY MixingStep
<1> QED BY <1>1, SessionAlways, PTL DEF Spec, MixedOnlyByLateAnswer

(* A session that begins is of the one who logged in last at the form,     *)
(* unless a LOGOUT has overtaken the call.                                 *)
THEOREM SessionsAreAskedFor == Spec => SessionIsTheOneAsked
<1> DEFINE Asked ==
      status'.token \notin {status.token, None} =>
         status'.token = asked \/ overtaken
<1>1. SessionInv /\ [Next]_vars => [Asked]_vars
    BY MixingStep
<1> QED BY <1>1, SessionAlways, PTL DEF Spec, SessionIsTheOneAsked
=============================================================================
