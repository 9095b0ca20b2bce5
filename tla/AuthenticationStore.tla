------------------------ MODULE AuthenticationStore ------------------------
(***************************************************************************)
(* The authentication part of the frontend in one browser tab: the store,  *)
(* the effects with their calls to the backend, the token in the local     *)
(* storage, the guard of the protected pages and the login form.           *)
(*                                                                         *)
(* ngrx reduces one action at a time and then lets the effects see it; what *)
(* an effect dispatches at once (SAVE_TOKEN after LOGIN_SUCCESS) comes     *)
(* before anything else: a step of this module is one such chain.  What    *)
(* comes back later, the answer of a call, is a step of its own and finds  *)
(* the store as it is by then.                                             *)
(***************************************************************************)
EXTENDS AuthenticationReducer

CONSTANT LoginPage  \* "/login"

ASSUME LoginPageAssumption == LoginPage \notin Page

VARIABLES
    status,     \* the state the reducer keeps
    stored,     \* the token in the local storage
    route,      \* the page shown
    meCall,     \* the token a call of me() was sent with
    loginCall,  \* the user whose credentials a call of login() was sent with
    asked,      \* who logged in last at the form, since the last LOGOUT
    overtaken   \* a LOGOUT has overtaken the call of login() under way

vars == <<status, stored, route, meCall, loginCall, asked, overtaken>>

Route == Page \cup {LoginPage}

TypeOK ==
    /\ status \in State
    /\ stored \in User \cup {None}
    /\ route \in Route
    /\ meCall \in User \cup {None}
    /\ loginCall \in User \cup {None}
    /\ asked \in User \cup {None}
    /\ overtaken \in BOOLEAN

LoggedIn == isLoggedIn(status)

-----------------------------------------------------------------------------
(* A mistake to catch: the guard protects the login page, too.             *)
checkLoginEverywhere(s, page) ==
    IF isLoggedIn(s) THEN s ELSE reducer(s, LoginRedirect(page))

(* AuthenticationGuard: with a token the page, else LOGIN_REDIRECT.        *)
checkLogin(s, page) ==
    IF isLoggedIn(s) \/ page = LoginPage THEN s
    ELSE reducer(s, LoginRedirect(page))

Shown(s, page) == IF isLoggedIn(s) THEN page ELSE LoginPage

(* The header of a call, from the token of the store: none without one.    *)
Authorization(s) == s.token

(* me$ and login$: exhaustMap ignores an action while a call is under way. *)
me(s) == meCall' = IF meCall = None THEN Authorization(s) ELSE meCall
login(u) == loginCall' = IF loginCall = None THEN u ELSE loginCall

(* loadToken$ on LOAD_TOKEN: SAVE_TOKEN if the local storage has one.      *)
loadToken(t) ==
    IF t = None THEN initialState ELSE reducer(initialState, SaveToken(t))

(* A first visit, or a return with a token of an earlier one: the app      *)
(* dispatches LOAD_TOKEN, then the router opens a page.                    *)
Init ==
    /\ stored \in User \cup {None}
    /\ \E page \in Route :
          /\ status = checkLogin(loadToken(stored), page)
          /\ route = Shown(loadToken(stored), page)
    /\ meCall = stored
    /\ loginCall = None
    /\ asked = None
    /\ overtaken = FALSE

(* A mistake to catch: a token that is loaded asks nobody whose it is.     *)
ReloadWithoutMe(page) ==
    /\ status' = checkLogin(loadToken(stored), page)
    /\ route' = Shown(loadToken(stored), page)
    /\ meCall' = None
    /\ loginCall' = None
    /\ asked' = None
    /\ overtaken' = FALSE
    /\ UNCHANGED stored

(* The tab is reloaded at a page: calls under way are gone, the store is   *)
(* new, the local storage is not.                                          *)
Reload(page) ==
    /\ status' = checkLogin(loadToken(stored), page)
    /\ route' = Shown(loadToken(stored), page)
    /\ meCall' = stored
    /\ loginCall' = None
    /\ asked' = None
    /\ overtaken' = FALSE
    /\ UNCHANGED stored

Navigate(page) ==
    /\ status' = checkLogin(status, page)
    /\ route' = Shown(status, page)
    /\ UNCHANGED <<stored, meCall, loginCall, asked, overtaken>>

(* The login page has no guard.                                            *)
OpenLogin ==
    /\ route' = LoginPage
    /\ UNCHANGED <<status, stored, meCall, loginCall, asked, overtaken>>

(* A mistake to catch: the form can be sent while a login is pending.      *)
SubmitLoginAgain(u) ==
    /\ route = LoginPage
    /\ status' = reducer(status, Login(u))
    /\ login(u)
    /\ asked' = u
    /\ UNCHANGED <<stored, route, meCall, overtaken>>

(* The form is disabled while a login is pending.                          *)
SubmitLogin(u) ==
    /\ route = LoginPage
    /\ ~isLoginPending(status)
    /\ status' = reducer(status, Login(u))
    /\ login(u)
    /\ asked' = u
    /\ UNCHANGED <<stored, route, meCall, overtaken>>

(* LOGIN_SUCCESS, then SAVE_TOKEN, which the effects store and ask about;  *)
(* last the router follows the redirection, with the token in the store.   *)
LoginSucceeds ==
    /\ loginCall # None
    /\ status' = reducer(reducer(status, LoginSuccess(loginCall)),
                         SaveToken(loginCall))
    /\ stored' = loginCall
    /\ me(status')
    /\ route' = getRedirectPathAfterLogin(status)
    /\ loginCall' = None
    /\ overtaken' = FALSE
    /\ UNCHANGED asked

LoginFails ==
    /\ loginCall # None
    /\ status' = reducer(status, LoginFailure)
    /\ loginCall' = None
    /\ overtaken' = FALSE
    /\ UNCHANGED <<stored, route, meCall, asked>>

(* A mistake to catch: LOGOUT leaves the token in the local storage.       *)
LoggedOutButStored ==
    /\ status' = reducer(status, Logout)
    /\ route' = LoginPage
    /\ asked' = None
    /\ overtaken' = (loginCall # None)
    /\ UNCHANGED <<stored, loginCall>>

(* LOGOUT, with removeToken$ and redirectToLogin$.                         *)
LoggedOut ==
    /\ status' = reducer(status, Logout)
    /\ stored' = None
    /\ route' = LoginPage
    /\ asked' = None
    /\ overtaken' = (loginCall # None)
    /\ UNCHANGED loginCall

(* The answer of me(): the user of the token the call was sent with.       *)
MeSucceeds ==
    /\ meCall # None
    /\ status' = reducer(status, Me(meCall))
    /\ meCall' = None
    /\ UNCHANGED <<stored, route, loginCall, asked, overtaken>>

(* A mistake to catch: the error is dropped.                               *)
MeFailsSilently ==
    /\ meCall # None
    /\ meCall' = None
    /\ UNCHANGED <<status, stored, route, loginCall, asked, overtaken>>

(* Any error of the call, after its retries, logs the user out.            *)
MeFails ==
    /\ meCall # None
    /\ meCall' = None
    /\ LoggedOut

(* The navigation bar, with its button, is there for who is logged in.     *)
ClickLogout ==
    /\ LoggedIn
    /\ LoggedOut
    /\ UNCHANGED meCall

-----------------------------------------------------------------------------
Next ==
    \/ \E page \in Route : Reload(page)
    \/ \E page \in Page : Navigate(page)
    \/ OpenLogin
    \/ \E u \in User : SubmitLogin(u)
    \/ LoginSucceeds
    \/ LoginFails
    \/ MeSucceeds
    \/ MeFails
    \/ ClickLogout

(* Every call is answered, if only by an error after the last retry,       *)
(* unless the page goes away first; the people do as they like.            *)
Fairness ==
    /\ WF_vars(LoginSucceeds \/ LoginFails)
    /\ WF_vars(MeSucceeds \/ MeFails)

Spec == Init /\ [][Next]_vars
FairSpec == Spec /\ Fairness

-----------------------------------------------------------------------------
(* The token lives in two places that different effects write; they agree, *)
(* and no protected page is shown without a token, even when LOGOUT comes  *)
(* from a failed call while the user is somewhere else.                    *)
SessionConsistent ==
    /\ stored = status.token
    /\ route # LoginPage => LoggedIn

(* The login form is disabled only while a call will enable it again: no   *)
(* LOGIN that exhaustMap drops leaves it pending for ever.                 *)
PendingHasCall == status.loginPending => loginCall # None

(* Who is logged in is known, or is being asked: no SAVE_TOKEN that        *)
(* exhaustMap drops leaves the application without a user.                 *)
UserKnownOrAsked ==
    (LoggedIn /\ status.currentUser = None) => meCall # None

Matching == status.currentUser \in {None, status.token}

(* The user shown is that of the token, until an answer arrives for        *)
(* another token than the present one: nothing else can mix two sessions.  *)
MixedOnlyByLateAnswer ==
    [][(Matching /\ ~Matching') => meCall \notin {None, status.token}]_vars

(* A session that begins is of the user who logged in last at the form,    *)
(* unless a LOGOUT has overtaken the answer of an earlier login(): that    *)
(* answer is not cancelled, and starts a session nobody waits for.         *)
SessionIsTheOneAsked ==
    [][status'.token \notin {status.token, None} =>
          status'.token = asked \/ overtaken]_vars

(* A login the user waits for comes to an end, and so does the question    *)
(* who he is.                                                              *)
LoginEnds == status.loginPending ~> ~status.loginPending
UserBecomesKnown == LoggedIn ~> (~LoggedIn \/ status.currentUser # None)

(* authentication.actions.ts:30 says of ME "got the information about the  *)
(* current user": the user in the store is the owner of the token in the   *)
(* store.  The answer may be that of a session that is over.               *)
CurrentUserIsTokens == Matching
=============================================================================
