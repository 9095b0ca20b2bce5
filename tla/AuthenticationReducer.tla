----------------------- MODULE AuthenticationReducer -----------------------
(***************************************************************************)
(* The authentication part of the frontend's store as a pure function: its *)
(* states, the actions that may be dispatched, the reducer, the selectors. *)
(* A token is written as the user it was given to.                         *)
(***************************************************************************)
CONSTANTS
    User,   \* users who can log in, and their tokens
    Page,   \* pages behind AuthenticationGuard
    Home,   \* "/", where a login leads if no page was asked for
    None    \* null; no call under way

ASSUME NoneAssumption == None \notin User
ASSUME HomeAssumption == Home \in Page

State == [redirectPageAfterLogin : Page,
          loginPending : BOOLEAN,
          loginError : BOOLEAN,
          token : User \cup {None},
          currentUser : User \cup {None}]

initialState == [redirectPageAfterLogin |-> Home,
                 loginPending |-> FALSE,
                 loginError |-> FALSE,
                 token |-> None,
                 currentUser |-> None]

-----------------------------------------------------------------------------
Plain(type) == [type |-> type]
With(type, payload) == [type |-> type, payload |-> payload]

LoadToken == Plain("LOAD_TOKEN")
SaveToken(token) == With("SAVE_TOKEN", token)
Me(user) == With("ME", user)
Login(credentials) == With("LOGIN", credentials)
LoginSuccess(token) == With("LOGIN_SUCCESS", token)
LoginFailure == Plain("LOGIN_FAILURE")
LoginRedirect(page) == With("LOGIN_REDIRECT", page)
Logout == Plain("LOGOUT")

All == {LoadToken, LoginFailure, Logout}
    \cup {SaveToken(u) : u \in User} \cup {Me(u) : u \in User}
    \cup {Login(u) : u \in User} \cup {LoginSuccess(u) : u \in User}
    \cup {LoginRedirect(p) : p \in Page}

-----------------------------------------------------------------------------
(* A mistake to catch: LOGIN_FAILURE does not enable the form again.       *)
LoginStaysPending(s, error) == [s EXCEPT !.loginError = error]

LoginIsOver(s, error) ==
    [s EXCEPT !.loginPending = FALSE, !.loginError = error]

(* A mistake to catch: LOGOUT forgets the token and keeps the user.        *)
LogoutKeepsUser(s) == [s EXCEPT !.token = None]

LogoutForgets(s) == initialState

reducer(s, action) ==
    CASE action.type = "SAVE_TOKEN"     -> [s EXCEPT !.token = action.payload]
      [] action.type = "ME"             ->
            [s EXCEPT !.currentUser = action.payload]
      [] action.type = "LOGIN"          ->
            [s EXCEPT !.loginPending = TRUE, !.loginError = FALSE]
      [] action.type = "LOGIN_SUCCESS"  ->
            [LoginIsOver(s, FALSE) EXCEPT !.currentUser = action.payload]
      [] action.type = "LOGIN_FAILURE"  -> LoginIsOver(s, TRUE)
      [] action.type = "LOGIN_REDIRECT" ->
            [s EXCEPT !.redirectPageAfterLogin = action.payload]
      [] action.type = "LOGOUT"         -> LogoutForgets(s)
      [] OTHER                          -> s

isLoggedIn(s) == s.token # None
isLoginPending(s) == s.loginPending
getRedirectPathAfterLogin(s) == s.redirectPageAfterLogin
=============================================================================
