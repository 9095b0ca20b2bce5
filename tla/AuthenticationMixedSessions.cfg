\* The answer of an old session.
SPECIFICATION Spec
CONSTANTS
    alice = alice
    bob = bob
    events = events
    Home = Home
    LoginPage = LoginPage
    None = None
    User <- MCUser
    Page <- MCPage
INVARIANTS
    CurrentUserIsTokens
