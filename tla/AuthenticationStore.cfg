\* Two users, two protected pages.
SPECIFICATION FairSpec
CONSTANTS
    alice = alice
    bob = bob
    events = events
    Home = Home
    LoginPage = LoginPage
    None = None
    User <- MCUser
    Page <- MCPage
INVARIANTS
    TypeOK
    SessionConsistent
    PendingHasCall
    UserKnownOrAsked
PROPERTIES
    MixedOnlyByLateAnswer
    SessionIsTheOneAsked
    LoginEnds
    UserBecomesKnown
