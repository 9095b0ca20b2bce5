\* Two requests, two backends that start together, a secondary that lags behind,
\* a primary that steps down.
SPECIFICATION MCSpec
CONSTANTS
    admin = admin
    bob = bob
    c1 = c1
    c2 = c2
    b1 = b1
    b2 = b2
    USERS_READ = USERS_READ
    USERS_WRITE = USERS_WRITE
    NoRequest = NoRequest
    DEFAULT_USER = admin
    Username <- MCUsername
    Permission <- MCPermission
    Client <- MCTwoClients
    Backend <- MCTwoBackends
    Lag = TRUE
    MaxStepDowns = 1
    MaxRestarts = 1
INVARIANTS
    TypeOK
PROPERTIES
    LastWriterLostOnlyInRace
    FirstUserAppears
