\* First start while the replica set still elects its primary.
SPECIFICATION FairSpec
CONSTANTS
    admin = admin
    bob = bob
    c1 = c1
    c2 = c2
    b1 = b1
    b2 = b2
    USERS_READ = USERS_READ
    USERS_WRITE = USERS_WRITE
    NoRequest = NoRequest
    DEFAULT_USER = admin
    Username <- MCUsername
    Permission <- MCPermission
    Client <- MCOneClient
    Backend <- MCTwoBackends
    Lag = FALSE
    MaxStepDowns = 0
    MaxRestarts = 0
PROPERTIES
    DeployedWithoutIntervention
