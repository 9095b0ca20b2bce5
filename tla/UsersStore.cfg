\* An administrator, another user, one change of each kind of people.
SPECIFICATION FairSpec
CONSTANTS
    alice = alice
    bob = bob
    USERS_READ = USERS_READ
    USERS_WRITE = USERS_WRITE
    None = None
    Self = alice
    Username <- MCUsername
    Permission <- MCPermission
    MaxClicks = 2
    MaxOthers = 1
INVARIANTS
    TypeOK
    WaitersHaveCalls
    AsksForWhatItShows
PROPERTIES
    TableKeepsUp
