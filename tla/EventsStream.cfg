\* Two records, two websockets at a time, one user who may see events.
SPECIFICATION FairSpec
CONSTANTS
    alice = alice
    bob = bob
    created = created
    removed = removed
    p1 = p1
    Malformed = Malformed
    None = None
    Times <- MCTimes
    Details <- MCDetails
    Partition <- MCPartition
    User <- MCUser
    Allowed <- MCAllowed
    DayLength = 1
    Today = 2
    MaxLog = 2
    MaxSockets = 2
    MaxBatch = 2
    MaxTokens = 2
    MaxFaults = 1
INVARIANTS
    TypeOK
    ShownWasPublished
    SilentOnlyByCleanClose
PROPERTIES
    ImplementsView
    EventsAppear
\* When logs are full and everyone is logged out, nothing is left to do.
CHECK_DEADLOCK FALSE
