\* One login, one record, and a websocket that is closed.
SPECIFICATION FairSpec
CONSTANTS
    alice = alice
    bob = bob
    created = created
    removed = removed
    p1 = p1
    Malformed = Malformed
    None = None
    Times <- MCTimes
    Details <- MCDetails
    Partition <- MCPartition
    User <- MCUser
    Allowed <- MCAllowed
    DayLength = 1
    Today = 2
    MaxLog = 1
    MaxSockets = 1
    MaxBatch = 1
    MaxTokens = 0
    MaxFaults = 1
PROPERTIES
    Reconnects
CHECK_DEADLOCK FALSE
