\* Two different events of one second.
SPECIFICATION Spec
CONSTANTS
    p1 = p1
    p2 = p2
    d1 = d1
    d2 = d2
    Malformed = Malformed
    Partition <- MCPartition
    Times <- MCOneTime
    Details <- MCTwoDetails
    DayLength = 2
    Parallelism = 2
    BatchMax = 2
    MaxLog = 2
    MaxFaults = 0
INVARIANTS
    CommittedEventsAreKept
CHECK_DEADLOCK FALSE
