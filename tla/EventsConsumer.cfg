\* Two partitions, two events a second apart, a fault; no symmetry, for liveness.
SPECIFICATION FairSpec
CONSTANTS
    p1 = p1
    p2 = p2
    d1 = d1
    d2 = d2
    Malformed = Malformed
    Partition <- MCPartition
    Times <- MCTwoTimes
    Details <- MCOneDetail
    DayLength = 2
    Parallelism = 2
    BatchMax = 2
    MaxLog = 2
    MaxFaults = 1
INVARIANTS
    TypeOK
    CommittedEventsHaveRows
    PipelineInv
PROPERTIES
    CommitsNeverRegress
    ImplementsArchive
    EveryEventIsStored
CHECK_DEADLOCK FALSE
