\* The bound of the code.
SPECIFICATION FairSpec
CONSTANTS
    MaxRetries = 20
INVARIANTS
    TypeOK
    LastRetryNeverHelps
PROPERTIES
    ImplementsHttpCall
    EveryCallEnds
\* A call that is over does nothing more.
CHECK_DEADLOCK FALSE
