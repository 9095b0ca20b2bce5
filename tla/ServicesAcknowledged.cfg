\* No name confuses createService: the answers that are dropped are enough.
SPECIFICATION Spec
CONSTANTS
    web = web
    grid = grid
    small = small
    broken = broken
    None = None
    Name <- MCName
    Scale <- MCScale
    Invalid <- MCInvalid
    Confusing = {}
    MaxClicks = 1
    MaxTroubles = 0
INVARIANTS
    AcknowledgedIsDone
