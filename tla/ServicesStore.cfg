\* Two clicks, and a change of others or a lost answer.
SPECIFICATION FairSpec
CONSTANTS
    web = web
    grid = grid
    small = small
    broken = broken
    None = None
    Name <- MCName
    Scale <- MCScale
    Invalid <- MCInvalid
    Confusing <- MCConfusing
    MaxClicks = 2
    MaxTroubles = 1
INVARIANTS
    TypeOK
    DeletionsShow
PROPERTIES
    NoUpdateIsLost
    TableNeverGoesBack
    TableCatchesUp
