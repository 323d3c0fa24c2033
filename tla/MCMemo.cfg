SPECIFICATION FairSpec
CONSTANTS
    j1 = j1
    p = p
    w = w
    None = None
    Keys = {j1}
    Pass = p
    Worker = w
    MaxWrites = 3
    MaxFaults = 1
INVARIANTS
    TypeOK
    OwnWritesStand
    ListsOwnWrites
PROPERTY Settles
