SPECIFICATION FairSpec
CONSTANTS
    h = h
    d = d
    None = None
    Holders = {h}
    Drivers = {d}
    MaxEdits = 1
    MaxTroubles = 1
INVARIANT TypeOK
PROPERTIES
    DriversLeaveLast
    RebootsInTurn
    HoldStands
    TurnEnds
    CordonEnds
    DriftBoots
