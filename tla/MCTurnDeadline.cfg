SPECIFICATION MCSpec
CONSTANTS
    h = h
    d = d
    None = None
    Holders = {h}
    Drivers = {d}
    MaxEdits = 1
    MaxTroubles = 1
INVARIANT DeadlineIsThisTurns
