SPECIFICATION FairSpec
CONSTANTS
    t1 = t1
    t2 = t2
    a = a
    b = b
    None = None
    Torn = Torn
    Targets = {t1, t2}
    Assignments <- MCAssignments
    MaxEdits = 1
    MaxFaults = 1
CHECK_DEADLOCK FALSE
INVARIANTS
    TypeOK
    OnePodRuns
    TargetsClean
PROPERTIES
    SweepSpares
    CopyDies
    TakesOver
