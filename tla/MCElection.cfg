SPECIFICATION MCSpec
CONSTANTS
    p1 = p1
    p2 = p2
    q1 = q1
    podA = podA
    podB = podB
    Nobody = Nobody
    Procs = {p1, p2, q1}
    Scenarios <- MCScenarios
    Pod <- MCPod
    Pausing = {p1}
    MaxTime = 8
    MaxRv = 4
VIEW MCView
CHECK_DEADLOCK FALSE
INVARIANTS
    TypeOK
    WaitsEndFirst
    StepDownFrees
PROPERTIES
    OneActorAtATime
    StopLeavesNoneBehind
