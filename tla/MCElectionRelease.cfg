SPECIFICATION MCSpec
CONSTANTS
    p1 = p1
    p2 = p2
    q1 = q1
    podA = podA
    podB = podB
    Nobody = Nobody
    Procs = {p1, p2, q1}
    Scenarios <- MCTwoPods
    Pod <- MCPod
    Pausing = {}
    MaxTime = 8
    MaxRv = 4
VIEW MCView
CHECK_DEADLOCK FALSE
INVARIANT WaitsEndBeforeAnyLead
