SPECIFICATION MCSpec
CONSTANTS
    m1 = m1
    m2 = m2
    m3 = m3
    r1 = r1
    r2 = r2
    r3 = r3
    default = default
    Machines = {m1, m2, m3}
    Requests = {r1, r2, r3}
    rack = rack
    Budgets = {default, rack}
    For <- MCFor
    Rank <- MCRank
    Selects <- MCSelects
    MaxUnavailable <- MCMaxUnavailable
    MaxVersion <- MCMaxVersion
    Leaders = {m1, m2}
    Limit = 2
    Legacy = {m3}
    Failing = {m3}
    Reports = {"Downloading"}
    V1 = 1
    V3 = 2
    MaxClusterVersion = 3
    MaxLate = 0
    MaxTick = 2
INVARIANTS
    TypeOK
    OneLeaderTurn
    DecisionIsTheWalk
    CountInv
PROPERTY NewTurnsCountEveryoneOut
