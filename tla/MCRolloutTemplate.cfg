SPECIFICATION Spec
CONSTANTS
    m1 = m1
    m2 = m2
    r1 = r1
    r2 = r2
    default = default
    Machines = {m1, m2}
    Requests = {r1, r2}
    Budgets = {default}
    For <- MCFor
    Rank <- MCRank
    Selects <- MCSelects
    MaxUnavailable <- MCMaxUnavailable
    MaxVersion <- MCMaxVersion
    Leaders = {}
    Limit = 1
    Legacy = {}
    Failing = {}
    Reports = {"Ready"}
    V1 = 4
    V2 = 1
    MaxClusterVersion = 4
    MaxLate = 0
    MaxTick = 1
PROPERTY HeldEntriesStay
