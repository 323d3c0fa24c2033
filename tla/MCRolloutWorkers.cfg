SPECIFICATION Spec
CONSTANTS
    m1 = m1
    m2 = m2
    r1 = r1
    r2 = r2
    default = default
    Machines = {m1, m2}
    Requests = {r1, r2}
    Budgets = {default}
    For <- MCFor
    Rank <- MCRank
    Selects <- MCSelects
    MaxUnavailable <- MCMaxUnavailable
    MaxVersion <- MCMaxVersion
    Leaders = {}
    Limit = 1
    Legacy = {}
    Failing = {}
    Reports = {"Ready", "Updating"}
    V1 = 3
    V2 = 2
    MaxClusterVersion = 3
    MaxLate = 1
    MaxTick = 1
INVARIANTS
    GrantsCovered
    BudgetKept
    LedgerInv
    FitInv
PROPERTIES
    NewTurnsCountEveryoneOut
    OneLedger
