SPECIFICATION FairSpec
CONSTANTS
    v1 = v1
    v2 = v2
    v3 = v3
    None = None
    Releases = {v1, v2, v3}
    Installed = v1
    Bad = {v3}
    Catalogs <- MCCatalogs
    Forgetting <- MCForgetting
    MaxEdits = 2
    MaxCuts = 2
    MaxReboots = 1
CHECK_DEADLOCK FALSE
INVARIANTS
    TypeOK
    SettledBoots
    OneTrialEach
    RebootsLandOnProven
    UpdaterComesBack
PROPERTIES
    RejectsOnlyTried
    Rests
