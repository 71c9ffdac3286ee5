SPECIFICATION Spec
CONSTANTS
    r1 = r1
    r2 = r2
    plan = plan
    rival = rival
    k1 = k1
    k2 = k2
    next = next
    broken = broken
    Requests = {r1, r2}
    Packages = {plan, rival, next, broken}
    Bad = {broken}
    ProgramKey <- MCProgramKey
    Rest <- MCRest
    MirrorEnabled = TRUE
    IdKeys = {k1, k2}
    MaxImports = 2
    MaxParser = 2
    MaxDate = 2
    MaxCommits = 2
    MaxFaults = 1
SYMMETRY Symmetric
INVARIANTS VersionsAreOneChain ActiveIsSelected DaysFollowActivation SyncedIsMirrored
CHECK_DEADLOCK FALSE
