SPECIFICATION Spec
CONSTANTS
    k1 = k1
    k2 = k2
    k3 = k3
    k4 = k4
    Keys = {k1, k2, k3, k4}
    IDs = {"a1", "a2", "a3"}
    accountID <- MCAccountID
    InitialPool <- TwoAccounts
    AdminOps = {"rename"}
    MaxObjects = 4
    MaxNow = 2
    Requests = {r1, r2}
    Lanes = {"cmdcode"}
    FreeModels = {FALSE}
    Outcomes = {"ok", "429"}
    Cooldowns = {2}
    Concurrency = 2
PROPERTY CooldownRespected
CHECK_DEADLOCK FALSE
