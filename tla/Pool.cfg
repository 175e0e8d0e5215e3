SPECIFICATION FairSpec
CONSTANTS
    k1 = k1
    k2 = k2
    k3 = k3
    k4 = k4
    Keys = {k1, k2, k3, k4}
    IDs = {"a1", "a2", "a3"}
    accountID <- MCAccountID
    InitialPool <- TwoAccounts
    AdminOps = {"add", "remove", "enable", "rename", "setkey"}
    MaxObjects = 4
    MaxNow = 1
    Requests = {r1}
    Lanes = {"responses"}
    FreeModels = {TRUE, FALSE}
    Outcomes = {"ok", "garbled", "429", "402"}
    Cooldowns = {1}
    Concurrency = 1
INVARIANTS
    TypeOK
    UniqueIDs
PROPERTIES
    EveryRequestAnswered
CHECK_DEADLOCK FALSE
