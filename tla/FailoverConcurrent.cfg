SPECIFICATION Spec
CONSTANTS
    k1 = k1
    k2 = k2
    k3 = k3
    k4 = k4
    Keys = {k1, k2, k3, k4}
    IDs = {"a1", "a2", "a3"}
    accountID <- MCAccountID
    InitialPool <- ThreeAccounts
    AdminOps = {}
    MaxObjects = 3
    MaxNow = 2
    Requests = {r1, r2}
    Lanes = {"cmdcode", "chat", "responses"}
    FreeModels = {TRUE, FALSE}
    Outcomes = {"ok", "garbled", "429", "402", "5xx", "canceled"}
    Cooldowns = {2}
    Concurrency = 2
SYMMETRY RequestSymmetry
INVARIANTS EvenRotation ExhaustiveFailover
PROPERTIES
    CooldownRespected
    HonestExhaustion
CHECK_DEADLOCK FALSE
