SPECIFICATION FairSpec
CONSTANTS
    MaxFlows = 1
    MaxCalls = 2
    k1 = k1
    k2 = k2
    Keys = {k1, k2}
    Kinds = {"callback", "paste"}
    Locals = {TRUE, FALSE}
    Timeouts = FALSE
    NoKey = NoKey
PROPERTY ListenerSignsIn
CHECK_DEADLOCK FALSE
