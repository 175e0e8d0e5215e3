SPECIFICATION FairSpec
CONSTANTS
    MaxFlows = 2
    MaxCalls = 4
    k1 = k1
    k2 = k2
    Keys = {k1, k2}
    Kinds = {"callback", "paste", "cancel"}
    Locals = {TRUE}
    Timeouts = TRUE
    NoKey = NoKey
PROPERTIES
    ImplementsSignIn
    ClosedEnds
    AcceptedSignsIn
CHECK_DEADLOCK FALSE
