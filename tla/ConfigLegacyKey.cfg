\* The only client key comes from the field api_key and is deleted before
\* anything else is saved; then the process starts again.
SPECIFICATION Spec
CONSTANTS
    a1 = a1
    c1 = c1
    s0 = s0
    Accounts = {a1}
    Zen = {}
    ClientKeys = {c1}
    Settings = {s0}
    Generated = Generated
    NoSetting = NoSetting
    NoKey = NoKey
    Torn = Torn
    Handlers = {h1}
    InitialFiles <- MCSingleKey
    MaxOps = 2
CHECK_DEADLOCK FALSE
INVARIANTS
    RevokedKeysRejected
