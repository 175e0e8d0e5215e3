SPECIFICATION Spec
CONSTANTS
    Types <- OneOfEach
    Texts = {"", "a"}
    CallIDs = {"c1", "c2"}
    Arguments = {"x", "y"}
    Reasons = {"stop", "tool_calls", "length"}
    Usages = {1}
    MaxEvents = 4
INVARIANTS TypeOK StreamGrammar RoleOnce ExecutableCalls HandlersAgree ChargedOnce
PROPERTIES ImplementsTurn
CHECK_DEADLOCK FALSE
