\* Conversations of up to four messages: two turns with a tool each.
SPECIFICATION Spec
CONSTANTS
    a = a
    b = b
    f = f
    g = g
    v = v
    w = w
    Ids = {a, b}
    NoId = NoId
    Names = {f, g}
    NoName = NoName
    Words = {v, w}
    Messages <- MCMessages
    MaxMessages = 4
CHECK_DEADLOCK FALSE
INVARIANTS
    SentBackIsAccepted
    ResultsNameTheirCalls
    SameConversation
PROPERTIES
    PastUntouched
