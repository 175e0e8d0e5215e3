\* All bodies of up to three events, typed or not, in both lanes.
SPECIFICATION Spec
CONSTANTS
    Texts = {t1}
    Calls = {c1}
    Whys = {"completed", "max_output_tokens"}
    Usages <- MCUsages
    NoUsage = NoUsage
    MaxEvents = 3
CHECK_DEADLOCK FALSE
INVARIANTS
    LanesAgree
    PipeInvariant
PROPERTIES
    Settles
