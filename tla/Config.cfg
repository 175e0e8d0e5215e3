\* Two accounts of cmdcode and one of zen, two client keys and two settings, over a file
\* of the first generation.  Two handlers at a time; requests, ends of the process and
\* failed saves are three in all.
SPECIFICATION Spec
CONSTANTS
    a1 = a1
    c1 = c1
    s0 = s0
    Accounts = {a1, a2, z1}
    Zen = {z1}
    ClientKeys = {c1, c2}
    Settings = {s0, s1}
    Generated = Generated
    NoSetting = NoSetting
    NoKey = NoKey
    Torn = Torn
    Handlers = {h1, h2}
    InitialFiles <- MCLegacy
    MaxOps = 3
SYMMETRY Symmetry
CHECK_DEADLOCK FALSE
INVARIANTS
    LockInvariant
    AcknowledgedOnDisk
    LoneRevocationStays
    CatalogueFollows
PROPERTIES
    LoneSaveRepairs
