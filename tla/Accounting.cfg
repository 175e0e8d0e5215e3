\* One account whose key is rotated between two while a request and two
\* refreshes run, and the process stops or crashes once.
SPECIFICATION Spec
CONSTANTS
    k1 = k1
    k2 = k2
    Keys = {k1, k2}
    NoKey = NoKey
    Requests = {r1}
    Jobs = {j1, j2}
    Workers = 1
    InitialFiles <- MCInitialFiles
    InitialPool <- MCInitialPool
    MaxOps = 2
    MaxRefreshes = 1
    MaxServed = 1
    MaxBoots = 1
CHECK_DEADLOCK FALSE
INVARIANTS
    RefreshInvariant
    QuotaOfPool
    UsageConserved
    ServedIsCharged
    EndedIsSaved
PROPERTIES
    ShutdownKeepsUsage
