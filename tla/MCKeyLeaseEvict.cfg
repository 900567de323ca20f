\* Two sessions, a cache of one: evictions, renewals, rotations, lost answers.
CONSTANTS
    k1 = k1
    k2 = k2
    r1 = r1
    r2 = r2
    r3 = r3
    a1 = a1
    a2 = a2
    a3 = a3
    none = none
    t1 = t1
    Keys = {k1, k2}
    Requests = {r1, r2, r3}
    KeyOf <- MCKeyOf
    Accounts = {a1, a2}
    NoAccount = none
    Resets = {none}
    NoReset = none
    CacheCap = 1
    AttemptCap = 2
    RouterChecksLease = TRUE
    MaxLease = 2
    MaxCalls = 1
    MaxOrphans = 0
SPECIFICATION FairSpec
INVARIANTS TypeOK CacheIndexed NoStrandedWaiter
PROPERTIES EveryCallEnds
