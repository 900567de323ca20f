\* One generation of two fetch calls, three accounts.
CONSTANTS
    k1 = k1
    k2 = k2
    r1 = r1
    r2 = r2
    r3 = r3
    a1 = a1
    a2 = a2
    a3 = a3
    none = none
    t1 = t1
    Keys = {k1}
    Requests = {r1, r2}
    KeyOf <- MCKeyOfOne
    Accounts = {a1, a2, a3}
    NoAccount = none
    Resets = {none, t1}
    NoReset = none
    CacheCap = 1
    AttemptCap = 3
    RouterChecksLease = TRUE
    MaxLease = 3
    MaxCalls = 2
    MaxOrphans = 1
SPECIFICATION Spec
INVARIANTS NoAccountRetriedInGeneration
