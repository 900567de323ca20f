\* Requests come with one key; the accounts leased for them differ.
CONSTANTS
    s1 = s1
    s2 = s2
    go = go
    pro = pro
    own = own
    none = none
    Streams = {s1, s2}
    Keys = {own}
    NoKey = none
    Leases = {go, pro}
    LegacyKeys = {go}
    CapturedCalls = {s1}
    MaxAttempts <- MCMaxAttempts
SPECIFICATION Spec
INVARIANTS RedetectedForEachKey
