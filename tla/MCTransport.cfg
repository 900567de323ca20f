\* A fallback beside a Provider API stream, up to three attempts, every capture mode.
CONSTANTS
    s1 = s1
    s2 = s2
    go = go
    pro = pro
    own = own
    none = none
    Streams = {s1, s2}
    Keys = {go, pro}
    NoKey = none
    Leases = {}
    LegacyKeys = {go}
    CapturedCalls = {s1}
    MaxAttempts <- MCMaxAttempts
SPECIFICATION FairSpec
INVARIANTS TypeOK LegacyOnlyForLegacyKeys FailsClosed CommittedIsComplete
PROPERTIES ConsumerProtocol BestEffortIsInvisible EveryStreamEnds
