\* A source that leaves the body of an answer unread.
CONSTANTS
    s1 = s1
    s2 = s2
    go = go
    pro = pro
    own = own
    none = none
    Streams = {s1, s2}
    Keys = {go, pro}
    NoKey = none
    Leases = {}
    LegacyKeys = {go}
    CapturedCalls = {s1}
    MaxAttempts <- MCMaxAttempts
SPECIFICATION FairSpec
PROPERTIES PiReceivesTerminal
