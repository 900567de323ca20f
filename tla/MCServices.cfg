\* Each service alone, on an instance in which its actors get in each other's way.
\* Every service may stop: a login ends, a transcript reaches its bound.
CONSTANTS
    a1 = a1
    a2 = a2
    a3 = a3
    k1 = k1
    k2 = k2
    k3 = k3
    r1 = r1
    r2 = r2
    s1 = s1
    Requests = {r1, r2}
    KindsOf <- MCKindsOf
    AccountIds = {a1, a2, a3}
    NewIdOf <- MCNewIdOf
    InitialFiles <- MCInitialFiles
    Keys = {k1, k2, k3}
    Sessions = {s1}
    Rooms = {0, 1}
    Workers = 2
    HistoryCap = 2
    LeaseCap = 2
    EventCap = 1
    MaxFaults = 1
    h1 = h1
    h2 = h2
    Hosts = {h1, h2}
    Catalogs = {c1, c2}
    MaxCommands <- MCMaxCommands
    plain = plain
    member = member
    broken = broken
    Connections = {p1, p2}
    PastedKeys = {plain, member, broken}
    MemberTokens = {member, broken}
    WellFormed = {member}
    PortRange = 1
    lost = lost
    CallIds = {t1, t2, lost}
    LostIds = {lost}
    MaxMessages = 3
    MaxParts = 2
    Places = 2
SPECIFICATION Spec
INVARIANTS BoardTypeOK CatalogTypeOK OneActiveLease SnapshotsOfAccounts RefreshAllAccounted CacheFileWhole LoginSettlesCleanly ConversationPaired QuotaTruthful
PROPERTIES StoreIsAtomic BoardAnswers CatalogNeverRegresses RefreshSettles
CHECK_DEADLOCK FALSE
