\* One retry, batches of two, a byte cap that four events exceed.
CONSTANTS
    e1 = e1
    e2 = e2
    e3 = e3
    e4 = e4
    tokenA = tokenA
    tokenB = tokenB
    Events = {e1, e2, e3, e4}
    TokenOf <- MCTokenOf
    BytesOf <- MCBytesOf
    MaxBytes = 4
    BatchSize = 2
    MaxRetries = 1
SPECIFICATION FairSpec
INVARIANTS BytesAccounted EveryEventAccounted AttemptBudget
           NoLostWakeup ShutIsFinal
PROPERTIES EveryEventSettles
