\* One retry, one continuation, two tool calls, four lines, a timeout.
CONSTANTS
    c1 = c1
    c2 = c2
    MaxRetries = 1
    MaxPauses = 1
    HasTimeout = TRUE
    ToolIds = {c1, c2}
    MaxLines = 4
SPECIFICATION FairSpec
INVARIANTS TypeOK DoneIsComplete RetryBudget
PROPERTIES ConsumerProtocol NoRetryAfterContent EveryStreamEnds
