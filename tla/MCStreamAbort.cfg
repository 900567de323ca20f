\* An abort while the answer that will be retried is drained.
CONSTANTS
    c1 = c1
    c2 = c2
    MaxRetries = 1
    MaxPauses = 1
    HasTimeout = FALSE
    ToolIds = {c1, c2}
    MaxLines = 4
SPECIFICATION Spec
PROPERTIES NoRequestAfterAbort
