\* A response that hangs with a retry left.
CONSTANTS
    c1 = c1
    c2 = c2
    MaxRetries = 1
    MaxPauses = 1
    HasTimeout = TRUE
    ToolIds = {c1, c2}
    MaxLines = 4
SPECIFICATION Spec
PROPERTIES HungStreamIsRetried
