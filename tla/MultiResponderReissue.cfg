SPECIFICATION Spec
CONSTANTS
    r1 = r1
    r2 = r2
    Response = {r1,r2}
    Price = {10, 20}
    ReplacementRate = 12
    MaxQueueDepth = 2
    FirstNonce = 1
    Confirmations = 1
    ConfirmationsBeforeResponse = 1
    MaxStarts = 1
    MaxBlocks = 3
    MaxPerBlock = 1
    MaxReorgs = 0
    MaxFailures = 1
CHECK_DEADLOCK FALSE
PROPERTIES
    ReissuedIfMissing
