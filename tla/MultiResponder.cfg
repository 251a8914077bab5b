SPECIFICATION Spec
CONSTANTS
    r1 = r1
    r2 = r2
    Response = {r1,r2}
    Price = {10, 20}
    ReplacementRate = 12
    MaxQueueDepth = 2
    FirstNonce = 1
    Confirmations = 1
    ConfirmationsBeforeResponse = 1
    MaxStarts = 1
    MaxBlocks = 4
    MaxPerBlock = 2
    MaxReorgs = 1
    MaxFailures = 1
SYMMETRY Responses
CHECK_DEADLOCK FALSE
INVARIANTS
    TypeOK
    NoNonceGap
    QueuedIsRecorded
    QueuedIsSent
    QueueMirrorsChain
PROPERTIES
    ReplacedAtHigherPrice
    LeavesQueueOnlyMined
    ForgottenOnlyWhenMined
