CONSTANTS
    g = g
    b2 = b2
    b3 = b3
    c2 = c2
    L1 = L1
    L2 = L2
    alice = alice
    bob = bob
    e = e
    e2 = e2
    f = f
    NoBlock = NoBlock
    NoAppointment = NoAppointment
    Root = g
    Block <- MCBlock
    Parent <- MCParent
    Number <- MCNumber
    Logs <- MCLogs
    Unreadable <- MCUnreadable
    Appointment <- MCAppointment
    NetworkPrice <- MCNetworkPrice
    MaxGasPrice = 5
    MaxBlocks = 1
    DefaultBlocks = 5
    MaxQueueDepth = 1
    MaxFailures = 1
    ConfirmationsBeforeResponse = 1
    ConfirmationsBeforeRemoval = 2
    ForkLimit = 1
    SynchronisationLimit = 1
    MinDuration = 0
    MaxDuration = 1
    MaxRestarts = 1
SPECIFICATION Spec
CHECK_DEADLOCK FALSE
INVARIANTS
    TypeOK
    IndexesAgree
    AcceptedIsHeldUntilDone
    AnchorMatchesChain
    AnsweredUnlessBlockFailed
    RemovedOnlyAnswered
    ResponsesAccountedFor
    
PROPERTIES
    StoreIsRegister
    CallsReturn
    RemovalsTakeEffect
