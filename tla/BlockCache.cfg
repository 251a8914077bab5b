SPECIFICATION FairSpec
CONSTANTS
    a1 = a1
    a2 = a2
    a3 = a3
    a4 = a4
    b2 = b2
    b3 = b3
    NoBlock = NoBlock
    Block = {a1, a2, a3, a4, b2, b3}
    Number <- MCNumber
    Parent <- MCParent
    MaxDepth = 2
    MaxRejections = 1
    MaxRestarts = 1
INVARIANTS
    TypeOK
    NoBlockTooDeep
    AttachedHeightsContiguous
    NothingAttachableLeft
    RecoverableIfNothingRejected
    EmittedOncePerSession
    HeadAttachedUnlessPruned
PROPERTIES
    KeptWhileShallow
    AddBlockReturns
