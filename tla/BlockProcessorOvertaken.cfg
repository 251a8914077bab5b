SPECIFICATION Spec
CONSTANTS
    a1 = a1
    a2 = a2
    a3 = a3
    a4 = a4
    a5 = a5
    b3 = b3
    b4 = b4
    b5 = b5
    b6 = b6
    NoBlock = NoBlock
    h1 = h1
    h2 = h2
    Handler = {h1, h2}
    Block = {a2, a3, b3, b4, b5}
    FirstTip = a2
    Number <- MCNumber
    Parent <- MCParent
    MaxDepth = 3
    MaxRejections = 0
    MaxRestarts = 0
    MaxFailures = 0
    MaxLag = 3
INVARIANTS
    NewHeadAfterAncestorsIfUndisturbed
CHECK_DEADLOCK FALSE
