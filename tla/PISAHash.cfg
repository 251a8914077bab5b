CONSTANTS
    w1 = w1
    admin = admin
    alice = alice
    bob = bob
    j1 = j1
    j2 = j2
    plain = plain
    timed = timed
    Appointment <- MCAppointment
    Mode <- MCMode
    Watcher = {w1}
    Admin = admin
    ChallengeBond = 1
    CheatedTimer = 1
    Interval = 3
    DeployBlock = 1
    MaxUint = 7
    MaxBlock = 9
    MaxResponses = 2
SPECIFICATION Spec
CHECK_DEADLOCK FALSE
INVARIANTS
    TypeOK
    BooksBalance
    RecoursedOnce
    AnsweredIsSafe
