SPECIFICATION FairSpec
CONSTANTS
    p1 = p1
    p2 = p2
    NoOwner = NoOwner
    Owners = {p1, p2}
    Names = {n1}
    Senders = {s1, s2}
    LockDuration = 2
    RefreshDuration = 1
    RefreshDelay = 0
    MaxRefreshErrors = 1
    RenotifyInterval = 1
    MaxAttempts = 2
    Mortal = {p1}
    Stoppable = {p1}
    UpdaterEnabled = TRUE

INVARIANTS
    HandlesOwnLock
    NotifiedIsDelivered

PROPERTIES
    ResentUntilDeleted
    DeletedIsForgotten
    StopEndsNotifier
