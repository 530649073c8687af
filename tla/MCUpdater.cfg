SPECIFICATION FairSpec
CONSTANTS
    p1 = p1
    p2 = p2
    updater = updater
    NoOwner = NoOwner
    Owners = {p1, p2}
    Names = {updater}
    Updater = updater
    Sources = {s1, s2}
    Publishers = {s1}
    MaxRevision = 2
    LockDuration = 3
    RefreshDuration = 2
    RefreshDelay = 0
    Interval = 1
    MaxEvents = 2
    Mortal = {p1}
    Stoppable = {p1}

INVARIANTS
    OneUpdate
    FlagImpliesStored
    FirstUpdateIsComplete
    NotifiedOnce

PROPERTIES
    EventuallyStored
    StopEndsUpdater
