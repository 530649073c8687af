SPECIFICATION FairSpec
CONSTANTS
    a1 = a1
    a2 = a2
    a3 = a3
    f1 = f1
    f2 = f2
    v1 = v1
    v2 = v2
    v3 = v3
    Updater = Updater
    NoSession = NoSession
    Workers = {w1, w2}
    Ancestries = {a2, a3}
    Features = {f1, f2}
    Vulnerabilities = {v1, v2}
    FeaturesOf <- MCFeaturesOf
    Affected <- MCAffected
    Invalid <- Comparable

INVARIANTS
    CacheIsSound
    ReportIsExact

PROPERTIES
    LockIsReleased
