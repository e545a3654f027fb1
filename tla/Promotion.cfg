SPECIFICATION FairSpec
CONSTANTS
    Tasks = {t1, t2}
    Digests = {d1, d2}
    Ttl = 1
    MaxTime = 2
    MaxFaults = 1
INVARIANTS
    TypeOK
    LinkedIsJournaled
    ExpiredIsTrue
    FailureIsExplained
PROPERTY
    PromotionSettles
