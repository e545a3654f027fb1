SPECIFICATION Spec
CONSTANTS
    Tasks = {t1}
    Digests = {d1}
    Ttl = 1
    MaxTime = 1
    MaxFaults = 1
INVARIANT
    ExpiryIsRecorded
