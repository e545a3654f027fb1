SPECIFICATION FairSpec
CONSTANTS
    Keys = {1, 2, 3}
    Users = {u1}
    Retriers = {r1}
    PageLimit = 1
    InOwnChannel = {}
    Forbidden = {1}
    MaxRequests = 3
    MaxFaults = 2
INVARIANT TypeOK TombstoneIsHonest SuccessIsDurable CycleTriesAll
PROPERTY TeardownCompletes
CHECK_DEADLOCK FALSE
