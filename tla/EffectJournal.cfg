SPECIFICATION FairSpec
CONSTANTS
    Plans <- MCPlans
    Recoverers = {r1, r2}
    MaxAttempts = 2
INVARIANT TypeOK JournalIsHonest CompletedIsWhole RollbackIsClean UndoneInReverse
PROPERTY RecoveryConverges
CHECK_DEADLOCK FALSE
