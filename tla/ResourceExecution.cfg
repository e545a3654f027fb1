SPECIFICATION Spec
CONSTANTS
    GuildId = 1
    DesiredStates <- MCDesiredStates
    Snapshots <- MCSnapshots
    Verdicts = {"Allow", "RequireApproval", "Deny"}
    Users = {u1}
    FirstNewId = 20
    OtherNames = {"B", "Z"}
    MaxFaults = 2
    MaxDrift = 1
INVARIANT OrderResolvesKeys PreviewHolds SucceededIsConverged RollbackLeavesAtMostTheLostCall
PROPERTY UnmanagedIsUntouched
CHECK_DEADLOCK FALSE
