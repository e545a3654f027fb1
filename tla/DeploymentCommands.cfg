SPECIFICATION CommandsSpec
CONSTANTS
    d1 = d1
    d2 = d2
    c1 = c1
    c2 = c2
    p0 = p0
    p1 = p1
    p2 = p2
    f1 = f1
    DeploymentIds = {d1, d2}
    Controllers = {c1, c2}
    Processes = {p0, p1, p2}
    FailureIds = {f1}
    Reports <- MCReports
    Self = d1
    Generation = 2
    Previous <- MCPrevious
    LatestTime = 1
    MaxRevision = 18
    MaxToken = 4
SYMMETRY Symmetry
INVARIANT RestoreAccepts
PROPERTY BlockedNeedsOperator ActivationIsDurable EndingIsFinal
CHECK_DEADLOCK FALSE
