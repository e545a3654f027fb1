SPECIFICATION Spec
CONSTANTS
    d1 = d1
    d2 = d2
    c1 = c1
    c2 = c2
    p1 = p1
    p2 = p2
    f1 = f1
    NoDeployment = NoDeployment
    DeploymentIds = {d1}
    Controllers = {c1, c2}
    Processes = {p1, p2}
    FailureIds = {f1}
    Reports <- MCReports
    GenerationOf <- MCGenerationOf
    ControllerLease = 2
    ServingLease = 1
    RetryDelay = 1
    Skew = 1
    ReadyAge = 1
    MaxTime = 3
    MaxAttempt = 2
    MaxServingRevision = 3
SYMMETRY Symmetry
INVARIANT StatusIsKnown RowDecodes RetryDiscipline HolderCanProgress
CHECK_DEADLOCK FALSE
