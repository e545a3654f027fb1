SPECIFICATION Spec
CONSTANTS
    d1 = d1
    d2 = d2
    c1 = c1
    c2 = c2
    p1 = p1
    p2 = p2
    f1 = f1
    NoDeployment = NoDeployment
    DeploymentIds = {d1, d2}
    Controllers = {c1}
    Processes = {p1, p2}
    FailureIds = {}
    Reports <- MCReports
    GenerationOf <- MCGenerationOf
    ControllerLease = 3
    ServingLease = 2
    RetryDelay = 1
    Skew = 0
    ReadyAge = 0
    MaxTime = 2
    MaxAttempt = 1
    MaxServingRevision = 4
SYMMETRY Symmetry
INVARIANT ServingIsCertified DrainStaysClosed
PROPERTY ImplementsServingLane
CHECK_DEADLOCK FALSE
