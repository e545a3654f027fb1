SPECIFICATION Spec
CONSTANTS
    r1 = r1
    r2 = r2
    v1 = v1
    v2 = v2
    a1 = a1
    a2 = a2
    a3 = a3
    u1 = u1
    u2 = u2
    NoRequest = NoRequest
    Requests = {r1, r2}
    ProductRequests = {}
    Versions = {v1, v2}
    TargetOf <- MCTargetOf
    Attempts = {a1, a2, a3}
    Approvers = {u1}
    RequiredApprovals = 1
    Ttl = 2
    Lease = 3
    Deadline = 1
    Flight = 1
    SweepIsExclusive = FALSE
    MaxTime = 1
PROPERTY AppliedWhenActive
CHECK_DEADLOCK FALSE
