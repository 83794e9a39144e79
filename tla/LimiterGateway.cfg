\* Payments and polls of one IP and one VPA.
\* Requests and time are finite: the system may stop.
CONSTANTS
    r1 = r1
    r2 = r2
    r3 = r3
    ip = ip
    vpa = vpa
    Reqs <- MCReqs
    Keys <- MCKeys
    Plans <- MCPlans
    Limit <- MCLimit
    Window = 3
    Slack = 1
    MaxTime = 6
SPECIFICATION Spec
SYMMETRY MCSymmetry
INVARIANTS IInv LatestWindowWithinLimit RejectedForCause
    MetricsMatchRequests
CHECK_DEADLOCK FALSE
