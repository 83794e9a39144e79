\* Settlement when the guard is down at /complete.
\* Requests are finite: the system may stop.
CONSTANTS
    r1 = r1
    r2 = r2
    k1 = k1
    k2 = k2
    rrn1 = rrn1
    NoTxn = NoTxn
    NoRRN = NoRRN
    Reqs <- MCReqs2
    Keys <- MCKeys1
    RRNs <- NoRRNs
    Faults <- CompleteFaults
SPECIFICATION FairSpec
PROPERTY SettlementFollowsSuccess
CHECK_DEADLOCK FALSE
