\* Outcomes and settlement when nothing but timeouts and answers go wrong.
\* Requests are finite: the system may stop.
CONSTANTS
    r1 = r1
    r2 = r2
    k1 = k1
    k2 = k2
    rrn1 = rrn1
    NoTxn = NoTxn
    NoRRN = NoRRN
    Reqs <- MCReqs2
    Keys <- MCKeys2
    RRNs <- NoRRNs
    Faults <- NoFaults
SPECIFICATION FairSpec
PROPERTIES BooksClose SettlementFollowsSuccess
CHECK_DEADLOCK FALSE
