\* Is the result of a payment stored under its key?
\* Requests are finite: the system may stop.
CONSTANTS
    r1 = r1
    r2 = r2
    k1 = k1
    k2 = k2
    rrn1 = rrn1
    NoTxn = NoTxn
    NoRRN = NoRRN
    Reqs <- MCReqs2
    Keys <- MCKeys1
    RRNs <- NoRRNs
    Faults <- NoFaults
SPECIFICATION Spec
INVARIANT ResultCached
CHECK_DEADLOCK FALSE
