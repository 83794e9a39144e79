\* A payment and its retry through the three services, each of which may be
\* restarted.  Requests are finite: the system may stop.
CONSTANTS
    r1 = r1
    r2 = r2
    k1 = k1
    b1 = b1
    NoTxn = NoTxn
    NoRRN = NoRRN
    NoBreaker = NoBreaker
    Reqs <- MCReqs
    Keys <- MCKeys
    RRNs = {}
    Faults <- MCFaults
    Resets = {}
    Banks <- MCBanks
    FailMax = 3
SPECIFICATION Spec
INVARIANTS PaidOncePerKey SuccessIsPaid PostedIsGranted
PROPERTIES Implements
CHECK_DEADLOCK FALSE
