\* Does an open breaker stop traffic?
\* Sends are finite: the system may stop.
CONSTANTS
    t1 = t1
    t2 = t2
    r1 = r1
    NoBreaker = NoBreaker
    b1 = b1
    rrn1 = rrn1
    NoRRN = NoRRN
    Txns <- MCTxns
    Resets <- MCResets
    Banks <- MCBanks1
    RRNs <- MCRRNs
    FailMax = 2
SPECIFICATION Spec
PROPERTY OpenStopsTraffic
CHECK_DEADLOCK FALSE
