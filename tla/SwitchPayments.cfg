\* Two payments, or one and its retry, under every fault, with bank references.
\* Requests are finite: the system may stop.
CONSTANTS
    r1 = r1
    r2 = r2
    k1 = k1
    k2 = k2
    rrn1 = rrn1
    NoTxn = NoTxn
    NoRRN = NoRRN
    Reqs <- MCReqs2
    Keys <- MCKeys2
    RRNs <- MCRRNs
    Faults <- AllFaults
SPECIFICATION FairSpec
INVARIANTS IInv AnswersMatchRecords CountsMatchAnswers
PROPERTIES RecordsOnlyAdvance EveryRequestEnds
CHECK_DEADLOCK FALSE
