\* Two sends and a reset of one bank, with the deployed failure threshold.
\* Sends are finite: the system may stop.
CONSTANTS
    t1 = t1
    t2 = t2
    r1 = r1
    NoBreaker = NoBreaker
    b1 = b1
    rrn1 = rrn1
    NoRRN = NoRRN
    Txns <- MCTxns
    Resets <- MCResets
    Banks <- MCBanks1
    RRNs = {}
    FailMax = 3
SPECIFICATION FairSpec
INVARIANTS IInv OpenIsEarned GaugeTellsState DoubleDebitNeedsDoubt
    ClientErrorMeansNotDebited
PROPERTIES ProbeCloses Implements EverySendEnds
CHECK_DEADLOCK FALSE
