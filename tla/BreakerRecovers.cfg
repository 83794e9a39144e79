\* Three callers in the body at once, outcomes in any order and any state.
CONSTANTS
    c1 = c1
    c2 = c2
    c3 = c3
    Calls <- MCCalls
    FailureThreshold = 2
    SuccessThreshold = 2
SPECIFICATION FairSpec
INVARIANTS IInv
PROPERTIES RecoveryNotPutOff RecoveryIsEarned RecoveredBankCloses
