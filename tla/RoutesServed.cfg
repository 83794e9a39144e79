\* A lookup and a payment while the routes change, and after.
CONSTANTS
    r1 = r1
    p1 = p1
    b1 = b1
    v1 = v1
    v2 = v2
    NoContent = NoContent
    Reqs <- MCReqs
    Payments <- MCPayments
    Banks <- MCBanks
    Contents <- MCContents
SPECIFICATION RouterFairSpec
INVARIANTS RouterInv ServedWasActive AnswersTrue
PROPERTIES StaleRoutesDrain EveryPaymentEnds
