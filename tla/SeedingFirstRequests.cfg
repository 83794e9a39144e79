\* Three first requests, crashes and failing calls.
\* Requests are finite: the system may stop.
CONSTANTS
    r1 = r1
    r2 = r2
    r3 = r3
    sbi = sbi
    icici = icici
    hdfc = hdfc
    Reqs <- MCReqs
    SeedRoutes <- MCSeeds
    Faults <- AllFaults
SPECIFICATION FairSpec
INVARIANT IInv
PROPERTIES SeedsOverwriteOnce SeedingCompletes
CHECK_DEADLOCK FALSE
