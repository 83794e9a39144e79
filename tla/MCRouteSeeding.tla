--------------------------- MODULE MCRouteSeeding ---------------------------
(* Instance of RouteSeeding for TLC.                                       *)
EXTENDS RouteSeeding

CONSTANTS r1, r2, r3, sbi, icici, hdfc

MCReqs  == {r1, r2, r3}
MCSeeds == <<sbi, icici, hdfc>>

AllFaults == {"crash", "dynamo"}
=============================================================================
