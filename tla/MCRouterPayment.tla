-------------------------- MODULE MCRouterPayment --------------------------
(* Instance of RouterPayment for TLC.                                      *)
EXTENDS RouterPayment

CONSTANTS r1, p1, b1, v1, v2

MCReqs     == {r1, p1}
MCPayments == {p1}
MCBanks    == {b1}
MCContents == {v1, v2}
============================================================================
