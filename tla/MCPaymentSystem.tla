-------------------------- MODULE MCPaymentSystem --------------------------
(* Instance of PaymentSystem for TLC.                                      *)
EXTENDS PaymentSystem

CONSTANTS r1, r2, k1, b1

MCReqs  == {r1, r2}
MCKeys  == {k1}
MCBanks == {b1}

MCFaults == {"crash"}
============================================================================
