-------------------------- MODULE MCPaymentSwitch --------------------------
(* Instance of PaymentSwitch for TLC.                                      *)
EXTENDS PaymentSwitch

CONSTANTS r1, r2, k1, k2, rrn1

MCReqs2 == {r1, r2}
MCKeys1 == {k1}
MCKeys2 == {k1, k2}

\* One reference number: banks that reuse a number always collide.
MCRRNs == {rrn1}
NoRRNs == {}

NoFaults       == {}
CompleteFaults == {"complete"}
============================================================================
