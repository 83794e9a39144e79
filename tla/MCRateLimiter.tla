--------------------------- MODULE MCRateLimiter ---------------------------
(* Instance of RateLimiter for TLC.                                        *)
EXTENDS RateLimiter, TLC

CONSTANTS r1, r2, r3, ip, vpa

MCReqs == {r1, r2, r3}
MCKeys == {ip, vpa}

\* Status polls are checked against the IP only, payments against both.
MCPlans == {<<ip>>, <<ip, vpa>>}

MCLimit == (ip :> 2) @@ (vpa :> 1)

\* Requests are only compared for equality.
MCSymmetry == Permutations(MCReqs)
============================================================================
