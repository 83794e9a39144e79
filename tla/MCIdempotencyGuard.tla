------------------------- MODULE MCIdempotencyGuard -------------------------
(* Instance of IdempotencyGuard for TLC.                                   *)
EXTENDS IdempotencyGuard

CONSTANTS k1, k2, c1, c2, c3, p1, p2

MCKeys     == {k1, k2}
MCCalls    == {c1, c2, c3}
MCPayloads == {p1, p2}
============================================================================
