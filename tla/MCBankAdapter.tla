--------------------------- MODULE MCBankAdapter ---------------------------
(* Instance of BankAdapter for TLC.                                        *)
EXTENDS BankAdapter

CONSTANTS t1, t2, r1, b1, rrn1

MCTxns   == {t1, t2}
MCResets == {r1}
MCBanks1 == {b1}
MCRRNs   == {rrn1}
============================================================================
