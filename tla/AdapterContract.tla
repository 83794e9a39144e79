-------------------------- MODULE AdapterContract --------------------------
(***************************************************************************)
(* What payment-switch may rely on when it calls bank-adapter: one atomic  *)
(* step per promise.  PaymentSwitch uses this module as the adapter (and   *)
(* the bank behind it); BankAdapter is shown to implement it.              *)
(*                                                                         *)
(* The promises are weak on purpose.  A SUCCESS answer implies that the    *)
(* bank has debited; a FAILED answer, or no answer, says nothing: the      *)
(* debit may have happened, may happen later, and may happen once per      *)
(* endpoint the adapter posts to.                                          *)
(***************************************************************************)
EXTENDS Naturals

CONSTANTS
    Txns,       \* transaction ids
    RRNs,       \* bank reference numbers the banks hand out
    NoRRN       \* a response without a bank reference

VARIABLES
    adapter,    \* the adapter's side of each /send call
    debits      \* how often the bank debited for each transaction

contractVars == <<adapter, debits>>

\* One POST to the primary endpoint and one to the fallback.
MaxDebits == 2

Phase == {"idle", "sent", "working", "replied"}
Reply == {"none", "SUCCESS", "FAILED"}
SendCall == [phase : Phase, status : Reply, rrn : RRNs \cup {NoRRN}]

NoCall == [phase |-> "idle", status |-> "none", rrn |-> NoRRN]

ContractTypeOK ==
    /\ adapter \in [Txns -> SendCall]
    /\ debits  \in [Txns -> 0 .. MaxDebits]

Init ==
    /\ adapter = [t \in Txns |-> NoCall]
    /\ debits  = [t \in Txns |-> 0]

----------------------------------------------------------------------------
\* The caller sends the request; it is on the wire.
Send(t) ==
    /\ adapter[t].phase = "idle"
    /\ adapter' = [adapter EXCEPT ![t].phase = "sent"]
    /\ UNCHANGED debits

\* The adapter takes it up.
Accept(t) ==
    /\ adapter[t].phase = "sent"
    /\ adapter' = [adapter EXCEPT ![t].phase = "working"]
    /\ UNCHANGED debits

\* The bank debits, as late as it likes.
Debit(t) ==
    /\ adapter[t].phase \in {"working", "replied"}
    /\ debits[t] < MaxDebits
    /\ debits' = [debits EXCEPT ![t] = @ + 1]
    /\ UNCHANGED adapter

Answer(t, status, rrn) ==
    /\ adapter[t].phase = "working"
    /\ adapter' = [adapter EXCEPT
           ![t] = [phase |-> "replied", status |-> status, rrn |-> rrn]]
    /\ UNCHANGED debits

\* SUCCESS is only said of a payment the bank has made.
AnswerSuccess(t) ==
    /\ debits[t] > 0
    /\ \E rrn \in RRNs \cup {NoRRN} : Answer(t, "SUCCESS", rrn)

\* FAILED may be said of any payment.
AnswerFailed(t) == Answer(t, "FAILED", NoRRN)

Next ==
    \E t \in Txns :
        \/ Send(t)
        \/ Accept(t)
        \/ Debit(t)
        \/ AnswerSuccess(t)
        \/ AnswerFailed(t)

Spec == Init /\ [][Next]_contractVars
============================================================================
