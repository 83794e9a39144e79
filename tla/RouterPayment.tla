--------------------------- MODULE RouterPayment ---------------------------
(***************************************************************************)
(* payment-router: /api/v1/payment/initiate, the way to a bank that goes   *)
(* past payment-switch.  The handler resolves the payer's bank and posts   *)
(* the payment to bank-adapter; there is no guard and no record.           *)
(*                                                                         *)
(*     resolve (RouteCache) -> POST /send (AdapterContract) -> answer      *)
(*                                                                         *)
(* It is an async handler that calls the synchronous resolve: from its     *)
(* receipt to its POST it holds the event loop, while lookups of /resolve  *)
(* run beside it in threads.  A retry is another element of Payments.      *)
(***************************************************************************)
EXTENDS RouteCache, Naturals

CONSTANT Payments   \* calls of /payment/initiate

ASSUME PaymentsAssumption == Payments \subseteq Reqs

VARIABLES
    adapter, debits,    \* of AdapterContract
    told                \* what the client was told

callVars == <<adapter, debits, told>>
routerVars == <<vars, callVars>>

\* The bank's reference is passed on unread.
Contract == INSTANCE AdapterContract
    WITH Txns <- Payments, RRNs <- {}, NoRRN <- "unread"

\* SUCCESS and FAILED are the adapter's, not_found (404) and error (500) those
\* of resolve; no_verdict is a 502, a status of the adapter passed on, or a
\* connection lost with the pod.
Told == {"none", "SUCCESS", "FAILED", "not_found", "error", "no_verdict"}

RouterTypeOK ==
    /\ TypeOK
    /\ Contract!ContractTypeOK
    /\ told \in [Payments -> Told]

RouterInit ==
    /\ Init
    /\ Contract!Init
    /\ told = [p \in Payments |-> "none"]

\* The handler holds the event loop.
OnLoop(p) == pc[p] \in Running
LoopFree  == \A p \in Payments : ~OnLoop(p)

\* The POST is awaited.
Waiting(p) == adapter[p].phase # "idle" /\ told[p] = "none"

Open(p) == OnLoop(p) \/ Waiting(p)

Tell(p, answer) == told' = [told EXCEPT ![p] = answer]

----------------------------------------------------------------------------
\* The handler goes on to the adapter whatever resolve says.
ContinueAnyway(p) ==
    \/ outcome'[p] = "none" /\ UNCHANGED callVars
    \/ outcome'[p] \in Served \cup {"not_found"} /\ Contract!Send(p) /\ UNCHANGED told
    \/ /\ outcome'[p] \in {"not_found", "error"}
       /\ Tell(p, outcome'[p])
       /\ UNCHANGED <<adapter, debits>>

\* What the handler makes of the step resolve has taken: it goes on, posts the
\* payment to the endpoints it was given, or ends with resolve's exception.
Continue(p) ==
    \/ outcome'[p] = "none" /\ UNCHANGED callVars
    \/ outcome'[p] \in Served /\ Contract!Send(p) /\ UNCHANGED told
    \/ /\ outcome'[p] \in {"not_found", "error"}
       /\ Tell(p, outcome'[p])
       /\ UNCHANGED <<adapter, debits>>

Initiate(p) ==
    /\ pc[p] = "idle"
    /\ LoopFree
    /\ Receive(p) \/ UnknownBank(p)
    /\ Continue(p)

Advance(p) ==
    /\ Proceed(p) \/ LookupFails(p)
    /\ Continue(p)

\* An answer with HTTP 200 is taken for success.
AnsweredIsSuccess(p) ==
    /\ LoopFree
    /\ Waiting(p)
    /\ adapter[p].phase = "replied"
    /\ Tell(p, "SUCCESS")
    /\ UNCHANGED <<vars, adapter, debits>>

\* The adapter's answer is passed on.
Answered(p) ==
    /\ LoopFree
    /\ Waiting(p)
    /\ adapter[p].phase = "replied"
    /\ Tell(p, adapter[p].status)
    /\ UNCHANGED <<vars, adapter, debits>>

\* Without a timeout of the client.
NoVerdictUnlessAnswered(p) ==
    /\ LoopFree
    /\ Waiting(p)
    /\ adapter[p].phase = "replied"
    /\ Tell(p, "no_verdict")
    /\ UNCHANGED <<vars, adapter, debits>>

\* The 12 s are over, the connection fails, or the adapter answers with an
\* error status.
NoVerdict(p) ==
    /\ LoopFree
    /\ Waiting(p)
    /\ Tell(p, "no_verdict")
    /\ UNCHANGED <<vars, adapter, debits>>

\* The pod is restarted.
Restart ==
    /\ Crash
    /\ told' = [p \in Payments |-> IF Open(p) THEN "no_verdict" ELSE told[p]]
    /\ UNCHANGED <<adapter, debits>>

\* The adapter and the bank, whether or not the handler still waits.
AdapterWorks(p) ==
    /\ \/ Contract!Accept(p) \/ Contract!Debit(p)
       \/ Contract!AnswerSuccess(p) \/ Contract!AnswerFailed(p)
    /\ UNCHANGED <<vars, told>>

\* /resolve, in a thread.
Resolve(r) ==
    /\ Receive(r) \/ UnknownBank(r) \/ Proceed(r) \/ LookupFails(r)
    /\ UNCHANGED callVars

RoutesChange ==
    /\ Freeze \/ \E b \in Banks : Expire(b) \/ Change(b) \/ Replicate(b)
    /\ UNCHANGED callVars

RouterNext ==
    \/ \E p \in Payments : \/ Initiate(p) \/ Advance(p) \/ Answered(p)
                           \/ NoVerdict(p) \/ AdapterWorks(p)
    \/ \E r \in Reqs \ Payments : Resolve(r)
    \/ RoutesChange
    \/ Restart

RouterSpec == RouterInit /\ [][RouterNext]_routerVars

\* Redis and DynamoDB answer, and httpx bounds the POST.
RouterFairSpec ==
    /\ RouterSpec
    /\ \A p \in Payments :
           /\ WF_routerVars(Advance(p))
           /\ WF_routerVars(Answered(p) \/ NoVerdict(p))
    /\ \A r \in Reqs \ Payments : WF_routerVars(Proceed(r) /\ UNCHANGED callVars)
    /\ \A b \in Banks : /\ WF_routerVars(Expire(b) /\ UNCHANGED callVars)
                        /\ WF_routerVars(Replicate(b) /\ UNCHANGED callVars)

----------------------------------------------------------------------------
\* Resolving, waiting and being answered follow each other.
CallFollowsRoute ==
    \A p \in Payments :
        /\ adapter[p].phase # "idle" => outcome[p] \in Served /\ pc[p] = "done"
        /\ pc[p] \in Running => outcome[p] = "none"
        /\ pc[p] \in Running \cup {"idle"} => told[p] = "none"

\* Payments resolve one at a time.
OneOnLoop == \A p, q \in Payments : OnLoop(p) /\ OnLoop(q) => p = q

\* A payment is posted only to endpoints its bank has had as an active route.
PaidWhereActive ==
    \A p \in Payments : adapter[p].phase # "idle" => got[p] \in history[bank[p]]

\* Answers can be relied on as far as they say anything: nothing was posted, or
\* will be debited, for a payment refused with resolve's 404 or 500, and SUCCESS
\* is said of a debited payment.  After any other answer a retry, which nothing
\* recognises here, may pay again (payment_router.py:44-77).
AnswersTrue ==
    \A p \in Payments :
        /\ told[p] \in {"not_found", "error"} =>
               adapter[p].phase = "idle" /\ debits[p] = 0
        /\ told[p] = "SUCCESS" => debits[p] > 0

RouterInv ==
    /\ RouterTypeOK
    /\ RoutesFromTable
    /\ ServedWasActive
    /\ CallFollowsRoute
    /\ OneOnLoop
    /\ PaidWhereActive
    /\ AnswersTrue
    /\ \A p \in Payments :
           /\ adapter[p].phase = "idle" => debits[p] = 0
           /\ adapter[p].status = "SUCCESS" => debits[p] > 0

\* Every payment is answered, or lost with the pod, although the adapter owes
\* no answer and the handler holds the event loop (payment_router.py:47-77).
EveryPaymentEnds ==
    \A p \in Payments : pc[p] # "idle" ~> told[p] # "none"
============================================================================
