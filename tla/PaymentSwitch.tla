--------------------------- MODULE PaymentSwitch ---------------------------
(***************************************************************************)
(* payment-switch (payment-switch/app): the orchestration of one payment.  *)
(*                                                                         *)
(* initiate_payment is an async handler.  Its boto3 calls block the event  *)
(* loop, so the code between two awaits is one atomic step; handlers       *)
(* interleave at the four awaited HTTP calls                               *)
(*                                                                         *)
(*     guard /check, router /resolve, adapter /send, guard /complete       *)
(*                                                                         *)
(* which is what pc[r] names.  Every element of Reqs is one POST           *)
(* /initiate; a retry by the client is another request with the same key.  *)
(* The uuid4 txn_id of the record a request writes is the request itself.  *)
(*                                                                         *)
(* The guard is the atomic registry that IdempotencyGuard implements, the  *)
(* adapter and the bank are AdapterContract.  Either may be slower than    *)
(* the timeout of the call: their steps do not depend on pc[r].            *)
(***************************************************************************)
EXTENDS Naturals

CONSTANTS
    Reqs,       \* requests to /initiate, and the transactions they write
    Keys,       \* idempotency keys
    RRNs,       \* bank reference numbers
    NoTxn, NoRRN,
    Faults      \* what may go wrong: a subset of AllFaults

AllFaults == {"crash", "dynamo", "complete", "sqs", "scan"}

\* Transaction ids are uuid4 strings, idempotency keys come from clients.
ASSUME IdsDisjoint     == Keys \cap Reqs = {}
ASSUME NoTxnAssumption == NoTxn \notin Reqs
ASSUME FaultsAssumption == Faults \subseteq AllFaults

VARIABLES
    pc,         \* the await each handler is suspended at
    key,        \* PaymentRequest.idempotency_key
    txns,       \* the payment_transactions table
    response,   \* what the client of each request got
    emitting,   \* settlement tasks handed to a thread, not run yet
    queue,      \* transactions with an event in the settlement queue
    corruption, \* requests that raised record_state_corruption
    collision,  \* requests that raised record_duplicate_debit
    counted,    \* the status payment_timer has counted each request under
    entries, answer, grantees, lapsed,     \* the guard
    adapter, debits                        \* the adapter and the bank

guardVars   == <<entries, answer, grantees, lapsed>>
adapterVars == <<adapter, debits>>
metricVars  == <<corruption, collision, counted>>
settleVars  == <<emitting, queue>>
vars == <<pc, key, txns, response, settleVars, metricVars,
          guardVars, adapterVars>>

Guard   == INSTANCE IdempotencyRegistry
               WITH Calls <- Reqs, Payloads <- Reqs, NoPayload <- NoTxn
Adapter == INSTANCE AdapterContract WITH Txns <- Reqs

Awaiting  == {"checking", "resolving", "paying", "completing"}
PC        == Awaiting \cup {"idle", "answered", "lost"}
Final     == {"SUCCESS", "FAILED"}
TxnState  == {"INITIATED", "PROCESSING"} \cup Final
Txn       == [state : TxnState \cup {"ABSENT"}, rrn : RRNs \cup {NoRRN}]
Code      == {200, 404, 500, 502, 503}
Response  == [code : Code \cup {0}, source : {"none", "NEW", "CACHED"},
              status : TxnState \cup {"none"}, txn : Reqs \cup {NoTxn}]

NoResponse == [code |-> 0, source |-> "none", status |-> "none", txn |-> NoTxn]
AbsentTxn  == [state |-> "ABSENT", rrn |-> NoRRN]

TypeOK ==
    /\ pc         \in [Reqs -> PC]
    /\ key        \in [Reqs -> Keys]
    /\ txns       \in [Reqs -> Txn]
    /\ response   \in [Reqs -> Response]
    /\ emitting   \in SUBSET Reqs
    /\ queue      \in SUBSET Reqs
    /\ corruption \in SUBSET Reqs
    /\ collision  \in SUBSET Reqs
    /\ counted    \in [Reqs -> Final \cup {"none"}]
    /\ Guard!RegistryTypeOK
    /\ Adapter!ContractTypeOK

Init ==
    /\ pc         = [r \in Reqs |-> "idle"]
    /\ key        \in [Reqs -> Keys]
    /\ txns       = [r \in Reqs |-> AbsentTxn]
    /\ response   = [r \in Reqs |-> NoResponse]
    /\ emitting   = {}
    /\ queue      = {}
    /\ corruption = {}
    /\ collision  = {}
    /\ counted    = [r \in Reqs |-> "none"]
    /\ Guard!Init
    /\ Adapter!Init

----------------------------------------------------------------------------
(* Helpers.                                                                *)

Goto(r, label) == pc' = [pc EXCEPT ![r] = label]

Respond(r, code, source, status, txn) ==
    /\ Goto(r, "answered")
    /\ response' = [response EXCEPT ![r] =
           [code |-> code, source |-> source, status |-> status, txn |-> txn]]

\* HTTPException: a code and a message, no transaction.
Raise(r, code) == Respond(r, code, "none", "none", NoTxn)

\* dynamo.update_state: sets the state whatever it was.
UpdateState(r, state) == txns' = [txns EXCEPT ![r].state = state]

\* record_state_corruption and record_duplicate_debit: the two alarms.
RecordStateCorruption(r) == corruption' = corruption \cup {r}
RecordDuplicateDebit(r)  == collision' = collision \cup {r}

\* record_payment: volume, value and errors are counted under one status.
RecordPayment(r, status) == counted' = [counted EXCEPT ![r] = status]

\* payment_timer without its except clause: the status set before counts.
TimerKeepsStatus(r) ==
    RecordPayment(r, IF txns[r].state = "SUCCESS" THEN "SUCCESS" ELSE "FAILED")

\* payment_timer when an exception leaves its block, whatever ctx.status says.
TimerRaises(r) == RecordPayment(r, "FAILED")

Recorded(t) == txns[t].state # "ABSENT"

\* What the scans of get_txn_by_idempotency_key and get_txn_by_bank_rrn may
\* return: the order of a scan is the table's own.
ByKey(k) == {t \in Reqs : Recorded(t) /\ key[t] = k}
ByRrn(rrn, table) == {t \in Reqs : table[t].rrn = rrn}

\* Scans are eventually consistent and read one page: they may show a record
\* as it was, or not at all.  A record passed PROCESSING if it was ever sent.
SeenStates(t) ==
    IF "scan" \in Faults
    THEN {txns[t].state, "INITIATED"}
             \cup (IF adapter[t].phase # "idle" THEN {"PROCESSING"} ELSE {})
    ELSE {txns[t].state}

\* A handler whose check was answered DUPLICATE or NEW.
CheckedDuplicate(r) == pc[r] = "checking" /\ answer[r].verdict = "DUPLICATE"
CheckedNew(r)       == pc[r] = "checking" /\ answer[r].verdict = "NEW"

----------------------------------------------------------------------------
(* Step 1: the idempotency check.                                          *)

Receive(r) ==
    /\ pc[r] = "idle"
    /\ Goto(r, "checking")
    /\ UNCHANGED <<key, txns, response, settleVars, metricVars,
                   guardVars, adapterVars>>

\* The call timed out, was refused or ended in an error status.
CheckFails(r) ==
    /\ pc[r] = "checking"
    /\ Raise(r, 503)
    /\ UNCHANGED <<key, txns, settleVars, metricVars, guardVars, adapterVars>>

\* The guard's payload if it has one (fast path), else the first record with
\* this key as the scan shows it (slow path).
Replay(r) ==
    /\ CheckedDuplicate(r)
    /\ IF answer[r].payload # NoTxn
       THEN Respond(r, 200, "CACHED", answer[r].status, answer[r].payload)
       ELSE \E t \in ByKey(key[r]) : \E state \in SeenStates(t) :
                Respond(r, 200, "CACHED", state, t)
    /\ UNCHANGED <<key, txns, settleVars, metricVars, guardVars, adapterVars>>

\* Duplicate key but the scan finds no record.
ReplayMissing(r) ==
    /\ CheckedDuplicate(r)
    /\ answer[r].payload = NoTxn
    /\ ByKey(key[r]) = {} \/ "scan" \in Faults
    /\ RecordStateCorruption(r)
    /\ Raise(r, 500)
    /\ UNCHANGED <<key, txns, settleVars, collision, counted, guardVars, adapterVars>>

----------------------------------------------------------------------------
(* Steps 2 to 4: record, resolve, mark PROCESSING and call the adapter.    *)

\* A handler that does not look at the duplicate flag.
WriteTxnOnAnyVerdict(r) ==
    /\ pc[r] = "checking"
    /\ answer[r].verdict # "none"
    /\ UpdateState(r, "INITIATED")
    /\ Goto(r, "resolving")
    /\ UNCHANGED <<key, response, settleVars, metricVars, guardVars, adapterVars>>

WriteTxn(r) ==
    /\ CheckedNew(r)
    /\ UpdateState(r, "INITIATED")
    /\ Goto(r, "resolving")
    /\ UNCHANGED <<key, response, settleVars, metricVars, guardVars, adapterVars>>

\* The router's 4xx/5xx is passed on (404 stands for it); no answer is 503.
ResolveFailsSilently(r) ==
    /\ pc[r] = "resolving"
    /\ \E code \in {404, 503} : Raise(r, code)
    /\ UNCHANGED <<key, txns, settleVars, metricVars, guardVars, adapterVars>>

ResolveFails(r) ==
    /\ pc[r] = "resolving"
    /\ UpdateState(r, "FAILED")
    /\ \E code \in {404, 503} : Raise(r, code)
    /\ UNCHANGED <<key, settleVars, metricVars, guardVars, adapterVars>>

Resolved(r) ==
    /\ pc[r] = "resolving"
    /\ UpdateState(r, "PROCESSING")
    /\ Adapter!Send(r)
    /\ Goto(r, "paying")
    /\ UNCHANGED <<key, response, settleVars, metricVars, guardVars>>

----------------------------------------------------------------------------
(* Steps 5 and 6: the adapter's answer.                                    *)

\* The POST to the adapter without its timeout.
AdapterCallPatient(r) ==
    /\ pc[r] = "paying"
    /\ adapter[r].phase = "replied"
    /\ UpdateState(r, "FAILED")
    /\ TimerRaises(r)
    /\ Raise(r, 502)
    /\ UNCHANGED <<key, settleVars, corruption, collision, guardVars, adapterVars>>

\* A status error, a broken connection or the 10 s httpx timeout; httpx
\* raises no TimeoutError, so lines 154-167 are never taken.
AdapterCallForgotten(r) ==
    /\ pc[r] = "paying"
    /\ TimerRaises(r)
    /\ Raise(r, 502)
    /\ UNCHANGED <<key, txns, settleVars, corruption, collision, guardVars, adapterVars>>

AdapterCallFails(r) ==
    /\ pc[r] = "paying"
    /\ UpdateState(r, "FAILED")
    /\ TimerRaises(r)
    /\ Raise(r, 502)
    /\ UNCHANGED <<key, settleVars, corruption, collision, guardVars, adapterVars>>

\* Any answer of the adapter taken for success.
FinalStateIgnored(r) == IF adapter[r].phase = "replied" THEN "SUCCESS" ELSE "FAILED"

FinalState(r) == IF adapter[r].status = "SUCCESS" THEN "SUCCESS" ELSE "FAILED"

\* update_state writes bank_rrn only when there is one.
Finalised(r) ==
    [txns EXCEPT ![r] =
        [state |-> FinalState(r),
         rrn   |-> IF adapter[r].rrn # NoRRN THEN adapter[r].rrn ELSE @.rrn]]

\* The first record the scan finds with this rrn is another transaction's; the
\* handler's own record is in the table by now, though a scan may miss it.
AdapterAnswers(r) ==
    /\ pc[r] = "paying"
    /\ adapter[r].phase = "replied"
    /\ txns' = Finalised(r)
    /\ IF FinalState(r) = "SUCCESS" /\ adapter[r].rrn # NoRRN
       THEN \/ \E first \in ByRrn(adapter[r].rrn, txns') :
                  IF first # r THEN RecordDuplicateDebit(r) ELSE UNCHANGED collision
            \/ "scan" \in Faults /\ UNCHANGED collision
       ELSE UNCHANGED collision
    /\ Goto(r, "completing")
    /\ UNCHANGED <<key, response, settleVars, corruption, counted, guardVars,
                   adapterVars>>

----------------------------------------------------------------------------
(* Step 7: complete, and hand the settlement event to a thread.            *)

\* store.complete with txn_id for the key: a conditional update of the item
\* under that partition key, skipped when there is none.
GuardComplete(r) ==
    entries' = [k \in Keys |->
        IF k = r /\ entries[k].status = "PROCESSING"
        THEN [status |-> txns[r].state, payload |-> r]
        ELSE entries[k]]

\* The settlement task is created whatever the final state.
CompleteReturnsAlwaysEmits(r) ==
    /\ pc[r] = "completing"
    /\ GuardComplete(r)
    /\ emitting' = emitting \cup {r}
    /\ IF txns[r].state = "SUCCESS"
       THEN /\ RecordPayment(r, "SUCCESS")
            /\ Respond(r, 200, "NEW", "SUCCESS", r)
       ELSE /\ RecordPayment(r, "FAILED")
            /\ Raise(r, 502)
    /\ UNCHANGED <<key, txns, queue, corruption, collision, answer, grantees,
                   lapsed, adapterVars>>

\* One pending settlement task per process.
CompleteReturnsOneTask(r) ==
    /\ pc[r] = "completing"
    /\ GuardComplete(r)
    /\ IF txns[r].state = "SUCCESS"
       THEN /\ emitting' = {r}
            /\ RecordPayment(r, "SUCCESS")
            /\ Respond(r, 200, "NEW", "SUCCESS", r)
       ELSE /\ UNCHANGED emitting
            /\ RecordPayment(r, "FAILED")
            /\ Raise(r, 502)
    /\ UNCHANGED <<key, txns, queue, corruption, collision, answer, grantees,
                   lapsed, adapterVars>>

CompleteReturns(r) ==
    /\ pc[r] = "completing"
    /\ GuardComplete(r)
    /\ IF txns[r].state = "SUCCESS"
       THEN /\ emitting' = emitting \cup {r}
            /\ RecordPayment(r, "SUCCESS")
            /\ Respond(r, 200, "NEW", "SUCCESS", r)
       ELSE /\ UNCHANGED emitting
            /\ RecordPayment(r, "FAILED")
            /\ Raise(r, 502)
    /\ UNCHANGED <<key, txns, queue, corruption, collision, answer, grantees,
                   lapsed, adapterVars>>

\* An error of /complete recorded as the payment's.
CompleteFailsRecorded(r) ==
    /\ "complete" \in Faults
    /\ pc[r] = "completing"
    /\ UpdateState(r, "FAILED")
    /\ TimerRaises(r)
    /\ Raise(r, 500)
    /\ UNCHANGED <<key, settleVars, corruption, collision, guardVars, adapterVars>>

\* A timeout or an error status propagates: 500, and no settlement task.
CompleteFails(r) ==
    /\ "complete" \in Faults
    /\ pc[r] = "completing"
    /\ TimerRaises(r)
    /\ Raise(r, 500)
    /\ UNCHANGED <<key, txns, settleVars, corruption, collision, guardVars, adapterVars>>

\* sqs.emit_settlement_event swallows every error.
Emit(r) ==
    /\ r \in emitting
    /\ emitting' = emitting \ {r}
    /\ \/ queue' = queue \cup {r}
       \/ "sqs" \in Faults /\ UNCHANGED queue
    /\ UNCHANGED <<pc, key, txns, response, metricVars, guardVars, adapterVars>>

----------------------------------------------------------------------------
(* Failures.                                                               *)

\* What the statement a handler is executing where it stands does to its
\* record, when it is applied.
PendingWrite(r) ==
    \/ CheckedNew(r) /\ UpdateState(r, "INITIATED")
    \/ pc[r] = "resolving" /\ UpdateState(r, "PROCESSING")
    \/ pc[r] \in {"resolving", "paying"} /\ UpdateState(r, "FAILED")
    \/ pc[r] = "paying" /\ adapter[r].phase = "replied" /\ txns' = Finalised(r)

\* A DynamoDB statement raises, applied or not: nothing catches it.
StoreRaises(r) ==
    /\ "dynamo" \in Faults
    /\ \/ PendingWrite(r)
       \/ /\ CheckedNew(r) \/ CheckedDuplicate(r) \/ pc[r] \in {"resolving", "paying"}
          /\ UNCHANGED txns
    /\ IF pc[r] = "paying" THEN TimerRaises(r) ELSE UNCHANGED counted
    /\ Raise(r, 500)
    /\ UNCHANGED <<key, settleVars, corruption, collision, guardVars,
                   adapterVars>>

\* The pod is killed (one replica, one worker): handlers and settlement
\* threads die, clients lose their connections; the tables stay.
Crash ==
    /\ "crash" \in Faults
    /\ emitting # {} \/ \E r \in Reqs : pc[r] \in Awaiting
    /\ pc' = [r \in Reqs |-> IF pc[r] \in Awaiting THEN "lost" ELSE pc[r]]
    /\ emitting' = {}
    /\ UNCHANGED <<key, txns, response, queue, metricVars, guardVars, adapterVars>>

----------------------------------------------------------------------------
(* The guard and the adapter at work.                                      *)

\* The guard processes the check request r sent, however late.
GuardChecks(r) ==
    /\ pc[r] # "idle"
    /\ \/ Guard!Claim(r, key[r])
       \/ Guard!Repeat(r, key[r])
       \/ Guard!RepeatLapsed(r, key[r])
       \/ Guard!Unanswered(r) /\ Guard!ClaimUnacknowledged(key[r])
    /\ UNCHANGED <<pc, key, txns, response, settleVars, metricVars, adapterVars>>

\* The key's 24 h pass; a payment takes seconds, so none is under way.
KeyLapses(k) ==
    /\ \A r \in grantees[k] : pc[r] \in {"answered", "lost"}
    /\ Guard!Lapse(k)
    /\ UNCHANGED <<pc, key, txns, response, settleVars, metricVars, adapterVars>>

AdapterWorks(r) ==
    /\ \/ Adapter!Accept(r)
       \/ Adapter!Debit(r)
       \/ Adapter!AnswerSuccess(r)
       \/ Adapter!AnswerFailed(r)
    /\ UNCHANGED <<pc, key, txns, response, settleVars, metricVars, guardVars>>

\* A handler runs from one await to the next.
HandlerProceeds(r) ==
    \/ CheckFails(r)
    \/ Replay(r)
    \/ ReplayMissing(r)
    \/ WriteTxn(r)
    \/ ResolveFails(r)
    \/ Resolved(r)
    \/ AdapterCallFails(r)
    \/ AdapterAnswers(r)
    \/ CompleteReturns(r)
    \/ CompleteFails(r)

HandlerStep(r) == HandlerProceeds(r) \/ StoreRaises(r)

Next ==
    \/ \E r \in Reqs : \/ Receive(r)
                       \/ HandlerStep(r)
                       \/ Emit(r)
                       \/ GuardChecks(r)
                       \/ AdapterWorks(r)
    \/ \E k \in Keys : KeyLapses(k)
    \/ Crash

Spec == Init /\ [][Next]_vars

\* Every awaited call ends, by its answer or by its httpx timeout, and the
\* event loop and the thread pool run what is ready.  Nothing is assumed of
\* clients, of the guard, of the adapter or of the bank.
Fairness ==
    \A r \in Reqs : WF_vars(HandlerProceeds(r)) /\ WF_vars(Emit(r))

FairSpec == Spec /\ Fairness

----------------------------------------------------------------------------
(* Safety.                                                                 *)

\* Within the life of a key, one request at most executes the payment; every
\* other request with that key, concurrent or later, is answered from its
\* record (payments.py:39-98).
OneRecordPerKey ==
    \A t, u \in Reqs :
        (Recorded(t) /\ Recorded(u) /\ key[t] = key[u] /\ key[t] \notin lapsed)
        => t = u

\* "If the client retries with the same idempotency key, the system must not
\* debit the customer again" (README.MD:79): all debits for a key belong to one
\* transaction, whatever timed out, crashed or was retried.
RetryNeverDebitsAgain ==
    \A t, u \in Reqs :
        (debits[t] > 0 /\ debits[u] > 0 /\ key[t] = key[u] /\ key[t] \notin lapsed)
        => t = u

\* The bank is only asked to debit once the record durably says so: after a
\* crash at any point, every debited transaction is in the table and past
\* INITIATED (payments.py:98, 118, 137).
DebitIsRecorded ==
    \A t \in Reqs : debits[t] > 0 => txns[t].state \in {"PROCESSING"} \cup Final

\* A record says SUCCESS only of a payment the bank has made.
SuccessIsDebited ==
    \A t \in Reqs : txns[t].state = "SUCCESS" => debits[t] > 0

\* Settlement moves money: its events name successful, debited transactions,
\* also when the process died in between (payments.py:237-245).
SettledOnlySuccess ==
    \A t \in queue \cup emitting :
        txns[t].state = "SUCCESS" /\ debits[t] > 0

\* What a client was told is what the table says from then on: a final status
\* and a 502 are never contradicted by the table, and a cached answer is
\* about the client's own key (payments.py:52-72, 195, 222-250).
AnswersMatchRecords ==
    \A r \in Reqs :
        /\ response[r].status \in Final =>
               txns[response[r].txn].state = response[r].status
        /\ response[r].txn # NoTxn => key[response[r].txn] = key[r]
        /\ response[r].code = 502 => txns[r].state = "FAILED"

\* The payment counters agree with what clients were told and what the table
\* says: exactly the payments answered SUCCESS are counted so, and one counted
\* FAILED has failed or ended in a 500 that leaves its outcome open
\* (payment_metrics.py:236-255 around payments.py:124-245).
CountsMatchAnswers ==
    \A r \in Reqs :
        /\ counted[r] = "SUCCESS" <=> response[r].source = "NEW"
        /\ counted[r] = "FAILED" =>
               txns[r].state = "FAILED" \/ response[r].code = 500

\* A final record never changes and no record goes back (dynamo.update_state
\* is unconditional: only the order of the handler's steps ensures it).
Rank(state) == CASE state = "ABSENT"     -> {}
                 [] state = "INITIATED"  -> {1}
                 [] state = "PROCESSING" -> {1, 2}
                 [] OTHER                -> {1, 2, 3}

RecordsOnlyAdvance ==
    [][\A t \in Reqs :
          /\ Rank(txns[t].state) \subseteq Rank(txns'[t].state)
          /\ txns[t].state \in Final => txns'[t] = txns[t]]_vars

----------------------------------------------------------------------------
(* The inductive invariant: what a handler's place, the guard and the      *)
(* adapter say about its record.                                           *)

\* A NEW answer is a grant of the key, of which there is one per life.
GrantsAreExclusive ==
    /\ \A k \in Keys : \A t, u \in grantees[k] : t = u
    /\ \A k \in Keys : \A t \in grantees[k] : Guard!Present(k)
    /\ \A t \in Reqs : answer[t].verdict = "NEW" =>
                            t \in grantees[key[t]] \/ key[t] \in lapsed

\* Only a granted request writes a record, and its state follows the handler.
RecordFollowsHandler ==
    \A t \in Reqs :
        /\ pc[t] \in {"idle", "checking"} => ~Recorded(t)
        /\ pc[t] = "resolving" => txns[t].state = "INITIATED"
        /\ pc[t] = "paying" => txns[t].state = "PROCESSING"
        /\ pc[t] = "completing" => txns[t].state \in Final
        /\ Recorded(t) => answer[t].verdict = "NEW"

\* The adapter hears of a payment no earlier than its record is PROCESSING,
\* and the bank no earlier than the adapter.
AdapterFollowsRecord ==
    \A t \in Reqs :
        /\ adapter[t].phase # "idle" =>
               txns[t].state \in {"PROCESSING"} \cup Final
        /\ debits[t] > 0 => adapter[t].phase # "idle"
        /\ adapter[t].status = "SUCCESS" => debits[t] > 0

\* GuardComplete names no record, so no answer of the guard has a payload.
NothingCached ==
    /\ \A k \in Keys : entries[k].payload = NoTxn
    /\ \A t \in Reqs : answer[t].payload = NoTxn

\* Who is settled or was answered is past writing.
SettledIsDone  == \A t \in queue \cup emitting : pc[t] \in {"answered", "lost"}
AnsweredIsDone ==
    \A t \in Reqs :
        /\ response[t].code # 0 => pc[t] = "answered"
        /\ response[t].source = "NEW" => response[t].code # 0
        /\ counted[t] # "none" => pc[t] = "answered"

CoreInv ==
    /\ TypeOK
    /\ GrantsAreExclusive
    /\ RecordFollowsHandler
    /\ AdapterFollowsRecord
    /\ NothingCached
    /\ SettledIsDone
    /\ AnsweredIsDone
    /\ SuccessIsDebited
    /\ SettledOnlySuccess
    /\ AnswersMatchRecords
    /\ CountsMatchAnswers

----------------------------------------------------------------------------
(* Who still owes what.                                                    *)

\* An open record has a handler that will close it, unless a crash took the
\* handler or a failing table ended it in a 500 (payments.py:98-245).
OpenRecordsAttended ==
    \A t \in Reqs :
        txns[t].state \in {"INITIATED", "PROCESSING"} =>
            \/ pc[t] \in {"resolving", "paying"}
            \/ pc[t] = "lost" /\ "crash" \in Faults
            \/ response[t].code = 500 /\ "dynamo" \in Faults

\* A successful payment has its settlement event, or a handler or a task that
\* will emit it, unless a crash or the queue lost it or the handler ended in a
\* 500 (payments.py:222-245).
SuccessesAttended ==
    \A t \in Reqs :
        txns[t].state = "SUCCESS" =>
            \/ pc[t] = "completing"
            \/ t \in emitting \cup queue
            \/ Faults \cap {"crash", "sqs"} # {}
            \/ response[t].code = 500 /\ Faults \cap {"complete", "dynamo"} # {}

\* Only a final record has a reference of the bank.
ReferencesAreFinal ==
    \A t \in Reqs : txns[t].rrn # NoRRN => txns[t].state \in Final

\* The duplicate debit alarm is never false: at whatever moment a scan showed
\* the other record, it names a transaction that did end with the reference this
\* payment succeeded with, and still does (payments.py:209-220).
CollisionsAreReal ==
    \A r \in collision :
        /\ txns[r].state = "SUCCESS" /\ txns[r].rrn # NoRRN
        /\ \E t \in Reqs \ {r} : txns[t].rrn = txns[r].rrn

IInv ==
    /\ CoreInv
    /\ OpenRecordsAttended
    /\ SuccessesAttended
    /\ ReferencesAreFinal
    /\ CollisionsAreReal

----------------------------------------------------------------------------
(* Liveness.                                                               *)

\* Every request is answered, or its connection dies with the process: no
\* handler waits for ever on a guard, router or adapter that does not answer.
EveryRequestEnds ==
    \A r \in Reqs : pc[r] = "checking" ~> pc[r] \in {"answered", "lost"}

\* Without a crash or a failing table, no record stays INITIATED or PROCESSING:
\* every way out of the handler records an outcome.
BooksClose ==
    \A t \in Reqs : Recorded(t) ~> txns[t].state \in Final

\* Every successful payment gets its settlement event ("publish settlement
\* events without blocking the instant customer response", README.MD:596).
SettlementFollowsSuccess ==
    \A t \in Reqs : txns[t].state = "SUCCESS" ~> t \in queue

----------------------------------------------------------------------------
(* What the documentation says and the code does not do.                   *)

\* "Cache result" (payments.py:230): once a payment is answered, the guard
\* holds its result under its key.
ResultCached ==
    \A r \in Reqs :
        (response[r].source = "NEW" /\ key[r] \notin lapsed)
        => entries[key[r]].status = response[r].status
============================================================================
