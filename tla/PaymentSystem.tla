--------------------------- MODULE PaymentSystem ---------------------------
(***************************************************************************)
(* A payment through the services as they are deployed: payment-switch     *)
(* calls the idempotency guard and bank-adapter themselves, not what they  *)
(* promise.  Each service is its own module with its own state; they meet  *)
(* in the two calls                                                        *)
(*                                                                         *)
(*     guard /check, started by Receive     adapter /send, by Resolved     *)
(*                                                                         *)
(* and in the answers the switch reads.  Services step one at a time, and  *)
(* each may be restarted without the others.                               *)
(***************************************************************************)
EXTENDS Naturals

CONSTANTS
    Reqs, Keys, RRNs, NoTxn, NoRRN, Faults,     \* PaymentSwitch
    Resets, Banks, NoBreaker, FailMax           \* BankAdapter

ASSUME IdsDisjoint       == Keys \cap Reqs = {}
ASSUME NoTxnAssumption   == NoTxn \notin Reqs
ASSUME FailMaxAssumption == FailMax \in Nat \ {0}
ASSUME CallsAssumption   ==
    Reqs \cap Resets = {} /\ NoBreaker \notin Reqs \cup Resets

VARIABLES
    pc, txns, response, emitting, queue,        \* payment-switch
    corruption, collision, counted,
    key,                                        \* sent with every check
    checkPc, entries, answer, grantees, lapsed, \* the guard
    bankOf, sendPc, reply, bank, seen,          \* bank-adapter, the banks
    breakers, held, breaker, gauge, reporter

switchVars  == <<pc, txns, response, emitting, queue,
                 corruption, collision, counted>>
guardVars   == <<checkPc, entries, answer, grantees, lapsed>>
adapterVars == <<bankOf, sendPc, reply, bank, seen,
                 breakers, held, breaker, gauge, reporter>>
vars == <<switchVars, key, guardVars, adapterVars>>

Guard   == INSTANCE IdempotencyGuardProofs
               WITH Calls <- Reqs, Payloads <- Reqs, NoPayload <- NoTxn,
                    pc <- checkPc
Adapter == INSTANCE BankAdapterProofs WITH Txns <- Reqs, pc <- sendPc

\* The switch, with the adapter as its HTTP interface shows it.
Switch  == INSTANCE PaymentSwitchProofs
               WITH adapter <- Adapter!AdapterView,
                    debits  <- Adapter!DebitCount

ASSUME FaultsAssumption == Faults \subseteq Switch!AllFaults

Init == Guard!Init /\ Adapter!Init /\ Switch!Init

----------------------------------------------------------------------------
\* A handler or a settlement thread of the switch runs, or its pod is killed.
\* The adapter gets a request exactly when a handler sends one: the step of
\* the handler says which (phase "sent").  /complete runs at the guard within
\* CompleteReturns, as one conditional update.
SwitchStep ==
    /\ UNCHANGED checkPc
    /\ \/ \E r \in Reqs :
             /\ Adapter!Send(r) \/ UNCHANGED adapterVars
             /\ Switch!Receive(r) \/ Switch!HandlerStep(r) \/ Switch!Emit(r)
       \/ UNCHANGED adapterVars /\ Switch!Crash

\* The guard takes up a check once the switch has sent it and goes on whether
\* or not the switch still waits.  A key's 24 h do not pass under a payment.
GuardStep ==
    /\ UNCHANGED <<switchVars, adapterVars>>
    /\ \/ \E r \in Reqs : pc[r] # "idle" /\ Guard!CallStep(r)
       \/ \E k \in Keys : /\ \A r \in grantees[k] : pc[r] \in {"answered", "lost"}
                          /\ Guard!Expire(k)
       \/ Guard!Crash

\* The adapter and the banks do anything but receive a request of their own.
AdapterStep ==
    /\ Adapter!Next
    /\ \A r \in Reqs : sendPc[r] = "idle" => sendPc'[r] = "idle"
    /\ UNCHANGED <<switchVars, key, guardVars>>

Next == SwitchStep \/ GuardStep \/ AdapterStep

Spec == Init /\ [][Next]_vars

----------------------------------------------------------------------------
\* "If the client retries with the same idempotency key, the system must not
\* debit the customer again" (README.MD:79), of the debits at the banks: within
\* the life of a key they belong to one request, whatever race at the guard,
\* timeout, restart or late answer came between, and there are two of them
\* only if it remained in doubt what the primary endpoint did.
PaidOncePerKey ==
    \A t, u \in Reqs : \A e, f \in Adapter!Endpoints :
        (/\ bank[t][e] = "debited" /\ bank[u][f] = "debited"
         /\ key[t] = key[u] /\ key[t] \notin lapsed)
        => /\ t = u
           /\ e # f => seen[t]["primary"] \in Adapter!Doubtful

\* Whom a client was told is SUCCESS, also from the record on a retry, and
\* what is settled, the bank has debited; it does not take it back.
SuccessIsPaid ==
    \A r, t \in Reqs :
        (\/ response[r].status = "SUCCESS" /\ response[r].txn = t
         \/ t \in queue \cup emitting)
        => \E e \in Adapter!Endpoints : bank[t][e] = "debited"

\* A request reaches a bank only if the guard told it NEW, and while its key
\* lives it holds the grant: nothing the switch does meanwhile, and no call
\* that comes too late at the guard, passes a payment by the guard.
PostedIsGranted ==
    \A t \in Reqs :
        (\E e \in Adapter!Endpoints : bank[t][e] # "none") =>
            /\ answer[t].verdict = "NEW"
            /\ t \in grantees[key[t]] \/ key[t] \in lapsed

\* The deployed services behave as PaymentSwitch over the atomic registry and
\* the adapter's contract: what holds there holds here.
Implements == Switch!Spec

\* The inductive invariant is that of the parts.
IInv == Guard!IInv /\ Adapter!IInv /\ Switch!IInv
============================================================================
