------------------------ MODULE PaymentSystemProofs ------------------------
(***************************************************************************)
(* Proofs about the composed services, for any sets of requests, keys,     *)
(* references, banks and resets, any threshold and any faults: every step  *)
(* is a step of each part or leaves it alone, so the theorems of the parts *)
(* hold of the whole and give what holds from one end to the other.        *)
(***************************************************************************)
EXTENDS PaymentSystem, TLAPS

USE IdsDisjoint, NoTxnAssumption, FaultsAssumption, FailMaxAssumption,
    CallsAssumption

----------------------------------------------------------------------------
(* The guard and the adapter as parts of the system.                       *)

\* What a handler of the switch does to the guard's records: nothing, since
\* /complete names a transaction and no key.
LEMMA HandlerKeepsGuard ==
    ASSUME Guard!IInv, NEW r \in Reqs,
           Switch!Receive(r) \/ Switch!HandlerStep(r) \/ Switch!Emit(r)
    PROVE  UNCHANGED <<key, entries, answer, grantees, lapsed>>
<1> USE DEF Switch!guardVars
<1>1. CASE Switch!CompleteReturns(r)
  <2>1. entries \in [Keys -> Guard!Registry!Entry]
    BY DEF Guard!IInv, Guard!TypeOK, Guard!Registry!RegistryTypeOK
  <2>2. entries' = entries
    BY <1>1, <2>1 DEF Switch!CompleteReturns, Switch!GuardComplete
  <2> QED
    BY <1>1, <2>2 DEF Switch!CompleteReturns
<1>2. CASE Switch!Receive(r) \/ Switch!Emit(r) \/ Switch!StoreRaises(r)
  BY <1>2 DEF Switch!Receive, Switch!Emit, Switch!StoreRaises
<1>3. CASE \/ Switch!CheckFails(r) \/ Switch!Replay(r) \/ Switch!ReplayMissing(r)
           \/ Switch!WriteTxn(r) \/ Switch!ResolveFails(r) \/ Switch!Resolved(r)
           \/ Switch!AdapterCallFails(r) \/ Switch!AdapterAnswers(r)
           \/ Switch!CompleteFails(r)
  BY <1>3 DEF Switch!CheckFails, Switch!Replay, Switch!ReplayMissing,
              Switch!WriteTxn, Switch!ResolveFails, Switch!Resolved,
              Switch!AdapterCallFails, Switch!AdapterAnswers,
              Switch!CompleteFails
<1> QED
  BY <1>1, <1>2, <1>3 DEF Switch!HandlerStep, Switch!HandlerProceeds

\* Every step of the system is one of the guard's or leaves it alone.
LEMMA StepOfGuard ==
    ASSUME Guard!IInv, [Next]_vars
    PROVE  [Guard!Next]_(Guard!vars)
<1> USE DEF Guard!vars
<1>1. CASE SwitchStep
  BY <1>1, HandlerKeepsGuard DEF SwitchStep, Switch!Crash, Switch!guardVars
<1>2. CASE GuardStep
  BY <1>2 DEF GuardStep, Guard!Next, Guard!TableStep
<1>3. CASE AdapterStep \/ UNCHANGED vars
  BY <1>3 DEF AdapterStep, vars, guardVars
<1> QED
  BY <1>1, <1>2, <1>3 DEF Next

\* Every step of the system is one of the adapter's or leaves it alone.
LEMMA StepOfAdapter ==
    ASSUME [Next]_vars
    PROVE  [Adapter!Next]_(Adapter!vars)
<1>1. UNCHANGED adapterVars => UNCHANGED Adapter!vars
  BY DEF adapterVars, Adapter!vars, Adapter!sendVars, Adapter!breakerVars
<1>2. CASE SwitchStep
  BY <1>1, <1>2 DEF SwitchStep, Adapter!Next
<1>3. CASE GuardStep \/ UNCHANGED vars
  BY <1>1, <1>3 DEF GuardStep, vars
<1>4. CASE AdapterStep
  BY <1>4 DEF AdapterStep
<1> QED
  BY <1>2, <1>3, <1>4 DEF Next

\* The system does with its guard only what IdempotencyGuard does.
THEOREM GuardComposes == Spec => Guard!Spec /\ []Guard!IInv
<1>1. Init => Guard!IInv /\ Guard!Init
  BY Guard!InvInductive DEF Init
<1>2. Guard!IInv /\ [Next]_vars => [Guard!Next]_(Guard!vars)
  BY StepOfGuard
<1>3. Guard!IInv /\ [Guard!Next]_(Guard!vars) => Guard!IInv'
  BY Guard!InvInductive
<1> QED
  BY <1>1, <1>2, <1>3, PTL DEF Spec, Guard!Spec

\* The system does with its adapter only what BankAdapter does.
THEOREM AdapterComposes == Spec => Adapter!Spec /\ []Adapter!IInv
<1>1. Init => Adapter!Init
  BY DEF Init
<1>2. [Next]_vars => [Adapter!Next]_(Adapter!vars)
  BY StepOfAdapter
<1> QED
  BY <1>1, <1>2, Adapter!AdapterInvariant, PTL DEF Spec, Adapter!Spec

----------------------------------------------------------------------------
(* The system implements the switch over the two abstractions.             *)

\* The adapter's interface stays as it is when the adapter does.
LEMMA InterfaceKept ==
    UNCHANGED adapterVars => UNCHANGED <<Adapter!AdapterView, Adapter!DebitCount>>
BY DEF adapterVars, Adapter!AdapterView, Adapter!DebitCount, Adapter!Debited

\* A step of the guard is one promise of the registry, made to a request that
\* has been sent.
LEMMA GuardStepOfSwitch ==
    ASSUME Guard!IInv, GuardStep
    PROVE  [Switch!Next]_(Switch!vars)
<1> USE DEF Switch!vars, Switch!settleVars, Switch!metricVars, Switch!guardVars,
            Switch!adapterVars, switchVars
<1>1. UNCHANGED <<Adapter!AdapterView, Adapter!DebitCount>> /\ UNCHANGED switchVars
  BY InterfaceKept DEF GuardStep
<1>2. ASSUME NEW r \in Reqs, pc[r] # "idle", Guard!CallStep(r)
      PROVE  [Switch!Next]_(Switch!vars)
  <2>1. UNCHANGED key
    BY <1>2 DEF Guard!CallStep, Guard!Receive, Guard!FindHit, Guard!FindMiss,
       Guard!InsertWins, Guard!InsertLoses, Guard!InsertUnacknowledged,
       Guard!Refind, Guard!RequestFails
  <2>2. CASE UNCHANGED Guard!Registry!registryVars
    BY <1>1, <2>1, <2>2 DEF Guard!Registry!registryVars
  <2>3. CASE \/ Guard!Registry!Claim(r, key[r])
             \/ Guard!Registry!Repeat(r, key[r])
             \/ Guard!Registry!RepeatLapsed(r, key[r])
             \/ /\ Guard!Registry!Unanswered(r)
                /\ Guard!Registry!ClaimUnacknowledged(key[r])
    <3>1. \/ Switch!Guard!Claim(r, key[r])
          \/ Switch!Guard!Repeat(r, key[r])
          \/ Switch!Guard!RepeatLapsed(r, key[r])
          \/ Switch!Guard!Unanswered(r) /\ Switch!Guard!ClaimUnacknowledged(key[r])
      BY <2>3 DEF
         Guard!Registry!Claim, Switch!Guard!Claim,
         Guard!Registry!Repeat, Switch!Guard!Repeat,
         Guard!Registry!RepeatLapsed, Switch!Guard!RepeatLapsed,
         Guard!Registry!ClaimUnacknowledged, Switch!Guard!ClaimUnacknowledged,
         Guard!Registry!Unanswered, Switch!Guard!Unanswered,
         Guard!Registry!Present, Switch!Guard!Present,
         Guard!Registry!Claimed, Switch!Guard!Claimed,
         Guard!Registry!NewAnswer, Switch!Guard!NewAnswer,
         Guard!Registry!DuplicateAnswer, Switch!Guard!DuplicateAnswer
    <3>2. Switch!GuardChecks(r)
      BY <1>1, <1>2, <2>1, <3>1 DEF Switch!GuardChecks
    <3> QED
      BY <3>2 DEF Switch!Next
  <2> QED
    BY <1>2, <2>2, <2>3, Guard!CallAnswers
<1>3. ASSUME NEW k \in Keys, Guard!Expire(k),
             \A r \in grantees[k] : pc[r] \in {"answered", "lost"}
      PROVE  [Switch!Next]_(Switch!vars)
  <2>1. Switch!Guard!Lapse(k) /\ UNCHANGED key
    BY <1>3 DEF Guard!Expire, Guard!Registry!Present, Guard!Registry!AbsentEntry,
                Switch!Guard!Lapse, Switch!Guard!Present, Switch!Guard!AbsentEntry
  <2>2. Switch!KeyLapses(k)
    BY <1>1, <1>3, <2>1 DEF Switch!KeyLapses
  <2> QED
    BY <2>2 DEF Switch!Next
<1>4. CASE Guard!Crash
  BY <1>1, <1>4 DEF Guard!Crash
<1> QED
  BY <1>2, <1>3, <1>4 DEF GuardStep

\* A step of the adapter or a bank is one of the contract's, and no request is
\* sent by it.
LEMMA AdapterStepOfSwitch ==
    ASSUME Adapter!IInv, AdapterStep
    PROVE  [Switch!Next]_(Switch!vars)
<1> USE DEF Switch!vars, Switch!settleVars, Switch!metricVars, Switch!guardVars,
            Switch!adapterVars, switchVars, guardVars
<1>1. UNCHANGED <<switchVars, key, guardVars>>
  BY DEF AdapterStep
<1>2. [Adapter!Contract!Next]_(Adapter!Contract!contractVars)
  BY Adapter!ContractStep DEF AdapterStep
<1>3. CASE UNCHANGED Adapter!Contract!contractVars
  BY <1>1, <1>3 DEF Adapter!Contract!contractVars
<1>4. ASSUME NEW t \in Reqs
      PROVE  ~Adapter!Contract!Send(t)
  <2> SUFFICES ASSUME Adapter!Contract!Send(t) PROVE FALSE
    OBVIOUS
  <2>1. Adapter!AdapterView[t].phase = "idle" /\ Adapter!AdapterView'[t].phase = "sent"
    BY DEF Adapter!Contract!Send, Adapter!AdapterView
  <2>2. sendPc[t] = "idle" /\ sendPc'[t] # "idle"
    BY <2>1 DEF Adapter!AdapterView
  <2> QED
    BY <2>2 DEF AdapterStep
<1>5. ASSUME NEW t \in Reqs,
             \/ Adapter!Contract!Accept(t)
             \/ Adapter!Contract!Debit(t)
             \/ Adapter!Contract!AnswerSuccess(t)
             \/ Adapter!Contract!AnswerFailed(t)
      PROVE  [Switch!Next]_(Switch!vars)
  <2>1. \/ Switch!Adapter!Accept(t)
        \/ Switch!Adapter!Debit(t)
        \/ Switch!Adapter!AnswerSuccess(t)
        \/ Switch!Adapter!AnswerFailed(t)
    BY <1>5 DEF
       Adapter!Contract!Accept, Switch!Adapter!Accept,
       Adapter!Contract!Debit, Switch!Adapter!Debit,
       Adapter!Contract!AnswerSuccess, Switch!Adapter!AnswerSuccess,
       Adapter!Contract!AnswerFailed, Switch!Adapter!AnswerFailed,
       Adapter!Contract!Answer, Switch!Adapter!Answer,
       Adapter!Contract!MaxDebits, Switch!Adapter!MaxDebits
  <2>2. Switch!AdapterWorks(t)
    BY <1>1, <2>1 DEF Switch!AdapterWorks
  <2> QED
    BY <2>2 DEF Switch!Next
<1> QED
  BY <1>2, <1>3, <1>4, <1>5 DEF Adapter!Contract!Next

\* The deployed services behave as PaymentSwitch over the atomic registry and
\* the adapter's contract (payments.py over the guard and the bank-adapter).
THEOREM SystemImplementsSwitch == Spec => Implements
<1>1. Init => Switch!Init
  BY DEF Init
<1>2. Guard!IInv /\ Adapter!IInv /\ [Next]_vars => [Switch!Next]_(Switch!vars)
  <2> SUFFICES ASSUME Guard!IInv, Adapter!IInv, [Next]_vars
               PROVE  [Switch!Next]_(Switch!vars)
    OBVIOUS
  <2>1. CASE SwitchStep
    BY <2>1 DEF SwitchStep, Switch!Next
  <2>2. CASE GuardStep
    BY <2>2, GuardStepOfSwitch
  <2>3. CASE AdapterStep
    BY <2>3, AdapterStepOfSwitch
  <2>4. CASE UNCHANGED vars
    BY <2>4, InterfaceKept DEF vars, switchVars, guardVars, Switch!vars,
       Switch!settleVars, Switch!metricVars, Switch!guardVars, Switch!adapterVars
  <2> QED
    BY <2>1, <2>2, <2>3, <2>4 DEF Next
<1> QED
  BY <1>1, <1>2, GuardComposes, AdapterComposes, PTL DEF Spec, Implements, Switch!Spec

----------------------------------------------------------------------------
(* From one end to the other.                                              *)

\* The invariants of guard, adapter and switch hold of the deployed system.
THEOREM SystemInvariant == Spec => []IInv
<1>1. Switch!Spec => []Switch!IInv
  BY Switch!SwitchInvariant
<1>2. Spec => []Switch!IInv
  BY <1>1, SystemImplementsSwitch, PTL DEF Implements
<1> QED
  BY <1>2, GuardComposes, AdapterComposes, PTL DEF IInv

\* A bank that debited a payment has been asked for it.
LEMMA DebitedIsPosted ==
    ASSUME IInv, NEW t \in Reqs, NEW e \in Adapter!Endpoints, bank[t][e] # "none"
    PROVE  Adapter!AdapterView[t].phase # "idle"
<1>1. Adapter!InOrder(t)
  BY DEF IInv, Adapter!IInv
<1>2. sendPc[t] \notin Adapter!Unmade
  BY <1>1 DEF Adapter!InOrder, Adapter!Endpoints, Adapter!Retried, Adapter!Doubtful
<1> QED
  BY <1>2 DEF Adapter!AdapterView, Adapter!Unmade

\* The count of debits the switch's properties speak of is that of the banks.
LEMMA DebitsCounted ==
    ASSUME NEW t \in Reqs
    PROVE  /\ Adapter!DebitCount[t] \in Nat
           /\ Adapter!DebitCount[t] > 0 <=>
                  \E e \in Adapter!Endpoints : bank[t][e] = "debited"
<1>1. Adapter!DebitCount[t] \in Nat
  BY Adapter!DebitsBounded
<1>2. Adapter!Debited(t) # {} => Adapter!DebitCount[t] > 0
  BY Adapter!DebitsBounded
<1>3. Adapter!Debited(t) = {} => Adapter!DebitCount[t] = 0
  BY Adapter!NoDebits
<1>4. Adapter!Debited(t) # {} <=>
        \E e \in Adapter!Endpoints : bank[t][e] = "debited"
  BY DEF Adapter!Debited
<1> QED
  BY <1>1, <1>2, <1>3, <1>4

\* No payment reaches a bank but by a grant of its key.
THEOREM OnlyGrantedArePosted == Spec => []PostedIsGranted
<1>1. IInv => PostedIsGranted
  <2> SUFFICES ASSUME IInv, NEW t \in Reqs, NEW e \in Adapter!Endpoints,
                      bank[t][e] # "none"
               PROVE  /\ answer[t].verdict = "NEW"
                      /\ t \in grantees[key[t]] \/ key[t] \in lapsed
    BY DEF PostedIsGranted
  <2>1. txns[t].state \in {"PROCESSING"} \cup Switch!Final
    BY DebitedIsPosted
       DEF IInv, Switch!IInv, Switch!CoreInv, Switch!AdapterFollowsRecord
  <2>2. answer[t].verdict = "NEW"
    BY <2>1 DEF IInv, Switch!IInv, Switch!CoreInv, Switch!RecordFollowsHandler,
                Switch!Recorded, Switch!Final
  <2> QED
    BY <2>2 DEF IInv, Switch!IInv, Switch!CoreInv, Switch!GrantsAreExclusive
<1> QED
  BY <1>1, SystemInvariant, PTL

\* Whatever races, times out, dies or is retried in any of the services, a key
\* is paid by one request, and twice only after a primary that remained in doubt.
THEOREM PaymentsAreMadeOnce == Spec => []PaidOncePerKey
<1>1. Spec => []Switch!RetryNeverDebitsAgain
  BY SystemImplementsSwitch, Switch!RetriesAreSafe, PTL DEF Implements
<1>2. Spec => []Adapter!DoubleDebitNeedsDoubt
  BY AdapterComposes, Adapter!DoubleDebitIsDoubtful, PTL
<1>3. ASSUME Switch!RetryNeverDebitsAgain, Adapter!DoubleDebitNeedsDoubt
      PROVE  PaidOncePerKey
  <2> SUFFICES ASSUME NEW t \in Reqs, NEW u \in Reqs,
                      NEW e \in Adapter!Endpoints, NEW f \in Adapter!Endpoints,
                      bank[t][e] = "debited", bank[u][f] = "debited",
                      key[t] = key[u], key[t] \notin lapsed
               PROVE  /\ t = u
                      /\ e # f => seen[t]["primary"] \in Adapter!Doubtful
    BY DEF PaidOncePerKey
  <2>1. Adapter!DebitCount[t] > 0 /\ Adapter!DebitCount[u] > 0
    BY DebitsCounted
  <2>2. t = u
    BY <1>3, <2>1 DEF Switch!RetryNeverDebitsAgain
  <2>3. ASSUME e # f
        PROVE  seen[t]["primary"] \in Adapter!Doubtful
    <3>1. Adapter!Debited(t) = Adapter!Endpoints
      BY <2>2, <2>3 DEF Adapter!Debited, Adapter!Endpoints
    <3> QED
      BY <1>3, <3>1 DEF Adapter!DoubleDebitNeedsDoubt
  <2> QED
    BY <2>2, <2>3
<1> QED
  BY <1>1, <1>2, <1>3, PTL

\* What clients are told is paid and what is settled, a bank has debited.
THEOREM SuccessesArePaid == Spec => []SuccessIsPaid
<1>1. IInv => SuccessIsPaid
  <2> SUFFICES ASSUME IInv, NEW r \in Reqs, NEW t \in Reqs,
                      \/ response[r].status = "SUCCESS" /\ response[r].txn = t
                      \/ t \in queue \cup emitting
               PROVE  \E e \in Adapter!Endpoints : bank[t][e] = "debited"
    BY DEF SuccessIsPaid
  <2>1. txns[t].state = "SUCCESS"
    BY DEF IInv, Switch!IInv, Switch!CoreInv, Switch!AnswersMatchRecords,
           Switch!SettledOnlySuccess, Switch!Final
  <2>2. Adapter!DebitCount[t] > 0
    BY <2>1 DEF IInv, Switch!IInv, Switch!CoreInv, Switch!SuccessIsDebited
  <2> QED
    BY <2>2, DebitsCounted
<1> QED
  BY <1>1, SystemInvariant, PTL

\* Of the deployed services too: what clients and counters were told is what the
\* table says, records only advance, nobody who owes a record or a settlement
\* drops it, and no duplicate debit alarm is false.
THEOREM SwitchPromisesHold ==
    Spec => /\ [](Switch!AnswersMatchRecords /\ Switch!CountsMatchAnswers)
            /\ [](Switch!OpenRecordsAttended /\ Switch!SuccessesAttended)
            /\ []Switch!CollisionsAreReal
            /\ Switch!RecordsOnlyAdvance
<1>1. Switch!Spec => [](Switch!AnswersMatchRecords /\ Switch!CountsMatchAnswers)
  BY Switch!AnswersAreTrue, Switch!CountsAreTrue, PTL
<1>2. Switch!Spec => [](Switch!OpenRecordsAttended /\ Switch!SuccessesAttended)
  BY Switch!NothingIsForgotten
<1>3. Switch!Spec => []Switch!CollisionsAreReal
  BY Switch!AlarmsAreReal, PTL
<1>4. Switch!Spec => Switch!RecordsOnlyAdvance
  BY Switch!RecordsAdvance
<1> QED
  BY <1>1, <1>2, <1>3, <1>4, SystemImplementsSwitch, PTL DEF Implements
============================================================================
