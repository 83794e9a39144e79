------------------------- MODULE PaymentSwitchProofs -------------------------
(***************************************************************************)
(* Proofs about payment-switch, for any sets of requests and keys and any  *)
(* faults.  CoreInv is inductive and the safety properties follow from it; *)
(* with what is owed, and the alarms raised, it makes IInv.                *)
(***************************************************************************)
EXTENDS PaymentSwitch, TLAPS

USE IdsDisjoint, NoTxnAssumption

\* The initial states have the right types.
LEMMA InitType == Init => TypeOK
BY DEF Init, TypeOK, Guard!Init, Guard!RegistryTypeOK, Guard!Entry,
       Guard!Answer, Guard!Status, Guard!FinalStatus, Guard!MaybePayload,
       Guard!AbsentEntry, Guard!NoAnswer, Adapter!Init,
       Adapter!ContractTypeOK, Adapter!SendCall, Adapter!Phase,
       Adapter!Reply, Adapter!NoCall, Adapter!MaxDebits, PC, Awaiting, Txn,
       TxnState, Final, Response, NoResponse, AbsentTxn, Code

\* Setting the phase of one call leaves a function of calls.
LEMMA PhaseType ==
    ASSUME NEW calls \in [Reqs -> Adapter!SendCall],
           NEW r \in Reqs, NEW phase \in Adapter!Phase
    PROVE  [calls EXCEPT ![r].phase = phase] \in [Reqs -> Adapter!SendCall]
<1>1. [calls[r] EXCEPT !.phase = phase] \in Adapter!SendCall
  BY DEF Adapter!SendCall
<1> QED
  BY <1>1

\* An answer to the client is a well-formed response.
LEMMA RespondType ==
    ASSUME TypeOK, NEW r \in Reqs, NEW code \in Code,
           NEW source \in {"none", "NEW", "CACHED"},
           NEW status \in TxnState \cup {"none"}, NEW txn \in Reqs \cup {NoTxn},
           Respond(r, code, source, status, txn)
    PROVE  pc' \in [Reqs -> PC] /\ response' \in [Reqs -> Response]
BY DEF TypeOK, Respond, Goto, PC, Response

\* Setting the state of one record leaves a table of records.
LEMMA UpdateType ==
    ASSUME TypeOK, NEW r \in Reqs, NEW state \in TxnState, UpdateState(r, state)
    PROVE  txns' \in [Reqs -> Txn]
<1>1. [txns[r] EXCEPT !.state = state] \in Txn
  BY DEF TypeOK, Txn
<1> QED
  BY <1>1 DEF TypeOK, UpdateState

\* Every step of the handler of a request keeps the types.
LEMMA HandlerType ==
    ASSUME TypeOK, NEW r \in Reqs, HandlerStep(r)
    PROVE  TypeOK'
<1> USE DEF settleVars, metricVars, guardVars, adapterVars
<1>a. \A code \in Code : Raise(r, code) =>
          pc' \in [Reqs -> PC] /\ response' \in [Reqs -> Response]
  BY RespondType DEF Raise
<1>b. \A state \in TxnState : UpdateState(r, state) => txns' \in [Reqs -> Txn]
  BY UpdateType
<1>c. txns' = Finalised(r) => txns' \in [Reqs -> Txn]
  <2>1. FinalState(r) \in TxnState
    BY DEF FinalState, TxnState, Final
  <2>2. txns[r].rrn \in RRNs \cup {NoRRN} /\ adapter[r].rrn \in RRNs \cup {NoRRN}
    BY DEF TypeOK, Txn, Adapter!ContractTypeOK, Adapter!SendCall
  <2> QED
    BY <2>1, <2>2 DEF Finalised, TypeOK, Txn
<1>d. ASSUME NEW label \in PC, Goto(r, label) PROVE pc' \in [Reqs -> PC]
  BY <1>d DEF Goto, TypeOK
<1>e. /\ {404, 500, 502, 503} \subseteq Code
      /\ {"INITIATED", "PROCESSING", "FAILED", "SUCCESS"} \subseteq TxnState
      /\ {"resolving", "paying", "completing"} \subseteq PC
  BY DEF Code, TxnState, Final, PC, Awaiting
<1>f. \A status \in Final : RecordPayment(r, status) =>
          counted' \in [Reqs -> Final \cup {"none"}]
  BY DEF RecordPayment, TypeOK
<1>g. TimerRaises(r) => counted' \in [Reqs -> Final \cup {"none"}]
  BY <1>f DEF TimerRaises, Final
<1>1. CASE CheckFails(r)
  BY <1>1, <1>a, <1>e
     DEF CheckFails, TypeOK, Guard!RegistryTypeOK, Adapter!ContractTypeOK
<1>2. CASE Replay(r)
  <2>1. /\ answer[r].status \in TxnState
        /\ answer[r].payload \in Reqs \cup {NoTxn}
    BY DEF TypeOK, Guard!RegistryTypeOK, Guard!Answer, Guard!Status,
           Guard!FinalStatus, Guard!MaybePayload, TxnState, Final
  <2>2. \A t \in ByKey(key[r]) : t \in Reqs /\ SeenStates(t) \subseteq TxnState
    BY DEF ByKey, Recorded, TypeOK, Txn, SeenStates, TxnState
  <2>3. pc' \in [Reqs -> PC] /\ response' \in [Reqs -> Response]
    BY <1>2, <2>1, <2>2, RespondType DEF Replay, Code
  <2> QED
    BY <1>2, <2>3
       DEF Replay, TypeOK, Guard!RegistryTypeOK, Adapter!ContractTypeOK
<1>3. CASE ReplayMissing(r)
  BY <1>3, <1>a, <1>e
     DEF ReplayMissing, RecordStateCorruption, TypeOK, Guard!RegistryTypeOK, Adapter!ContractTypeOK
<1>4. CASE WriteTxn(r)
  BY <1>4, <1>b, <1>d, <1>e
     DEF WriteTxn, TypeOK, Guard!RegistryTypeOK, Adapter!ContractTypeOK
<1>5. CASE ResolveFails(r)
  BY <1>5, <1>a, <1>b, <1>e
     DEF ResolveFails, TypeOK, Guard!RegistryTypeOK, Adapter!ContractTypeOK
<1>6. CASE Resolved(r)
  <2>1. adapter' \in [Reqs -> Adapter!SendCall] /\ debits' = debits
    BY <1>6, PhaseType
       DEF Resolved, Adapter!Send, Adapter!Phase, TypeOK, Adapter!ContractTypeOK
  <2> QED
    BY <1>6, <1>b, <1>d, <1>e, <2>1
       DEF Resolved, TypeOK, Guard!RegistryTypeOK, Adapter!ContractTypeOK
<1>7. CASE AdapterCallFails(r)
  BY <1>7, <1>a, <1>b, <1>e, <1>g
     DEF AdapterCallFails, TypeOK, Guard!RegistryTypeOK, Adapter!ContractTypeOK
<1>8. CASE AdapterAnswers(r)
  <2>1. collision' \in SUBSET Reqs
    BY <1>8 DEF AdapterAnswers, RecordDuplicateDebit, TypeOK
  <2> QED
    BY <1>8, <1>c, <1>d, <1>e, <2>1
       DEF AdapterAnswers, TypeOK, Guard!RegistryTypeOK, Adapter!ContractTypeOK
<1>9. CASE CompleteReturns(r)
  <2>1. entries' = entries
    BY <1>9 DEF CompleteReturns, GuardComplete, TypeOK, Guard!RegistryTypeOK
  <2>2. pc' \in [Reqs -> PC] /\ response' \in [Reqs -> Response]
    BY <1>9, <1>a, <1>e, RespondType DEF CompleteReturns, Code
  <2>3. emitting' \in SUBSET Reqs
    BY <1>9 DEF CompleteReturns, TypeOK
  <2>4. counted' \in [Reqs -> Final \cup {"none"}]
    BY <1>9, <1>f DEF CompleteReturns, Final
  <2> QED
    BY <1>9, <2>1, <2>2, <2>3, <2>4
       DEF CompleteReturns, TypeOK, Guard!RegistryTypeOK, Adapter!ContractTypeOK
<1>10. CASE CompleteFails(r)
  BY <1>10, <1>a, <1>e, <1>g
     DEF CompleteFails, TypeOK, Guard!RegistryTypeOK, Adapter!ContractTypeOK
<1>11. CASE StoreRaises(r)
  <2>1. PendingWrite(r) => txns' \in [Reqs -> Txn]
    BY <1>b, <1>c, <1>e DEF PendingWrite
  <2> QED
    BY <1>11, <1>a, <1>e, <1>g, <2>1
       DEF StoreRaises, TypeOK, Guard!RegistryTypeOK, Adapter!ContractTypeOK
<1> QED
  BY <1>1, <1>2, <1>3, <1>4, <1>5, <1>6, <1>7, <1>8, <1>9, <1>10, <1>11
     DEF HandlerStep, HandlerProceeds

\* Every other step keeps the types.
LEMMA NextType ==
    ASSUME TypeOK, [Next]_vars
    PROVE  TypeOK'
<1> USE DEF TypeOK, Goto, settleVars, metricVars, guardVars, adapterVars,
            Guard!RegistryTypeOK, Adapter!ContractTypeOK
<1>1. ASSUME NEW r \in Reqs, Receive(r) PROVE TypeOK'
  BY <1>1 DEF Receive, PC, Awaiting
<1>2. ASSUME NEW r \in Reqs, Emit(r) PROVE TypeOK'
  BY <1>2 DEF Emit
<1>3. ASSUME NEW r \in Reqs, GuardChecks(r) PROVE TypeOK'
  <2> USE DEF Guard!Entry, Guard!Answer, Guard!Status, Guard!FinalStatus,
              Guard!MaybePayload, Guard!Claimed, Guard!NewAnswer,
              Guard!DuplicateAnswer, Guard!Present
  <2>1. CASE Guard!Claim(r, key[r])
    BY <1>3, <2>1 DEF GuardChecks, Guard!Claim
  <2>2. CASE Guard!Repeat(r, key[r])
    BY <1>3, <2>2 DEF GuardChecks, Guard!Repeat
  <2>3. CASE Guard!RepeatLapsed(r, key[r])
    BY <1>3, <2>3 DEF GuardChecks, Guard!RepeatLapsed
  <2>4. CASE Guard!ClaimUnacknowledged(key[r])
    BY <1>3, <2>4 DEF GuardChecks, Guard!ClaimUnacknowledged
  <2> QED
    BY <1>3, <2>1, <2>2, <2>3, <2>4 DEF GuardChecks
<1>4. ASSUME NEW r \in Reqs, AdapterWorks(r) PROVE TypeOK'
  <2> USE DEF Adapter!SendCall, Adapter!Phase, Adapter!Reply,
              Adapter!MaxDebits
  <2>1. CASE Adapter!Accept(r)
    <3>1. adapter' \in [Reqs -> Adapter!SendCall]
      BY <2>1, PhaseType DEF Adapter!Accept
    <3> QED
      BY <1>4, <2>1, <3>1 DEF AdapterWorks, Adapter!Accept
  <2>2. CASE Adapter!Debit(r)
    BY <1>4, <2>2 DEF AdapterWorks, Adapter!Debit
  <2>3. CASE Adapter!AnswerSuccess(r)
    BY <1>4, <2>3 DEF AdapterWorks, Adapter!AnswerSuccess, Adapter!Answer
  <2>4. CASE Adapter!AnswerFailed(r)
    BY <1>4, <2>4 DEF AdapterWorks, Adapter!AnswerFailed, Adapter!Answer
  <2> QED
    BY <1>4, <2>1, <2>2, <2>3, <2>4 DEF AdapterWorks
<1>5. ASSUME NEW k \in Keys, KeyLapses(k) PROVE TypeOK'
  BY <1>5 DEF KeyLapses, Guard!Lapse, Guard!AbsentEntry, Guard!Entry,
              Guard!MaybePayload
<1>6. CASE Crash
  BY <1>6 DEF Crash, PC, Awaiting
<1>7. CASE UNCHANGED vars
  BY <1>7 DEF vars
<1> QED
  BY <1>1, <1>2, <1>3, <1>4, <1>5, <1>6, <1>7, HandlerType DEF Next

\* Every variable always has a value of its type.
THEOREM SwitchTypeCorrect == Spec => []TypeOK
<1>1. TypeOK /\ [Next]_vars => TypeOK'
  BY NextType
<1> QED
  BY <1>1, InitType, PTL DEF Spec

----------------------------------------------------------------------------
(* The inductive invariant.                                                *)

LEMMA InitInv == Init => CoreInv
<1> SUFFICES ASSUME Init PROVE CoreInv
  OBVIOUS
<1>1. TypeOK
  BY InitType
<1> QED
  BY <1>1
     DEF Init, CoreInv, GrantsAreExclusive, RecordFollowsHandler,
         AdapterFollowsRecord, NothingCached, SettledIsDone, AnsweredIsDone,
         SuccessIsDebited, SettledOnlySuccess, AnswersMatchRecords,
         CountsMatchAnswers, Recorded, Guard!Init, Guard!AbsentEntry, Guard!NoAnswer, Adapter!Init,
         Adapter!NoCall, NoResponse, AbsentTxn, Final

\* One more debit: who was debited stays debited, and r is.
LEMMA CountUp ==
    ASSUME NEW count \in [Reqs -> 0 .. 2], NEW r \in Reqs,
           NEW next, next = [count EXCEPT ![r] = count[r] + 1]
    PROVE  next[r] > 0 /\ \A t \in Reqs : count[t] > 0 => next[t] > 0
<1>1. count[r] \in 0 .. 2
  OBVIOUS
<1>2. next[r] > 0
  BY <1>1
<1>3. \A t \in Reqs \ {r} : next[t] = count[t]
  OBVIOUS
<1> QED
  BY <1>2, <1>3

\* A step of a handler keeps the invariant.
LEMMA HandlerInv ==
    ASSUME CoreInv, NEW r \in Reqs, HandlerStep(r)
    PROVE  CoreInv'
<1>0. TypeOK /\ TypeOK'
  BY HandlerType DEF CoreInv
<1> USE <1>0
<1> USE DEF CoreInv, GrantsAreExclusive, RecordFollowsHandler,
            AdapterFollowsRecord, NothingCached, SettledIsDone,
            AnsweredIsDone, SuccessIsDebited, SettledOnlySuccess,
            AnswersMatchRecords, CountsMatchAnswers, Recorded, Guard!Present,
            TypeOK, Guard!RegistryTypeOK, Adapter!ContractTypeOK,
            Goto, Respond, Raise, UpdateState, RecordPayment, TimerRaises,
            settleVars, metricVars, guardVars, adapterVars, Final
<1>1. CASE CheckFails(r)
  BY <1>1 DEF CheckFails
<1>2. CASE Replay(r)
  <2>0. answer[r].payload = NoTxn
    OBVIOUS
  <2>1. PICK t \in ByKey(key[r]) : \E state \in SeenStates(t) :
            Respond(r, 200, "CACHED", state, t)
    BY <1>2, <2>0 DEF Replay
  <2>a. PICK state \in SeenStates(t) : Respond(r, 200, "CACHED", state, t)
    BY <2>1
  <2>2. t \in Reqs /\ key[t] = key[r]
    BY DEF ByKey
  <2>3. state \in Final => state = txns[t].state
    BY DEF SeenStates
  <2>4. pc[r] = "checking"
    BY <1>2 DEF Replay, CheckedDuplicate
  <2>5. UNCHANGED <<key, txns, settleVars, metricVars, guardVars, adapterVars>>
    BY <1>2 DEF Replay
  <2> QED
    BY <2>a, <2>2, <2>3, <2>4, <2>5
<1>3. CASE ReplayMissing(r)
  BY <1>3 DEF ReplayMissing, CheckedDuplicate
<1>4. CASE WriteTxn(r)
  BY <1>4 DEF WriteTxn, CheckedNew, Txn
<1>5. CASE ResolveFails(r)
  BY <1>5 DEF ResolveFails, Txn
<1>6. CASE Resolved(r)
  BY <1>6 DEF Resolved, Adapter!Send, Txn, Adapter!SendCall
<1>7. CASE AdapterCallFails(r)
  BY <1>7 DEF AdapterCallFails, Txn
<1>8. CASE AdapterAnswers(r)
  BY <1>8 DEF AdapterAnswers, Finalised, FinalState, Txn
<1>9. CASE CompleteReturns(r)
  <2>1. entries' = entries
    BY <1>9 DEF CompleteReturns, GuardComplete
  <2>2. /\ pc' = [pc EXCEPT ![r] = "answered"]
        /\ pc[r] = "completing" /\ txns[r].state \in {"SUCCESS", "FAILED"}
        /\ UNCHANGED <<key, txns, queue, corruption, collision, answer,
                       grantees, lapsed, adapter, debits>>
    BY <1>9 DEF CompleteReturns
  <2>3. CASE txns[r].state = "SUCCESS"
    <3>1. /\ emitting' = emitting \cup {r}
          /\ response' = [response EXCEPT ![r] =
                 [code |-> 200, source |-> "NEW", status |-> "SUCCESS", txn |-> r]]
          /\ counted' = [counted EXCEPT ![r] = "SUCCESS"]
      BY <1>9, <2>3 DEF CompleteReturns
    <3> QED
      BY <2>1, <2>2, <2>3, <3>1
  <2>4. CASE txns[r].state = "FAILED"
    <3>1. /\ emitting' = emitting
          /\ response' = [response EXCEPT ![r] =
                 [code |-> 502, source |-> "none", status |-> "none", txn |-> NoTxn]]
          /\ counted' = [counted EXCEPT ![r] = "FAILED"]
      BY <1>9, <2>4 DEF CompleteReturns
    <3> QED
      BY <2>1, <2>2, <2>4, <3>1
  <2> QED
    BY <2>2, <2>3, <2>4
<1>10. CASE CompleteFails(r)
  BY <1>10 DEF CompleteFails
<1>11. CASE StoreRaises(r)
  <2> USE <1>11 DEF StoreRaises, CheckedNew, CheckedDuplicate, Txn
  <2>1. CASE UNCHANGED txns
    <3>1. CASE pc[r] = "paying"
      BY <2>1, <3>1
    <3>2. CASE pc[r] \in {"checking", "resolving"}
      <4>1. /\ UNCHANGED <<key, txns, counted, emitting, queue, corruption,
                           collision, entries, answer, grantees, lapsed,
                           adapter, debits>>
            /\ Raise(r, 500)
        BY <2>1, <3>2
      <4>2. counted[r] = "none"
        BY <3>2
      <4> HIDE <1>11 DEF StoreRaises
      <4> QED
        BY <3>2, <4>1, <4>2
    <3> QED
      BY <3>1, <3>2 DEF PendingWrite
  <2>2. CASE CheckedNew(r) /\ UpdateState(r, "INITIATED")
    BY <2>2
  <2>3. CASE pc[r] = "resolving" /\ UpdateState(r, "PROCESSING")
    BY <2>3
  <2>4. CASE pc[r] \in {"resolving", "paying"} /\ UpdateState(r, "FAILED")
    BY <2>4
  <2>5. CASE /\ pc[r] = "paying"
             /\ adapter[r].phase = "replied"
             /\ txns' = Finalised(r)
    BY <2>5 DEF Finalised, FinalState
  <2> QED
    BY <2>1, <2>2, <2>3, <2>4, <2>5 DEF PendingWrite
<1> QED
  BY <1>1, <1>2, <1>3, <1>4, <1>5, <1>6, <1>7, <1>8, <1>9, <1>10, <1>11
     DEF HandlerStep, HandlerProceeds

\* Every other step keeps it too.
LEMMA NextInv ==
    ASSUME CoreInv, [Next]_vars
    PROVE  CoreInv'
<1>0. TypeOK /\ TypeOK'
  BY NextType DEF CoreInv
<1> USE <1>0
<1> USE DEF CoreInv, GrantsAreExclusive, RecordFollowsHandler,
            AdapterFollowsRecord, NothingCached, SettledIsDone,
            AnsweredIsDone, SuccessIsDebited, SettledOnlySuccess,
            AnswersMatchRecords, CountsMatchAnswers, Recorded, Guard!Present,
            TypeOK, Guard!RegistryTypeOK, Adapter!ContractTypeOK, Goto, settleVars,
            metricVars, guardVars, adapterVars, Final
<1>1. ASSUME NEW r \in Reqs, Receive(r) PROVE CoreInv'
  BY <1>1 DEF Receive
<1>2. ASSUME NEW r \in Reqs, Emit(r) PROVE CoreInv'
  BY <1>2 DEF Emit
<1>3. ASSUME NEW r \in Reqs, GuardChecks(r) PROVE CoreInv'
  <2> USE DEF GuardChecks, Guard!Claimed, Guard!NewAnswer,
              Guard!DuplicateAnswer, Guard!Unanswered
  <2>1. CASE Guard!Claim(r, key[r])
    BY <1>3, <2>1 DEF Guard!Claim
  <2>2. CASE Guard!Repeat(r, key[r])
    BY <1>3, <2>2 DEF Guard!Repeat
  <2>3. CASE Guard!RepeatLapsed(r, key[r])
    BY <1>3, <2>3 DEF Guard!RepeatLapsed
  <2>4. CASE Guard!ClaimUnacknowledged(key[r])
    BY <1>3, <2>4 DEF Guard!ClaimUnacknowledged
  <2> QED
    BY <1>3, <2>1, <2>2, <2>3, <2>4
<1>4. ASSUME NEW r \in Reqs, AdapterWorks(r) PROVE CoreInv'
  <2> USE DEF AdapterWorks, Adapter!SendCall, Adapter!MaxDebits
  <2>1. CASE Adapter!Accept(r)
    BY <1>4, <2>1 DEF Adapter!Accept
  <2>2. CASE Adapter!Debit(r)
    <3>1. debits \in [Reqs -> 0 .. 2]
      OBVIOUS
    <3>b. debits' = [debits EXCEPT ![r] = debits[r] + 1]
      BY <2>2 DEF Adapter!Debit
    <3>2. debits'[r] > 0 /\ \A t \in Reqs : debits[t] > 0 => debits'[t] > 0
      <4> HIDE DEF Adapter!ContractTypeOK, CoreInv, TypeOK
      <4> QED
        BY <3>1, <3>b, CountUp
    <3>a. \A t \in Reqs \ {r} : debits'[t] = debits[t]
      BY <3>1, <3>b
    <3>3. adapter' = adapter /\ adapter[r].phase # "idle"
      BY <2>2 DEF Adapter!Debit
    <3>4. UNCHANGED <<pc, key, txns, response, emitting, queue, corruption,
                      collision, counted, entries, answer, grantees, lapsed>>
      BY <1>4
    <3> HIDE DEF Adapter!ContractTypeOK, Adapter!MaxDebits
    <3>5. AdapterFollowsRecord' /\ SuccessIsDebited' /\ SettledOnlySuccess'
      BY <3>2, <3>a, <3>3, <3>4
    <3>6. GrantsAreExclusive' /\ RecordFollowsHandler' /\ NothingCached'
      BY <3>3, <3>4
    <3>7. /\ SettledIsDone' /\ AnsweredIsDone' /\ AnswersMatchRecords'
          /\ CountsMatchAnswers'
      BY <3>3, <3>4
    <3> HIDE DEF AdapterFollowsRecord, SuccessIsDebited, SettledOnlySuccess,
                 GrantsAreExclusive, RecordFollowsHandler, NothingCached,
                 SettledIsDone, AnsweredIsDone, AnswersMatchRecords,
                 CountsMatchAnswers, TypeOK
    <3> QED
      BY <3>5, <3>6, <3>7
  <2>3. CASE Adapter!AnswerSuccess(r)
    BY <1>4, <2>3 DEF Adapter!AnswerSuccess, Adapter!Answer
  <2>4. CASE Adapter!AnswerFailed(r)
    BY <1>4, <2>4 DEF Adapter!AnswerFailed, Adapter!Answer
  <2> QED
    BY <1>4, <2>1, <2>2, <2>3, <2>4
<1>5. ASSUME NEW k \in Keys, KeyLapses(k) PROVE CoreInv'
  BY <1>5 DEF KeyLapses, Guard!Lapse, Guard!AbsentEntry
<1>6. CASE Crash
  BY <1>6 DEF Crash, Awaiting
<1>7. CASE UNCHANGED vars
  BY <1>7 DEF vars
<1> QED
  BY <1>1, <1>2, <1>3, <1>4, <1>5, <1>6, <1>7, HandlerInv DEF Next

\* The inductive invariant holds in every reachable state.
LEMMA CoreHolds == Spec => []CoreInv
<1>1. CoreInv /\ [Next]_vars => CoreInv'
  BY NextInv
<1> QED
  BY <1>1, InitInv, PTL DEF Spec

----------------------------------------------------------------------------
(* What follows from it.                                                   *)

\* One request at most executes the payment of a key (payments.py:39-98).
THEOREM ExactlyOneExecution == Spec => []OneRecordPerKey
<1>1. CoreInv => OneRecordPerKey
  BY DEF CoreInv, GrantsAreExclusive, RecordFollowsHandler, OneRecordPerKey, TypeOK
<1> QED
  BY <1>1, CoreHolds, PTL

\* A client that retries with its key is never debited by another transaction
\* (README.MD:79).
THEOREM RetriesAreSafe == Spec => []RetryNeverDebitsAgain
<1>1. CoreInv => RetryNeverDebitsAgain
  <2> SUFFICES ASSUME CoreInv, NEW t \in Reqs, NEW u \in Reqs,
                      debits[t] > 0, debits[u] > 0,
                      key[t] = key[u], key[t] \notin lapsed
               PROVE  t = u
    BY DEF RetryNeverDebitsAgain
  <2>1. Recorded(t) /\ Recorded(u)
    BY DEF CoreInv, AdapterFollowsRecord, Recorded, Final
  <2> QED
    BY <2>1 DEF CoreInv, GrantsAreExclusive, RecordFollowsHandler, TypeOK
<1> QED
  BY <1>1, CoreHolds, PTL

\* No debit without a durable record past INITIATED (payments.py:98-118).
THEOREM DebitsAreRecorded == Spec => []DebitIsRecorded
<1>1. CoreInv => DebitIsRecorded
  BY DEF CoreInv, AdapterFollowsRecord, DebitIsRecorded
<1> QED
  BY <1>1, CoreHolds, PTL

\* Settlement events name successful, debited payments (payments.py:237-245).
THEOREM SettlementIsSound == Spec => []SettledOnlySuccess
<1>1. CoreInv => SettledOnlySuccess
  BY DEF CoreInv
<1> QED
  BY <1>1, CoreHolds, PTL

\* What a client was told is what the table says (payments.py:52-72, 222-250).
THEOREM AnswersAreTrue == Spec => []AnswersMatchRecords
<1>1. CoreInv => AnswersMatchRecords
  BY DEF CoreInv
<1> QED
  BY <1>1, CoreHolds, PTL

\* The payment counters agree with the answers and the records
\* (payment_metrics.py:203-255 around payments.py:124-245).
THEOREM CountsAreTrue == Spec => []CountsMatchAnswers
<1>1. CoreInv => CountsMatchAnswers
  BY DEF CoreInv
<1> QED
  BY <1>1, CoreHolds, PTL

\* What a handler's step does to what is owed: its record stays closed or gets a
\* handler, and whatever ends it says so.
LEMMA HandlerAttends ==
    ASSUME CoreInv, NEW r \in Reqs, HandlerStep(r)
    PROVE  /\ pc[r] \in Awaiting /\ response[r].code = 0
           /\ \A t \in Reqs \ {r} : /\ pc'[t] = pc[t] /\ txns'[t] = txns[t]
                                    /\ response'[t] = response[t]
           /\ emitting \subseteq emitting' /\ queue' = queue
           /\ \/ txns'[r].state = "ABSENT"
              \/ txns'[r].state \in {"INITIATED", "PROCESSING"}
                    /\ pc'[r] \in {"resolving", "paying"}
              \/ txns'[r].state = "FAILED"
              \/ txns'[r].state = "SUCCESS" /\ (pc'[r] = "completing" \/ r \in emitting')
              \/ response'[r].code = 500 /\ "dynamo" \in Faults
              \/ response'[r].code = 500 /\ "complete" \in Faults
                    /\ txns'[r].state \in Final
<1>0. TypeOK /\ RecordFollowsHandler /\ AnsweredIsDone
  BY DEF CoreInv
<1>1. /\ pc \in [Reqs -> PC] /\ txns \in [Reqs -> Txn] /\ response \in [Reqs -> Response]
      /\ pc[r] \in {"idle", "checking"} => txns[r].state = "ABSENT"
      /\ pc[r] = "completing" => txns[r].state \in Final
      /\ pc[r] # "answered" => response[r].code = 0
  <2>1. response[r].code = 0 \/ response[r].code # 0
    OBVIOUS
  <2> QED
    BY <1>0, <2>1 DEF TypeOK, RecordFollowsHandler, Recorded, AnsweredIsDone
<1> USE <1>1 DEF Awaiting, Goto, Respond, Raise, UpdateState, Txn, settleVars
<1>2. CASE CheckFails(r) \/ ReplayMissing(r)
  BY <1>2 DEF CheckFails, ReplayMissing, CheckedDuplicate
<1>3. CASE Replay(r)
  <2>1. PICK status, txn : Respond(r, 200, "CACHED", status, txn)
    BY <1>3 DEF Replay
  <2>2. pc[r] = "checking" /\ UNCHANGED <<txns, emitting, queue>>
    BY <1>3 DEF Replay, CheckedDuplicate
  <2> QED
    BY <2>1, <2>2
<1>4. CASE WriteTxn(r)
  BY <1>4 DEF WriteTxn, CheckedNew
<1>5. CASE ResolveFails(r)
  BY <1>5 DEF ResolveFails
<1>6. CASE Resolved(r)
  BY <1>6 DEF Resolved
<1>7. CASE AdapterCallFails(r)
  BY <1>7 DEF AdapterCallFails
<1>8. CASE AdapterAnswers(r)
  BY <1>8 DEF AdapterAnswers, Finalised, FinalState
<1>9. CASE CompleteReturns(r)
  BY <1>9 DEF CompleteReturns, Final
<1>10. CASE CompleteFails(r)
  BY <1>10 DEF CompleteFails
<1>11. CASE StoreRaises(r)
  <2>1. /\ "dynamo" \in Faults /\ Raise(r, 500) /\ UNCHANGED <<emitting, queue>>
        /\ pc[r] \in {"checking", "resolving", "paying"}
        /\ \/ UNCHANGED txns
           \/ \E state \in TxnState : UpdateState(r, state)
           \/ txns' = Finalised(r)
    BY <1>11 DEF StoreRaises, PendingWrite, CheckedNew, CheckedDuplicate, TxnState, Final
  <2> QED
    BY <2>1 DEF Finalised
<1> QED
  BY <1>2, <1>3, <1>4, <1>5, <1>6, <1>7, <1>8, <1>9, <1>10, <1>11
     DEF HandlerStep, HandlerProceeds

\* Nothing that is owed is dropped but by the faults that are named.
LEMMA AttendedStep ==
    ASSUME CoreInv, OpenRecordsAttended, SuccessesAttended, [Next]_vars
    PROVE  OpenRecordsAttended' /\ SuccessesAttended'
<1> USE DEF OpenRecordsAttended, SuccessesAttended
<1>1. ASSUME NEW r \in Reqs, HandlerStep(r)
      PROVE  OpenRecordsAttended' /\ SuccessesAttended'
  BY <1>1, HandlerAttends DEF Final
<1>2. CASE UNCHANGED <<txns, response, emitting, queue, pc>>
  BY <1>2
<1>3. ASSUME NEW r \in Reqs, Receive(r)
      PROVE  OpenRecordsAttended' /\ SuccessesAttended'
  <2>1. UNCHANGED <<txns, response, emitting, queue>>
        /\ \A t \in Reqs \ {r} : pc'[t] = pc[t]
    BY <1>3 DEF Receive, Goto, settleVars, CoreInv, TypeOK
  <2>2. txns[r].state = "ABSENT"
    BY <1>3 DEF Receive, CoreInv, RecordFollowsHandler, Recorded
  <2> QED
    BY <2>1, <2>2
<1>4. ASSUME NEW r \in Reqs, Emit(r)
      PROVE  OpenRecordsAttended' /\ SuccessesAttended'
  BY <1>4 DEF Emit
<1>5. CASE Crash
  <2>1. "crash" \in Faults /\ UNCHANGED <<txns, response>>
    BY <1>5 DEF Crash
  <2>2. \A t \in Reqs : pc'[t] = IF pc[t] \in Awaiting THEN "lost" ELSE pc[t]
    BY <1>5 DEF Crash
  <2> QED
    BY <2>1, <2>2 DEF Awaiting
<1>6. \A r \in Reqs : GuardChecks(r) \/ AdapterWorks(r) =>
          UNCHANGED <<txns, response, emitting, queue, pc>>
  BY DEF GuardChecks, AdapterWorks, settleVars
<1>7. \A k \in Keys : KeyLapses(k) => UNCHANGED <<txns, response, emitting, queue, pc>>
  BY DEF KeyLapses, settleVars
<1>8. UNCHANGED vars => UNCHANGED <<txns, response, emitting, queue, pc>>
  BY DEF vars, settleVars
<1> QED
  BY <1>1, <1>2, <1>3, <1>4, <1>5, <1>6, <1>7, <1>8 DEF Next

\* Whatever is owed is owed by somebody: an open record has its handler and a
\* success its settlement, or a fault that is named took them.
THEOREM NothingIsForgotten == Spec => [](OpenRecordsAttended /\ SuccessesAttended)
<1>1. Init => OpenRecordsAttended /\ SuccessesAttended
  BY DEF Init, AbsentTxn, OpenRecordsAttended, SuccessesAttended
<1>2. /\ CoreInv /\ OpenRecordsAttended /\ SuccessesAttended
      /\ [Next]_vars
      => (OpenRecordsAttended /\ SuccessesAttended)'
  BY AttendedStep
<1> QED
  BY <1>1, <1>2, CoreHolds, PTL DEF Spec

\* What a step may do to a record: the statements of its handler, in their order.
LEMMA RecordStep ==
    ASSUME CoreInv, [Next]_vars, NEW t \in Reqs
    PROVE  \/ txns'[t] = txns[t]
           \/ txns[t].state = "ABSENT" /\ txns'[t] = [txns[t] EXCEPT !.state = "INITIATED"]
           \/ txns[t].state = "INITIATED" /\ txns'[t] = [txns[t] EXCEPT !.state = "PROCESSING"]
           \/ txns[t].state \in {"INITIATED", "PROCESSING"} /\ txns'[t].state \in Final
<1> USE DEF CoreInv, TypeOK, RecordFollowsHandler, Final, Recorded, Txn, TxnState
<1>1. CASE UNCHANGED txns
  BY <1>1
<1>2. ASSUME NEW r \in Reqs, HandlerStep(r), txns' # txns
      PROVE  \/ txns'[t] = txns[t]
             \/ txns[t].state = "ABSENT" /\ txns'[t] = [txns[t] EXCEPT !.state = "INITIATED"]
             \/ txns[t].state = "INITIATED" /\ txns'[t] = [txns[t] EXCEPT !.state = "PROCESSING"]
             \/ txns[t].state \in {"INITIATED", "PROCESSING"} /\ txns'[t].state \in Final
  <2> USE <1>2
  <2>1. \/ CheckedNew(r) /\ UpdateState(r, "INITIATED")
        \/ pc[r] = "resolving" /\ UpdateState(r, "PROCESSING")
        \/ pc[r] \in {"resolving", "paying"} /\ UpdateState(r, "FAILED")
        \/ pc[r] = "paying" /\ txns' = Finalised(r)
    BY SMTT(40) DEF HandlerStep, HandlerProceeds, CheckFails, Replay,
           ReplayMissing, WriteTxn, ResolveFails, Resolved, AdapterCallFails, AdapterAnswers,
           CompleteReturns, CompleteFails, StoreRaises, PendingWrite
  <2>2. CASE CheckedNew(r) /\ UpdateState(r, "INITIATED")
    BY <2>2 DEF CheckedNew, UpdateState
  <2>3. CASE pc[r] = "resolving" /\ UpdateState(r, "PROCESSING")
    BY <2>3 DEF UpdateState
  <2>4. CASE pc[r] \in {"resolving", "paying"} /\ UpdateState(r, "FAILED")
    BY <2>4 DEF UpdateState
  <2>5. CASE pc[r] = "paying" /\ txns' = Finalised(r)
    BY <2>5 DEF Finalised, FinalState
  <2> QED
    BY <2>1, <2>2, <2>3, <2>4, <2>5
<1>3. txns' = txns \/ \E r \in Reqs : HandlerStep(r)
  BY DEF Next, vars, Receive, Emit, GuardChecks, AdapterWorks, KeyLapses, Crash
<1> QED
  BY <1>1, <1>2, <1>3

\* Final records never change (dynamo.py:101-129 is unconditional).
THEOREM RecordsAdvance == Spec => RecordsOnlyAdvance
<1>1. ASSUME CoreInv, [Next]_vars, NEW t \in Reqs
      PROVE  /\ Rank(txns[t].state) \subseteq Rank(txns'[t].state)
             /\ txns[t].state \in Final => txns'[t] = txns[t]
  <2>1. txns[t] \in Txn
    BY <1>1 DEF CoreInv, TypeOK
  <2> QED
    BY <1>1, <2>1, RecordStep DEF Rank, Final, Txn
<1>2. CoreInv /\ [Next]_vars =>
        [\A t \in Reqs :
          /\ Rank(txns[t].state) \subseteq Rank(txns'[t].state)
          /\ txns[t].state \in Final => txns'[t] = txns[t]]_vars
  BY <1>1
<1> QED
  BY <1>2, CoreHolds, PTL DEF Spec, RecordsOnlyAdvance

\* References come with final states and stay, so an alarm stays true.
LEMMA CollisionsStep ==
    ASSUME CoreInv, ReferencesAreFinal, CollisionsAreReal, [Next]_vars
    PROVE  ReferencesAreFinal' /\ CollisionsAreReal'
<1>1. \A t \in Reqs : txns[t] \in Txn /\ txns'[t] \in Txn
  BY NextType DEF CoreInv, TypeOK
<1>2. ReferencesAreFinal'
  <2>1. SUFFICES ASSUME NEW t \in Reqs, txns'[t].rrn # NoRRN
                 PROVE  txns'[t].state \in Final
    BY DEF ReferencesAreFinal
  <2> QED
    BY <1>1, <2>1, RecordStep DEF ReferencesAreFinal, Final, Txn
<1>3. \A t \in Reqs : txns[t].state \in Final => txns'[t] = txns[t]
  BY <1>1, RecordStep DEF Final, Txn
<1>4. ASSUME NEW r \in collision
      PROVE  /\ txns'[r].state = "SUCCESS" /\ txns'[r].rrn # NoRRN
             /\ \E t \in Reqs \ {r} : txns'[t].rrn = txns'[r].rrn
  <2>1. r \in Reqs /\ txns[r].state = "SUCCESS" /\ txns[r].rrn # NoRRN
    BY <1>4 DEF CoreInv, TypeOK, CollisionsAreReal
  <2>2. PICK t \in Reqs \ {r} : txns[t].rrn = txns[r].rrn
    BY <1>4 DEF CollisionsAreReal
  <2>3. txns[t].state \in Final
    BY <2>1, <2>2 DEF ReferencesAreFinal
  <2> QED
    BY <1>3, <2>1, <2>2, <2>3 DEF Final
<1>5. ASSUME NEW r \in collision' \ collision
      PROVE  /\ txns'[r].state = "SUCCESS" /\ txns'[r].rrn # NoRRN
             /\ \E t \in Reqs \ {r} : txns'[t].rrn = txns'[r].rrn
  <2>1. PICK q \in Reqs : AdapterAnswers(q) /\ collision' # collision
    BY <1>5 DEF Next, vars, metricVars, Receive, Emit, GuardChecks, AdapterWorks, KeyLapses,
       Crash, HandlerStep, HandlerProceeds, CheckFails, Replay, ReplayMissing, WriteTxn,
       ResolveFails, Resolved, AdapterCallFails, CompleteReturns, CompleteFails, StoreRaises
  <2>2. /\ FinalState(q) = "SUCCESS" /\ adapter[q].rrn # NoRRN /\ txns' = Finalised(q)
        /\ collision' = collision \cup {q}
        /\ \E first \in ByRrn(adapter[q].rrn, txns') : first # q
    BY <2>1 DEF AdapterAnswers, RecordDuplicateDebit
  <2>3. r = q
    BY <1>5, <2>2
  <2>4. txns'[q].state = "SUCCESS" /\ txns'[q].rrn = adapter[q].rrn
    BY <2>2 DEF Finalised, CoreInv, TypeOK
  <2> QED
    BY <2>2, <2>3, <2>4 DEF ByRrn
<1> QED
  BY <1>2, <1>4, <1>5 DEF CollisionsAreReal

\* No duplicate debit alarm is false, however stale the scans are.
THEOREM AlarmsAreReal == Spec => [](ReferencesAreFinal /\ CollisionsAreReal)
<1>1. Init => ReferencesAreFinal /\ CollisionsAreReal
  BY DEF Init, AbsentTxn, ReferencesAreFinal, CollisionsAreReal
<1>2. CoreInv /\ ReferencesAreFinal /\ CollisionsAreReal /\ [Next]_vars
      => (ReferencesAreFinal /\ CollisionsAreReal)'
  BY CollisionsStep
<1> QED
  BY <1>1, <1>2, CoreHolds, PTL DEF Spec

\* Handlers, guard, adapter and table stay in step, and what is owed is owed by
\* somebody, under every fault.
THEOREM SwitchInvariant == Spec => []IInv
<1>1. /\ CoreInv /\ OpenRecordsAttended /\ SuccessesAttended
      /\ ReferencesAreFinal /\ CollisionsAreReal
      => IInv
  BY DEF IInv
<1> QED
  BY <1>1, CoreHolds, NothingIsForgotten, AlarmsAreReal, PTL
============================================================================
