------------------------ MODULE CircuitBreakerProofs ------------------------
(***************************************************************************)
(* Theorems about CircuitBreaker for every number of callers and every     *)
(* pair of thresholds.  IInv is inductive: OpenCanRecover is what makes    *)
(* HALF_OPEN reachable, CountIsCurrent what ties the counter of successes  *)
(* to the current recovery.                                                *)
(***************************************************************************)
EXTENDS CircuitBreaker, TLAPS

\* What _set_state does to a breaker of which OpenCanRecover holds.
LEMMA SetStateRecovers ==
    ASSUME OpenCanRecover, openedAt \in {"None", "young", "old"},
           NEW new \in CBState, SetState(new)
    PROVE  /\ state' = new
           /\ openedAt' \in {"None", "young", "old"}
           /\ OpenCanRecover'
           /\ state = "OPEN" /\ new = "OPEN" => openedAt' = openedAt
  BY DEF SetState, OpenCanRecover, CBState

\* The invariant holds of a new breaker.
LEMMA InitInv == Init => IInv
<1>1. Init => TypeOK
  <2>1. Init => bankUp \in BOOLEAN
    BY DEF Init
  <2>2. Init => /\ failCount  \in 0 .. FailureThreshold
                /\ halfOpenOk \in 0 .. SuccessThreshold
                /\ okSince    \in 0 .. SuccessThreshold
    BY ThresholdsAssumption DEF Init, ThresholdsAssumption
  <2>3. Init => /\ state    \in CBState
                /\ openedAt \in {"None", "young", "old"}
                /\ pc       \in [Calls -> PC]
    BY DEF Init, CBState, PC
  <2>4. Init => early \subseteq {c \in Calls : bankUp /\ Inside(c)}
    BY DEF Init
  <2> QED
    BY <2>1, <2>2, <2>3, <2>4 DEF TypeOK
<1>2. Init => OpenCanRecover /\ CountIsCurrent
  BY DEF Init, OpenCanRecover, CountIsCurrent
<1>3. Init => CountersBelowThresholds
  BY ThresholdsAssumption
     DEF Init, CountersBelowThresholds, ThresholdsAssumption
<1> QED
  BY <1>1, <1>2, <1>3 DEF IInv

\* Every admission, outcome, manual trip and passing of time keeps it.
LEMMA NextInv ==
    ASSUME IInv, [Next]_vars
    PROVE  IInv'
<1> USE ThresholdsAssumption DEF ThresholdsAssumption
<1> USE DEF IInv, TypeOK, CountersBelowThresholds, CountIsCurrent, CBState, PC,
            Goto, Leave, Inside, Since
<1>1. ASSUME NEW c \in Calls, Admit(c) \/ Reject(c) \/ Probe(c) \/ Unregistered(c)
      PROVE  IInv'
  BY <1>1 DEF Admit, Reject, Probe, Unregistered, OpenCanRecover
<1>2. ASSUME NEW c \in Calls, HalfOpen(c)
      PROVE  IInv'
  <2>1. SetState("HALF_OPEN")
    BY <1>2 DEF HalfOpen
  <2> QED
    BY <1>2, <2>1, SetStateRecovers DEF HalfOpen
<1>3. ASSUME NEW c \in Calls, OnSuccess(c)
      PROVE  IInv'
  <2>1. CASE state = "HALF_OPEN" /\ halfOpenOk + 1 >= SuccessThreshold
    <3>1. SetState("CLOSED")
      BY <1>3, <2>1 DEF OnSuccess
    <3> QED
      BY <1>3, <2>1, <3>1, SetStateRecovers DEF OnSuccess
  <2>2. CASE state = "HALF_OPEN" /\ ~(halfOpenOk + 1 >= SuccessThreshold)
    BY <1>3, <2>2 DEF OnSuccess, OpenCanRecover
  <2>3. CASE state # "HALF_OPEN"
    BY <1>3, <2>3 DEF OnSuccess, OpenCanRecover
  <2> QED
    BY <2>1, <2>2, <2>3
<1>4. ASSUME NEW c \in Calls, OnFailure(c)
      PROVE  IInv'
  <2>1. CASE state = "HALF_OPEN" \/ failCount + 1 >= FailureThreshold
    <3>1. SetState("OPEN")
      BY <1>4, <2>1 DEF OnFailure
    <3> QED
      BY <1>4, <2>1, <3>1, SetStateRecovers DEF OnFailure
  <2>2. CASE state # "HALF_OPEN" /\ ~(failCount + 1 >= FailureThreshold)
    BY <1>4, <2>2 DEF OnFailure, OpenCanRecover
  <2> QED
    BY <2>1, <2>2
<1>5. CASE ForceOpen
  BY <1>5, SetStateRecovers DEF ForceOpen
<1>6. CASE ForceClose
  BY <1>6, SetStateRecovers DEF ForceClose
<1>7. CASE TimeoutPasses
  BY <1>7 DEF TimeoutPasses, OpenCanRecover
<1>8. CASE BankRecovers
  BY <1>8 DEF BankRecovers, OpenCanRecover
<1>9. CASE UNCHANGED vars
  BY <1>9 DEF vars, OpenCanRecover
<1> QED
  BY <1>1, <1>2, <1>3, <1>4, <1>5, <1>6, <1>7, <1>8, <1>9 DEF Next, Enter

\* The inductive invariant holds in every reachable state.
THEOREM BreakerInvariant == Spec => []IInv
<1>1. IInv /\ [Next]_vars => IInv'
  BY NextInv
<1> QED
  BY InitInv, <1>1, PTL DEF Spec

\* No breaker stays OPEN for want of an opening time: late outcomes and manual
\* trips cannot lose it (_set_state).
THEOREM OpenAlwaysTimed == Spec => []OpenCanRecover
<1>1. IInv => OpenCanRecover
  BY DEF IInv
<1> QED
  BY <1>1, BreakerInvariant, PTL

\* No threshold is reached without the transition it stands for.
THEOREM ThresholdsAct == Spec => []CountersBelowThresholds
<1>1. IInv => CountersBelowThresholds
  BY DEF IInv
<1> QED
  BY <1>1, BreakerInvariant, PTL

\* Late failures and manual trips never put off a recovery that is due.
THEOREM RecoveryStaysDue == Spec => RecoveryNotPutOff
<1>1. ASSUME IInv, [Next]_vars, state = "OPEN", openedAt = "old", state' = "OPEN"
      PROVE  openedAt' = "old"
  BY <1>1
     DEF IInv, Next, vars, Enter, Admit, Reject, HalfOpen, Probe, OnSuccess,
         OnFailure, Unregistered, ForceOpen, ForceClose, TimeoutPasses,
         BankRecovers, SetState
<1>2. IInv /\ [Next]_vars =>
        [(state = "OPEN" /\ openedAt = "old" /\ state' = "OPEN")
           => openedAt' = "old"]_vars
  BY <1>1
<1> QED
  BY <1>2, BreakerInvariant, PTL DEF Spec, RecoveryNotPutOff

\* Traffic returns only after SuccessThreshold successes of the current
\* recovery, or by hand.
THEOREM RecoveriesAreEarned == Spec => RecoveryIsEarned
<1>1. ASSUME IInv, [Next]_vars, state # "CLOSED", state' = "CLOSED"
      PROVE  \/ pc' = pc
             \/ state = "HALF_OPEN" /\ okSince + 1 >= SuccessThreshold
  <2>1. CASE \E c \in Calls : OnSuccess(c)
    BY <1>1, <2>1 DEF IInv, CountIsCurrent, OnSuccess, TypeOK
  <2>2. CASE \E c \in Calls : Enter(c) \/ OnFailure(c) \/ Unregistered(c)
    BY <1>1, <2>2
       DEF Enter, Admit, Reject, HalfOpen, Probe, OnFailure, Unregistered,
           SetState
  <2>3. CASE ForceOpen \/ ForceClose \/ TimeoutPasses \/ BankRecovers
    BY <2>3 DEF ForceOpen, ForceClose, TimeoutPasses, BankRecovers
  <2>4. CASE UNCHANGED vars
    BY <2>4 DEF vars
  <2> QED
    BY <1>1, <2>1, <2>2, <2>3, <2>4 DEF Next
<1>2. IInv /\ [Next]_vars =>
        [(state # "CLOSED" /\ state' = "CLOSED") =>
           \/ pc' = pc
           \/ state = "HALF_OPEN" /\ okSince + 1 >= SuccessThreshold]_vars
  BY <1>1
<1> QED
  BY <1>2, BreakerInvariant, PTL DEF Spec, RecoveryIsEarned

\* What takes the breaker of a recovered bank back is the failure of a call made
\* before the recovery, once per such call, or force_open.
THEOREM RecoveryTakenBackOncePerCall == Spec => HealthyBankHeals
<1> USE ThresholdsAssumption
<1>1. ASSUME IInv, [Next]_vars, bankUp
      PROVE  /\ bankUp' /\ early' \subseteq early
             /\ Progress' < Progress => ForceOpen \/ early' # early
  <2> USE DEF IInv, TypeOK, CountersBelowThresholds, CBState
  <2>1. bankUp' /\ early' \subseteq early
    BY <1>1
       DEF Next, vars, Enter, Admit, Reject, HalfOpen, Probe, OnSuccess, OnFailure,
           Unregistered, ForceOpen, ForceClose, TimeoutPasses, BankRecovers, Leave
  <2>2. Progress \in Nat /\ Progress' \in Nat
    BY <1>1, NextInv DEF Progress
  <2>3. Progress <= Progress' => ~(Progress' < Progress)
    BY <2>2
  <2>4. ASSUME UNCHANGED <<state, halfOpenOk>>
        PROVE  Progress <= Progress'
    <3>1. Progress' = Progress
      BY <2>4 DEF Progress
    <3>2. Progress \in Nat
      BY <1>1 DEF Progress
    <3> QED
      BY <3>1, <3>2
  <2>5. ASSUME NEW c \in Calls, HalfOpen(c)
        PROVE  Progress <= Progress'
    BY <1>1, <2>5 DEF HalfOpen, SetState, Progress
  <2>6. ASSUME NEW c \in Calls, OnSuccess(c)
        PROVE  Progress <= Progress'
    <3>1. CASE state = "HALF_OPEN"
      BY <1>1, <2>6, <3>1 DEF OnSuccess, SetState, Progress
    <3>2. CASE state # "HALF_OPEN"
      BY <1>1, <2>6, <3>2 DEF OnSuccess, Progress
    <3> QED
      BY <3>1, <3>2
  <2>7. ASSUME NEW c \in Calls, OnFailure(c)
        PROVE  early' # early
    <3>1. c \in early /\ early' = early \ {c}
      BY <1>1, <2>7 DEF OnFailure, Leave
    <3> QED
      BY <3>1
  <2>8. CASE ForceClose
    <3>1. Progress <= Progress'
      BY <1>1, <2>8 DEF ForceClose, SetState, Progress
    <3> QED
      BY <2>1, <3>1, <2>3
  <2>9. ASSUME \/ UNCHANGED vars \/ TimeoutPasses \/ BankRecovers
               \/ \E c \in Calls : Admit(c) \/ Reject(c) \/ Probe(c) \/ Unregistered(c)
        PROVE  Progress <= Progress'
    <3>1. UNCHANGED <<state, halfOpenOk>>
      BY <2>9 DEF vars, TimeoutPasses, BankRecovers, Admit, Reject, Probe, Unregistered
    <3> QED
      BY <2>4, <3>1
  <2> QED
    BY <1>1, <2>1, <2>5, <2>6, <2>7, <2>8, <2>9, <2>3 DEF Next, Enter
<1>2. IInv /\ [Next]_vars =>
        [bankUp => /\ bankUp' /\ early' \subseteq early
                   /\ Progress' < Progress => ForceOpen \/ early' # early]_vars
  BY <1>1
<1> QED
  BY <1>2, BreakerInvariant, PTL DEF Spec, HealthyBankHeals
=============================================================================
