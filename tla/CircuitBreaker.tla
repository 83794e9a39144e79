--------------------------- MODULE CircuitBreaker ---------------------------
(***************************************************************************)
(* The project's own breaker, shared/metrics/circuit_breaker.py: one per   *)
(* bank, used as "async with breaker.protect(): call the bank".            *)
(*                                                                         *)
(* The lock is never held across an await, so admission and the            *)
(* registration of an outcome are atomic; any number of calls may be in    *)
(* the body between the two, and register in any order and any state.      *)
(* Calls come again and again: an element of Calls is one caller.          *)
(***************************************************************************)
EXTENDS Naturals

CONSTANTS
    Calls,
    FailureThreshold,
    SuccessThreshold

ASSUME ThresholdsAssumption ==
    FailureThreshold \in Nat \ {0} /\ SuccessThreshold \in Nat \ {0}

VARIABLES
    state,      \* _state
    failCount,  \* _fail_count
    halfOpenOk, \* _half_open_ok
    openedAt,   \* _opened_at: None, or younger or older than the timeout
    pc,         \* where each call is, and in which state it was admitted
    bankUp,     \* the bank answers every call made from now on
    early,      \* history: calls under way that were made before that
    okSince     \* history: successes registered since the breaker half-opened

vars == <<state, failCount, halfOpenOk, openedAt, pc, bankUp, early, okSince>>

CBState == {"CLOSED", "OPEN", "HALF_OPEN"}
PC      == {"idle", "admitted", "probing", "rejected"}

Inside(c) == pc[c] \in {"admitted", "probing"}

TypeOK ==
    /\ state      \in CBState
    /\ failCount  \in 0 .. FailureThreshold
    /\ halfOpenOk \in 0 .. SuccessThreshold
    /\ openedAt   \in {"None", "young", "old"}
    /\ pc         \in [Calls -> PC]
    /\ bankUp     \in BOOLEAN
    /\ early      \subseteq {c \in Calls : bankUp /\ Inside(c)}
    /\ okSince    \in 0 .. SuccessThreshold

Init ==
    /\ state      = "CLOSED"
    /\ failCount  = 0
    /\ halfOpenOk = 0
    /\ openedAt   = "None"
    /\ pc         = [c \in Calls |-> "idle"]
    /\ bankUp     = FALSE
    /\ early      = {}
    /\ okSince    = 0

----------------------------------------------------------------------------
Goto(c, label) == pc' = [pc EXCEPT ![c] = label]

\* Without the early return: opening an open breaker starts its timer again.
SetStateAlways(new) ==
    /\ state' = new
    /\ openedAt' = IF new = "OPEN" THEN "young"
                   ELSE IF state = "OPEN" THEN "None" ELSE openedAt

\* _set_state: nothing happens on a transition to the same state.
SetState(new) ==
    /\ state' = new
    /\ openedAt' = IF new = state THEN openedAt
                   ELSE IF new = "OPEN" THEN "young"
                   ELSE IF state = "OPEN" THEN "None" ELSE openedAt

\* A call that leaves is under way no more.
Leave(c) == Goto(c, "idle") /\ early' = early \ {c}

\* okSince belongs to one stay in HALF_OPEN.
Since(count) == okSince' = IF state' = "HALF_OPEN" THEN count ELSE 0

\* _should_attempt at the door.
Admit(c) ==
    /\ ~Inside(c)
    /\ state = "CLOSED"
    /\ Goto(c, "admitted")
    /\ UNCHANGED <<state, failCount, halfOpenOk, openedAt, bankUp, early, okSince>>

Reject(c) ==
    /\ ~Inside(c)
    /\ state = "OPEN" /\ openedAt # "old"
    /\ Goto(c, "rejected")
    /\ UNCHANGED <<state, failCount, halfOpenOk, openedAt, bankUp, early, okSince>>

\* The recovery starts without forgetting the successes of the last one.
HalfOpenKeepsCount(c) ==
    /\ ~Inside(c)
    /\ state = "OPEN" /\ openedAt = "old"
    /\ SetState("HALF_OPEN")
    /\ Goto(c, "probing")
    /\ Since(0)
    /\ UNCHANGED <<failCount, halfOpenOk, bankUp, early>>

\* The recovery timeout has passed: the first call to come half-opens.
HalfOpen(c) ==
    /\ ~Inside(c)
    /\ state = "OPEN" /\ openedAt = "old"
    /\ halfOpenOk' = 0
    /\ SetState("HALF_OPEN")
    /\ Goto(c, "probing")
    /\ Since(0)
    /\ UNCHANGED <<failCount, bankUp, early>>

\* The next probe waits for the success of the one before.
ProbeInTurn(c) ==
    /\ ~Inside(c)
    /\ state = "HALF_OPEN" /\ halfOpenOk > 0
    /\ Goto(c, "probing")
    /\ UNCHANGED <<state, failCount, halfOpenOk, openedAt, bankUp, early, okSince>>

Probe(c) ==
    /\ ~Inside(c)
    /\ state = "HALF_OPEN"
    /\ Goto(c, "probing")
    /\ UNCHANGED <<state, failCount, halfOpenOk, openedAt, bankUp, early, okSince>>

Enter(c) == Admit(c) \/ Reject(c) \/ HalfOpen(c) \/ Probe(c)

----------------------------------------------------------------------------
\* _on_success, whatever state the call was admitted in.
OnSuccess(c) ==
    /\ Inside(c)
    /\ Leave(c)
    /\ CASE state = "HALF_OPEN" ->
              /\ halfOpenOk' = halfOpenOk + 1
              /\ IF halfOpenOk + 1 >= SuccessThreshold
                 THEN failCount' = 0 /\ SetState("CLOSED")
                 ELSE UNCHANGED <<failCount, state, openedAt>>
              /\ Since(okSince + 1)
         [] state = "CLOSED" ->
              /\ failCount' = 0
              /\ UNCHANGED <<state, halfOpenOk, openedAt, okSince>>
         [] OTHER -> UNCHANGED <<state, failCount, halfOpenOk, openedAt, okSince>>
    /\ UNCHANGED bankUp

\* The breaker trips one failure late.
OnFailureLate(c) ==
    /\ Inside(c)
    /\ bankUp => c \in early
    /\ Leave(c)
    /\ IF state = "HALF_OPEN"
       THEN SetState("OPEN") /\ UNCHANGED failCount
       ELSE IF failCount + 1 > FailureThreshold
       THEN failCount' = 0 /\ SetState("OPEN")
       ELSE failCount' = failCount + 1 /\ UNCHANGED <<state, openedAt>>
    /\ Since(okSince)
    /\ UNCHANGED <<halfOpenOk, bankUp>>

\* _on_failure: also a call admitted long ago, also while OPEN, also when the
\* bank has recovered since the call was made.
OnFailure(c) ==
    /\ Inside(c)
    /\ bankUp => c \in early
    /\ Leave(c)
    /\ IF state = "HALF_OPEN"
       THEN SetState("OPEN") /\ UNCHANGED failCount
       ELSE IF failCount + 1 >= FailureThreshold
       THEN failCount' = 0 /\ SetState("OPEN")
       ELSE failCount' = failCount + 1 /\ UNCHANGED <<state, openedAt>>
    /\ Since(okSince)
    /\ UNCHANGED <<halfOpenOk, bankUp>>

\* An excluded exception, or CancelledError, which is no Exception: the call
\* leaves without registering anything.
Unregistered(c) ==
    /\ Inside(c)
    /\ Leave(c)
    /\ UNCHANGED <<state, failCount, halfOpenOk, openedAt, bankUp, okSince>>

----------------------------------------------------------------------------
\* The manual helpers, at any time.
ForceOpen ==
    /\ state # "OPEN" \/ failCount # 0
    /\ failCount' = 0
    /\ SetState("OPEN")
    /\ okSince' = 0
    /\ UNCHANGED <<halfOpenOk, pc, bankUp, early>>

ForceClose ==
    /\ state # "CLOSED" \/ failCount # 0
    /\ failCount' = 0
    /\ SetState("CLOSED")
    /\ okSince' = 0
    /\ UNCHANGED <<halfOpenOk, pc, bankUp, early>>

\* recovery_timeout_s passes.
TimeoutPasses ==
    /\ openedAt = "young"
    /\ openedAt' = "old"
    /\ UNCHANGED <<state, failCount, halfOpenOk, pc, bankUp, early, okSince>>

\* The bank recovers for good: until it does it fails some calls, afterwards
\* only calls made before.
BankRecovers ==
    /\ ~bankUp
    /\ bankUp' = TRUE
    /\ early' = {c \in Calls : Inside(c)}
    /\ UNCHANGED <<state, failCount, halfOpenOk, openedAt, pc, okSince>>

Next ==
    \/ \E c \in Calls : \/ Enter(c)
                        \/ OnSuccess(c)
                        \/ OnFailure(c)
                        \/ Unregistered(c)
    \/ ForceOpen
    \/ ForceClose
    \/ TimeoutPasses
    \/ BankRecovers

Spec == Init /\ [][Next]_vars

\* Traffic goes on, time passes, and not every call of a healthy bank is
\* cancelled.  Nobody is assumed to use the manual helpers.
Fairness ==
    /\ WF_vars(TimeoutPasses)
    /\ \A c \in Calls : /\ WF_vars(HalfOpen(c) \/ Probe(c) \/ Admit(c))
                        /\ SF_vars(OnSuccess(c))

FairSpec == Spec /\ Fairness

----------------------------------------------------------------------------
\* An OPEN breaker always knows since when, so that it can half-open, and no
\* other state does, whatever late outcomes and manual trips came in between
\* (_set_state, lines 126-134).
OpenCanRecover == state = "OPEN" <=> openedAt # "None"

\* The counters stay below what they trigger: no failure or success that
\* should have moved the breaker was swallowed.
CountersBelowThresholds ==
    /\ failCount < FailureThreshold
    /\ state = "HALF_OPEN" => halfOpenOk < SuccessThreshold

\* What the breaker counts is what was registered since it half-opened.
CountIsCurrent == state = "HALF_OPEN" => halfOpenOk = okSince

IInv ==
    /\ TypeOK
    /\ OpenCanRecover
    /\ CountersBelowThresholds
    /\ CountIsCurrent

\* Failures of calls admitted earlier never put off the recovery: once the
\* timeout has passed it stays passed until a call half-opens the breaker.
RecoveryNotPutOff ==
    [][(state = "OPEN" /\ openedAt = "old" /\ state' = "OPEN")
           => openedAt' = "old"]_vars

\* "successes in HALF_OPEN before closing" (line 75): every return to CLOSED
\* is earned in the current recovery, or made by hand.
RecoveryIsEarned ==
    [][(state # "CLOSED" /\ state' = "CLOSED") =>
           \/ pc' = pc
           \/ state = "HALF_OPEN" /\ okSince + 1 >= SuccessThreshold]_vars

\* How far a breaker is on its way back.
Progress == CASE state = "OPEN" -> 0 [] state = "HALF_OPEN" -> 1 + halfOpenOk
              [] OTHER -> 1 + SuccessThreshold

\* A recovered bank and late outcomes (circuit_breaker.py:179-202): a call made
\* before the recovery may still trip the breaker, or take a half-open one back,
\* when it fails at last.  Each such call does so once at the most, no later
\* call joins them, and nothing else but force_open takes the breaker back.
HealthyBankHeals ==
    [][bankUp => /\ bankUp' /\ early' \subseteq early
                 /\ Progress' < Progress => ForceOpen \/ early' # early]_vars

\* A bank that has recovered gets its traffic back, for good, although calls
\* made before fail late, once operators no longer force the breaker open.
RecoveredBankCloses ==
    <>[][~ForceOpen]_vars => (bankUp ~> [](bankUp /\ state = "CLOSED"))
=============================================================================
