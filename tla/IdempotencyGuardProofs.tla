----------------------- MODULE IdempotencyGuardProofs -----------------------
(***************************************************************************)
(* Proofs about the idempotency guard, for any sets of keys and calls: its *)
(* inductive invariant IInv, and that every step of its three-request      *)
(* check is a step of the atomic registry or leaves it unchanged.          *)
(***************************************************************************)
EXTENDS IdempotencyGuard, TLAPS

\* The type invariant holds initially and every step keeps it.
LEMMA TypeInductive ==
    /\ Init => TypeOK
    /\ TypeOK /\ [Next]_vars => TypeOK'
<1> USE DEF TypeOK, Registry!RegistryTypeOK, Registry!Entry, Registry!Answer,
            Registry!Status, Registry!FinalStatus, Registry!MaybePayload,
            PC, Running
<1>1. Init => TypeOK
  BY DEF Init, Registry!Init, Registry!AbsentEntry, Registry!NoAnswer
<1>2. ASSUME TypeOK, [Next]_vars PROVE TypeOK'
  <2> USE <1>2
  <2>1. ASSUME NEW c \in Calls, CallStep(c) PROVE TypeOK'
    <3>1. CASE Receive(c)
      BY <3>1 DEF Receive, Goto
    <3>2. CASE FindHit(c)
      BY <3>2 DEF FindHit, Goto, Reply, Registry!Present,
                  Registry!DuplicateAnswer
    <3>3. CASE FindMiss(c)
      BY <3>3 DEF FindMiss, Goto
    <3>4. CASE InsertWins(c)
      BY <3>4 DEF InsertWins, Goto, Reply, Registry!Claimed,
                  Registry!NewAnswer
    <3>5. CASE InsertLoses(c)
      BY <3>5 DEF InsertLoses, Goto
    <3>6. CASE InsertUnacknowledged(c)
      BY <3>6 DEF InsertUnacknowledged, Goto, Registry!Claimed
    <3>7. CASE Refind(c)
      BY <3>7 DEF Refind, Goto, Reply, Registry!Present, Registry!Claimed,
                  Registry!DuplicateAnswer
    <3>8. CASE RequestFails(c)
      BY <3>8 DEF RequestFails, Goto
    <3> QED
      BY <2>1, <3>1, <3>2, <3>3, <3>4, <3>5, <3>6, <3>7, <3>8 DEF CallStep
  <2>2. ASSUME NEW k \in Keys, TableStep(k) PROVE TypeOK'
    <3>1. CASE Expire(k)
      BY <3>1 DEF Expire, Registry!AbsentEntry
    <3>2. ASSUME NEW status \in Registry!FinalStatus,
                 NEW payload \in Registry!MaybePayload,
                 Complete(k, status, payload)
          PROVE  TypeOK'
      <4>1. entries' \in [Keys -> Registry!Entry]
        BY <3>2 DEF Complete
      <4> QED
        BY <3>2, <4>1 DEF Complete
    <3> QED
      BY <2>2, <3>1, <3>2 DEF TableStep
  <2>3. CASE Crash
    BY <2>3 DEF Crash
  <2>4. CASE UNCHANGED vars
    BY <2>4 DEF vars
  <2> QED
    BY <2>1, <2>2, <2>3, <2>4 DEF Next
<1> QED
  BY <1>1, <1>2

\* Every variable always has a value of its type.
THEOREM TypeCorrect == Spec => []TypeOK
  BY TypeInductive, PTL DEF Spec

----------------------------------------------------------------------------
\* What a step may do to the answer a call has, to a grant and to a record:
\* the facts the preservation proof of IInv is built from.
LEMMA InvInductive ==
    /\ Init => IInv
    /\ IInv /\ [Next]_vars => IInv'
<1> DEFINE Inv == /\ AnsweredWhenDone
                  /\ LostRaceSawClaim
                  /\ OneGrantPerRecord
                  /\ GrantBackedByRecord
                  /\ ReplayMatchesRecord
                  /\ DuplicateMeansClaimed
<1> USE DEF AnsweredWhenDone, LostRaceSawClaim, OneGrantPerRecord,
            GrantBackedByRecord, ReplayMatchesRecord, DuplicateMeansClaimed,
            Registry!Present, Registry!Unanswered
<1>1. Init => Inv
  BY DEF Init, Registry!Init, Registry!AbsentEntry, Registry!NoAnswer
<1>2. ASSUME TypeOK, Inv, [Next]_vars PROVE Inv'
  <2> USE <1>2
  <2> USE DEF TypeOK, Registry!RegistryTypeOK, Registry!FinalStatus
  <2>1. ASSUME NEW c \in Calls, CallStep(c) PROVE Inv'
    <3>1. CASE Receive(c)
      BY <3>1 DEF Receive, Goto
    <3>2. CASE FindHit(c)
      BY <3>2 DEF FindHit, Goto, Reply, Registry!DuplicateAnswer,
                  Registry!Entry
    <3>3. CASE FindMiss(c)
      BY <3>3 DEF FindMiss, Goto
    <3>4. CASE InsertWins(c)
      BY <3>4 DEF InsertWins, Goto, Reply, Registry!Claimed,
                  Registry!NewAnswer
    <3>5. CASE InsertLoses(c)
      BY <3>5 DEF InsertLoses, Goto
    <3>6. CASE InsertUnacknowledged(c)
      BY <3>6 DEF InsertUnacknowledged, Goto, Registry!Claimed
    <3>7. CASE Refind(c)
      BY <3>7 DEF Refind, Goto, Reply, Registry!Claimed,
                  Registry!DuplicateAnswer, Registry!Entry
    <3>8. CASE RequestFails(c)
      BY <3>8 DEF RequestFails, Goto, Running
    <3> QED
      BY <2>1, <3>1, <3>2, <3>3, <3>4, <3>5, <3>6, <3>7, <3>8 DEF CallStep
  <2>2. ASSUME NEW k \in Keys, TableStep(k) PROVE Inv'
    <3>1. CASE Expire(k)
      BY <3>1 DEF Expire, Registry!AbsentEntry
    <3>2. ASSUME NEW status \in Registry!FinalStatus,
                 NEW payload \in Registry!MaybePayload,
                 Complete(k, status, payload)
          PROVE  Inv'
      BY <3>2 DEF Complete
    <3> QED
      BY <2>2, <3>1, <3>2 DEF TableStep
  <2>3. CASE Crash
    BY <2>3 DEF Crash, Running
  <2>4. CASE UNCHANGED vars
    BY <2>4 DEF vars
  <2> QED
    BY <2>1, <2>2, <2>3, <2>4 DEF Next
<1> QED
  BY <1>1, <1>2, TypeInductive DEF IInv

\* The inductive invariant holds in every reachable state.
THEOREM InvariantHolds == Spec => []IInv
  BY InvInductive, PTL DEF Spec

\* However many calls race on one key, at most one is told NEW for the life of
\* its record (the conditional put of idempotency-guard/app/store.py:52-71).
THEOREM AtMostOneGrant == Spec => []OneGrantPerRecord
<1>1. IInv => OneGrantPerRecord
  BY DEF IInv
<1> QED
  BY <1>1, InvariantHolds, PTL

\* A caller that was told NEW finds a record behind its grant until it lapses.
THEOREM GrantsAreBacked == Spec => []GrantBackedByRecord
<1>1. IInv => GrantBackedByRecord
  BY DEF IInv
<1> QED
  BY <1>1, InvariantHolds, PTL

\* A replayed final result is always the stored one (service.py:15-22, 39-46).
THEOREM ReplaysAreFaithful == Spec => []ReplayMatchesRecord
<1>1. IInv => ReplayMatchesRecord
  BY DEF IInv
<1> QED
  BY <1>1, InvariantHolds, PTL

\* No call is refused as a repeat of a key that was never claimed.
THEOREM DuplicatesAreGenuine == Spec => []DuplicateMeansClaimed
<1>1. IInv => DuplicateMeansClaimed
  BY DEF IInv
<1> QED
  BY <1>1, InvariantHolds, PTL

----------------------------------------------------------------------------
\* What a request of a call to the table is to the registry: the one that
\* decides the answer is the answer, the others are nothing.
LEMMA CallAnswers ==
    ASSUME IInv, NEW c \in Calls, CallStep(c)
    PROVE  \/ Registry!Claim(c, key[c])
           \/ Registry!Repeat(c, key[c])
           \/ Registry!RepeatLapsed(c, key[c])
           \/ Registry!Unanswered(c) /\ Registry!ClaimUnacknowledged(key[c])
           \/ UNCHANGED Registry!registryVars
<1> USE DEF Registry!registryVars
<1>1. pc[c] # "done" => Registry!Unanswered(c)
  BY DEF IInv, AnsweredWhenDone
<1>2. CASE FindHit(c)
  BY <1>1, <1>2 DEF FindHit, Reply, Registry!Repeat
<1>3. CASE InsertWins(c)
  BY <1>1, <1>3 DEF InsertWins, Reply, Registry!Claim
<1>4. CASE InsertUnacknowledged(c)
  BY <1>1, <1>4 DEF InsertUnacknowledged, Registry!ClaimUnacknowledged
<1>5. CASE Refind(c)
  <2>1. CASE Registry!Present(key[c])
    BY <1>1, <1>5, <2>1 DEF Refind, Reply, Registry!Repeat
  <2>2. CASE ~Registry!Present(key[c])
    <3>1. key[c] \in lapsed
      BY <1>5, <2>2 DEF Refind, IInv, LostRaceSawClaim
    <3> QED
      BY <1>1, <1>5, <2>2, <3>1 DEF Refind, Reply, Registry!RepeatLapsed
  <2> QED
    BY <2>1, <2>2
<1>6. CASE Receive(c) \/ FindMiss(c) \/ InsertLoses(c) \/ RequestFails(c)
  BY <1>6 DEF Receive, FindMiss, InsertLoses, RequestFails
<1> QED
  BY <1>2, <1>3, <1>4, <1>5, <1>6 DEF CallStep

\* The three-request check implements the atomic registry: the linearization
\* point of a call is the request that decides its answer.
THEOREM GuardImplementsRegistry == Spec => Implements
<1>1. Init => Registry!Init
  BY DEF Init
<1>2. ASSUME IInv, [Next]_vars PROVE [Registry!Next]_(Registry!registryVars)
  <2>1. ASSUME NEW c \in Calls, CallStep(c)
        PROVE  [Registry!Next]_(Registry!registryVars)
    <3>1. key[c] \in Keys
      BY <1>2 DEF IInv, TypeOK
    <3> QED
      BY <1>2, <2>1, <3>1, CallAnswers DEF Registry!Next
  <2>2. ASSUME NEW k \in Keys, TableStep(k)
        PROVE  [Registry!Next]_(Registry!registryVars)
    <3>1. CASE Expire(k)
      <4>1. Registry!Lapse(k)
        BY <3>1 DEF Expire, Registry!Lapse
      <4> QED
        BY <4>1 DEF Registry!Next
    <3>2. ASSUME NEW status \in Registry!FinalStatus,
                 NEW payload \in Registry!MaybePayload,
                 Complete(k, status, payload)
          PROVE  [Registry!Next]_(Registry!registryVars)
      <4>1. Registry!Settle(k, status, payload)
        BY <3>2 DEF Complete, Registry!Settle
      <4> QED
        BY <3>2, <4>1 DEF Registry!Next
    <3> QED
      BY <2>2, <3>1, <3>2 DEF TableStep
  <2>3. CASE Crash \/ UNCHANGED vars
    BY <2>3 DEF Crash, vars, Registry!registryVars
  <2> QED
    BY <1>2, <2>1, <2>2, <2>3 DEF Next
<1> QED
  BY <1>1, <1>2, InvariantHolds, PTL DEF Spec, Implements, Registry!Spec
============================================================================
