-------------------------- MODULE RateLimiterProofs --------------------------
(***************************************************************************)
(* Theorems about RateLimiter, for any requests, keys, limits and windows. *)
(* The limit holds in the window that ends with the latest check because   *)
(* what a set has forgotten is older than every window still to be counted *)
(* (ForgottenIsPast), as long as Redis runs the checks of a key within the *)
(* slack of its EXPIRE.  Nothing bounds a delay beyond that: what is said  *)
(* of the limit is said of the keys it has not happened to.                *)
(***************************************************************************)
EXTENDS RateLimiter, FiniteSetTheorems, TLAPS

\* The numbers the assumption gives.
LEMMA Numbers ==
    /\ Window \in Nat \ {0} /\ Slack \in Nat /\ MaxTime \in Nat \ {0}
    /\ \A k \in Keys : Limit[k] \in Nat \ {0}
BY LimiterAssumption

\* Sets of stamps are finite, and their subsets no larger.
LEMMA StampSets ==
    ASSUME NEW S \in SUBSET Time, NEW T \in SUBSET S
    PROVE  /\ Cardinality(S) \in Nat /\ Cardinality(T) \in Nat
           /\ Cardinality(T) <= Cardinality(S)
<1>1. IsFiniteSet(Time)
  BY Numbers, FS_Interval DEF Time
<1>2. IsFiniteSet(S) /\ IsFiniteSet(T)
  BY <1>1, FS_Subset
<1>3. Cardinality(T) <= Cardinality(S)
  BY <1>2, FS_Subset
<1> QED
  BY <1>2, <1>3, FS_CardinalityType

\* A request's key and where it is in its plan.
LEMMA Planned ==
    ASSUME TypeOK, NEW r \in Reqs
    PROVE  /\ plan[r] \in Seq(Keys)
           /\ Len(plan[r]) \in Nat
           /\ step[r] \in 1 .. Len(plan[r])
           /\ KeyOf(r) \in Keys
           /\ stamp[r] \in Time
<1>1. plan[r] \in Seq(Keys) /\ step[r] \in 1 .. Len(plan[r])
  BY LimiterAssumption DEF TypeOK
<1> QED
  BY <1>1 DEF TypeOK, KeyOf

(***************************************************************************)
(* The gauge and the counter                                               *)
(***************************************************************************)
InProgress == {r \in Reqs : pc[r] \in Active}
TurnedAway == {r \in Reqs : pc[r] = "rejected"}

LEMMA RequestSets ==
    /\ IsFiniteSet(InProgress) /\ IsFiniteSet(TurnedAway)
    /\ Cardinality(InProgress) \in 0 .. Cardinality(Reqs)
    /\ Cardinality(TurnedAway) \in 0 .. Cardinality(Reqs)
<1>1. IsFiniteSet(Reqs) /\ InProgress \in SUBSET Reqs /\ TurnedAway \in SUBSET Reqs
  BY LimiterAssumption DEF InProgress, TurnedAway
<1>2. IsFiniteSet(InProgress) /\ IsFiniteSet(TurnedAway)
  BY <1>1, FS_Subset
<1>3. Cardinality(InProgress) <= Cardinality(Reqs)
      /\ Cardinality(TurnedAway) <= Cardinality(Reqs)
  BY <1>1, FS_Subset
<1> QED
  BY <1>1, <1>2, <1>3, FS_CardinalityType

MetricsTrue ==
    /\ MetricsMatchRequests
    /\ inflight \in 0 .. Cardinality(Reqs)
    /\ hits \in 0 .. Cardinality(Reqs)

LEMMA MetricsFromSets ==
    inflight = Cardinality(InProgress) /\ hits = Cardinality(TurnedAway) => MetricsTrue
BY RequestSets DEF MetricsTrue, MetricsMatchRequests, InProgress, TurnedAway

\* A request moves from a place under way to another.
LEMMA MetricsKept ==
    ASSUME MetricsMatchRequests, NEW r \in Reqs, pc \in [Reqs -> PC],
           NEW label \in Active, pc[r] \in Active,
           Goto(r, label), UNCHANGED metricVars
    PROVE  MetricsTrue'
<1>1. \A q \in Reqs : pc'[q] = IF q = r THEN label ELSE pc[q]
  BY DEF Goto
<1>2. InProgress' = InProgress /\ TurnedAway' = TurnedAway
  BY <1>1 DEF InProgress, TurnedAway, Active
<1>3. (inflight = Cardinality(InProgress) /\ hits = Cardinality(TurnedAway))'
  BY <1>2 DEF MetricsMatchRequests, metricVars, InProgress, TurnedAway
<1> QED
  BY <1>3, MetricsFromSets, PTL

\* It begins.
LEMMA MetricsRaised ==
    ASSUME MetricsMatchRequests, NEW r \in Reqs, pc \in [Reqs -> PC],
           pc[r] = "idle", Goto(r, "received"),
           inflight' = inflight + 1, hits' = hits
    PROVE  MetricsTrue'
<1>1. \A q \in Reqs : pc'[q] = IF q = r THEN "received" ELSE pc[q]
  BY DEF Goto
<1>2. InProgress' = InProgress \cup {r} /\ r \notin InProgress /\ TurnedAway' = TurnedAway
  BY <1>1 DEF InProgress, TurnedAway, Active
<1>3. Cardinality(InProgress \cup {r}) = Cardinality(InProgress) + 1
  BY <1>2, RequestSets, FS_AddElement
<1>4. (inflight = Cardinality(InProgress) /\ hits = Cardinality(TurnedAway))'
  BY <1>2, <1>3 DEF MetricsMatchRequests, InProgress, TurnedAway
<1> QED
  BY <1>4, MetricsFromSets, PTL

\* It ends.
LEMMA MetricsLowered ==
    ASSUME MetricsMatchRequests, NEW r \in Reqs, pc \in [Reqs -> PC],
           NEW label \in PC \ Active, pc[r] \in Active, Finish(r, label)
    PROVE  MetricsTrue'
<1>1. \A q \in Reqs : pc'[q] = IF q = r THEN label ELSE pc[q]
  BY DEF Finish, Goto
<1>2. InProgress' = InProgress \ {r} /\ r \in InProgress
  BY <1>1 DEF InProgress
<1>3. Cardinality(InProgress \ {r}) = Cardinality(InProgress) - 1
  BY <1>2, RequestSets, FS_RemoveElement
<1>4. inflight' = Cardinality(InProgress')
  BY <1>2, <1>3 DEF Finish, MetricsMatchRequests, InProgress
<1>5. hits' = Cardinality(TurnedAway')
  <2>1. CASE label = "rejected"
    <3>1. TurnedAway' = TurnedAway \cup {r} /\ r \notin TurnedAway
      BY <1>1, <2>1 DEF TurnedAway, Active
    <3>2. Cardinality(TurnedAway \cup {r}) = Cardinality(TurnedAway) + 1
      BY <3>1, RequestSets, FS_AddElement
    <3> QED
      BY <2>1, <3>1, <3>2 DEF Finish, MetricsMatchRequests, TurnedAway
  <2>2. CASE label # "rejected"
    <3>1. TurnedAway' = TurnedAway
      BY <1>1, <2>2 DEF TurnedAway, Active
    <3> QED
      BY <2>2, <3>1 DEF Finish, MetricsMatchRequests, TurnedAway
  <2> QED
    BY <2>1, <2>2
<1>6. (inflight = Cardinality(InProgress) /\ hits = Cardinality(TurnedAway))'
  BY <1>4, <1>5
<1> QED
  BY <1>6, MetricsFromSets, PTL

(***************************************************************************)
(* One transaction                                                         *)
(***************************************************************************)
Allowed(r) == Cardinality(Members(r)) <= Limit[KeyOf(r)]

\* Redis runs r's transaction, and lets it through only if the limit allows.
Runs(r) ==
    /\ pc[r] = "checking"
    /\ Apply(r, Members(r))
    /\ \/ UNCHANGED admitted
       \/ /\ Allowed(r)
          /\ admitted' = [admitted EXCEPT ![KeyOf(r)] = @ \cup {stamp[r]}]
    /\ UNCHANGED <<now, requestVars>>

LEMMA RunEffect ==
    ASSUME IInv, NEW r \in Reqs, Runs(r)
    PROVE  /\ pc[r] = "checking"
           /\ KeyOf(r) \in Keys /\ stamp[r] \in Time /\ now \in Time
           /\ Members(r) \in SUBSET Time
           /\ zset'[KeyOf(r)] = Members(r)
           /\ expires'[KeyOf(r)] = now + Window + Slack
           /\ attempts'[KeyOf(r)] = attempts[KeyOf(r)] \cup {stamp[r]}
           /\ \/ admitted'[KeyOf(r)] = admitted[KeyOf(r)]
              \/ Allowed(r) /\ admitted'[KeyOf(r)] = admitted[KeyOf(r)] \cup {stamp[r]}
           /\ \A k \in Keys \ {KeyOf(r)} :
                  /\ zset'[k] = zset[k] /\ expires'[k] = expires[k]
                  /\ attempts'[k] = attempts[k] /\ admitted'[k] = admitted[k]
           /\ Timely' \subseteq Timely
           /\ KeyOf(r) \in Timely' => now <= stamp[r] + Slack
           /\ UNCHANGED <<now, plan, step, stamp>>
           /\ zset' \in [Keys -> SUBSET Time]
           /\ expires' \in [Keys -> 0 .. MaxTime + Window + Slack]
           /\ attempts' \in [Keys -> SUBSET Time]
           /\ admitted' \in [Keys -> SUBSET Time]
           /\ late' \in SUBSET Keys
<1>1. TypeOK
  BY DEF IInv
<1>2. KeyOf(r) \in Keys /\ stamp[r] \in Time /\ now \in Time
  BY <1>1, Planned DEF TypeOK
<1>3. Members(r) \in SUBSET Time
  BY <1>1, <1>2 DEF Members, Since, TypeOK
<1> DEFINE k == KeyOf(r)
<1>4. /\ zset' = [zset EXCEPT ![k] = Members(r)]
      /\ expires' = [expires EXCEPT ![k] = now + Window + Slack]
      /\ attempts' = [attempts EXCEPT ![k] = @ \cup {stamp[r]}]
      /\ late' = IF now > stamp[r] + Slack THEN late \cup {k} ELSE late
  BY DEF Runs, Apply
<1>5. \/ admitted' = admitted
      \/ Allowed(r) /\ admitted' = [admitted EXCEPT ![k] = @ \cup {stamp[r]}]
  BY DEF Runs
<1>6. k \in Keys
  BY <1>2
<1> HIDE DEF k
<1>7. now + Window + Slack \in 0 .. MaxTime + Window + Slack
  BY <1>2, Numbers DEF Time
<1>8. /\ zset'[k] = Members(r) /\ expires'[k] = now + Window + Slack
      /\ attempts'[k] = attempts[k] \cup {stamp[r]}
  BY <1>1, <1>4, <1>6 DEF TypeOK
<1>9. \/ admitted'[k] = admitted[k]
      \/ Allowed(r) /\ admitted'[k] = admitted[k] \cup {stamp[r]}
  BY <1>1, <1>5, <1>6 DEF TypeOK
<1>10. \A j \in Keys \ {k} : /\ zset'[j] = zset[j] /\ expires'[j] = expires[j]
                             /\ attempts'[j] = attempts[j] /\ admitted'[j] = admitted[j]
  BY <1>1, <1>4, <1>5 DEF TypeOK
<1>11. /\ zset' \in [Keys -> SUBSET Time]
       /\ expires' \in [Keys -> 0 .. MaxTime + Window + Slack]
       /\ attempts' \in [Keys -> SUBSET Time]
  BY <1>1, <1>2, <1>3, <1>4, <1>7 DEF TypeOK
<1>12. admitted' \in [Keys -> SUBSET Time]
  <2>1. admitted \in [Keys -> SUBSET Time]
    BY <1>1 DEF TypeOK
  <2>2. CASE admitted' = [admitted EXCEPT ![k] = @ \cup {stamp[r]}]
    BY <1>2, <2>1, <2>2
  <2> QED
    BY <1>5, <2>1, <2>2
<1>13. late' \in SUBSET Keys /\ Timely' \subseteq Timely
  BY <1>1, <1>4, <1>6 DEF TypeOK, Timely
<1>14. k \in Timely' => now <= stamp[r] + Slack
  BY <1>2, <1>4, Numbers DEF Timely, Time
<1> QED
  BY <1>2, <1>3, <1>8, <1>9, <1>10, <1>11, <1>12, <1>13, <1>14 DEF k, Runs, requestVars

\* What an admitted stamp must still be counted for, it is counted for: nothing
\* admitted that lies in a window ending with this transaction's stamp or later
\* is missing from the set.
LEMMA NothingForgotten ==
    ASSUME IInv, NEW r \in Reqs, KeyOf(r) \in Timely, now <= stamp[r] + Slack,
           NEW t \in Time, stamp[r] <= t, \A s \in attempts[KeyOf(r)] : s <= t
    PROVE  Since(admitted[KeyOf(r)], t) \subseteq Members(r)
<1> DEFINE k == KeyOf(r)
<1>1. SUFFICES ASSUME NEW a \in admitted[k], a + Window > t
               PROVE  a \in Members(r)
  BY DEF Since
<1>2. a \in Time /\ stamp[r] \in Time /\ now \in Time
  BY DEF IInv, TypeOK, Timely
<1>3. a \in zset[k]
  <2>1. ~(a + Window + Slack <= now)
    BY <1>1, <1>2, Numbers DEF Time
  <2>2. \A s \in attempts[k] : ~(a + Window <= s)
    <3>1. \A s \in attempts[k] : s \in Time
      BY DEF IInv, TypeOK, Timely
    <3> QED
      BY <1>1, <1>2, <3>1, Numbers DEF Time
  <2> QED
    BY <2>1, <2>2 DEF IInv, ForgottenIsPast
<1>4. a + Window > stamp[r]
  BY <1>1, <1>2, Numbers DEF Time
<1> QED
  BY <1>4, <1>3 DEF Members, Since

LEMMA RunWindows ==
    ASSUME IInv, NEW r \in Reqs, Runs(r)
    PROVE  WindowsWithinLimit'
<1> DEFINE k == KeyOf(r)
<1>1. k \in Keys /\ stamp[r] \in Time /\ Members(r) \in SUBSET Time /\ Timely' \subseteq Timely
  BY RunEffect
<1>2. SUFFICES ASSUME NEW j \in Timely', NEW t \in Time, \A s \in attempts'[j] : s <= t
               PROVE  Cardinality(Since(admitted'[j], t)) <= Limit[j]
  BY DEF WindowsWithinLimit, Since
<1>3. j \in Timely /\ j \in Keys
  BY <1>1 DEF Timely
<1>4. attempts[j] \subseteq attempts'[j]
  BY <1>3, RunEffect
<1>5. CASE admitted'[j] = admitted[j]
  BY <1>2, <1>3, <1>4, <1>5 DEF IInv, WindowsWithinLimit
<1>6. CASE admitted'[j] # admitted[j]
  <2>1. j = k /\ Allowed(r) /\ admitted'[k] = admitted[k] \cup {stamp[r]}
    BY <1>3, <1>6, RunEffect
  <2>2. stamp[r] <= t /\ \A s \in attempts[k] : s <= t
    BY <1>2, <2>1, RunEffect
  <2>3. k \in Timely /\ now <= stamp[r] + Slack
    BY <1>2, <1>3, <2>1, RunEffect
  <2>4. Since(admitted[k], t) \subseteq Members(r)
    BY <2>2, <2>3, NothingForgotten
  <2>5. stamp[r] \in Members(r)
    BY DEF Members
  <2>6. Since(admitted'[k], t) \subseteq Members(r)
    BY <2>1, <2>4, <2>5 DEF Since
  <2>7. /\ Cardinality(Since(admitted'[k], t)) <= Cardinality(Members(r))
        /\ Cardinality(Since(admitted'[k], t)) \in Nat /\ Cardinality(Members(r)) \in Nat
    BY <1>1, <2>6, StampSets
  <2> QED
    BY <1>1, <2>1, <2>7, Numbers DEF Allowed
<1> QED
  BY <1>5, <1>6

\* Everything admitted that shares a shortened window with this transaction's
\* stamp is counted: the window reaches past every attempt made so far, so nothing
\* in it has been forgotten.
LEMMA RunEveryWindow ==
    ASSUME IInv, NEW r \in Reqs, Runs(r)
    PROVE  EveryWindowWithinLimit'
<1> DEFINE k == KeyOf(r)
           Within(stamps, t) == {s \in stamps : s <= t /\ s + Window > t + Slack}
<1>1. k \in Keys /\ stamp[r] \in Time /\ Members(r) \in SUBSET Time /\ Timely' \subseteq Timely
  BY RunEffect
<1>2. SUFFICES ASSUME NEW j \in Timely', NEW t \in Time
               PROVE  Cardinality(Within(admitted'[j], t)) <= Limit[j]
  BY DEF EveryWindowWithinLimit
<1>3. Cardinality(Within(admitted[j], t)) <= Limit[j] /\ j \in Keys
  BY <1>1 DEF IInv, EveryWindowWithinLimit, Timely
<1>4. CASE admitted'[j] = admitted[j]
  BY <1>3, <1>4
<1>5. CASE admitted'[j] # admitted[j]
  <2>1. j = k /\ Allowed(r) /\ admitted'[k] = admitted[k] \cup {stamp[r]}
    BY <1>3, <1>5, RunEffect
  <2>2. k \in Timely /\ now <= stamp[r] + Slack /\ now \in Time
    BY <1>1, <2>1, RunEffect
  <2>3. CASE stamp[r] \notin Within(admitted'[k], t)
    <3>1. Within(admitted'[k], t) = Within(admitted[k], t)
      BY <2>1, <2>3
    <3> QED
      BY <1>3, <2>1, <3>1
  <2>4. CASE stamp[r] \in Within(admitted'[k], t)
    <3>1. stamp[r] <= t
      BY <2>4
    <3>2. \A a \in Within(admitted[k], t) : a \in Members(r)
      <4> TAKE a \in Within(admitted[k], t)
      <4>1. a \in admitted[k] /\ a + Window > t + Slack /\ a \in Time
        BY <1>1 DEF IInv, TypeOK
      <4>2. now \in Time /\ now <= stamp[r] + Slack
        BY <2>2
      <4>3. a + Window > now
        BY <1>1, <3>1, <4>1, <4>2, Numbers DEF Time
      <4>4. \A s \in attempts[k] : ~(a + Window <= s)
        <5>1. \A s \in attempts[k] : s \in Time /\ s <= now
          BY <1>1 DEF IInv, TypeOK, StampsInTime
        <5> QED
          BY <4>1, <4>2, <4>3, <5>1, Numbers DEF Time
      <4>5. ~(a + Window + Slack <= now)
        BY <4>1, <4>2, <4>3, Numbers DEF Time
      <4>6. a \in zset[k]
        BY <2>2, <4>1, <4>4, <4>5 DEF IInv, ForgottenIsPast
      <4>7. a + Window > stamp[r]
        BY <1>1, <3>1, <4>1, Numbers DEF Time
      <4> QED
        BY <4>6, <4>7 DEF Members, Since
    <3>3. stamp[r] \in Members(r)
      BY DEF Members
    <3>4. Within(admitted'[k], t) \subseteq Members(r)
      BY <2>1, <3>2, <3>3
    <3> HIDE DEF Within
    <3>5. /\ Cardinality(Within(admitted'[k], t)) <= Cardinality(Members(r))
          /\ Cardinality(Within(admitted'[k], t)) \in Nat /\ Cardinality(Members(r)) \in Nat
      BY <1>1, <3>4, StampSets
    <3> QED
      BY <1>1, <2>1, <3>5, Numbers DEF Allowed
  <2> QED
    BY <2>3, <2>4
<1> QED
  BY <1>4, <1>5

LEMMA RunForgets ==
    ASSUME IInv, NEW r \in Reqs, Runs(r)
    PROVE  ForgottenIsPast'
<1> DEFINE k == KeyOf(r)
<1>1. now' = now /\ k \in Keys /\ stamp[r] \in Time /\ Timely' \subseteq Timely
  BY RunEffect
<1>2. SUFFICES ASSUME NEW j \in Timely', NEW a \in admitted'[j] \ zset'[j]
               PROVE  \/ \E t \in attempts'[j] : a + Window <= t
                      \/ a + Window + Slack <= now
  BY <1>1 DEF ForgottenIsPast
<1>3. j \in Timely /\ j \in Keys
  BY <1>1 DEF Timely
<1>4. CASE j # k
  <2>1. attempts'[j] = attempts[j] /\ admitted'[j] = admitted[j] /\ zset'[j] = zset[j]
    BY <1>4, <1>3, RunEffect
  <2> QED
    BY <1>2, <1>3, <2>1 DEF IInv, ForgottenIsPast
<1>5. CASE j = k
  <2>1. /\ zset'[k] = Members(r) /\ attempts'[k] = attempts[k] \cup {stamp[r]}
        /\ admitted'[k] \subseteq admitted[k] \cup {stamp[r]}
    BY RunEffect
  <2>2. a # stamp[r]
    BY <1>2, <1>5, <2>1 DEF Members
  <2>3. a \in admitted[k] /\ a \in Time
    BY <1>1, <1>2, <1>5, <2>1, <2>2 DEF IInv, TypeOK
  <2>4. CASE a \in zset[k]
    <3>1. ~(a + Window > stamp[r])
      BY <1>2, <1>5, <2>1, <2>4 DEF Members, Since
    <3>2. a + Window <= stamp[r]
      BY <1>1, <2>3, <3>1, Numbers DEF Time
    <3> QED
      BY <1>5, <2>1, <3>2
  <2>5. CASE a \notin zset[k]
    BY <1>5, <1>3, <2>1, <2>3, <2>5 DEF IInv, ForgottenIsPast
  <2> QED
    BY <2>4, <2>5
<1> QED
  BY <1>4, <1>5

LEMMA RunInTime ==
    ASSUME IInv, NEW r \in Reqs, Runs(r)
    PROVE  StampsInTime'
<1> DEFINE k == KeyOf(r)
<1>1. UNCHANGED <<now, stamp>> /\ k \in Keys /\ stamp[r] \in Time /\ now \in Time
  BY RunEffect DEF IInv, TypeOK
<1>2. stamp[r] <= now
  BY DEF IInv, StampsInTime
<1>3. ASSUME NEW j \in Keys
      PROVE  /\ zset'[j] \cup admitted'[j] \subseteq attempts'[j]
             /\ \A s \in attempts'[j] : s <= now
             /\ \A s \in zset'[j] : s + Window + Slack <= expires'[j]
  <2>1. CASE j # k
    BY <2>1, RunEffect DEF IInv, StampsInTime
  <2>2. CASE j = k
    <3>1. /\ zset'[k] = Members(r) /\ attempts'[k] = attempts[k] \cup {stamp[r]}
          /\ expires'[k] = now + Window + Slack
          /\ admitted'[k] \subseteq admitted[k] \cup {stamp[r]}
      BY RunEffect
    <3>2. Members(r) \subseteq zset[k] \cup {stamp[r]}
      BY DEF Members, Since
    <3>3. zset[k] \cup admitted[k] \subseteq attempts[k] /\ \A s \in attempts[k] : s <= now
      BY <1>1 DEF IInv, StampsInTime
    <3>4. \A s \in Members(r) : s \in Time /\ s <= now
      BY <1>2, <3>2, <3>3, RunEffect
    <3>5. \A s \in Members(r) : s + Window + Slack <= now + Window + Slack
      BY <1>1, <3>4, Numbers DEF Time
    <3> QED
      BY <1>2, <2>2, <3>1, <3>2, <3>3, <3>5
  <2> QED
    BY <2>1, <2>2
<1> QED
  BY <1>1, <1>3 DEF IInv, StampsInTime

\* Only r moves, and is turned away only for what the set holds.
LEMMA RunRejects ==
    ASSUME IInv, NEW r \in Reqs, Runs(r),
           \A q \in Reqs \ {r} : pc'[q] = pc[q],
           pc'[r] = "rejected" => ~Allowed(r)
    PROVE  RejectedForCause'
<1> DEFINE k == KeyOf(r)
<1>1. /\ UNCHANGED <<plan, step, stamp>> /\ k \in Keys /\ stamp[r] \in Time
      /\ attempts' \in [Keys -> SUBSET Time] /\ Members(r) \in SUBSET Time
  BY RunEffect
<1>2. \A j \in Keys : attempts[j] \subseteq attempts'[j]
  <2>1. attempts[k] \subseteq attempts'[k]
    BY RunEffect
  <2> QED
    BY <2>1, RunEffect
<1>3. SUFFICES ASSUME NEW q \in Reqs, pc'[q] = "rejected"
               PROVE  Cardinality(Since(attempts'[KeyOf(q)], stamp[q])) > Limit[KeyOf(q)]
  BY <1>1 DEF RejectedForCause, KeyOf, Since
<1>4. KeyOf(q) \in Keys /\ stamp[q] \in Time
  BY Planned DEF IInv
<1>5. Limit[KeyOf(q)] \in Nat
  BY <1>4, Numbers
<1>6. CASE q # r
  <2>1. pc[q] = "rejected"
    BY <1>3, <1>6
  <2>2. Cardinality(Since(attempts[KeyOf(q)], stamp[q])) > Limit[KeyOf(q)]
    BY <2>1 DEF IInv, RejectedForCause
  <2>3. Since(attempts[KeyOf(q)], stamp[q]) \subseteq Since(attempts'[KeyOf(q)], stamp[q])
    BY <1>2, <1>4 DEF Since
  <2>4. Since(attempts'[KeyOf(q)], stamp[q]) \in SUBSET Time
    BY <1>1, <1>4 DEF Since
  <2>5. /\ Cardinality(Since(attempts[KeyOf(q)], stamp[q]))
               <= Cardinality(Since(attempts'[KeyOf(q)], stamp[q]))
        /\ Cardinality(Since(attempts[KeyOf(q)], stamp[q])) \in Nat
        /\ Cardinality(Since(attempts'[KeyOf(q)], stamp[q])) \in Nat
    BY <2>3, <2>4, StampSets
  <2> QED
    BY <1>5, <2>2, <2>5
<1>7. CASE q = r
  <2>1. ~Allowed(r)
    BY <1>3, <1>7
  <2>2. attempts'[k] = attempts[k] \cup {stamp[r]} /\ zset[k] \subseteq attempts[k]
    BY <1>1, RunEffect DEF IInv, StampsInTime
  <2>3. stamp[r] + Window > stamp[r]
    BY <1>1, Numbers DEF Time
  <2>4. Members(r) \subseteq Since(attempts'[k], stamp[r])
    BY <2>2, <2>3 DEF Members, Since
  <2>5. Since(attempts'[k], stamp[r]) \in SUBSET Time
    BY <1>1 DEF Since
  <2>6. /\ Cardinality(Members(r)) <= Cardinality(Since(attempts'[k], stamp[r]))
        /\ Cardinality(Members(r)) \in Nat
        /\ Cardinality(Since(attempts'[k], stamp[r])) \in Nat
    BY <2>4, <2>5, StampSets
  <2> QED
    BY <1>5, <1>7, <2>1, <2>6 DEF Allowed
<1> QED
  BY <1>6, <1>7

\* Only r moves, and goes on only when its stamp is admitted.
LEMMA RunChecks ==
    ASSUME IInv, NEW r \in Reqs, Runs(r),
           \A q \in Reqs \ {r} : pc'[q] = pc[q],
           pc'[r] \in {"allowed", "rejected", "error"},
           pc'[r] = "allowed" => stamp[r] \in admitted'[KeyOf(r)]
    PROVE  ChecksPassed'
<1>1. UNCHANGED <<plan, step, stamp>> /\ KeyOf(r) \in Keys /\ stamp[r] \in Time
  BY RunEffect
<1>2. \A k \in Keys : admitted[k] \subseteq admitted'[k]
  <2>1. admitted[KeyOf(r)] \subseteq admitted'[KeyOf(r)]
    BY RunEffect
  <2> QED
    BY <2>1, RunEffect
<1>3. ASSUME NEW q \in Reqs, NEW n \in 0 .. Len(plan[q]), Passed(q, n)
      PROVE  Passed(q, n)'
  <2>1. \A i \in 1 .. n : plan[q][i] \in Keys
    BY Planned DEF IInv
  <2> QED
    BY <1>1, <1>2, <1>3, <2>1 DEF Passed
<1>4. ASSUME NEW q \in Reqs \ {r}
      PROVE  /\ pc'[q] \in {"idle", "received", "authorized"} => step'[q] = 1
             /\ pc'[q] = "checking" => Passed(q, step[q] - 1)'
             /\ pc'[q] \in {"allowed", "proxied", "answered"} => Passed(q, step[q])'
             /\ pc'[q] \in {"proxied", "answered"} => step[q] = Len(plan[q])
  <2>1. pc'[q] = pc[q]
    OBVIOUS
  <2>2. step[q] \in 0 .. Len(plan[q]) /\ step[q] - 1 \in 0 .. Len(plan[q])
    BY Planned DEF IInv
  <2> QED
    BY <1>1, <1>3, <2>1, <2>2 DEF IInv, ChecksPassed
<1>5. pc'[r] = "allowed" => Passed(r, step[r])'
  <2>1. SUFFICES ASSUME pc'[r] = "allowed" PROVE Passed(r, step[r])'
    OBVIOUS
  <2>3. stamp[r] \in admitted'[plan[r][step[r]]] /\ stamp[r] <= stamp[r]
    <3>1. stamp[r] \in admitted'[KeyOf(r)]
      BY <2>1
    <3>2. stamp[r] <= stamp[r]
      BY <1>1, Numbers DEF Time
    <3> QED
      BY <3>1, <3>2 DEF KeyOf
  <2>4. step[r] \in 1 .. Len(plan[r]) /\ Len(plan[r]) \in Nat
    BY Planned DEF IInv
  <2>5. Passed(r, step[r] - 1)'
    <3>1. step[r] - 1 \in 0 .. Len(plan[r])
      BY <2>4
    <3>2. Passed(r, step[r] - 1)
      BY RunEffect DEF IInv, ChecksPassed
    <3>3. PICK n \in 0 .. Len(plan[r]) : n = step[r] - 1
      BY <3>1
    <3>4. Passed(r, n)'
      BY <1>3, <3>2, <3>3
    <3> QED
      BY <1>1, <3>3, <3>4 DEF Passed
  <2>6. \A i \in 1 .. step[r] : i \in 1 .. step[r] - 1 \/ i = step[r]
    BY <2>4
  <2> QED
    BY <1>1, <2>3, <2>5, <2>6 DEF Passed
<1> QED
  BY <1>1, <1>4, <1>5 DEF ChecksPassed, Passed

LEMMA RunStep ==
    ASSUME IInv, NEW r \in Reqs, Runs(r), MetricsTrue',
           NEW label \in {"allowed", "rejected", "error"}, Goto(r, label),
           label = "rejected" => ~Allowed(r),
           label = "allowed" => stamp[r] \in admitted'[KeyOf(r)]
    PROVE  IInv'
<1>1. pc' \in [Reqs -> PC] /\ \A q \in Reqs : pc'[q] = IF q = r THEN label ELSE pc[q]
  BY DEF IInv, TypeOK, Goto, PC, Active
<1>2. TypeOK'
  BY <1>1, RunEffect DEF IInv, TypeOK, MetricsTrue
<1>3. RejectedForCause'
  BY <1>1, RunRejects
<1>4. ChecksPassed'
  BY <1>1, RunChecks
<1> QED
  BY <1>2, <1>3, <1>4, RunWindows, RunEveryWindow, RunForgets, RunInTime
     DEF IInv, MetricsTrue

LEMMA ExecuteStep ==
    ASSUME IInv, NEW r \in Reqs, Execute(r)
    PROVE  IInv'
<1>1. pc \in [Reqs -> PC] /\ MetricsMatchRequests /\ TypeOK
  BY DEF IInv, TypeOK
<1>2. /\ pc[r] = "checking" /\ Apply(r, Members(r)) /\ UNCHANGED <<now, requestVars>>
      /\ admitted' = [admitted EXCEPT ![KeyOf(r)] = IF Allowed(r) THEN @ \cup {stamp[r]} ELSE @]
      /\ IF Allowed(r) THEN Goto(r, "allowed") /\ UNCHANGED metricVars
                       ELSE Finish(r, "rejected")
  BY DEF Execute, Transact, Allowed
<1>3. CASE Allowed(r)
  <2>1. admitted' = [admitted EXCEPT ![KeyOf(r)] = @ \cup {stamp[r]}]
    BY <1>2, <1>3
  <2>2. stamp[r] \in admitted'[KeyOf(r)]
    BY <1>1, <2>1, Planned DEF TypeOK
  <2>3. MetricsTrue'
    BY <1>1, <1>2, <1>3, MetricsKept DEF Active
  <2>4. Runs(r)
    BY <1>2, <1>3, <2>1 DEF Runs
  <2> QED
    BY <1>2, <1>3, <2>2, <2>3, <2>4, RunStep
<1>4. CASE ~Allowed(r)
  <2>1. admitted' = admitted
    BY <1>1, <1>2, <1>4, Planned DEF TypeOK
  <2>2. MetricsTrue'
    BY <1>1, <1>2, <1>4, MetricsLowered DEF Active, PC
  <2>3. Runs(r) /\ Goto(r, "rejected")
    BY <1>2, <1>4, <2>1 DEF Runs, Finish
  <2> QED
    BY <1>4, <2>2, <2>3, RunStep
<1> QED
  BY <1>3, <1>4

(***************************************************************************)
(* The other steps                                                         *)
(***************************************************************************)
\* A request goes on without touching clock, stamps and sets.
LEMMA MoveStep ==
    ASSUME IInv, NEW r \in Reqs, NEW label \in PC \ {"checking", "allowed", "rejected"},
           Goto(r, label), MetricsTrue', UNCHANGED <<now, requestVars, limiterVars>>,
           label = "proxied" => pc[r] = "allowed" /\ step[r] = Len(plan[r]),
           label = "answered" => pc[r] = "proxied",
           label \in {"idle", "received", "authorized"} => pc[r] \in {"idle", "received"}
    PROVE  IInv'
<1>1. \A q \in Reqs : pc'[q] = IF q = r THEN label ELSE pc[q]
  BY DEF IInv, TypeOK, Goto
<1>2. UNCHANGED <<now, plan, step, stamp, zset, expires, attempts, admitted, late>>
  BY DEF requestVars, limiterVars
<1>3. TypeOK'
  BY <1>2 DEF IInv, TypeOK, Goto, MetricsTrue
<1>4. StampsInTime' /\ ForgottenIsPast' /\ WindowsWithinLimit' /\ EveryWindowWithinLimit'
  BY <1>1, <1>2 DEF IInv, StampsInTime, ForgottenIsPast, WindowsWithinLimit,
                    EveryWindowWithinLimit, Since, Timely
<1>5. RejectedForCause'
  BY <1>1, <1>2 DEF IInv, RejectedForCause, KeyOf, Since
<1>6. \A q \in Reqs : \A n : Passed(q, n)' <=> Passed(q, n)
  BY <1>2 DEF Passed
<1>7. ChecksPassed'
  <2>1. ASSUME NEW q \in Reqs \ {r}
        PROVE  /\ pc'[q] \in {"idle", "received", "authorized"} => step'[q] = 1
               /\ pc'[q] = "checking" => Passed(q, step[q] - 1)'
               /\ pc'[q] \in {"allowed", "proxied", "answered"} => Passed(q, step[q])'
               /\ pc'[q] \in {"proxied", "answered"} => step[q] = Len(plan[q])
    BY <1>1, <1>2, <1>6 DEF IInv, ChecksPassed
  <2>2. pc'[r] \in {"proxied", "answered"} =>
            Passed(r, step[r])' /\ step[r] = Len(plan[r])
    <3>1. pc'[r] \in {"proxied", "answered"} =>
              Passed(r, step[r]) /\ step[r] = Len(plan[r])
      BY <1>1 DEF IInv, ChecksPassed
    <3> QED
      BY <1>2, <3>1 DEF Passed
  <2>3. /\ pc'[r] \notin {"checking", "allowed"}
        /\ pc'[r] \in {"idle", "received", "authorized"} => step[r] = 1
    BY <1>1 DEF IInv, ChecksPassed
  <2> QED
    BY <1>2, <2>1, <2>2, <2>3 DEF ChecksPassed, Passed
<1> QED
  BY <1>3, <1>4, <1>5, <1>7 DEF IInv, MetricsTrue

LEMMA StampStep ==
    ASSUME IInv, NEW r \in Reqs, Stamp(r)
    PROVE  IInv'
<1>1. /\ stamp' = [stamp EXCEPT ![r] = now] /\ Goto(r, "checking")
      /\ UNCHANGED <<now, plan, zset, expires, attempts, admitted, late, metricVars>>
      /\ \/ pc[r] = "authorized" /\ step' = step
         \/ /\ pc[r] = "allowed" /\ step[r] < Len(plan[r])
            /\ step' = [step EXCEPT ![r] = @ + 1]
  BY DEF Stamp, limiterVars
<1>2. pc[r] \in Active /\ pc \in [Reqs -> PC] /\ MetricsMatchRequests /\ now \in Time
      /\ stamp \in [Reqs -> Time]
  BY <1>1 DEF IInv, TypeOK, Active
<1>3. MetricsTrue'
  BY <1>1, <1>2, MetricsKept DEF Active
<1>4. \A q \in Reqs : /\ pc'[q] = IF q = r THEN "checking" ELSE pc[q]
                      /\ stamp'[q] = IF q = r THEN now ELSE stamp[q]
  BY <1>1, <1>2 DEF Goto
<1>5. \A q \in Reqs \ {r} : step'[q] = step[q]
  BY <1>1 DEF IInv, TypeOK
<1>6. \A q \in Reqs : step[q] \in 1 .. Len(plan[q]) /\ Len(plan[q]) \in Nat
  BY Planned DEF IInv
<1>7. step[r] < Len(plan[r]) => step[r] + 1 \in 1 .. Len(plan[r])
  BY <1>6
<1>8. /\ step' \in [Reqs -> Nat]
      /\ step'[r] = IF pc[r] = "authorized" THEN step[r] ELSE step[r] + 1
      /\ step'[r] \in 1 .. Len(plan[r])
  <2>1. step \in [Reqs -> Nat]
    BY DEF IInv, TypeOK
  <2>2. step[r] + 1 \in Nat
    BY <2>1
  <2> QED
    BY <1>1, <1>6, <1>7, <2>1, <2>2
<1>9. TypeOK'
  <2>1. \A q \in Reqs : step'[q] \in 1 .. Len(plan'[q])
    BY <1>1, <1>5, <1>6, <1>8
  <2>2. pc' \in [Reqs -> PC] /\ stamp' \in [Reqs -> Time]
    BY <1>1, <1>2 DEF Goto, PC, Active
  <2> QED
    BY <1>1, <1>3, <1>8, <2>1, <2>2 DEF IInv, TypeOK, MetricsTrue
<1>10. StampsInTime'
  <2>1. now <= now
    BY <1>2 DEF Time
  <2> QED
    BY <1>1, <1>4, <2>1 DEF IInv, StampsInTime
<1>11. ForgottenIsPast' /\ WindowsWithinLimit' /\ EveryWindowWithinLimit'
  BY <1>1 DEF IInv, ForgottenIsPast, WindowsWithinLimit, EveryWindowWithinLimit, Since, Timely
<1>12. RejectedForCause'
  BY <1>1, <1>4, <1>5 DEF IInv, RejectedForCause, KeyOf, Since
<1>13. ChecksPassed'
  <2>1. ASSUME NEW q \in Reqs \ {r}
        PROVE  /\ pc'[q] \in {"idle", "received", "authorized"} => step'[q] = 1
               /\ pc'[q] = "checking" => Passed(q, step[q] - 1)'
               /\ pc'[q] \in {"allowed", "proxied", "answered"} => Passed(q, step[q])'
               /\ pc'[q] \in {"proxied", "answered"} => step'[q] = Len(plan[q])
    <3>1. \A n : Passed(q, n)' <=> Passed(q, n)
      BY <1>1, <1>4 DEF Passed
    <3>2. step'[q] = step[q] /\ pc'[q] = pc[q]
      BY <1>4, <1>5
    <3> QED
      BY <3>1, <3>2 DEF IInv, ChecksPassed
  <2>2. Passed(r, step[r] - 1)'
    <3>1. CASE pc[r] = "authorized"
      <4>1. step'[r] - 1 = 0
        BY <1>6, <1>8, <3>1 DEF IInv, ChecksPassed
      <4> QED
        BY <4>1 DEF Passed
    <3>2. CASE pc[r] # "authorized"
      <4>1. step'[r] - 1 = step[r] /\ Passed(r, step[r])
        BY <1>1, <1>6, <1>8, <3>2 DEF IInv, ChecksPassed
      <4>2. stamp[r] <= now /\ stamp[r] \in Time
        BY <1>2 DEF IInv, StampsInTime
      <4>3. \A i \in 1 .. step[r] : plan[r][i] \in Keys
        BY <1>6, Planned DEF IInv
      <4>4. \A k \in Keys : admitted[k] \subseteq Time
        BY DEF IInv, TypeOK
      <4>5. ASSUME NEW i \in 1 .. step[r]
            PROVE  \E s \in admitted[plan[r][i]] : s <= now
        <5>1. PICK s \in admitted[plan[r][i]] : s <= stamp[r]
          BY <4>1 DEF Passed
        <5>2. s \in Time
          BY <4>3, <4>4, <5>1
        <5> QED
          BY <1>2, <4>2, <5>1, <5>2 DEF Time
      <4> QED
        BY <1>1, <1>4, <4>1, <4>5 DEF Passed
    <3> QED
      BY <3>1, <3>2
  <2> QED
    BY <1>1, <1>4, <1>5, <2>1, <2>2 DEF ChecksPassed, Passed
<1> QED
  BY <1>3, <1>9, <1>10, <1>11, <1>12, <1>13 DEF IInv, MetricsTrue

\* Time passes: a set that expires holds nothing a later stamp would count.
LEMMA TickStep ==
    ASSUME IInv, Tick
    PROVE  IInv'
<1>1. /\ now \in Time /\ now' = now + 1 /\ now' \in Time
      /\ zset' = [k \in Keys |-> IF expires[k] <= now' THEN {} ELSE zset[k]]
      /\ UNCHANGED <<pc, plan, step, stamp, expires, attempts, admitted, late, inflight, hits>>
  BY Numbers DEF IInv, TypeOK, Tick, Time, requestVars, metricVars
<1>2. \A k \in Keys : zset'[k] = (IF expires[k] <= now' THEN {} ELSE zset[k])
                      /\ zset'[k] \subseteq zset[k]
  BY <1>1
<1>3. TypeOK'
  BY <1>1, <1>2 DEF IInv, TypeOK
<1>4. StampsInTime'
  <2>1. ASSUME NEW r \in Reqs
        PROVE  stamp[r] <= now'
    <3>1. stamp[r] \in Time /\ stamp[r] <= now
      BY DEF IInv, TypeOK, StampsInTime
    <3> QED
      BY <1>1, <3>1 DEF Time
  <2>2. ASSUME NEW k \in Keys
        PROVE  /\ zset'[k] \cup admitted[k] \subseteq attempts[k]
               /\ \A s \in attempts[k] : s <= now'
               /\ \A s \in zset'[k] : s + Window + Slack <= expires[k]
    <3>1. \A s \in attempts[k] : s \in Time /\ s <= now
      BY DEF IInv, TypeOK, StampsInTime
    <3>2. \A s \in attempts[k] : s <= now'
      BY <1>1, <3>1 DEF Time
    <3> QED
      BY <1>2, <3>2 DEF IInv, StampsInTime
  <2> QED
    BY <1>1, <2>1, <2>2 DEF StampsInTime
<1>5. ForgottenIsPast'
  <2>1. SUFFICES ASSUME NEW k \in Timely, NEW a \in admitted[k] \ zset'[k]
                 PROVE  \/ \E t \in attempts[k] : a + Window <= t
                        \/ a + Window + Slack <= now'
    BY <1>1 DEF ForgottenIsPast, Timely
  <2>2. k \in Keys /\ a \in Time /\ expires[k] \in Nat
    BY <1>1, Numbers DEF IInv, TypeOK, Time, Timely
  <2>3. CASE a \in zset[k]
    <3>1. expires[k] <= now' /\ a + Window + Slack <= expires[k]
      BY <1>2, <2>1, <2>2, <2>3 DEF IInv, StampsInTime
    <3> QED
      BY <1>1, <2>2, <3>1, Numbers DEF Time
  <2>4. CASE a \notin zset[k]
    <3>1. (\E t \in attempts[k] : a + Window <= t) \/ a + Window + Slack <= now
      BY <2>1, <2>4 DEF IInv, ForgottenIsPast
    <3> QED
      BY <1>1, <2>2, <3>1, Numbers DEF Time
  <2> QED
    BY <2>3, <2>4
<1>6. /\ WindowsWithinLimit' /\ EveryWindowWithinLimit' /\ RejectedForCause'
      /\ ChecksPassed' /\ MetricsMatchRequests'
  BY <1>1 DEF IInv, WindowsWithinLimit, EveryWindowWithinLimit, RejectedForCause,
              ChecksPassed, Passed, MetricsMatchRequests, Since, KeyOf, Timely
<1> QED
  BY <1>3, <1>4, <1>5, <1>6 DEF IInv

LEMMA LimiterInit == Init => IInv
<1> SUFFICES ASSUME Init PROVE IInv
  OBVIOUS
<1>1. \A r \in Reqs : /\ plan[r] \in Seq(Keys) \ {<<>>} /\ Len(plan[r]) \in Nat
                      /\ 1 \in 1 .. Len(plan[r])
  <2>1. \A p \in Plans : p \in Seq(Keys) /\ Len(p) \in Nat /\ Len(p) # 0
    BY LimiterAssumption
  <2> QED
    BY <2>1, LimiterAssumption DEF Init
<1>2. MetricsTrue
  <2>1. InProgress = {} /\ TurnedAway = {}
    BY DEF Init, InProgress, TurnedAway, Active
  <2> QED
    BY <2>1, FS_EmptySet, MetricsFromSets DEF Init
<1>3. TypeOK
  <2>1. now \in Time /\ stamp \in [Reqs -> Time]
    BY Numbers DEF Init, Time
  <2>2. expires \in [Keys -> 0 .. MaxTime + Window + Slack]
    <3>1. 0 \in 0 .. MaxTime + Window + Slack
      BY Numbers
    <3> QED
      BY <3>1 DEF Init
  <2>3. \A r \in Reqs : step[r] \in 1 .. Len(plan[r])
    BY <1>1 DEF Init
  <2>4. plan \in [Reqs -> Plans] /\ pc \in [Reqs -> PC] /\ step \in [Reqs -> Nat]
    BY Numbers DEF Init, PC
  <2>5. \A f \in {zset, attempts, admitted} : f \in [Keys -> SUBSET Time]
    BY DEF Init
  <2>6. inflight \in 0 .. Cardinality(Reqs) /\ hits \in 0 .. Cardinality(Reqs)
    BY <1>2 DEF MetricsTrue
  <2>7. late \in SUBSET Keys
    BY DEF Init
  <2> QED
    BY <2>1, <2>2, <2>3, <2>4, <2>5, <2>6, <2>7 DEF TypeOK
<1>4. StampsInTime /\ ForgottenIsPast /\ RejectedForCause
  BY DEF Init, StampsInTime, ForgottenIsPast, RejectedForCause, Timely
<1>5. WindowsWithinLimit /\ EveryWindowWithinLimit
  <2>1. \A k \in Keys : admitted[k] = {}
    BY DEF Init
  <2>2. \A k \in Keys : \A t \in Time : Since(admitted[k], t) = {}
    BY <2>1 DEF Since
  <2>3. \A k \in Keys : \A t \in Time :
            {s \in admitted[k] : s <= t /\ s + Window > t + Slack} = {}
    BY <2>1
  <2>4. \A k \in Keys : Cardinality({}) <= Limit[k]
    BY FS_EmptySet, Numbers
  <2> QED
    BY <2>2, <2>3, <2>4 DEF WindowsWithinLimit, EveryWindowWithinLimit, Timely
<1>6. ChecksPassed
  BY DEF Init, ChecksPassed
<1> QED
  BY <1>2, <1>3, <1>4, <1>5, <1>6 DEF IInv, MetricsTrue

LEMMA LimiterNext == IInv /\ [Next]_vars => IInv'
<1> SUFFICES ASSUME IInv, [Next]_vars PROVE IInv'
  OBVIOUS
<1>1. pc \in [Reqs -> PC] /\ MetricsMatchRequests
  BY DEF IInv, TypeOK
<1>2. ASSUME NEW r \in Reqs, Receive(r)
      PROVE  IInv'
  <2>1. MetricsTrue'
    BY <1>1, <1>2, MetricsRaised DEF Receive
  <2> QED
    BY <1>2, <2>1, MoveStep DEF Receive, PC, Active
<1>3. ASSUME NEW r \in Reqs, Authenticate(r)
      PROVE  IInv'
  <2>1. CASE Goto(r, "authorized") /\ UNCHANGED metricVars
    <3>1. MetricsTrue'
      BY <1>1, <1>3, <2>1, MetricsKept DEF Authenticate, Active
    <3> QED
      BY <1>3, <2>1, <3>1, MoveStep DEF Authenticate, PC, Active
  <2>2. CASE Finish(r, "unauthorized")
    <3>1. MetricsTrue'
      BY <1>1, <1>3, <2>2, MetricsLowered DEF Authenticate, PC, Active
    <3> QED
      BY <1>3, <2>2, <3>1, MoveStep DEF Authenticate, Finish, PC, Active
  <2> QED
    BY <1>3, <2>1, <2>2 DEF Authenticate
<1>4. ASSUME NEW r \in Reqs, RedisFails(r)
      PROVE  IInv'
  <2>1. Unanswered(r) /\ Finish(r, "error") /\ Goto(r, "error") /\ pc[r] = "checking"
    BY <1>4 DEF RedisFails, Unanswered, Finish
  <2>2. MetricsTrue'
    BY <1>1, <2>1, MetricsLowered DEF PC, Active
  <2>3. CASE UNCHANGED limiterVars
    BY <2>1, <2>2, <2>3, MoveStep DEF Unanswered, PC, Active
  <2>4. CASE Apply(r, Members(r)) /\ UNCHANGED admitted
    <3>1. Runs(r)
      BY <2>1, <2>4 DEF Unanswered, Runs
    <3> QED
      BY <2>1, <2>2, <3>1, RunStep
  <2> QED
    BY <2>1, <2>3, <2>4 DEF Unanswered
<1>7. ASSUME NEW r \in Reqs, BodyFails(r)
      PROVE  IInv'
  <2>1. MetricsTrue'
    BY <1>1, <1>7, MetricsLowered DEF BodyFails, PC, Active
  <2> QED
    BY <1>7, <2>1, MoveStep DEF BodyFails, Finish, PC, Active
<1>5. ASSUME NEW r \in Reqs, Proxy(r)
      PROVE  IInv'
  <2>1. MetricsTrue'
    BY <1>1, <1>5, MetricsKept DEF Proxy, Active
  <2> QED
    BY <1>5, <2>1, MoveStep DEF Proxy, PC, Active
<1>6. ASSUME NEW r \in Reqs, ProxyEnds(r)
      PROVE  IInv'
  <2>1. PICK label \in {"answered", "error"} : Finish(r, label)
    BY <1>6 DEF ProxyEnds
  <2>2. MetricsTrue'
    BY <1>1, <1>6, <2>1, MetricsLowered DEF ProxyEnds, PC, Active
  <2> QED
    BY <1>6, <2>1, <2>2, MoveStep DEF ProxyEnds, Finish, PC, Active
<1>8. CASE UNCHANGED vars
  BY <1>8 DEF vars, requestVars, limiterVars, metricVars, IInv, TypeOK, StampsInTime,
     ForgottenIsPast, WindowsWithinLimit, EveryWindowWithinLimit, RejectedForCause,
     ChecksPassed, Passed, MetricsMatchRequests, Since, KeyOf, Timely
<1> QED
  BY <1>2, <1>3, <1>4, <1>5, <1>6, <1>8, <1>7, StampStep, ExecuteStep, TickStep DEF Next

\* The invariant of the limiter and the metrics around it.
THEOREM LimiterInvariant == Spec => []IInv
BY LimiterInit, LimiterNext, PTL DEF Spec

\* Counted back from its latest check, no key lets more than its limit through, in
\* whatever order the transactions of any number of requests run and however long
\* they take, unless Redis ran one of that key's more than Slack after its stamp.
THEOREM LimitHolds == Spec => []LatestWindowWithinLimit
<1>1. IInv => LatestWindowWithinLimit
  BY DEF IInv, TypeOK, WindowsWithinLimit, LatestWindowWithinLimit, Latest, Timely
<1> QED
  BY <1>1, LimiterInvariant, PTL

\* Wherever a window ends, shortened by Slack it holds no more admitted requests of
\* a key than the limit, unless Redis ran one of the key's checks later than that.
THEOREM EveryWindowHolds == Spec => []EveryWindowWithinLimit
<1>1. IInv => EveryWindowWithinLimit
  BY DEF IInv
<1> QED
  BY <1>1, LimiterInvariant, PTL

\* Nobody is turned away without the attempts that justify it.
THEOREM RejectionsHaveCause == Spec => []RejectedForCause
<1>1. IInv => RejectedForCause
  BY DEF IInv
<1> QED
  BY <1>1, LimiterInvariant, PTL

\* What is proxied has passed the check of every key of its plan.
THEOREM ProxiedHavePassed == Spec => []ProxiedPassedAll
<1>1. IInv => ProxiedPassedAll
  BY DEF IInv, ChecksPassed, ProxiedPassedAll
<1> QED
  BY <1>1, LimiterInvariant, PTL

\* The gauge and the counter agree with the requests, however these end.
THEOREM MetricsAreRight == Spec => []MetricsMatchRequests
<1>1. IInv => MetricsMatchRequests
  BY DEF IInv
<1> QED
  BY <1>1, LimiterInvariant, PTL
==============================================================================
