-------------------------- MODULE BankAdapterProofs --------------------------
(***************************************************************************)
(* Theorems about BankAdapter for every number of sends, resets and banks  *)
(* and every failure threshold.  IInv says how a POST, its result at the   *)
(* bank, the reply and the breakers hang together; from it follow what the *)
(* properties say of debits and breakers, and that the service implements  *)
(* AdapterContract.                                                        *)
(***************************************************************************)
EXTENDS BankAdapter, FiniteSetTheorems, TLAPS

\* What a call of a breaker does to it and to its gauge.
LEMMA RegisteredFacts ==
    ASSUME NEW b \in Breaker, NEW result \in Results,
           b.state # "closed" => b.count = FailMax,
           NEW called, called = Registered(b, result)
    PROVE  /\ called.breaker \in Breaker
           /\ called.shown \in {"same", "closed", "open"}
           /\ called.breaker.state # "closed" => called.breaker.count = FailMax
           /\ called.breaker.count <= b.count + 1
           /\ result \notin Failures => called.breaker.count <= b.count
           /\ called.shown = "same" =>
                  (called.breaker.state # "closed" <=> b.state # "closed")
           /\ called.shown # "same" =>
                  (called.shown = "open" <=> called.breaker.state # "closed")
           /\ (b.state # "closed" /\ called.breaker.state = "closed") =>
                  b.state = "ripe" /\ result \in Answers
<1> USE FailMaxAssumption DEF FailMaxAssumption, Failures, Answers
<1>1. b.state \in {"closed", "open", "ripe"} /\ b.count \in 0 .. FailMax
  BY DEF Breaker
<1>2. b = [state |-> b.state, count |-> b.count]
  BY DEF Breaker
<1>3. CASE called.breaker = b /\ called.shown = "same"
           /\ (b.state = "open" \/ result \in {"garbled", "broken"})
  BY <1>1, <1>3
<1>4. CASE called = Called(FreshBreaker, FALSE, "closed")
           /\ b.state # "open" /\ result \in Answers
  <2>1. FreshBreaker \in Breaker
    BY DEF FreshBreaker, Breaker
  <2> QED
    BY <1>1, <1>4, <2>1 DEF Called, FreshBreaker
<1>5. CASE called = Called([b EXCEPT !.count = @ + 1], FALSE, "same")
           /\ b.state = "closed" /\ b.count + 1 < FailMax /\ result \in Failures
  <2> DEFINE counted == [b EXCEPT !.count = @ + 1]
  <2>1. counted = [state |-> "closed", count |-> b.count + 1]
    BY <1>2, <1>5
  <2>2. counted \in Breaker
    BY <1>1, <1>5, <2>1 DEF Breaker
  <2> HIDE DEF counted
  <2> QED
    BY <1>1, <1>5, <2>1, <2>2 DEF Called, counted
<1>6. CASE called = Called([state |-> "open", count |-> FailMax], TRUE, "open")
           /\ b.count + 1 >= FailMax /\ result \in Failures
  <2> DEFINE tripped == [state |-> "open", count |-> FailMax]
  <2>1. tripped \in Breaker
    BY DEF Breaker
  <2> QED
    BY <1>1, <1>6, <2>1 DEF Called
<1>7. CASE result \in Answers
  <2>1. called = CallReturning(b)
    BY <1>7 DEF Registered
  <2>2. CASE b.state = "open"
    <3>1. called = Called(b, TRUE, "same")
      BY <2>1, <2>2 DEF CallReturning
    <3>2. called.breaker = b /\ called.shown = "same"
      BY <3>1 DEF Called
    <3> QED
      BY <1>3, <2>2, <3>2
  <2>3. CASE b.state # "open"
    BY <1>4, <1>7, <2>1, <2>3 DEF CallReturning
  <2> QED
    BY <2>2, <2>3
<1>8. CASE result \in Failures
  <2>1. called = CallRaising(b)
    BY <1>8 DEF Registered
  <2>2. CASE b.state = "open"
    <3>1. called = Called(b, TRUE, "same")
      BY <2>1, <2>2 DEF CallRaising
    <3> QED
      BY <1>3, <1>8, <2>2, <3>1 DEF Called
  <2>3. CASE b.state = "closed" /\ b.count + 1 < FailMax
    <3>1. called = Called([b EXCEPT !.count = @ + 1], FALSE, "same")
      BY <2>1, <2>3 DEF CallRaising
    <3> QED
      BY <1>5, <1>8, <2>3, <3>1
  <2>4. CASE b.state = "ripe" \/ (b.state = "closed" /\ ~(b.count + 1 < FailMax))
    <3>1. called = Called([state |-> "open", count |-> FailMax], TRUE, "open")
      BY <2>1, <2>4 DEF CallRaising
    <3>2. b.count + 1 >= FailMax
      BY <1>1, <2>4
    <3> QED
      BY <1>6, <1>8, <3>1, <3>2
  <2> QED
    BY <1>1, <2>2, <2>3, <2>4
<1>9. CASE result \in {"garbled", "broken"}
  <2>1. called = Called(b, FALSE, "same")
    BY <1>9 DEF Registered
  <2> QED
    BY <1>3, <1>9, <2>1 DEF Called
<1> QED
  BY <1>7, <1>8, <1>9 DEF Results

\* How a POST ends, whichever it is: an exception, a reply, or the fallback.
PostEffect(t, e, result) ==
    /\ Returned(t, e, result)
    /\ \/ /\ result = "broken"
          /\ bank' = BankAfter(t, e, result)
          /\ Goto(t, "raised")
          /\ UNCHANGED reply
       \/ /\ bank' = BankAfter(t, e, result)
          /\ \/ \E rrn \in RRNs \cup {NoRRN} :
                    result = "success" /\ Reply(t, "SUCCESS", "none", rrn)
             \/ \E code \in {"CIRCUIT_OPEN", "BANK_UNREACHABLE"} :
                    /\ result = "success" => code = "CIRCUIT_OPEN"
                    /\ Reply(t, "FAILED", code, NoRRN)
             \/ /\ e = "primary" /\ result = "client_error"
                /\ Reply(t, "FAILED", "CLIENT_ERROR", NoRRN)
       \/ /\ e = "primary" /\ result \in Retried
          /\ bank' = [BankAfter(t, e, result) EXCEPT ![t]["fallback"] = "posted"]
          /\ Goto(t, "fallback")
          /\ UNCHANGED reply

LEMMA PostEnds ==
    ASSUME NEW t \in Txns, PostReturns(t)
    PROVE  \E e \in Endpoints, result \in Results : PostEffect(t, e, result)
<1>1. ASSUME NEW result \in Results, PrimaryEnds(t, result, Retried)
      PROVE  PostEffect(t, "primary", result)
  BY <1>1 DEF PrimaryEnds, PostEffect
<1>2. ASSUME NEW result \in Results,
             FallbackEnds(t, result, {"success"}, "BANK_UNREACHABLE")
      PROVE  PostEffect(t, "fallback", result)
  BY <1>2 DEF FallbackEnds, PostEffect
<1> QED
  BY <1>1, <1>2 DEF PostReturns, PrimaryReturns, FallbackReturns, Endpoints

----------------------------------------------------------------------------
(* IInv, conjunct by conjunct.                                             *)

\* What send t finds when one of its POSTs ends.
LEMMA Posting ==
    ASSUME IInv, NEW t \in Txns, NEW e \in Endpoints, pc[t] = e
    PROVE  /\ Used(t) \in Calls /\ bankOf[t] \in Banks
           /\ pc[Used(t)] \notin Unmade /\ bankOf[Used(t)] = bankOf[t]
           /\ breaker[Used(t)] \in Breaker
           /\ breaker[Used(t)].state # "closed" => breaker[Used(t)].count = FailMax
           /\ seen[t][e] = "none"
  BY DEF IInv, TypeOK, InOrder, BreakersOwned, CountsEarned, Used, Calls

LEMMA InitInv == Init => IInv
<1> SUFFICES ASSUME Init PROVE IInv
  OBVIOUS
<1>1. FreshBreaker \in Breaker
  BY FailMaxAssumption DEF FailMaxAssumption, FreshBreaker, Breaker
<1>2. TypeOK
  BY <1>1 DEF Init, TypeOK, Calls, PC, Endpoints, Looking, AtBank, Results,
              Response, NoResponse, Codes
<1>3. \A t \in Txns : InOrder(t) /\ ReplyTrue(t) /\ Heard(t)
  BY DEF Init, InOrder, ReplyTrue, Heard, NoResponse, Endpoints, Looking, Calls
<1>4. BreakersOwned /\ GaugeKept
  BY DEF Init, BreakersOwned, GaugeKept
<1>5. CountsEarned
  <2> SUFFICES ASSUME NEW c \in Calls
               PROVE  /\ IsFiniteSet(FailedPosts(c))
                      /\ breaker[c].count <= Cardinality(FailedPosts(c))
                      /\ breaker[c].state = "closed"
    BY DEF CountsEarned
  <2>1. FailedPosts(c) = {}
    BY DEF Init, FailedPosts, Failures, Endpoints
  <2> QED
    BY <2>1, FS_EmptySet DEF Init, FreshBreaker
<1> QED
  BY <1>2, <1>3, <1>4, <1>5 DEF IInv

LEMMA TypeStep ==
    ASSUME IInv, [Next]_vars
    PROVE  TypeOK'
<1> USE DEF TypeOK, Goto, sendVars, breakerVars
<1> TypeOK
  BY DEF IInv
<1>1. ASSUME NEW t \in Txns, PostReturns(t)
      PROVE  TypeOK'
  <2>1. PICK e \in Endpoints, result \in Results : PostEffect(t, e, result)
    BY <1>1, PostEnds
  <2>2. Returned(t, e, result) /\ pc[t] = e
    BY <2>1 DEF PostEffect, Returned
  <2>3. /\ Outcome(t, result).breaker \in Breaker
        /\ Outcome(t, result).shown \in {"same", "closed", "open"}
    BY <2>2, Posting, RegisteredFacts DEF Outcome
  <2>4. /\ breaker' \in [Calls -> Breaker]
        /\ seen' \in [Txns -> [Endpoints -> Results \cup {"none"}]]
        /\ UNCHANGED <<bankOf, breakers, held>>
    BY <2>2, <2>3, Posting DEF Returned, Calls
  <2>9. /\ gauge' \in [Banks -> {"closed", "open"}]
        /\ reporter' \in [Banks -> Calls \cup {NoBreaker}]
    <3>1. Shows(bankOf[t], Used(t), Outcome(t, result).shown) /\ Used(t) \in Calls
      BY <2>2, Posting DEF Returned
    <3> QED
      BY <2>3, <3>1 DEF Shows
  <2>5. BankAfter(t, e, result) \in [Txns -> [Endpoints -> AtBank]]
    BY DEF BankAfter, AfterResult, AtBank
  <2>6. bank' \in [Txns -> [Endpoints -> AtBank]]
    <3> DEFINE after == BankAfter(t, e, result)
    <3>1. \/ bank' = after
          \/ \E f \in Endpoints : bank' = [after EXCEPT ![t][f] = "posted"]
      BY <2>1 DEF PostEffect, Endpoints
    <3> HIDE DEF after
    <3>2. after \in [Txns -> [Endpoints -> AtBank]]
      BY <2>5 DEF after
    <3>3. ASSUME NEW f \in Endpoints
          PROVE  [after EXCEPT ![t][f] = "posted"] \in [Txns -> [Endpoints -> AtBank]]
      BY <3>2 DEF AtBank
    <3> QED
      BY <3>1, <3>2, <3>3
  <2>7. pc' \in [Calls -> PC]
    BY <2>1 DEF PostEffect, Reply, PC, Calls, Endpoints
  <2>8. reply' \in [Txns -> Response]
    <3>1. ASSUME NEW status \in {"SUCCESS", "FAILED"}, NEW code \in Codes,
                 NEW rrn \in RRNs \cup {NoRRN}, Reply(t, status, code, rrn)
          PROVE  reply' \in [Txns -> Response]
      BY <3>1 DEF Reply, Response
    <3> QED
      BY <2>1, <3>1 DEF PostEffect, Codes
  <2> QED
    BY <2>4, <2>6, <2>7, <2>8, <2>9
<1>2. ASSUME NEW c \in Calls, Look(c) \/ Make(c) \/ Store(c) \/ ResetTimeout(c)
      PROVE  TypeOK'
  <2>1. CASE Look(c)
    BY <2>1 DEF Look, PC, Looking
  <2>2. CASE Make(c)
    BY <2>2 DEF Make, PC, Looking
  <2>4. CASE Store(c)
    BY <2>4 DEF Store, PC, Looking
  <2>3. CASE ResetTimeout(c)
    <3>1. breaker' \in [Calls -> Breaker]
      BY <2>3 DEF ResetTimeout, Breaker
    <3> QED
      BY <2>3, <3>1 DEF ResetTimeout
  <2> QED
    BY <1>2, <2>1, <2>2, <2>3, <2>4
<1>3. ASSUME NEW c \in Calls, Fetch(c)
      PROVE  TypeOK'
  <2>1. pc' \in [Calls -> PC]
    BY <1>3 DEF Fetch, PC, Endpoints
  <2>2. held' \in [Txns -> Calls \cup {NoBreaker}]
    BY <1>3 DEF Fetch
  <2>3. bank' \in [Txns -> [Endpoints -> AtBank]]
    <3>1. \/ bank' = bank
          \/ c \in Txns /\ bank' = [bank EXCEPT ![c]["primary"] = "posted"]
      BY <1>3 DEF Fetch
    <3>2. ASSUME NEW t \in Txns
          PROVE  [bank EXCEPT ![t]["primary"] = "posted"] \in [Txns -> [Endpoints -> AtBank]]
      BY DEF AtBank
    <3> QED
      BY <3>1, <3>2
  <2> QED
    BY <1>3, <2>1, <2>2, <2>3 DEF Fetch
<1>4. ASSUME NEW t \in Txns, Send(t) \/ Debit(t)
      PROVE  TypeOK'
  <2>1. CASE Send(t)
    BY <2>1 DEF Send, PC
  <2>2. CASE Debit(t)
    <3>1. bank' \in [Txns -> [Endpoints -> AtBank]]
      BY <2>2 DEF Debit, AtBank
    <3> QED
      BY <2>2, <3>1 DEF Debit
  <2> QED
    BY <1>4, <2>1, <2>2
<1>5. ASSUME NEW r \in Resets, ResetFinds(r) \/ ResetDeletes(r)
      PROVE  TypeOK'
  BY <1>5 DEF ResetFinds, ResetDeletes, PC, Calls
<1>6. CASE Crash
  BY <1>6 DEF Crash, PC
<1>7. CASE UNCHANGED vars
  BY <1>7 DEF vars
<1> QED
  BY <1>1, <1>2, <1>3, <1>4, <1>5, <1>6, <1>7 DEF Next

\* What the end of a POST changes, send by send.
LEMMA PostChanges ==
    ASSUME TypeOK, NEW t \in Txns, NEW e \in Endpoints, NEW result \in Results,
           PostEffect(t, e, result)
    PROVE  /\ pc[t] = e /\ Consistent(result, bank[t][e])
           /\ UNCHANGED <<bankOf, breakers, held>>
           /\ \A u \in Txns \ {t} :
                 bank'[u] = bank[u] /\ seen'[u] = seen[u] /\ reply'[u] = reply[u]
           /\ \A c \in Calls \ {t} : pc'[c] = pc[c]
           /\ seen'[t][e] = result
           /\ \A f \in Endpoints \ {e} : seen'[t][f] = seen[t][f]
           /\ bank'[t][e] = AfterResult(result, bank[t][e])
           /\ \/ /\ pc'[t] \in {"replied", "raised"}
                 /\ \A f \in Endpoints \ {e} : bank'[t][f] = bank[t][f]
              \/ /\ e = "primary" /\ result \in Retried
                 /\ pc'[t] = "fallback" /\ bank'[t]["fallback"] = "posted"
                 /\ UNCHANGED reply
<1> USE DEF TypeOK, Calls
<1> DEFINE after == BankAfter(t, e, result)
<1>1. /\ pc[t] = e /\ Consistent(result, bank[t][e])
      /\ UNCHANGED <<bankOf, breakers, held>>
      /\ seen' = [seen EXCEPT ![t][e] = result]
  BY DEF PostEffect, Returned
<1>2. /\ \A u \in Txns \ {t} : after[u] = bank[u]
      /\ after[t][e] = AfterResult(result, bank[t][e])
      /\ \A f \in Endpoints \ {e} : after[t][f] = bank[t][f]
      /\ after \in [Txns -> [Endpoints -> AtBank]]
  BY DEF BankAfter, AfterResult, AtBank
<1>3. \/ /\ bank' = after
         /\ \E label \in {"replied", "raised"} : Goto(t, label)
         /\ UNCHANGED reply \/ \E x : reply' = [reply EXCEPT ![t] = x]
      \/ /\ e = "primary" /\ result \in Retried
         /\ bank' = [after EXCEPT ![t]["fallback"] = "posted"]
         /\ Goto(t, "fallback")
         /\ UNCHANGED reply
  BY DEF PostEffect, Reply
<1> HIDE DEF after
<1>4. CASE bank' = after /\ (\E label \in {"replied", "raised"} : Goto(t, label))
           /\ (UNCHANGED reply \/ \E x : reply' = [reply EXCEPT ![t] = x])
  BY <1>1, <1>2, <1>4 DEF Goto
<1>5. CASE /\ e = "primary" /\ result \in Retried
           /\ bank' = [after EXCEPT ![t]["fallback"] = "posted"]
           /\ Goto(t, "fallback")
           /\ UNCHANGED reply
  <2>1. "fallback" \in Endpoints /\ e # "fallback"
    BY <1>5 DEF Endpoints
  <2>2. /\ \A u \in Txns \ {t} : bank'[u] = after[u]
        /\ bank'[t][e] = after[t][e]
        /\ bank'[t]["fallback"] = "posted"
    BY <1>2, <1>5, <2>1
  <2> QED
    BY <1>1, <1>2, <1>5, <2>2 DEF Goto
<1> QED
  BY <1>3, <1>4, <1>5

LEMMA InOrderStep ==
    ASSUME IInv, [Next]_vars, NEW t \in Txns
    PROVE  InOrder(t)'
<1> USE DEF InOrder, Looking, Unmade, Calls, Goto, sendVars, breakerVars
<1> TypeOK /\ InOrder(t)
  BY DEF IInv
<1> t \in Calls
  OBVIOUS
<1>1. ASSUME NEW u \in Txns, PostReturns(u)
      PROVE  InOrder(t)'
  <2>1. PICK e \in Endpoints, result \in Results : PostEffect(u, e, result)
    BY <1>1, PostEnds
  <2> HIDE DEF Goto
  <2>2. CASE u # t
    BY <2>1, <2>2, PostChanges
  <2>3. CASE u = t /\ e = "primary"
    BY <2>1, <2>3, PostChanges
       DEF Consistent, AfterResult, Endpoints, Results, Retried, Doubtful, AtBank, TypeOK
  <2>4. CASE u = t /\ e = "fallback"
    BY <2>1, <2>4, PostChanges
       DEF Consistent, AfterResult, Endpoints, Results, AtBank, TypeOK
  <2> QED
    BY <2>2, <2>3, <2>4 DEF Endpoints
<1>2. ASSUME NEW c \in Calls, Look(c) \/ Make(c) \/ Store(c) \/ ResetTimeout(c)
      PROVE  InOrder(t)'
  <2>1. CASE Look(c)
    <3>1. /\ \/ pc'[t] = pc[t]
             \/ pc[t] \in {"sent", "deleted"} /\ pc'[t] \in Looking
          /\ UNCHANGED <<bank, seen, held>>
      BY <2>1 DEF Look, TypeOK
    <3> QED
      BY <3>1 DEF Endpoints, Unmade
  <2>2. CASE Make(c)
    BY <2>2 DEF Make, TypeOK, Endpoints
  <2>3. CASE Store(c)
    BY <2>3 DEF Store, TypeOK, Endpoints
  <2>4. CASE ResetTimeout(c)
    BY <2>4 DEF ResetTimeout
  <2> QED
    BY <1>2, <2>1, <2>2, <2>3, <2>4
<1>3. ASSUME NEW c \in Calls, Fetch(c)
      PROVE  InOrder(t)'
  <2>1. CASE c # t
    BY <1>3, <2>1 DEF Fetch, TypeOK
  <2>2. CASE c = t /\ breakers[bankOf[c]] = NoBreaker
    BY <1>3, <2>2 DEF Fetch, TypeOK, Endpoints
  <2>3. CASE c = t /\ breakers[bankOf[c]] # NoBreaker
    <3>1. /\ pc'[t] = "primary" /\ held'[t] # NoBreaker
          /\ bank'[t]["primary"] = "posted"
          /\ bank'[t]["fallback"] = bank[t]["fallback"]
          /\ UNCHANGED seen
      BY <1>3, <2>3 DEF Fetch, TypeOK, Endpoints
    <3>2. bank[t]["primary"] = "none" /\ seen[t]["primary"] = "none"
      BY <1>3, <2>3 DEF Fetch, Endpoints
    <3> QED
      BY <3>1, <3>2 DEF Endpoints, Retried, Doubtful
  <2> QED
    BY <2>1, <2>2, <2>3
<1>4. ASSUME NEW u \in Txns, Debit(u)
      PROVE  InOrder(t)'
  BY <1>4 DEF Debit, TypeOK, Endpoints
<1>5. ASSUME NEW u \in Txns, Send(u)
      PROVE  InOrder(t)'
  BY <1>5 DEF Send, TypeOK, Endpoints
<1>6. ASSUME NEW r \in Resets, ResetFinds(r) \/ ResetDeletes(r)
      PROVE  InOrder(t)'
  BY <1>6, CallsAssumption DEF ResetFinds, ResetDeletes, TypeOK, Endpoints, CallsAssumption
<1>7. CASE Crash
  BY <1>7 DEF Crash, Endpoints
<1>8. CASE UNCHANGED vars
  BY <1>8 DEF vars
<1> QED
  BY <1>1, <1>2, <1>3, <1>4, <1>5, <1>6, <1>7, <1>8 DEF Next

\* The end of a POST debits nothing and takes no debit back.
LEMMA PostDebits ==
    ASSUME IInv, NEW t \in Txns, NEW e \in Endpoints, NEW result \in Results,
           PostEffect(t, e, result), NEW u \in Txns
    PROVE  Debited(u)' = Debited(u)
<1>1. CASE u # t
  BY <1>1, PostChanges DEF IInv, Debited
<1>2. CASE u = t
  <2>1. bank[t]["fallback"] = "none" \/ e = "fallback"
    BY PostChanges DEF IInv, InOrder, Endpoints, Retried, Doubtful
  <2>2. bank'[t][e] = "debited" <=> bank[t][e] = "debited"
    BY PostChanges DEF IInv, Consistent, AfterResult, Results
  <2>3. \A f \in Endpoints \ {e} : bank'[t][f] = "debited" <=> bank[t][f] = "debited"
    BY <2>1, PostChanges DEF IInv, Endpoints
  <2> QED
    BY <1>2, <2>2, <2>3 DEF Debited
<1> QED
  BY <1>1, <1>2

\* Only a bank debits, one POST at a time.
LEMMA DebitsKept ==
    ASSUME IInv, [Next]_vars, NEW u \in Txns
    PROVE  \/ Debited(u)' = Debited(u)
           \/ /\ Debit(u)
              /\ \E e \in Endpoints : /\ bank[u][e] = "posted"
                                      /\ Debited(u)' = Debited(u) \cup {e}
<1> USE DEF Debited, sendVars, breakerVars
<1> TypeOK
  BY DEF IInv
<1>1. ASSUME NEW t \in Txns, PostReturns(t)
      PROVE  Debited(u)' = Debited(u)
  BY <1>1, PostEnds, PostDebits
<1>2. ASSUME NEW t \in Txns, Debit(t)
      PROVE  \/ Debited(u)' = Debited(u)
             \/ /\ Debit(u)
                /\ \E e \in Endpoints : /\ bank[u][e] = "posted"
                                        /\ Debited(u)' = Debited(u) \cup {e}
  <2>1. PICK e \in Endpoints : /\ bank[t][e] = "posted"
                               /\ bank' = [bank EXCEPT ![t][e] = "debited"]
    BY <1>2 DEF Debit
  <2>2. CASE t # u
    BY <2>1, <2>2 DEF TypeOK
  <2>3. CASE t = u
    <3>1. \A f \in Endpoints : bank'[u][f] = IF f = e THEN "debited" ELSE bank[u][f]
      BY <2>1, <2>3 DEF TypeOK
    <3>2. Debited(u)' = Debited(u) \cup {e}
      BY <3>1
    <3> QED
      BY <1>2, <2>1, <2>3, <3>2
  <2> QED
    BY <2>2, <2>3
<1>3. ASSUME NEW c \in Calls, Fetch(c)
      PROVE  Debited(u)' = Debited(u)
  <2>1. CASE bank' = bank
    BY <2>1
  <2>2. CASE c \in Txns /\ bank' = [bank EXCEPT ![c]["primary"] = "posted"]
    <3>1. bank[c]["primary"] = "none"
      BY <1>3, <2>2 DEF Fetch, IInv, InOrder, Looking
    <3> QED
      BY <2>2, <3>1 DEF TypeOK, Endpoints
  <2> QED
    BY <1>3, <2>1, <2>2 DEF Fetch
<1>4. ASSUME NEW t \in Txns, Send(t)
      PROVE  UNCHANGED bank
  BY <1>4 DEF Send
<1>5. ASSUME NEW c \in Calls, Look(c) \/ Make(c) \/ Store(c) \/ ResetTimeout(c)
      PROVE  UNCHANGED bank
  BY <1>5 DEF Look, Make, Store, ResetTimeout
<1>6. ASSUME NEW r \in Resets, ResetFinds(r) \/ ResetDeletes(r)
      PROVE  UNCHANGED bank
  BY <1>6 DEF ResetFinds, ResetDeletes
<1>7. Crash \/ UNCHANGED vars => UNCHANGED bank
  BY DEF Crash, vars
<1>8. UNCHANGED bank => Debited(u)' = Debited(u)
  OBVIOUS
<1> HIDE DEF Debited, sendVars, breakerVars
<1> QED
  BY <1>1, <1>2, <1>3, <1>4, <1>5, <1>6, <1>7, <1>8 DEF Next

LEMMA ReplyStep ==
    ASSUME IInv, [Next]_vars, NEW t \in Txns
    PROVE  ReplyTrue(t)'
<1> USE DEF ReplyTrue, sendVars, breakerVars
<1> TypeOK /\ ReplyTrue(t) /\ InOrder(t)
  BY DEF IInv
<1>1. Debited(t) # {} => Debited(t)' # {}
  BY DebitsKept
<1>2. ASSUME NEW u \in Txns, PostReturns(u)
      PROVE  ReplyTrue(t)'
  <2>1. PICK e \in Endpoints, result \in Results : PostEffect(u, e, result)
    BY <1>2, PostEnds
  <2>2. CASE u # t
    BY <1>1, <2>1, <2>2, PostChanges DEF Calls
  <2>3. CASE u = t /\ UNCHANGED reply
    BY <1>1, <2>1, <2>3, PostChanges DEF Endpoints
  <2>4. CASE u = t /\ \E rrn \in RRNs \cup {NoRRN} :
                         result = "success" /\ Reply(t, "SUCCESS", "none", rrn)
    <3>1. e \in Debited(t)
      BY <2>1, <2>4, PostChanges DEF Consistent, Debited
    <3> QED
      BY <1>1, <2>4, <3>1 DEF Reply, TypeOK
  <2>5. CASE u = t /\ \E code \in {"CIRCUIT_OPEN", "BANK_UNREACHABLE"} :
                         Reply(t, "FAILED", code, NoRRN)
    BY <2>5 DEF Reply, TypeOK
  <2>6. CASE u = t /\ e = "primary" /\ result = "client_error"
             /\ Reply(t, "FAILED", "CLIENT_ERROR", NoRRN)
    <3>1. bank[t]["fallback"] = "none"
      BY <2>1, <2>6, PostChanges DEF InOrder, Retried, Doubtful, Endpoints
    <3>2. bank'[t]["primary"] = "refused" /\ bank'[t]["fallback"] = "none"
      BY <2>1, <2>6, <3>1, PostChanges DEF AfterResult, Retried, Doubtful, Endpoints
    <3> QED
      BY <2>6, <3>2 DEF Reply, Goto, TypeOK, Calls
  <2> QED
    BY <2>1, <2>2, <2>3, <2>4, <2>5, <2>6 DEF PostEffect
<1>3. ASSUME NEW u \in Txns, Debit(u)
      PROVE  ReplyTrue(t)'
  BY <1>1, <1>3 DEF Debit, TypeOK
<1>4. ASSUME NEW c \in Calls, Fetch(c)
      PROVE  ReplyTrue(t)'
  BY <1>1, <1>4 DEF Fetch, Goto, TypeOK, Calls
<1>5. CASE UNCHANGED <<reply, bank>> /\ (pc[t] = "replied" => pc'[t] = "replied")
  BY <1>1, <1>5
<1>6. ASSUME NEW c \in Calls, Look(c) \/ Make(c) \/ Store(c)
      PROVE  UNCHANGED <<reply, bank>> /\ (pc[t] = "replied" => pc'[t] = "replied")
  BY <1>6 DEF Look, Make, Store, Goto, TypeOK, Calls
<1>7. ASSUME NEW c \in Calls, ResetTimeout(c)
      PROVE  UNCHANGED <<reply, bank>> /\ (pc[t] = "replied" => pc'[t] = "replied")
  BY <1>7 DEF ResetTimeout
<1>8. ASSUME NEW u \in Txns, Send(u)
      PROVE  UNCHANGED <<reply, bank>> /\ (pc[t] = "replied" => pc'[t] = "replied")
  BY <1>8 DEF Send, Goto, TypeOK, Calls
<1>9. ASSUME NEW r \in Resets, ResetFinds(r) \/ ResetDeletes(r)
      PROVE  UNCHANGED <<reply, bank>> /\ (pc[t] = "replied" => pc'[t] = "replied")
  BY <1>9 DEF ResetFinds, ResetDeletes, Goto, TypeOK, Calls
<1>10. CASE Crash
  BY <1>5, <1>10 DEF Crash, Running, Looking, Endpoints, Calls
<1>11. CASE UNCHANGED vars
  BY <1>5, <1>11 DEF vars
<1> QED
  BY <1>2, <1>3, <1>4, <1>5, <1>6, <1>7, <1>8, <1>9, <1>10, <1>11 DEF Next

\* The end of a POST gives the reply, or leaves that to the fallback.
LEMMA PostHeard ==
    ASSUME IInv, NEW t \in Txns, NEW e \in Endpoints, NEW result \in Results,
           PostEffect(t, e, result)
    PROVE  Heard(t)'
<1> USE DEF TypeOK, Calls
<1>1. /\ TypeOK /\ InOrder(t) /\ Heard(t)
      /\ pc[t] = e /\ pc[t] # "replied" /\ reply[t] = NoResponse
  BY PostChanges DEF IInv, Heard, Endpoints
<1>2. seen[t][e] = "none" /\ seen'[t][e] = result /\ result # "none"
  BY <1>1, PostChanges DEF InOrder, Results
<1>3. \A f \in Endpoints \ {e} : /\ seen'[t][f] = seen[t][f]
                               /\ seen[t][f] # "success"
  BY <1>1, PostChanges DEF Heard, NoResponse
<1>4. CASE UNCHANGED reply /\ result # "success" /\ pc'[t] # "replied"
  BY <1>1, <1>2, <1>3, <1>4 DEF Heard, NoResponse
<1>5. CASE \E response :
              /\ pc'[t] = "replied" /\ reply'[t] = response
              /\ bank' = BankAfter(t, e, result)
              /\ result = "success" => \/ response.status = "SUCCESS"
                                       \/ response.code = "CIRCUIT_OPEN"
  <2>1. ASSUME NEW f \in Endpoints \ {e}, bank'[t][f] # "none"
        PROVE  seen[t][f] # "none"
    <3>1. bank[t][f] # "none"
      BY <1>5, <2>1 DEF BankAfter
    <3>2. CASE e = "primary"
      <4>1. f = "fallback" /\ seen[t]["primary"] \notin Retried
        BY <1>2, <3>2 DEF Endpoints, Retried, Doubtful
      <4> QED
        BY <1>1, <3>1, <4>1 DEF InOrder
    <3>3. CASE e = "fallback"
      <4>1. f = "primary" /\ bank[t]["fallback"] # "none"
        BY <1>1, <3>3 DEF Endpoints, InOrder
      <4>2. seen[t]["primary"] \in Retried
        BY <1>1, <4>1 DEF InOrder
      <4> QED
        BY <4>1, <4>2 DEF Retried, Doubtful
    <3> QED
      BY <3>2, <3>3 DEF Endpoints
  <2> QED
    BY <1>2, <1>3, <1>5, <2>1 DEF Heard
<1>6. ASSUME NEW status, NEW code, NEW rrn, Reply(t, status, code, rrn),
             bank' = BankAfter(t, e, result),
             result = "success" => status = "SUCCESS" \/ code = "CIRCUIT_OPEN"
      PROVE  Heard(t)'
  <2> DEFINE response == [status |-> status, code |-> code, rrn |-> rrn]
  <2>1. pc'[t] = "replied" /\ reply'[t] = response
    BY <1>1, <1>6 DEF Reply, Goto
  <2>2. response.status = status /\ response.code = code
    OBVIOUS
  <2> HIDE DEF response
  <2> QED
    BY <1>5, <1>6, <2>1, <2>2
<1>7. CASE UNCHANGED reply /\ result # "success"
           /\ \E label \in {"raised", "fallback"} : Goto(t, label)
  BY <1>1, <1>4, <1>7 DEF Goto
<1>8. CASE /\ bank' = BankAfter(t, e, result)
           /\ \/ \E rrn \in RRNs \cup {NoRRN} :
                     result = "success" /\ Reply(t, "SUCCESS", "none", rrn)
              \/ \E code \in {"CIRCUIT_OPEN", "BANK_UNREACHABLE"} :
                     /\ result = "success" => code = "CIRCUIT_OPEN"
                     /\ Reply(t, "FAILED", code, NoRRN)
              \/ result = "client_error" /\ Reply(t, "FAILED", "CLIENT_ERROR", NoRRN)
  <2>1. CASE result = "client_error" /\ Reply(t, "FAILED", "CLIENT_ERROR", NoRRN)
    BY <1>6, <1>8, <2>1
  <2>2. ASSUME NEW rrn, result = "success", Reply(t, "SUCCESS", "none", rrn)
        PROVE  Heard(t)'
    BY <1>6, <1>8, <2>2
  <2>3. ASSUME NEW code, result = "success" => code = "CIRCUIT_OPEN",
               Reply(t, "FAILED", code, NoRRN)
        PROVE  Heard(t)'
    BY <1>6, <1>8, <2>3
  <2> QED
    BY <1>8, <2>1, <2>2, <2>3
<1>9. \/ /\ UNCHANGED reply /\ result # "success"
         /\ \E label \in {"raised", "fallback"} : Goto(t, label)
      \/ /\ bank' = BankAfter(t, e, result)
         /\ \/ \E rrn \in RRNs \cup {NoRRN} :
                   result = "success" /\ Reply(t, "SUCCESS", "none", rrn)
            \/ \E code \in {"CIRCUIT_OPEN", "BANK_UNREACHABLE"} :
                   /\ result = "success" => code = "CIRCUIT_OPEN"
                   /\ Reply(t, "FAILED", code, NoRRN)
            \/ result = "client_error" /\ Reply(t, "FAILED", "CLIENT_ERROR", NoRRN)
  BY DEF PostEffect, Retried, Doubtful
<1> QED
  BY <1>7, <1>8, <1>9

LEMMA HeardStep ==
    ASSUME IInv, [Next]_vars, NEW t \in Txns
    PROVE  Heard(t)'
<1> USE DEF sendVars, breakerVars
<1> TypeOK /\ InOrder(t) /\ Heard(t)
  BY DEF IInv
<1>1. ASSUME NEW u \in Txns, PostReturns(u)
      PROVE  Heard(t)'
  <2>1. PICK e \in Endpoints, result \in Results : PostEffect(u, e, result)
    BY <1>1, PostEnds
  <2>2. CASE u = t
    BY <2>1, <2>2, PostHeard
  <2>3. CASE u # t
    BY <2>1, <2>3, PostChanges DEF Heard, Calls
  <2> QED
    BY <2>2, <2>3
<1>2. ASSUME UNCHANGED <<reply, seen>>,
             pc'[t] # "replied" => pc[t] # "replied",
             \A e \in Endpoints : bank'[t][e] # "none" =>
                 bank[t][e] # "none" \/ pc[t] # "replied"
      PROVE  Heard(t)'
  BY <1>2 DEF Heard, NoResponse
<1>3. ASSUME NEW c \in Calls, Look(c) \/ Make(c) \/ Store(c) \/ ResetTimeout(c)
      PROVE  Heard(t)'
  <2>1. UNCHANGED <<reply, seen, bank>>
    BY <1>3 DEF Look, Make, Store, ResetTimeout
  <2>2. pc'[t] # "replied" => pc[t] # "replied"
    BY <1>3 DEF Look, Make, Store, ResetTimeout, Goto, TypeOK, Calls
  <2> QED
    BY <1>2, <2>1, <2>2
<1>4. ASSUME NEW c \in Calls, Fetch(c)
      PROVE  Heard(t)'
  <2>1. CASE c # t
    BY <1>2, <1>4, <2>1 DEF Fetch, Goto, TypeOK, Calls
  <2>2. CASE c = t
    BY <1>2, <1>4, <2>2 DEF Fetch, Goto, TypeOK, Calls
  <2> QED
    BY <2>1, <2>2
<1>5. ASSUME NEW u \in Txns, Send(u)
      PROVE  Heard(t)'
  BY <1>2, <1>5 DEF Send, Goto, TypeOK, Calls
<1>6. ASSUME NEW u \in Txns, Debit(u)
      PROVE  Heard(t)'
  BY <1>2, <1>6 DEF Debit, TypeOK
<1>7. ASSUME NEW r \in Resets, ResetFinds(r) \/ ResetDeletes(r)
      PROVE  Heard(t)'
  BY <1>2, <1>7 DEF ResetFinds, ResetDeletes, Goto, TypeOK, Calls
<1>8. CASE Crash
  BY <1>2, <1>8 DEF Crash, Running, Looking, Endpoints, Calls
<1>9. CASE UNCHANGED vars
  BY <1>2, <1>9 DEF vars
<1> QED
  BY <1>1, <1>3, <1>4, <1>5, <1>6, <1>7, <1>8, <1>9 DEF Next

\* Whatever a step does, a call that has left Unmade never comes back to it.
LEMMA MadeStays ==
    ASSUME IInv, [Next]_vars, NEW c \in Calls
    PROVE  pc'[c] \in Unmade => pc[c] \in Unmade
<1> USE DEF Goto, Unmade
<1> TypeOK
  BY DEF IInv
<1>1. ASSUME NEW t \in Txns, PostReturns(t)
      PROVE  pc'[c] \in Unmade => pc[c] \in Unmade
  <2>1. PICK e \in Endpoints, result \in Results : PostEffect(t, e, result)
    BY <1>1, PostEnds
  <2> QED
    BY <2>1, PostChanges
<1>2. ASSUME NEW d \in Calls, Look(d) \/ Make(d) \/ Store(d) \/ Fetch(d) \/ ResetTimeout(d)
      PROVE  pc'[c] \in Unmade => pc[c] \in Unmade
  <2>1. CASE Look(d)
    BY <2>1 DEF Look, TypeOK
  <2>2. CASE Make(d)
    BY <2>2 DEF Make, TypeOK
  <2>3. CASE Fetch(d)
    BY <2>3 DEF Fetch, TypeOK
  <2>4. CASE ResetTimeout(d)
    BY <2>4 DEF ResetTimeout
  <2>5. CASE Store(d)
    BY <2>5 DEF Store, TypeOK
  <2> QED
    BY <1>2, <2>1, <2>2, <2>3, <2>4, <2>5
<1>3. ASSUME NEW t \in Txns, Send(t) \/ Debit(t)
      PROVE  pc'[c] \in Unmade => pc[c] \in Unmade
  BY <1>3 DEF Send, Debit, TypeOK
<1>4. ASSUME NEW r \in Resets, ResetFinds(r) \/ ResetDeletes(r)
      PROVE  pc'[c] \in Unmade => pc[c] \in Unmade
  BY <1>4 DEF ResetFinds, ResetDeletes, TypeOK
<1>5. CASE Crash
  BY <1>5 DEF Crash
<1>6. CASE UNCHANGED vars
  BY <1>6 DEF vars
<1> QED
  BY <1>1, <1>2, <1>3, <1>4, <1>5, <1>6 DEF Next

LEMMA OwnedStep ==
    ASSUME IInv, [Next]_vars
    PROVE  BreakersOwned'
<1> USE DEF sendVars, breakerVars
<1> TypeOK /\ BreakersOwned
  BY DEF IInv
<1> DEFINE Registers ==
             \A b \in Banks :
                \/ breakers'[b] \in {breakers[b], NoBreaker}
                \/ \E c \in Calls : /\ breakers'[b] = c /\ bankOf[c] = b
                                   /\ pc'[c] \notin Unmade
           Holds ==
             \A t \in Txns : \/ held'[t] = held[t]
                            \/ held'[t] = breakers[bankOf[t]]
           Uses == \A c \in Calls : pc[c] \in Unmade => breaker'[c] = breaker[c]
           Steps == UNCHANGED bankOf /\ Registers /\ Holds /\ Uses
<1>1. ASSUME NEW t \in Txns, PostReturns(t)
      PROVE  Steps
  <2>1. PICK e \in Endpoints, result \in Results : PostEffect(t, e, result)
    BY <1>1, PostEnds
  <2>2. Returned(t, e, result) /\ pc[t] = e
    BY <2>1 DEF PostEffect, Returned
  <2>3. pc[Used(t)] \notin Unmade
    BY <2>2, Posting
  <2>4. \A c \in Calls : c # Used(t) => breaker'[c] = breaker[c]
    BY <2>2 DEF Returned, TypeOK
  <2> QED
    BY <2>2, <2>3, <2>4 DEF Returned
<1>2. ASSUME NEW c \in Calls, Store(c)
      PROVE  Steps
  <2>1. pc'[c] \notin Unmade
    BY <1>2 DEF Store, Goto, TypeOK, Unmade
  <2>2. \A b \in Banks : \/ breakers'[b] = breakers[b]
                         \/ breakers'[b] = c /\ bankOf[c] = b
    BY <1>2 DEF Store, TypeOK
  <2> QED
    BY <1>2, <2>1, <2>2 DEF Store
<1>3. ASSUME NEW c \in Calls, Fetch(c)
      PROVE  Steps
  BY <1>3 DEF Fetch, TypeOK
<1>4. ASSUME NEW c \in Calls, ResetTimeout(c)
      PROVE  Steps
  <2>1. pc[c] \notin Unmade
    BY <1>4 DEF ResetTimeout, BreakersOwned, FreshBreaker
  <2> QED
    BY <1>4, <2>1 DEF ResetTimeout, TypeOK
<1>5. ASSUME NEW c \in Calls, Look(c) \/ Make(c)
      PROVE  Steps
  BY <1>5 DEF Look, Make, TypeOK
<1>6. ASSUME NEW t \in Txns, Send(t) \/ Debit(t)
      PROVE  Steps
  BY <1>6 DEF Send, Debit
<1>7. ASSUME NEW r \in Resets, ResetFinds(r) \/ ResetDeletes(r)
      PROVE  Steps
  BY <1>7 DEF ResetFinds, ResetDeletes, TypeOK
<1>8. ASSUME Crash
      PROVE  Steps
  BY <1>8 DEF Crash
<1>9. ASSUME UNCHANGED vars
      PROVE  Steps
  BY <1>9 DEF vars
<1>10. Steps
  BY <1>1, <1>2, <1>3, <1>4, <1>5, <1>6, <1>7, <1>8, <1>9 DEF Next
<1>11. \A c \in Calls : pc'[c] \in Unmade => pc[c] \in Unmade
  BY MadeStays
<1>12. \A t \in Txns : held'[t] # NoBreaker =>
           bankOf[held'[t]] = bankOf[t] /\ pc'[held'[t]] \notin Unmade
  <2> SUFFICES ASSUME NEW t \in Txns, held'[t] # NoBreaker
               PROVE  bankOf[held'[t]] = bankOf[t] /\ pc'[held'[t]] \notin Unmade
    OBVIOUS
  <2>1. bankOf[t] \in Banks
    BY DEF TypeOK, Calls
  <2>2. CASE held'[t] = held[t]
    BY <1>11, <2>2 DEF BreakersOwned, TypeOK
  <2>3. CASE held'[t] = breakers[bankOf[t]]
    BY <1>11, <2>1, <2>3 DEF BreakersOwned, TypeOK
  <2> QED
    BY <1>10, <2>2, <2>3
<1>13. \A b \in Banks : breakers'[b] # NoBreaker =>
           bankOf[breakers'[b]] = b /\ pc'[breakers'[b]] \notin Unmade
  BY <1>10, <1>11 DEF BreakersOwned, TypeOK
<1>14. \A c \in Calls : pc'[c] \in Unmade => breaker'[c] = FreshBreaker
  BY <1>10, <1>11 DEF BreakersOwned
<1> QED
  BY <1>10, <1>12, <1>13, <1>14 DEF BreakersOwned

\* A failed POST of the send that holds breaker c, and nothing else, adds to
\* the failures that count against c.
LEMMA FailedPostsGrow ==
    ASSUME IInv, NEW t \in Txns, NEW e \in Endpoints, NEW result \in Results,
           PostEffect(t, e, result), NEW c \in Calls
    PROVE  /\ <<t, e>> \notin FailedPosts(c)
           /\ FailedPosts(c)' = IF c = held[t] /\ result \in Failures
                               THEN FailedPosts(c) \cup {<<t, e>>}
                               ELSE FailedPosts(c)
<1> TypeOK
  BY DEF IInv
<1>1. seen[t][e] = "none" /\ "none" \notin Failures
  BY PostChanges, Posting DEF Failures
<1>2. UNCHANGED held /\ seen'[t][e] = result
      /\ \A u \in Txns, f \in Endpoints : <<u, f>> # <<t, e>> => seen'[u][f] = seen[u][f]
  BY PostChanges
<1>3. ASSUME NEW u \in Txns, NEW f \in Endpoints
      PROVE  /\ <<u, f>> \in FailedPosts(c) <=> held[u] = c /\ seen[u][f] \in Failures
             /\ <<u, f>> \in FailedPosts(c)' <=> held'[u] = c /\ seen'[u][f] \in Failures
  BY DEF FailedPosts
<1>4. FailedPosts(c) \subseteq Txns \X Endpoints /\ FailedPosts(c)' \subseteq Txns \X Endpoints
  BY DEF FailedPosts
<1>5. <<t, e>> \notin FailedPosts(c)
  BY <1>1, <1>3
<1>6. ASSUME NEW u \in Txns, NEW f \in Endpoints, <<u, f>> # <<t, e>>
      PROVE  <<u, f>> \in FailedPosts(c)' <=> <<u, f>> \in FailedPosts(c)
  BY <1>2, <1>3, <1>6
<1>7. <<t, e>> \in FailedPosts(c)' <=> c = held[t] /\ result \in Failures
  BY <1>2, <1>3
<1> QED
  BY <1>4, <1>5, <1>6, <1>7

LEMMA CountsStep ==
    ASSUME IInv, [Next]_vars
    PROVE  CountsEarned'
<1> USE DEF sendVars, breakerVars
<1> TypeOK /\ CountsEarned
  BY DEF IInv
<1> SUFFICES ASSUME NEW c \in Calls
             PROVE  /\ IsFiniteSet(FailedPosts(c)')
                    /\ breaker'[c].count <= Cardinality(FailedPosts(c)')
                    /\ breaker'[c].state # "closed" => breaker'[c].count = FailMax
  BY DEF CountsEarned
<1> DEFINE failed == FailedPosts(c)
<1>1. /\ IsFiniteSet(failed) /\ Cardinality(failed) \in Nat
      /\ breaker[c].count <= Cardinality(failed)
      /\ breaker[c].state # "closed" => breaker[c].count = FailMax
      /\ breaker[c].count \in Nat
  BY FS_CardinalityType DEF CountsEarned, TypeOK, Breaker
<1>2. ASSUME NEW t \in Txns, PostReturns(t)
      PROVE  /\ IsFiniteSet(failed')
             /\ breaker'[c].count <= Cardinality(failed')
             /\ breaker'[c].state # "closed" => breaker'[c].count = FailMax
  <2>1. PICK e \in Endpoints, result \in Results : PostEffect(t, e, result)
    BY <1>2, PostEnds
  <2>2. Returned(t, e, result) /\ pc[t] = e
    BY <2>1 DEF PostEffect, Returned
  <2>3. /\ <<t, e>> \notin failed
        /\ failed' = IF c = held[t] /\ result \in Failures
                     THEN failed \cup {<<t, e>>} ELSE failed
    BY <2>1, FailedPostsGrow
  <2>4. CASE c # held[t]
    <3>1. failed' = failed /\ breaker'[c] = breaker[c]
      BY <2>2, <2>3, <2>4 DEF Returned, Used, TypeOK
    <3> QED
      BY <1>1, <3>1
  <2>5. CASE c = held[t]
    <3> DEFINE called == Outcome(t, result)
    <3>1. breaker'[c] = called.breaker
      BY <2>2, <2>5 DEF Returned, Used, TypeOK
    <3>2. /\ called.breaker \in Breaker
          /\ called.breaker.state # "closed" => called.breaker.count = FailMax
          /\ called.breaker.count <= breaker[c].count + 1
          /\ result \notin Failures => called.breaker.count <= breaker[c].count
      BY <2>2, <2>5, Posting, RegisteredFacts DEF Outcome, Used
    <3>3. called.breaker.count \in Nat
      BY <3>2 DEF Breaker
    <3> HIDE DEF called, failed
    <3>4. CASE result \in Failures
      <4>1. IsFiniteSet(failed') /\ Cardinality(failed') = Cardinality(failed) + 1
        BY <1>1, <2>3, <2>5, <3>4, FS_AddElement
      <4> QED
        BY <1>1, <3>1, <3>2, <3>3, <4>1
    <3>5. CASE result \notin Failures
      BY <1>1, <2>3, <3>1, <3>2, <3>3, <3>5
    <3> QED
      BY <3>4, <3>5
  <2> QED
    BY <2>4, <2>5
<1>3. ASSUME NEW u \in Calls, Fetch(u)
      PROVE  failed' = failed /\ UNCHANGED breaker
  <2>1. \A t \in Txns : held'[t] = held[t] \/ t = u
    BY <1>3 DEF Fetch, TypeOK
  <2>2. ASSUME u \in Txns, NEW e \in Endpoints
        PROVE  seen[u][e] = "none"
    <3>1. InOrder(u) /\ bank[u]["primary"] = "none"
      BY <1>3, <2>2 DEF Fetch, IInv, InOrder, Looking
    <3>2. seen[u]["primary"] = "none"
      BY <3>1 DEF InOrder, Endpoints
    <3>3. bank[u]["fallback"] = "none"
      BY <3>1, <3>2 DEF InOrder, Retried, Doubtful
    <3> QED
      BY <3>1, <3>2, <3>3 DEF InOrder, Endpoints
  <2>3. UNCHANGED <<seen, breaker>>
    BY <1>3 DEF Fetch
  <2>4. ASSUME NEW t \in Txns, NEW e \in Endpoints
        PROVE  (held'[t] = c /\ seen'[t][e] \in Failures)
                   <=> (held[t] = c /\ seen[t][e] \in Failures)
    BY <2>1, <2>2, <2>3 DEF Failures
  <2> QED
    BY <2>3, <2>4 DEF FailedPosts
<1>4. ASSUME UNCHANGED <<held, seen, breaker>>
      PROVE  failed' = failed /\ UNCHANGED breaker
  BY <1>4 DEF FailedPosts
<1>5. ASSUME NEW d \in Calls, ResetTimeout(d)
      PROVE  /\ failed' = failed /\ breaker'[c].count = breaker[c].count
             /\ breaker'[c].state # "closed" => breaker[c].state # "closed"
  BY <1>5 DEF ResetTimeout, FailedPosts, TypeOK, Breaker
<1>6. ASSUME NEW d \in Calls, Look(d) \/ Make(d) \/ Store(d)
      PROVE  UNCHANGED <<held, seen, breaker>>
  BY <1>6 DEF Look, Make, Store
<1>7. ASSUME NEW t \in Txns, Send(t) \/ Debit(t)
      PROVE  UNCHANGED <<held, seen, breaker>>
  BY <1>7 DEF Send, Debit
<1>8. ASSUME NEW r \in Resets, ResetFinds(r) \/ ResetDeletes(r)
      PROVE  UNCHANGED <<held, seen, breaker>>
  BY <1>8 DEF ResetFinds, ResetDeletes
<1>9. ASSUME Crash \/ UNCHANGED vars
      PROVE  UNCHANGED <<held, seen, breaker>>
  BY <1>9 DEF Crash, vars
<1> HIDE DEF failed
<1>10. ASSUME failed' = failed /\ UNCHANGED breaker
       PROVE  /\ IsFiniteSet(failed')
              /\ breaker'[c].count <= Cardinality(failed')
              /\ breaker'[c].state # "closed" => breaker'[c].count = FailMax
  BY <1>1, <1>10
<1>11. /\ IsFiniteSet(failed')
       /\ breaker'[c].count <= Cardinality(failed')
       /\ breaker'[c].state # "closed" => breaker'[c].count = FailMax
  <2>1. CASE \E t \in Txns : PostReturns(t)
    BY <1>2, <2>1
  <2>2. CASE \E d \in Calls : ResetTimeout(d)
    BY <1>1, <1>5, <2>2
  <2>3. CASE \E u \in Calls : Fetch(u)
    BY <1>3, <1>10, <2>3
  <2> QED
    BY <1>4, <1>6, <1>7, <1>8, <1>9, <1>10, <2>1, <2>2, <2>3 DEF Next
<1> QED
  BY <1>11 DEF failed

\* What a step may do to a gauge and to the breakers that it is about: leave
\* them open or not as they are, show the breaker of a POST, or start anew.
LEMMA GaugeStep ==
    ASSUME IInv, [Next]_vars
    PROVE  GaugeKept'
<1> USE DEF sendVars, breakerVars
<1> TypeOK /\ BreakersOwned /\ GaugeKept
  BY DEF IInv
<1> DEFINE Kept(b) ==
             /\ reporter[b] = NoBreaker => gauge[b] = "closed"
             /\ reporter[b] # NoBreaker =>
                    /\ bankOf[reporter[b]] = b
                    /\ gauge[b] = "open" <=> breaker[reporter[b]].state # "closed"
             /\ (reporter[b] = NoBreaker /\ breakers[b] # NoBreaker /\ ~Storing(b)) =>
                    breaker[breakers[b]].state = "closed"
<1>1. \A b \in Banks : Kept(b)
  BY DEF GaugeKept
<1>2. ASSUME \A b \in Banks : Kept(b)'
      PROVE  GaugeKept'
  BY <1>2 DEF GaugeKept
\* Steps that leave the gauge alone, and every breaker as open as it was.
<1>3. ASSUME UNCHANGED <<bankOf, gauge, reporter>>,
             \A c \in Calls : breaker'[c].state # "closed" <=> breaker[c].state # "closed",
             NEW b \in Banks,
             breakers'[b] \in {breakers[b], NoBreaker},
             Storing(b) => Storing(b)'
      PROVE  Kept(b)'
  <2>1. reporter[b] \in Calls \cup {NoBreaker} /\ breakers[b] \in Calls \cup {NoBreaker}
    BY DEF TypeOK
  <2>2. Kept(b)
    BY <1>1
  <2> QED
    BY <1>3, <2>1, <2>2
<1>4. ASSUME UNCHANGED <<bankOf, pc, breakers, gauge, reporter>>,
             \A c \in Calls : breaker'[c].state # "closed" <=> breaker[c].state # "closed"
      PROVE  GaugeKept'
  BY <1>2, <1>3, <1>4 DEF Storing
<1>5. ASSUME NEW c \in Calls, pc[c] # "storing", \A d \in Calls \ {c} : pc'[d] = pc[d],
             UNCHANGED <<bankOf, breaker, gauge, reporter>>,
             \A b \in Banks : breakers'[b] \in {breakers[b], NoBreaker}
      PROVE  GaugeKept'
  <2>1. \A b \in Banks : Storing(b) => Storing(b)'
    BY <1>5 DEF Storing
  <2> QED
    BY <1>2, <1>3, <1>5, <2>1
<1>6. ASSUME NEW t \in Txns, PostReturns(t)
      PROVE  GaugeKept'
  <2>1. PICK e \in Endpoints, result \in Results : PostEffect(t, e, result)
    BY <1>6, PostEnds
  <2>2. Returned(t, e, result) /\ pc[t] = e
    BY <2>1 DEF PostEffect, Returned
  <2> DEFINE called == Outcome(t, result)
             a      == bankOf[t]
             c      == Used(t)
  <2>3. /\ called.shown = "same" =>
               (called.breaker.state # "closed" <=> breaker[c].state # "closed")
        /\ called.shown # "same" =>
               (called.shown = "open" <=> called.breaker.state # "closed")
    BY <2>2, Posting, RegisteredFacts DEF Outcome
  <2>4. c \in Calls /\ a \in Banks /\ bankOf[c] = a
    BY <2>2, Posting
  <2>5. breaker' = [breaker EXCEPT ![c] = called.breaker] /\ Shows(a, c, called.shown)
        /\ UNCHANGED <<bankOf, breakers>>
    BY <2>2 DEF Returned
  <2>6. \A b \in Banks : Storing(b) => Storing(b)'
    <3>1. pc[t] # "storing" /\ \A d \in Calls \ {t} : pc'[d] = pc[d]
      BY <2>1, <2>2, PostChanges DEF Endpoints
    <3> QED
      BY <2>5, <3>1 DEF Storing
  <2> HIDE DEF called, c, a
  <2>7. \A d \in Calls \ {c} : breaker'[d] = breaker[d]
    BY <2>5 DEF TypeOK
  <2>8. breaker'[c] = called.breaker
    BY <2>4, <2>5 DEF TypeOK
  <2>9. CASE called.shown = "same"
    <3>1. UNCHANGED <<gauge, reporter>>
      BY <2>5, <2>9 DEF Shows
    <3>2. \A d \in Calls : breaker'[d].state # "closed" <=> breaker[d].state # "closed"
      BY <2>3, <2>7, <2>8, <2>9
    <3> QED
      BY <1>2, <1>3, <2>5, <2>6, <3>1, <3>2
  <2>10. CASE called.shown # "same"
    <3> SUFFICES ASSUME NEW b \in Banks PROVE Kept(b)'
      BY <1>2
    <3>1. CASE b = a
      <4>1. gauge'[b] = called.shown /\ reporter'[b] = c
        BY <2>4, <2>5, <2>10, <3>1 DEF Shows, TypeOK
      <4>2. c # NoBreaker
        BY <2>4, CallsAssumption DEF CallsAssumption, Calls
      <4> QED
        BY <2>3, <2>4, <2>5, <2>8, <2>10, <3>1, <4>1, <4>2
    <3>2. CASE b # a
      <4>1. gauge'[b] = gauge[b] /\ reporter'[b] = reporter[b]
            /\ reporter[b] \in Calls \cup {NoBreaker} /\ breakers[b] \in Calls \cup {NoBreaker}
        BY <2>4, <2>5, <2>10, <3>2 DEF Shows, TypeOK
      <4>2. Kept(b)
        BY <1>1
      <4>3. reporter[b] # NoBreaker => breaker'[reporter[b]] = breaker[reporter[b]]
        BY <2>4, <2>7, <3>2, <4>1, <4>2
      <4>4. breakers[b] # NoBreaker => breaker'[breakers[b]] = breaker[breakers[b]]
        BY <2>4, <2>7, <3>2, <4>1 DEF BreakersOwned
      <4> QED
        BY <2>5, <2>6, <4>1, <4>2, <4>3, <4>4
    <3> QED
      BY <3>1, <3>2
  <2> QED
    BY <2>9, <2>10
<1>7. ASSUME NEW c \in Calls, Make(c)
      PROVE  GaugeKept'
  <2>1. /\ bankOf[c] \in Banks /\ pc'[c] = "storing"
        /\ \A d \in Calls \ {c} : pc'[d] = pc[d]
        /\ gauge'[bankOf[c]] = "closed" /\ reporter'[bankOf[c]] = NoBreaker
        /\ \A b \in Banks \ {bankOf[c]} : gauge'[b] = gauge[b] /\ reporter'[b] = reporter[b]
        /\ UNCHANGED <<bankOf, breakers, breaker>>
    BY <1>7 DEF Make, Goto, TypeOK
  <2>2. pc[c] # "storing"
    BY <1>7 DEF Make
  <2> SUFFICES ASSUME NEW b \in Banks PROVE Kept(b)'
    BY <1>2
  <2>3. CASE b = bankOf[c]
    <3>1. Storing(b)'
      BY <2>1, <2>3 DEF Storing
    <3> QED
      BY <2>1, <2>3, <3>1
  <2>4. CASE b # bankOf[c]
    <3>1. Storing(b) => Storing(b)'
      BY <2>1, <2>2 DEF Storing
    <3>2. Kept(b)
      BY <1>1
    <3> QED
      BY <2>1, <2>4, <3>1, <3>2
  <2> QED
    BY <2>3, <2>4
<1>8. ASSUME NEW c \in Calls, Store(c)
      PROVE  GaugeKept'
  <2>1. /\ bankOf[c] \in Banks /\ breakers'[bankOf[c]] = c
        /\ \A b \in Banks \ {bankOf[c]} : breakers'[b] = breakers[b]
        /\ \A d \in Calls \ {c} : pc'[d] = pc[d]
        /\ UNCHANGED <<bankOf, breaker, gauge, reporter>>
    BY <1>8 DEF Store, Goto, TypeOK
  <2>2. breaker[c].state = "closed"
    BY <1>8 DEF Store, BreakersOwned, Unmade, FreshBreaker
  <2> SUFFICES ASSUME NEW b \in Banks PROVE Kept(b)'
    BY <1>2
  <2>3. CASE b = bankOf[c]
    BY <1>1, <2>1, <2>2, <2>3
  <2>4. CASE b # bankOf[c]
    <3>1. Storing(b) => Storing(b)'
      BY <2>1, <2>4 DEF Storing
    <3>2. Kept(b)
      BY <1>1
    <3> QED
      BY <2>1, <2>4, <3>1, <3>2
  <2> QED
    BY <2>3, <2>4
<1>9. ASSUME NEW c \in Calls, Look(c)
      PROVE  GaugeKept'
  BY <1>5, <1>9 DEF Look, Goto, TypeOK
<1>10. ASSUME NEW c \in Calls, Fetch(c)
       PROVE  GaugeKept'
  <2>1. /\ pc[c] # "storing" /\ \A d \in Calls \ {c} : pc'[d] = pc[d]
        /\ UNCHANGED <<bankOf, breaker, gauge, reporter, breakers>>
    BY <1>10 DEF Fetch, Goto, TypeOK
  <2> QED
    BY <1>5, <2>1
<1>11. ASSUME NEW c \in Calls, ResetTimeout(c)
       PROVE  GaugeKept'
  <2>1. \A d \in Calls : breaker'[d].state # "closed" <=> breaker[d].state # "closed"
    BY <1>11 DEF ResetTimeout, TypeOK, Breaker
  <2> QED
    BY <1>4, <1>11, <2>1 DEF ResetTimeout
<1>12. CASE Crash
  <2>1. \A b \in Banks : /\ breakers'[b] = NoBreaker /\ gauge'[b] = "closed"
                         /\ reporter'[b] = NoBreaker
    BY <1>12 DEF Crash
  <2> QED
    BY <1>2, <2>1
<1>13. ASSUME NEW t \in Txns, Send(t)
       PROVE  GaugeKept'
  BY <1>5, <1>13 DEF Send, Goto, TypeOK, Calls
<1>14. ASSUME NEW t \in Txns, Debit(t)
       PROVE  GaugeKept'
  BY <1>4, <1>14 DEF Debit
<1>15. ASSUME NEW r \in Resets, ResetFinds(r) \/ ResetDeletes(r)
       PROVE  GaugeKept'
  <2>1. /\ r \in Calls /\ pc[r] # "storing" /\ \A d \in Calls \ {r} : pc'[d] = pc[d]
        /\ UNCHANGED <<bankOf, breaker, gauge, reporter>>
        /\ \A b \in Banks : breakers'[b] \in {breakers[b], NoBreaker}
    BY <1>15 DEF ResetFinds, ResetDeletes, Goto, TypeOK, Calls
  <2> QED
    BY <1>5, <2>1
<1>16. CASE UNCHANGED vars
  BY <1>4, <1>16 DEF vars
<1> QED
  BY <1>6, <1>7, <1>8, <1>9, <1>10, <1>11, <1>12, <1>13, <1>14, <1>15, <1>16 DEF Next

LEMMA NextInv == IInv /\ [Next]_vars => IInv'
<1> SUFFICES ASSUME IInv, [Next]_vars PROVE IInv'
  OBVIOUS
<1> QED
  BY TypeStep, InOrderStep, ReplyStep, HeardStep, OwnedStep, CountsStep, GaugeStep DEF IInv

----------------------------------------------------------------------------
\* Sends, their POSTs at the bank, replies, breakers and gauges stay in step
\* through failures, resets and restarts.
THEOREM AdapterInvariant == Spec => []IInv
<1>1. IInv /\ [Next]_vars => IInv'
  BY NextInv
<1> QED
  BY InitInv, <1>1, PTL DEF Spec

\* A breaker trips only on FailMax failures of the sends that hold it.
THEOREM BreakersTripForCause == Spec => []OpenIsEarned
<1>1. IInv => OpenIsEarned
  BY DEF IInv, CountsEarned, OpenIsEarned
<1> QED
  BY <1>1, AdapterInvariant, PTL

\* The gauge tells the state of the registered breaker, as long as no send that
\* holds another one was the last to set it.
THEOREM GaugeIsRight == Spec => []GaugeTellsState
<1>1. IInv => GaugeTellsState
  BY DEF IInv, GaugeKept, GaugeTellsState
<1> QED
  BY <1>1, AdapterInvariant, PTL

\* A payment answered with CLIENT_ERROR is never debited.
THEOREM ClientErrorIsFinal == Spec => []ClientErrorMeansNotDebited
<1>1. IInv => ClientErrorMeansNotDebited
  BY DEF IInv, ReplyTrue, ClientErrorMeansNotDebited, Endpoints
<1> QED
  BY <1>1, AdapterInvariant, PTL

\* Both endpoints debit only after a primary whose outcome remained in doubt.
THEOREM DoubleDebitIsDoubtful == Spec => []DoubleDebitNeedsDoubt
<1>1. IInv => DoubleDebitNeedsDoubt
  <2> SUFFICES ASSUME IInv, NEW t \in Txns, Debited(t) = Endpoints
               PROVE  seen[t]["primary"] \in Doubtful
    BY DEF DoubleDebitNeedsDoubt
  <2>1. bank[t]["primary"] = "debited" /\ bank[t]["fallback"] = "debited"
    BY DEF Debited, Endpoints
  <2>2. seen[t]["primary"] \in Retried
    BY <2>1 DEF IInv, InOrder
  <2>3. seen[t]["primary"] \notin {"client_error", "unreachable"}
    BY <2>1 DEF IInv, InOrder, Endpoints
  <2> QED
    BY <2>2, <2>3 DEF Retried, Doubtful
<1> QED
  BY <1>1, AdapterInvariant, PTL

\* No success of a bank is dropped: a debited payment reported FAILED was debited
\* by POSTs that did not say SUCCESS, or is CIRCUIT_OPEN.
THEOREM NoVerdictDropped == Spec => []FailedMeansUnheard
<1>1. IInv => FailedMeansUnheard
  <2> SUFFICES ASSUME IInv, NEW t \in Txns, NEW e \in Debited(t),
                      reply[t].status = "FAILED", reply[t].code # "CIRCUIT_OPEN"
               PROVE  seen[t][e] \in Doubtful \cup {"broken"}
    BY DEF FailedMeansUnheard
  <2>1. /\ e \in Endpoints /\ bank[t][e] = "debited"
        /\ InOrder(t) /\ Heard(t)
        /\ seen[t][e] \in Results \cup {"none"}
    BY DEF Debited, IInv, TypeOK
  <2>2. seen[t][e] \notin {"none", "success"}
    BY <2>1 DEF Heard
  <2>3. seen[t][e] \notin {"client_error", "unreachable"}
    BY <2>1 DEF InOrder
  <2> QED
    BY <2>1, <2>2, <2>3 DEF Results, Doubtful
<1> QED
  BY <1>1, AdapterInvariant, PTL

\* Nothing but an answered probe closes a breaker that has tripped.
THEOREM OnlyProbesClose == Spec => ProbeCloses
<1>1. ASSUME IInv, [Next]_vars, NEW c \in Calls,
             breaker[c].state # "closed", breaker'[c].state = "closed"
      PROVE  /\ breaker[c].state = "ripe"
             /\ \E t \in Txns, e \in Endpoints :
                   /\ held[t] = c
                   /\ seen[t][e] = "none"
                   /\ seen'[t][e] \in Answers
  <2>1. TypeOK
    BY <1>1 DEF IInv
  <2>2. ASSUME NEW t \in Txns, PostReturns(t)
        PROVE  /\ breaker[c].state = "ripe"
               /\ \E e \in Endpoints :
                     /\ held[t] = c
                     /\ seen[t][e] = "none"
                     /\ seen'[t][e] \in Answers
    <3>1. PICK e \in Endpoints, result \in Results : PostEffect(t, e, result)
      BY <2>2, PostEnds
    <3>2. Returned(t, e, result) /\ pc[t] = e
      BY <3>1 DEF PostEffect, Returned
    <3>3. held[t] = c /\ breaker'[c] = Outcome(t, result).breaker
      BY <1>1, <2>1, <3>2 DEF Returned, Used, TypeOK
    <3>4. breaker[c].state = "ripe" /\ result \in Answers
      BY <1>1, <3>2, <3>3, Posting, RegisteredFacts DEF Outcome, Used
    <3>5. seen[t][e] = "none" /\ seen'[t][e] = result
      BY <1>1, <2>1, <3>1, <3>2, Posting, PostChanges
    <3> QED
      BY <3>3, <3>4, <3>5
  <2>3. ASSUME NEW d \in Calls, ResetTimeout(d)
        PROVE  FALSE
    BY <1>1, <2>1, <2>3 DEF ResetTimeout, TypeOK, Breaker
  <2>4. ASSUME NEW d \in Calls, Look(d) \/ Make(d) \/ Store(d) \/ Fetch(d)
        PROVE  FALSE
    BY <1>1, <2>4 DEF Look, Make, Store, Fetch, breakerVars
  <2>5. ASSUME NEW t \in Txns, Send(t) \/ Debit(t)
        PROVE  FALSE
    BY <1>1, <2>5 DEF Send, Debit, breakerVars
  <2>6. ASSUME NEW r \in Resets, ResetFinds(r) \/ ResetDeletes(r)
        PROVE  FALSE
    BY <1>1, <2>6 DEF ResetFinds, ResetDeletes, breakerVars
  <2>7. CASE Crash \/ UNCHANGED vars
    BY <1>1, <2>7 DEF Crash, vars, breakerVars
  <2> QED
    BY <1>1, <2>2, <2>3, <2>4, <2>5, <2>6, <2>7 DEF Next
<1>2. IInv /\ [Next]_vars =>
        [\A c \in Calls :
           (breaker[c].state # "closed" /\ breaker'[c].state = "closed") =>
              /\ breaker[c].state = "ripe"
              /\ \E t \in Txns, e \in Endpoints :
                    /\ held[t] = c
                    /\ seen[t][e] = "none"
                    /\ seen'[t][e] \in Answers]_vars
  BY <1>1
<1> QED
  BY <1>2, AdapterInvariant, PTL DEF Spec, ProbeCloses

----------------------------------------------------------------------------
(* The service implements the contract payment-switch relies on.           *)

LEMMA DebitsBounded ==
    ASSUME NEW t \in Txns
    PROVE  /\ Debited(t) \subseteq Endpoints /\ IsFiniteSet(Debited(t))
           /\ DebitCount[t] \in Nat
           /\ Debited(t) # {} => DebitCount[t] > 0
           /\ \A e \in Endpoints : e \notin Debited(t) => DebitCount[t] < 2
<1>1. Debited(t) \subseteq Endpoints
  BY DEF Debited
<1>2. IsFiniteSet({"primary"}) /\ IsFiniteSet({"fallback"}) /\ IsFiniteSet(Endpoints)
      /\ Cardinality({"primary"}) = 1 /\ Cardinality({"fallback"}) = 1
  <2>1. Endpoints = {"primary"} \cup {"fallback"}
    BY DEF Endpoints
  <2>2. IsFiniteSet({"primary"}) /\ Cardinality({"primary"}) = 1
    BY FS_Singleton
  <2>3. IsFiniteSet({"fallback"}) /\ Cardinality({"fallback"}) = 1
    BY FS_Singleton
  <2>4. IsFiniteSet({"primary"} \cup {"fallback"})
    BY <2>2, FS_AddElement
  <2> QED
    BY <2>1, <2>2, <2>3, <2>4
<1>3. IsFiniteSet(Debited(t)) /\ Cardinality(Debited(t)) \in Nat
  BY <1>1, <1>2, FS_Subset, FS_CardinalityType
<1>4. Debited(t) # {} => Cardinality(Debited(t)) > 0
  BY <1>3, FS_EmptySet
<1>5. ASSUME NEW e \in Endpoints, e \notin Debited(t)
      PROVE  Cardinality(Debited(t)) < 2
  <2>1. Debited(t) \subseteq {"primary"} \/ Debited(t) \subseteq {"fallback"}
    BY <1>1, <1>5 DEF Endpoints
  <2>2. Cardinality(Debited(t)) <= 1
    BY <1>2, <2>1, FS_Subset
  <2> QED
    BY <1>3, <2>2
<1> QED
  BY <1>1, <1>3, <1>4, <1>5 DEF DebitCount

LEMMA NoDebits ==
    ASSUME NEW t \in Txns, Debited(t) = {}
    PROVE  DebitCount[t] = 0
BY FS_EmptySet DEF DebitCount

LEMMA ContractInit == Init => Contract!Init
<1> SUFFICES ASSUME Init PROVE Contract!Init
  OBVIOUS
<1>1. AdapterView = [t \in Txns |-> Contract!NoCall]
  BY DEF Init, AdapterView, Contract!NoCall, NoResponse, Calls
<1>2. ASSUME NEW t \in Txns
      PROVE  Cardinality(Debited(t)) = 0
  <2>1. Debited(t) = {}
    BY DEF Init, Debited, Endpoints
  <2> QED
    BY <2>1, NoDebits DEF DebitCount
<1> QED
  BY <1>1, <1>2 DEF Contract!Init, DebitCount

\* A POST that ends answers the caller, or goes on working for it.
LEMMA PostKeepsContract ==
    ASSUME IInv, NEW t \in Txns, NEW e \in Endpoints, NEW result \in Results,
           PostEffect(t, e, result)
    PROVE  \/ Contract!AnswerSuccess(t)
           \/ Contract!AnswerFailed(t)
           \/ UNCHANGED <<AdapterView, DebitCount>>
<1> USE DEF Calls, TypeOK
<1> TypeOK
  BY DEF IInv
<1>1. UNCHANGED DebitCount
  BY PostDebits DEF DebitCount
<1>2. pc[t] = e /\ AdapterView[t].phase = "working"
  BY PostChanges DEF AdapterView, Endpoints
<1>3. \A u \in Txns \ {t} : pc'[u] = pc[u] /\ reply'[u] = reply[u]
  BY PostChanges
<1>4. ASSUME NEW status, NEW code, NEW rrn, Reply(t, status, code, rrn)
      PROVE  Contract!Answer(t, status, rrn)
  <2>1. pc'[t] = "replied" /\ reply'[t].status = status /\ reply'[t].rrn = rrn
    BY <1>4 DEF Reply, Goto
  <2>2. AdapterView' = [AdapterView EXCEPT
            ![t] = [phase |-> "replied", status |-> status, rrn |-> rrn]]
    BY <1>3, <2>1 DEF AdapterView
  <2> QED
    BY <1>1, <1>2, <2>2 DEF Contract!Answer
<1>5. ASSUME UNCHANGED reply, pc'[t] \in {"raised", "fallback"}
      PROVE  UNCHANGED <<AdapterView, DebitCount>>
  BY <1>1, <1>2, <1>3, <1>5 DEF AdapterView, Endpoints
<1>6. result = "success" => DebitCount[t] > 0
  <2> SUFFICES ASSUME result = "success" PROVE DebitCount[t] > 0
    OBVIOUS
  <2>1. e \in Debited(t)
    BY PostChanges DEF Consistent, Debited
  <2> QED
    BY <2>1, DebitsBounded
<1>7. ASSUME NEW rrn \in RRNs \cup {NoRRN}, result = "success",
             Reply(t, "SUCCESS", "none", rrn)
      PROVE  Contract!AnswerSuccess(t)
  BY <1>4, <1>6, <1>7 DEF Contract!AnswerSuccess
<1>8. ASSUME NEW code, Reply(t, "FAILED", code, NoRRN)
      PROVE  Contract!AnswerFailed(t)
  BY <1>4, <1>8 DEF Contract!AnswerFailed
<1>9. CASE UNCHANGED reply /\ (Goto(t, "raised") \/ Goto(t, "fallback"))
  BY <1>5, <1>9 DEF Goto
<1> QED
  BY <1>7, <1>8, <1>9 DEF PostEffect

LEMMA DebitKeepsContract ==
    ASSUME IInv, NEW t \in Txns, Debit(t)
    PROVE  Contract!Debit(t)
<1> TypeOK /\ InOrder(t)
  BY DEF IInv
<1>1. PICK e \in Endpoints : /\ bank[t][e] = "posted"
                             /\ bank' = [bank EXCEPT ![t][e] = "debited"]
                             /\ UNCHANGED <<pc, reply>>
  BY DEF Debit
<1>2. AdapterView[t].phase \in {"working", "replied"}
  <2>1. pc[t] \notin Unmade
    BY <1>1 DEF InOrder, Endpoints, Retried, Doubtful
  <2> QED
    BY <2>1 DEF AdapterView, Unmade
<1>3. \A f \in Endpoints : bank'[t][f] = IF f = e THEN "debited" ELSE bank[t][f]
  BY <1>1 DEF TypeOK
<1>4. Debited(t)' = Debited(t) \cup {e} /\ e \notin Debited(t)
  BY <1>1, <1>3 DEF Debited
<1>5. /\ DebitCount[t] < 2 /\ DebitCount[t] \in Nat
      /\ Cardinality(Debited(t)') = DebitCount[t] + 1
  BY <1>4, DebitsBounded, FS_AddElement DEF DebitCount
<1>6. \A u \in Txns \ {t} : Debited(u)' = Debited(u)
  BY <1>1 DEF Debited, TypeOK
<1>7. DebitCount' = [DebitCount EXCEPT ![t] = @ + 1]
  BY <1>5, <1>6 DEF DebitCount
<1>8. UNCHANGED AdapterView
  BY <1>1 DEF AdapterView
<1> QED
  BY <1>2, <1>5, <1>7, <1>8 DEF Contract!Debit, Contract!MaxDebits

\* Every step of the adapter and the banks is one of the contract or none.
LEMMA ContractStep ==
    ASSUME IInv, [Next]_vars
    PROVE  [Contract!Next]_(Contract!contractVars)
<1> USE DEF Contract!contractVars, Goto, sendVars, breakerVars
<1> TypeOK
  BY DEF IInv
<1>1. ASSUME NEW t \in Txns, PostReturns(t)
      PROVE  [Contract!Next]_(Contract!contractVars)
  BY <1>1, PostEnds, PostKeepsContract DEF Contract!Next
<1>2. ASSUME NEW t \in Txns, Debit(t)
      PROVE  [Contract!Next]_(Contract!contractVars)
  BY <1>2, DebitKeepsContract DEF Contract!Next
<1>3. ASSUME \A t \in Txns : Debited(t)' = Debited(t)
      PROVE  UNCHANGED DebitCount
  BY <1>3 DEF DebitCount
<1>4. ASSUME UNCHANGED <<reply, DebitCount>>,
             \A t \in Txns : \/ pc'[t] = pc[t]
                            \/ /\ pc[t] \notin {"idle", "sent", "replied"}
                               /\ pc'[t] \notin {"idle", "sent", "replied"}
      PROVE  [Contract!Next]_(Contract!contractVars)
  BY <1>4 DEF AdapterView
<1>5. ASSUME NEW t \in Txns, Send(t)
      PROVE  [Contract!Next]_(Contract!contractVars)
  <2>1. UNCHANGED DebitCount
    BY <1>3, <1>5 DEF Send, Debited
  <2>2. AdapterView' = [AdapterView EXCEPT ![t].phase = "sent"]
    BY <1>5 DEF Send, AdapterView, TypeOK, Calls
  <2>3. Contract!Send(t)
    BY <1>5, <2>1, <2>2 DEF Send, AdapterView, Contract!Send
  <2> QED
    BY <2>3 DEF Contract!Next
<1>6. ASSUME NEW c \in Calls, Look(c)
      PROVE  [Contract!Next]_(Contract!contractVars)
  <2>1. UNCHANGED DebitCount
    BY <1>3, <1>6 DEF Look, Debited
  <2>2. pc'[c] \in {"making", "fetching"} /\ UNCHANGED reply
        /\ \A d \in Calls \ {c} : pc'[d] = pc[d]
    BY <1>6 DEF Look, TypeOK
  <2>3. CASE c \in Txns /\ pc[c] = "sent"
    <3>1. AdapterView' = [AdapterView EXCEPT ![c].phase = "working"]
      BY <2>2, <2>3 DEF AdapterView, Calls
    <3>2. Contract!Accept(c)
      BY <2>1, <2>3, <3>1 DEF AdapterView, Contract!Accept
    <3> QED
      BY <2>3, <3>2 DEF Contract!Next
  <2>4. CASE c \notin Txns \/ pc[c] = "deleted"
    BY <1>4, <2>1, <2>2, <2>4 DEF Calls
  <2> QED
    BY <1>6, <2>3, <2>4 DEF Look
<1>7. ASSUME NEW c \in Calls, Fetch(c)
      PROVE  [Contract!Next]_(Contract!contractVars)
  <2>1. UNCHANGED DebitCount
    <3>1. ~ \E u \in Txns : Debit(u)
      BY <1>7 DEF Fetch, Debit, TypeOK
    <3> QED
      BY <1>3, <3>1, DebitsKept
  <2>2. CASE c \in Txns
    <3>1. pc[c] = "fetching" /\ pc'[c] \in {"raised", "primary"} /\ UNCHANGED reply
          /\ \A d \in Calls \ {c} : pc'[d] = pc[d]
      BY <1>7, <2>2 DEF Fetch, TypeOK
    <3> QED
      BY <1>4, <2>1, <3>1 DEF Calls
  <2>3. CASE c \notin Txns
    <3>1. UNCHANGED reply /\ \A d \in Calls \ {c} : pc'[d] = pc[d]
      BY <1>7 DEF Fetch, TypeOK
    <3> QED
      BY <1>4, <2>1, <2>3, <3>1 DEF Calls
  <2> QED
    BY <2>2, <2>3
<1>8. ASSUME NEW c \in Calls, Make(c) \/ Store(c)
      PROVE  [Contract!Next]_(Contract!contractVars)
  <2>1. /\ pc[c] \in Looking /\ pc'[c] \in Looking /\ UNCHANGED <<reply, bank>>
        /\ \A d \in Calls \ {c} : pc'[d] = pc[d]
    BY <1>8 DEF Make, Store, TypeOK, Looking
  <2>2. UNCHANGED DebitCount
    BY <1>3, <2>1 DEF Debited
  <2> QED
    BY <1>4, <2>1, <2>2 DEF Calls, Looking
<1>9. ASSUME NEW r \in Resets, ResetFinds(r) \/ ResetDeletes(r)
      PROVE  [Contract!Next]_(Contract!contractVars)
  <2>1. UNCHANGED <<reply, bank>> /\ \A d \in Calls \ {r} : pc'[d] = pc[d]
    BY <1>9 DEF ResetFinds, ResetDeletes, TypeOK
  <2>2. UNCHANGED DebitCount
    BY <1>3, <2>1 DEF Debited
  <2> QED
    BY <1>4, <2>1, <2>2, CallsAssumption DEF Calls, CallsAssumption
<1>10. ASSUME Crash
       PROVE  [Contract!Next]_(Contract!contractVars)
  <2>1. UNCHANGED DebitCount
    BY <1>3, <1>10 DEF Crash, Debited
  <2>2. UNCHANGED reply
    BY <1>10 DEF Crash
  <2>3. \A t \in Txns : pc'[t] = IF Running(t) THEN "killed" ELSE pc[t]
    BY <1>10 DEF Crash, Calls
  <2>4. \A t \in Txns : Running(t) => pc[t] \notin {"idle", "sent", "replied"}
    BY DEF Running, Endpoints, Looking
  <2> QED
    BY <1>4, <2>1, <2>2, <2>3, <2>4
<1>11. ASSUME UNCHANGED <<pc, reply, bank>>
       PROVE  [Contract!Next]_(Contract!contractVars)
  <2>1. UNCHANGED DebitCount
    BY <1>3, <1>11 DEF Debited
  <2> QED
    BY <1>4, <1>11, <2>1
<1>12. ASSUME NEW c \in Calls, ResetTimeout(c)
       PROVE  UNCHANGED <<pc, reply, bank>>
  BY <1>12 DEF ResetTimeout
<1>13. UNCHANGED vars => UNCHANGED <<pc, reply, bank>>
  BY DEF vars
<1> HIDE DEF Contract!contractVars, Goto, sendVars, breakerVars
<1> QED
  BY <1>1, <1>2, <1>5, <1>6, <1>7, <1>8, <1>9, <1>10, <1>11, <1>12, <1>13
     DEF Next

\* What the bank-adapter says and what the banks do is what AdapterContract
\* promises to payment-switch.
THEOREM AdapterImplementsContract == Spec => Implements
<1>1. IInv /\ [Next]_vars => [Contract!Next]_(Contract!contractVars)
  BY ContractStep
<1> QED
  BY ContractInit, <1>1, AdapterInvariant, PTL DEF Spec, Implements, Contract!Spec
=============================================================================
