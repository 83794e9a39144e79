------------------------ MODULE RouterPaymentProofs ------------------------
(* Theorems about RouteCache and RouterPayment, for any lookups, payments, *)
(* banks and contents.                                                     *)
EXTENDS RouterPayment, TLAPS

(***************************************************************************)
(* RouteCache                                                              *)
(***************************************************************************)
\* Lookup by lookup, what a step may change.
LEMMA LookupInit == Init => LookupInv
<1> SUFFICES ASSUME Init PROVE LookupInv
  OBVIOUS
<1>1. \A b \in Banks : /\ table[b].content \in Contents
                        /\ history[b] = {c \in {table[b].content} : table[b].active}
  BY DEF Init, ActiveContents, Route
<1>2. history \in [Banks -> SUBSET Contents]
  <2>1. history = [b \in Banks |-> {c \in {table[b].content} : table[b].active}]
    BY DEF Init, ActiveContents
  <2> QED
    BY <1>1, <2>1
<1>3. Empty \in Entry
  BY DEF Empty, Entry
<1>4. TypeOK
  BY <1>2, <1>3 DEF Init, TypeOK, PC, Running, Outcome, Served
<1>5. RoutesFromTable
  BY <1>1 DEF Init, RoutesFromTable, Cached, Empty, Readable
<1>6. ServedWasActive
  BY DEF Init, ServedWasActive, Served
<1> QED
  BY <1>4, <1>5, <1>6 DEF LookupInv

\* The steps of lookups leave the table and its history alone.
LEMMA LookupStep ==
    ASSUME LookupInv, NEW r \in Reqs,
           Receive(r) \/ UnknownBank(r) \/ Proceed(r) \/ LookupFails(r)
    PROVE  LookupInv'
<1> USE DEF LookupInv, TypeOK, PC, Running, Outcome, Served
<1>1. CASE Receive(r)
  BY <1>1 DEF Receive, Goto, RoutesFromTable, ServedWasActive, Cached, Readable,
              tableVars
<1>2. CASE UnknownBank(r)
  BY <1>2 DEF UnknownBank, Answer, Goto, RoutesFromTable, ServedWasActive, Cached,
              Readable, tableVars
<1>3. CASE Hit(r)
  BY <1>3 DEF Hit, Answer, Goto, RoutesFromTable, ServedWasActive, Cached,
              Readable, tableVars, Entry
<1>4. CASE Miss(r)
  BY <1>4 DEF Miss, Goto, RoutesFromTable, ServedWasActive, Cached, Readable,
              tableVars
<1>5. CASE Read(r)
  <2>1. PICK route \in Readable(bank[r]) :
           \/ /\ route.active
              /\ got' = [got EXCEPT ![r] = route.content]
              /\ Goto(r, "set")
              /\ UNCHANGED outcome
           \/ /\ ~route.active
              /\ Answer(r, "not_found", NoContent)
    BY <1>5 DEF Read
  <2>2. pc[r] = "read" /\ UNCHANGED <<cache, bank, tableVars>>
    BY <1>5 DEF Read
  <2>3. bank[r] \in Banks /\ route \in Route
    BY DEF Readable
  <2>4. route.content \in Contents
    BY <2>3 DEF Route
  <2>5. route.active => route.content \in history[bank[r]]
    BY <2>3 DEF RoutesFromTable
  <2>6. TypeOK'
    BY <2>1, <2>2, <2>4 DEF Goto, Answer, tableVars
  <2>7. RoutesFromTable'
    BY <2>1, <2>2, <2>5 DEF RoutesFromTable, Goto, Answer, tableVars, Cached,
                            Readable
  <2>8. ServedWasActive'
    BY <2>1, <2>2 DEF ServedWasActive, Goto, Answer, tableVars, RoutesFromTable
  <2> QED
    BY <2>6, <2>7, <2>8
<1>6. CASE WriteCache(r)
  <2>1. pc[r] = "set" /\ bank[r] \in Banks /\ got[r] \in history[bank[r]]
    BY <1>6 DEF WriteCache, RoutesFromTable
  <2>2. got[r] \in Contents
    BY <2>1
  <2> DEFINE entry == [content |-> got[r], ttl |-> TRUE]
  <2>3. entry \in Entry /\ entry.content = got[r]
    BY <2>2 DEF Entry
  <2>4. cache' = cache \/ cache' = [cache EXCEPT ![bank[r]] = entry]
    BY <1>6 DEF WriteCache
  <2> HIDE DEF entry
  <2>5. TypeOK'
    <3>1. cache' \in [Banks -> Entry]
      BY <2>3, <2>4, <2>1
    <3> QED
      BY <1>6, <2>2, <3>1 DEF WriteCache, Answer, Goto, tableVars
  <2>6. RoutesFromTable'
    <3>1. \A b \in Banks : cache'[b] = cache[b]
                            \/ (b = bank[r] /\ cache'[b] = entry)
      BY <2>4
    <3>2. UNCHANGED tableVars /\ bank' = bank
      BY <1>6 DEF WriteCache
    <3>3. \A q \in Reqs : pc'[q] = "set" => pc[q] = "set" /\ got'[q] = got[q]
      BY <1>6 DEF WriteCache, Answer, Goto
    <3> QED
      BY <2>1, <2>3, <3>1, <3>2, <3>3 DEF RoutesFromTable, Cached, Readable, tableVars
  <2>7. ServedWasActive'
    BY <1>6, <2>1 DEF WriteCache, Answer, Goto, tableVars, ServedWasActive
  <2> QED
    BY <2>5, <2>6, <2>7
<1>7. CASE LookupFails(r)
  BY <1>7 DEF LookupFails, Answer, Goto, RoutesFromTable, ServedWasActive, Cached,
              Readable, tableVars
<1> QED
  BY <1>1, <1>2, <1>3, <1>4, <1>5, <1>6, <1>7 DEF Proceed

\* History only grows, so a changed table takes nothing back.
LEMMA EnvironmentStep ==
    ASSUME LookupInv,
           Freeze \/ Crash \/ \E b \in Banks : Expire(b) \/ Change(b) \/ Replicate(b)
    PROVE  LookupInv'
<1> USE DEF LookupInv, TypeOK, PC, Running, Outcome, Served
<1>1. CASE Freeze
  BY <1>1 DEF Freeze, RoutesFromTable, ServedWasActive, Cached, Readable
<1>2. CASE Crash
  BY <1>2 DEF Crash, RoutesFromTable, ServedWasActive, Cached, Readable, tableVars
<1>3. ASSUME NEW b \in Banks, Expire(b)
      PROVE  LookupInv'
  BY <1>3 DEF Expire, RoutesFromTable, ServedWasActive, Cached, Readable, tableVars,
              Entry, Empty
<1>4. ASSUME NEW b \in Banks, Change(b)
      PROVE  LookupInv'
  <2>1. PICK route \in Route :
           /\ table' = [table EXCEPT ![b] = route]
           /\ history' = [history EXCEPT
                  ![b] = @ \cup {c \in {route.content} : route.active}]
    BY <1>4 DEF Change
  <2>2. UNCHANGED <<replica, cache, pc, bank, got, outcome, frozen>>
    BY <1>4 DEF Change
  <2>3. route.content \in Contents
    BY <2>1 DEF Route
  <2>4. \A a \in Banks : history[a] \subseteq history'[a]
    BY <2>1
  <2>5. route.active => route.content \in history'[b]
    BY <2>1
  <2>6. TypeOK'
    BY <2>1, <2>2, <2>3
  <2>7. \A a \in Banks : table'[a] = table[a] \/ (a = b /\ table'[a] = route)
    BY <2>1
  <2>8. RoutesFromTable'
    BY <2>2, <2>4, <2>5, <2>7 DEF RoutesFromTable, Cached, Readable
  <2>9. ServedWasActive'
    BY <2>2, <2>4 DEF ServedWasActive
  <2> QED
    BY <2>6, <2>8, <2>9
<1>5. ASSUME NEW b \in Banks, Replicate(b)
      PROVE  LookupInv'
  BY <1>5 DEF Replicate, RoutesFromTable, ServedWasActive, Cached, Readable
<1> QED
  BY <1>1, <1>2, <1>3, <1>4, <1>5

LEMMA LookupNext == LookupInv /\ [Next]_vars => LookupInv'
<1> SUFFICES ASSUME LookupInv, [Next]_vars PROVE LookupInv'
  OBVIOUS
<1>1. CASE UNCHANGED vars
  BY <1>1 DEF vars, LookupInv, TypeOK, RoutesFromTable, ServedWasActive, Cached,
              Readable
<1>2. CASE Next
  BY <1>2, LookupStep, EnvironmentStep DEF Next
<1> QED
  BY <1>1, <1>2

\* Every route served, from the cache or the table, is one the bank has had as an
\* active route, however lookups, changes, expiry and restarts interleave.
THEOREM RoutesAreGenuine == Spec => [](LookupInv /\ ServedWasActive)
<1>1. LookupInv => ServedWasActive
  BY DEF LookupInv
<1> QED
  BY <1>1, LookupInit, LookupNext, PTL DEF Spec

\* What has settled for a bank stays settled: the only writes of its cache entry
\* are of what a lookup carries, and what it carries is read from the table or a
\* replica that agrees with it.
LEMMA SettledStep ==
    ASSUME LookupInv, NEW b \in Banks, Settled(b), [Next]_vars
    PROVE  Settled(b)'
<1> USE DEF LookupInv, TypeOK
<1>1. CASE UNCHANGED vars
  BY <1>1 DEF vars, Settled, Current, Cached
<1>2. ASSUME NEW r \in Reqs, Receive(r) \/ UnknownBank(r) \/ Hit(r) \/ Miss(r) \/ LookupFails(r)
      PROVE  Settled(b)'
  <2>1. UNCHANGED <<cache, table, replica, frozen>>
    BY <1>2 DEF Receive, UnknownBank, Hit, Miss, LookupFails, tableVars
  <2>2. \A q \in Reqs : pc'[q] = "set" => pc[q] = "set" /\ bank'[q] = bank[q] /\ got'[q] = got[q]
    BY <1>2 DEF Receive, UnknownBank, Hit, Miss, LookupFails, Answer, Goto
  <2> QED
    BY <2>1, <2>2 DEF Settled, Current, Cached
<1>3. ASSUME NEW r \in Reqs, Read(r)
      PROVE  Settled(b)'
  <2>1. UNCHANGED <<cache, bank, table, replica, frozen>>
    BY <1>3 DEF Read, tableVars
  <2>2. pc'[r] = "set" /\ bank[r] = b => Current(b, got'[r])
    <3>1. PICK route \in Readable(bank[r]) :
             \/ /\ route.active
                /\ got' = [got EXCEPT ![r] = route.content]
                /\ Goto(r, "set")
             \/ Answer(r, "not_found", NoContent)
      BY <1>3 DEF Read
    <3>2. bank[r] = b => route = table[b]
      BY <3>1 DEF Settled, Readable
    <3> QED
      BY <3>1, <3>2 DEF Current, Answer, Goto
  <2>3. \A q \in Reqs \ {r} : pc'[q] = pc[q] /\ got'[q] = got[q]
    BY <1>3 DEF Read, Answer, Goto
  <2> QED
    BY <2>1, <2>2, <2>3 DEF Settled, Current, Cached
<1>4. ASSUME NEW r \in Reqs, WriteCache(r)
      PROVE  Settled(b)'
  <2>1. UNCHANGED <<bank, table, replica, frozen>> /\ pc[r] = "set"
    BY <1>4 DEF WriteCache, tableVars
  <2>2. cache'[b] = cache[b] \/ (bank[r] = b /\ cache'[b].content = got[r])
    BY <1>4 DEF WriteCache
  <2>3. \A q \in Reqs : pc'[q] = "set" => pc[q] = "set" /\ got'[q] = got[q]
    BY <1>4 DEF WriteCache, Answer, Goto
  <2> QED
    BY <2>1, <2>2, <2>3 DEF Settled, Current, Cached
<1>5. ASSUME NEW a \in Banks, Expire(a)
      PROVE  Settled(b)'
  <2>1. UNCHANGED <<pc, bank, got, table, replica, frozen>>
    BY <1>5 DEF Expire, tableVars
  <2>2. cache'[b] = cache[b] \/ cache'[b].content = NoContent
    BY <1>5 DEF Expire, Empty
  <2> QED
    BY <2>1, <2>2 DEF Settled, Current, Cached
<1>6. ASSUME NEW a \in Banks, Replicate(a)
      PROVE  Settled(b)'
  BY <1>6 DEF Replicate, Settled, Current, Cached
<1>7. ASSUME NEW a \in Banks, Change(a)
      PROVE  FALSE
  BY <1>7 DEF Change, Settled
<1>8. CASE Freeze
  BY <1>8 DEF Freeze, Settled
<1>9. CASE Crash
  <2>1. UNCHANGED <<cache, bank, table, replica, frozen>>
    BY <1>9 DEF Crash, tableVars
  <2>2. \A r \in Reqs : pc'[r] # "set"
    BY <1>9 DEF Crash, Running
  <2> QED
    BY <2>1, <2>2 DEF Settled, Current, Cached
<1> QED
  BY <1>1, <1>2, <1>3, <1>4, <1>5, <1>6, <1>7, <1>8, <1>9 DEF Next, Proceed

\* Once the last change of a bank's route has reached the replica, the cache and
\* the lookups on their way to it, no lookup is ever answered with a stale route.
THEOREM RoutesStaySettled == Spec => SettledForGood
<1>1. ASSUME NEW b \in Banks
      PROVE  Spec => [](Settled(b) => []Settled(b))
  <2>1. LookupInv /\ Settled(b) /\ [Next]_vars => Settled(b)'
    BY SettledStep
  <2> QED
    BY <2>1, RoutesAreGenuine, PTL DEF Spec
<1> QED
  BY <1>1 DEF SettledForGood

(***************************************************************************)
(* RouterPayment                                                           *)
(***************************************************************************)
\* A step of the composition is a step of the lookups, or none.
LEMMA RouterStepIsLookupStep == RouterNext => [Next]_vars
<1> SUFFICES ASSUME RouterNext PROVE [Next]_vars
  OBVIOUS
<1>1. ASSUME NEW p \in Payments, Initiate(p) \/ Advance(p)
      PROVE  Next
  BY <1>1, PaymentsAssumption DEF Initiate, Advance, Next
<1>2. ASSUME NEW p \in Payments, Answered(p) \/ NoVerdict(p) \/ AdapterWorks(p)
      PROVE  UNCHANGED vars
  BY <1>2 DEF Answered, NoVerdict, AdapterWorks
<1>3. ASSUME NEW r \in Reqs \ Payments, Resolve(r)
      PROVE  Next
  BY <1>3 DEF Resolve, Next
<1>4. CASE RoutesChange
  BY <1>4 DEF RoutesChange, Next
<1>5. CASE Restart
  BY <1>5 DEF Restart, Next
<1> QED
  BY <1>1, <1>2, <1>3, <1>4, <1>5 DEF RouterNext

\* And a step of the adapter's contract, or none.
LEMMA RouterStepIsContractStep ==
    RouterNext => [Contract!Next]_(Contract!contractVars)
<1> SUFFICES ASSUME RouterNext PROVE [Contract!Next]_(Contract!contractVars)
  OBVIOUS
<1> USE DEF Contract!contractVars
<1>1. ASSUME NEW p \in Payments, Continue(p)
      PROVE  [Contract!Next]_(Contract!contractVars)
  BY <1>1 DEF Continue, callVars, Contract!Next
<1>2. ASSUME NEW p \in Payments, Answered(p) \/ NoVerdict(p)
      PROVE  UNCHANGED <<adapter, debits>>
  BY <1>2 DEF Answered, NoVerdict
<1>3. ASSUME NEW p \in Payments, AdapterWorks(p)
      PROVE  Contract!Next
  BY <1>3 DEF AdapterWorks, Contract!Next
<1>4. ASSUME RoutesChange \/ Restart \/ \E r \in Reqs \ Payments : Resolve(r)
      PROVE  UNCHANGED <<adapter, debits>>
  BY <1>4 DEF RoutesChange, Restart, Resolve, callVars
<1> QED
  BY <1>1, <1>2, <1>3, <1>4 DEF RouterNext, Initiate, Advance

\* The composition keeps what its parts promise: it is the cache-aside lookup
\* of RouteCache, and it uses the adapter as AdapterContract allows.
THEOREM RouterComposes == RouterSpec => Spec /\ Contract!Spec
<1>1. RouterInit => Init /\ Contract!Init
  BY DEF RouterInit
<1>2. [RouterNext]_routerVars => [Next]_vars
  BY RouterStepIsLookupStep DEF routerVars
<1>3. [RouterNext]_routerVars => [Contract!Next]_(Contract!contractVars)
  BY RouterStepIsContractStep DEF routerVars, callVars, Contract!contractVars
<1> QED
  BY <1>1, <1>2, <1>3, PTL DEF RouterSpec, Spec, Contract!Spec

\* What RouterInv says beyond the invariant of the lookups.
Payment(p) ==
    /\ adapter[p] \in Contract!SendCall
    /\ debits[p] \in 0 .. Contract!MaxDebits
    /\ told[p] \in Told
    /\ adapter[p].phase # "idle" => outcome[p] \in Served /\ pc[p] = "done"
    /\ pc[p] \in Running => outcome[p] = "none"
    /\ pc[p] \in Running \cup {"idle"} => told[p] = "none"
    /\ told[p] \in {"not_found", "error"} => adapter[p].phase = "idle"
    /\ told[p] = "SUCCESS" => debits[p] > 0
    /\ adapter[p].phase = "idle" => debits[p] = 0
    /\ adapter[p].status = "SUCCESS" => debits[p] > 0

CallsTyped ==
    /\ adapter \in [Payments -> Contract!SendCall]
    /\ debits  \in [Payments -> 0 .. Contract!MaxDebits]
    /\ told \in [Payments -> Told]

RouterParts ==
    LookupInv /\ CallsTyped /\ OneOnLoop /\ \A p \in Payments : Payment(p)

LEMMA InvariantByPayment == RouterInv <=> RouterParts
<1>1. ASSUME RouterInv
      PROVE  RouterParts
  BY <1>1 DEF RouterParts, RouterInv, RouterTypeOK, LookupInv, CallsTyped, Payment,
              CallFollowsRoute, AnswersTrue, Contract!ContractTypeOK
<1>2. ASSUME LookupInv, CallsTyped, OneOnLoop, \A p \in Payments : Payment(p)
      PROVE  RouterInv
  <2>1. RouterTypeOK
    BY <1>2 DEF LookupInv, RouterTypeOK, CallsTyped, Contract!ContractTypeOK
  <2>2. CallFollowsRoute /\ AnswersTrue
    BY <1>2 DEF Payment, CallFollowsRoute, AnswersTrue
  <2>3. PaidWhereActive
    BY <1>2, PaymentsAssumption DEF PaidWhereActive, Payment, LookupInv,
                                    ServedWasActive
  <2> QED
    BY <1>2, <2>1, <2>2, <2>3 DEF RouterInv, LookupInv, Payment
<1> QED
  BY <1>1, <1>2 DEF RouterParts

LEMMA RouterInvInit == RouterInit => RouterInv
<1> SUFFICES ASSUME RouterInit PROVE RouterInv
  OBVIOUS
<1>1. LookupInv
  BY LookupInit DEF RouterInit
<1>2. CallsTyped
  BY DEF RouterInit, Contract!Init, CallsTyped, Contract!NoCall, Contract!SendCall,
         Contract!Phase, Contract!Reply, Contract!MaxDebits, Told
<1>3. OneOnLoop
  BY PaymentsAssumption DEF RouterInit, Init, OneOnLoop, OnLoop, Running
<1>4. ASSUME NEW p \in Payments
      PROVE  Payment(p)
  <2>1. p \in Reqs
    BY PaymentsAssumption
  <2>2. adapter[p] = Contract!NoCall /\ debits[p] = 0 /\ told[p] = "none"
        /\ pc[p] = "idle" /\ outcome[p] = "none"
    BY <2>1 DEF RouterInit, Contract!Init, Init
  <2> QED
    BY <1>2, <2>2 DEF Payment, CallsTyped, Contract!NoCall, Running
<1> QED
  BY <1>1, <1>2, <1>3, <1>4, InvariantByPayment DEF RouterParts

\* A step of resolve, made by a payment that has the event loop or takes it,
\* with what its handler makes of it.
LEMMA ContinueStep ==
    ASSUME RouterInv, NEW p \in Payments, Continue(p),
           \/ pc[p] = "idle" /\ LoopFree /\ (Receive(p) \/ UnknownBank(p))
           \/ Proceed(p) \/ LookupFails(p)
    PROVE  CallsTyped' /\ OneOnLoop' /\ \A q \in Payments : Payment(q)'
<1>1. p \in Reqs /\ Payments \subseteq Reqs
  BY PaymentsAssumption
<1>2. LookupInv /\ CallsTyped /\ OneOnLoop /\ \A q \in Payments : Payment(q)
  BY InvariantByPayment DEF RouterParts
<1>3. pc[p] \in Running \cup {"idle"}
  BY DEF Proceed, Hit, Miss, Read, WriteCache, LookupFails, Running
<1>4. /\ \A q \in Reqs \ {p} : pc'[q] = pc[q] /\ outcome'[q] = outcome[q]
      /\ \/ pc'[p] \in Running /\ outcome'[p] = "none"
         \/ pc'[p] = "done" /\ outcome'[p] \in Served \cup {"not_found", "error"}
  <2>1. pc[p] \in Running => outcome[p] = "none"
    BY <1>2 DEF Payment
  <2>2. pc \in [Reqs -> PC] /\ outcome \in [Reqs -> Outcome]
    BY <1>2 DEF LookupInv, TypeOK
  <2>3. CASE Receive(p) \/ UnknownBank(p)
    BY <1>1, <2>2, <2>3 DEF Receive, UnknownBank, Answer, Goto, Running, Served
  <2>4. CASE Hit(p) \/ Miss(p)
    BY <1>1, <2>1, <2>2, <2>4 DEF Hit, Miss, Answer, Goto, Running, Served
  <2>5. CASE Read(p)
    BY <1>1, <2>1, <2>2, <2>5 DEF Read, Answer, Goto, Running, Served
  <2>6. CASE WriteCache(p) \/ LookupFails(p)
    BY <1>1, <2>1, <2>2, <2>6 DEF WriteCache, LookupFails, Answer, Goto, Running,
                                  Served
  <2> QED
    BY <2>3, <2>4, <2>5, <2>6 DEF Proceed
<1>5. OneOnLoop'
  <2>1. \A q \in Payments \ {p} : ~OnLoop(q)
    BY <1>2, <1>3 DEF OneOnLoop, OnLoop, LoopFree, Proceed, Hit, Miss, Read, WriteCache,
                      LookupFails, Running
  <2> QED
    BY <1>1, <1>4, <2>1 DEF OneOnLoop, OnLoop
<1>6. /\ told[p] = "none"
      /\ adapter[p].phase = "idle" /\ debits[p] = 0 /\ adapter[p] \in Contract!SendCall
  BY <1>2, <1>3 DEF Payment, Running
<1>7. CallsTyped' /\ Payment(p)' /\ \A q \in Payments \ {p} : adapter'[q] = adapter[q]
                        /\ debits'[q] = debits[q] /\ told'[q] = told[q]
  <2>1. CASE outcome'[p] = "none" /\ UNCHANGED callVars
    <3>1. UNCHANGED <<adapter, debits, told>>
      BY <2>1 DEF callVars
    <3>2. pc'[p] \in Running
      BY <1>4, <2>1 DEF Served
    <3> QED
      BY <1>2, <1>6, <2>1, <3>1, <3>2 DEF CallsTyped, Payment, Running
  <2>2. CASE outcome'[p] \in Served /\ Contract!Send(p) /\ UNCHANGED told
    <3>1. adapter' = [adapter EXCEPT ![p].phase = "sent"] /\ debits' = debits
      BY <2>2 DEF Contract!Send
    <3>2. [adapter[p] EXCEPT !.phase = "sent"] \in Contract!SendCall
      BY <1>6 DEF Contract!SendCall, Contract!Phase
    <3>3. adapter' = [adapter EXCEPT ![p] = [adapter[p] EXCEPT !.phase = "sent"]]
      BY <3>1
    <3>4. /\ adapter' \in [Payments -> Contract!SendCall]
          /\ adapter'[p] = [adapter[p] EXCEPT !.phase = "sent"]
          /\ \A q \in Payments \ {p} : adapter'[q] = adapter[q]
      BY <1>2, <3>2, <3>3 DEF CallsTyped
    <3>5. adapter'[p].phase = "sent" /\ adapter'[p].status = adapter[p].status
      BY <1>6, <3>4 DEF Contract!SendCall
    <3> QED
      BY <1>2, <1>4, <1>6, <2>2, <3>1, <3>4, <3>5 DEF CallsTyped, Payment, Served,
         Running
  <2>3. CASE /\ outcome'[p] \in {"not_found", "error"}
             /\ Tell(p, outcome'[p])
             /\ UNCHANGED <<adapter, debits>>
    <3>1. told' = [told EXCEPT ![p] = outcome'[p]] /\ outcome'[p] \in Told
      BY <2>3 DEF Tell, Told
    <3>2. pc'[p] = "done"
      BY <1>4, <2>3 DEF Served
    <3> QED
      BY <1>2, <1>6, <2>3, <3>1, <3>2 DEF CallsTyped, Payment, Served, Running
  <2> QED
    BY <2>1, <2>2, <2>3 DEF Continue
<1>8. ASSUME NEW q \in Payments \ {p} PROVE Payment(q)'
  BY <1>1, <1>2, <1>4, <1>7 DEF Payment
<1> QED
  BY <1>5, <1>7, <1>8

\* A step that leaves the lookups alone and one payment's call changed.
LEMMA CallStep ==
    ASSUME RouterInv, NEW p \in Payments,
           Answered(p) \/ NoVerdict(p) \/ AdapterWorks(p)
    PROVE  CallsTyped' /\ OneOnLoop' /\ \A q \in Payments : Payment(q)'
<1>1. LookupInv /\ CallsTyped /\ OneOnLoop /\ \A q \in Payments : Payment(q)
  BY InvariantByPayment DEF RouterParts
<1>2. UNCHANGED <<pc, outcome>>
  BY DEF Answered, NoVerdict, AdapterWorks, vars
<1>3. OneOnLoop'
  BY <1>1, <1>2 DEF OneOnLoop, OnLoop
<1>4. adapter[p] \in Contract!SendCall
  BY <1>1 DEF CallsTyped
<1>5. CASE Answered(p) \/ NoVerdict(p)
  <2>1. PICK answer : /\ answer = "no_verdict" \/ answer = adapter[p].status
                      /\ Tell(p, answer)
    BY <1>5 DEF Answered, NoVerdict
  <2>2. UNCHANGED <<adapter, debits>> /\ Waiting(p)
    BY <1>5 DEF Answered, NoVerdict
  <2>3. answer \in {"no_verdict", "none", "SUCCESS", "FAILED"}
    BY <1>4, <2>1 DEF Contract!SendCall, Contract!Reply
  <2>4. told' = [told EXCEPT ![p] = answer] /\ answer \in Told
    BY <2>1, <2>3 DEF Tell, Told
  <2>5. pc[p] = "done"
    BY <1>1, <2>2 DEF Payment, Waiting
  <2>6. answer = "SUCCESS" => debits[p] > 0
    BY <1>1, <2>1 DEF Payment
  <2>7. CallsTyped' /\ told'[p] = answer
        /\ \A q \in Payments \ {p} : told'[q] = told[q]
    BY <1>1, <2>2, <2>4 DEF CallsTyped
  <2>8. Payment(p)'
    BY <1>1, <1>2, <2>2, <2>3, <2>5, <2>6, <2>7 DEF Payment, Running, CallsTyped
  <2>9. \A q \in Payments \ {p} : Payment(q)'
    BY <1>1, <1>2, <2>2, <2>7 DEF Payment
  <2> QED
    BY <1>3, <2>7, <2>8, <2>9
<1>6. CASE AdapterWorks(p)
  <2>1. told' = told
    BY <1>6 DEF AdapterWorks
  <2>2. adapter[p].phase # "idle"
    BY <1>6 DEF AdapterWorks, Contract!Accept, Contract!Debit, Contract!AnswerSuccess,
                Contract!AnswerFailed, Contract!Answer
  <2>3. /\ CallsTyped'
        /\ adapter'[p].phase # "idle"
        /\ debits'[p] \in 0 .. Contract!MaxDebits /\ debits'[p] >= debits[p]
        /\ adapter'[p].status = "SUCCESS" => debits'[p] > 0
        /\ \A q \in Payments \ {p} : adapter'[q] = adapter[q] /\ debits'[q] = debits[q]
    <3>1. CASE Contract!Accept(p)
      <4>1. adapter' = [adapter EXCEPT ![p] = [adapter[p] EXCEPT !.phase = "working"]]
            /\ debits' = debits
        BY <3>1 DEF Contract!Accept
      <4>2. [adapter[p] EXCEPT !.phase = "working"] \in Contract!SendCall
        BY <1>4 DEF Contract!SendCall, Contract!Phase
      <4>3. /\ adapter' \in [Payments -> Contract!SendCall]
            /\ adapter'[p] = [adapter[p] EXCEPT !.phase = "working"]
            /\ \A q \in Payments \ {p} : adapter'[q] = adapter[q]
        BY <1>1, <4>1, <4>2 DEF CallsTyped
      <4>4. adapter'[p].phase = "working" /\ adapter'[p].status = adapter[p].status
        BY <1>4, <4>3 DEF Contract!SendCall
      <4> QED
        BY <1>1, <2>1, <4>1, <4>3, <4>4 DEF CallsTyped, Payment, Contract!MaxDebits
    <3>2. CASE Contract!Debit(p)
      <4>1. adapter' = adapter /\ debits' = [debits EXCEPT ![p] = @ + 1]
            /\ debits[p] < Contract!MaxDebits
        BY <3>2 DEF Contract!Debit
      <4>2. debits[p] + 1 \in 0 .. Contract!MaxDebits
        BY <1>1, <4>1 DEF CallsTyped, Contract!MaxDebits
      <4> QED
        BY <1>1, <2>1, <2>2, <4>1, <4>2 DEF CallsTyped, Payment, Contract!MaxDebits
    <3>3. CASE Contract!AnswerSuccess(p) \/ Contract!AnswerFailed(p)
      <4>1. PICK status \in {"SUCCESS", "FAILED"} :
               /\ Contract!Answer(p, status, "unread")
               /\ status = "SUCCESS" => debits[p] > 0
        BY <3>3 DEF Contract!AnswerSuccess, Contract!AnswerFailed
      <4> DEFINE call == [phase |-> "replied", status |-> status, rrn |-> "unread"]
      <4>2. call \in Contract!SendCall /\ call.phase = "replied" /\ call.status = status
        BY DEF Contract!SendCall, Contract!Phase, Contract!Reply
      <4>3. adapter' = [adapter EXCEPT ![p] = call] /\ debits' = debits
        BY <4>1 DEF Contract!Answer
      <4> HIDE DEF call
      <4>4. /\ adapter' \in [Payments -> Contract!SendCall]
            /\ adapter'[p] = call
            /\ \A q \in Payments \ {p} : adapter'[q] = adapter[q]
        BY <1>1, <4>2, <4>3 DEF CallsTyped
      <4> QED
        BY <1>1, <2>1, <4>1, <4>2, <4>3, <4>4 DEF CallsTyped, Payment, Contract!MaxDebits
    <3> QED
      BY <1>6, <3>1, <3>2, <3>3 DEF AdapterWorks
  <2>4. Payment(p)'
    BY <1>1, <1>2, <2>1, <2>2, <2>3 DEF Payment, CallsTyped, Contract!MaxDebits
  <2>5. \A q \in Payments \ {p} : Payment(q)'
    BY <1>1, <1>2, <2>1, <2>3 DEF Payment
  <2> QED
    BY <1>3, <2>3, <2>4, <2>5
<1> QED
  BY <1>5, <1>6

\* A restart answers nobody and calls nobody.
LEMMA RestartStep ==
    ASSUME RouterInv, Restart
    PROVE  CallsTyped' /\ OneOnLoop' /\ \A p \in Payments : Payment(p)'
<1>1. LookupInv /\ CallsTyped /\ OneOnLoop /\ \A p \in Payments : Payment(p)
  BY InvariantByPayment DEF RouterParts
<1>2. \A p \in Payments :
         /\ pc[p] \in PC
         /\ pc'[p] = IF pc[p] \in Running THEN "done" ELSE pc[p]
         /\ outcome'[p] = IF pc[p] \in Running THEN "error" ELSE outcome[p]
  BY <1>1, PaymentsAssumption DEF Restart, Crash, LookupInv, TypeOK
<1>3. UNCHANGED <<adapter, debits>>
  BY DEF Restart
<1>4. told' = [p \in Payments |-> IF Open(p) THEN "no_verdict" ELSE told[p]]
  BY DEF Restart
<1>5. CallsTyped'
  BY <1>1, <1>3, <1>4 DEF CallsTyped, Told
<1>6. OneOnLoop'
  BY <1>2 DEF OneOnLoop, OnLoop, Running
<1>7. ASSUME NEW p \in Payments
      PROVE  Payment(p)'
  <2>1. Payment(p) /\ told'[p] = IF Open(p) THEN "no_verdict" ELSE told[p]
    BY <1>1, <1>4
  <2>2. pc'[p] \notin Running
    BY <1>2 DEF Running
  <2>3. adapter[p].phase # "idle" => pc[p] = "done"
    BY <2>1 DEF Payment
  <2>4. CASE pc[p] = "idle"
    BY <1>2, <1>3, <1>5, <2>1, <2>2, <2>3, <2>4
       DEF Payment, CallsTyped, Open, OnLoop, Waiting, Running
  <2>5. CASE pc[p] # "idle"
    <3>1. pc'[p] = "done"
      BY <1>2, <2>5 DEF PC
    <3>2. pc[p] \in Running => adapter[p].phase = "idle"
      BY <2>3 DEF Running
    <3> QED
      BY <1>2, <1>3, <1>5, <2>1, <2>2, <3>1, <3>2 DEF Payment, CallsTyped, Running
  <2> QED
    BY <2>4, <2>5
<1> QED
  BY <1>5, <1>6, <1>7

LEMMA RouterInvNext == RouterInv /\ [RouterNext]_routerVars => RouterInv'
<1> SUFFICES ASSUME RouterInv, [RouterNext]_routerVars PROVE RouterInv'
  OBVIOUS
<1>1. LookupInv /\ CallsTyped /\ OneOnLoop /\ \A p \in Payments : Payment(p)
  BY InvariantByPayment DEF RouterParts
<1>2. LookupInv'
  <2>1. [Next]_vars
    BY RouterStepIsLookupStep DEF routerVars
  <2> QED
    BY <1>1, <2>1, LookupNext
<1>3. CallsTyped' /\ OneOnLoop' /\ \A p \in Payments : Payment(p)'
  <2>1. CASE UNCHANGED <<pc, outcome, callVars>>
    BY <1>1, <2>1 DEF callVars, CallsTyped, OneOnLoop, OnLoop, Payment
  <2>2. ASSUME NEW p \in Payments, Initiate(p) \/ Advance(p)
        PROVE  CallsTyped' /\ OneOnLoop' /\ \A q \in Payments : Payment(q)'
    BY <2>2, ContinueStep DEF Initiate, Advance
  <2>3. ASSUME NEW p \in Payments, Answered(p) \/ NoVerdict(p) \/ AdapterWorks(p)
        PROVE  CallsTyped' /\ OneOnLoop' /\ \A q \in Payments : Payment(q)'
    BY <2>3, CallStep
  <2>4. ASSUME NEW r \in Reqs \ Payments, Resolve(r)
        PROVE  CallsTyped' /\ OneOnLoop' /\ \A p \in Payments : Payment(p)'
    <3>1. UNCHANGED <<adapter, debits, told>>
      BY <2>4 DEF Resolve, callVars
    <3>2. \A q \in Reqs \ {r} : pc'[q] = pc[q] /\ outcome'[q] = outcome[q]
      BY <1>1, <2>4 DEF Resolve, Receive, UnknownBank, Proceed, Hit, Miss, Read,
         WriteCache, LookupFails, Answer, Goto, LookupInv, TypeOK
    <3>3. \A p \in Payments : pc'[p] = pc[p] /\ outcome'[p] = outcome[p]
      BY <2>4, <3>2, PaymentsAssumption
    <3> QED
      BY <1>1, <3>1, <3>3 DEF CallsTyped, OneOnLoop, OnLoop, Payment
  <2>5. CASE RoutesChange
    <3>1. UNCHANGED <<pc, outcome, callVars>>
      BY <2>5 DEF RoutesChange, Freeze, Expire, Change, Replicate
    <3> QED
      BY <2>1, <3>1
  <2>6. CASE Restart
    BY <2>6, RestartStep
  <2>7. CASE UNCHANGED routerVars
    BY <2>1, <2>7 DEF routerVars, vars
  <2> QED
    BY <2>2, <2>3, <2>4, <2>5, <2>6, <2>7 DEF RouterNext
<1>4. RouterParts'
  BY <1>2, <1>3 DEF RouterParts
<1> QED
  BY <1>4, InvariantByPayment, PTL

\* The invariant of the composition, of any number of lookups and payments.
THEOREM RouterInvariant == RouterSpec => []RouterInv
BY RouterInvInit, RouterInvNext, PTL DEF RouterSpec

\* Nobody is routed, and no payment is posted, to where the bank never was.
THEOREM PaymentsGoWhereActive == RouterSpec => [](ServedWasActive /\ PaidWhereActive)
<1>1. RouterInv => ServedWasActive /\ PaidWhereActive
  BY DEF RouterInv
<1> QED
  BY <1>1, RouterInvariant, PTL

\* A refusal by resolve can be retried and SUCCESS can be believed.
THEOREM RouterAnswersAreTrue == RouterSpec => []AnswersTrue
<1>1. RouterInv => AnswersTrue
  BY DEF RouterInv
<1> QED
  BY <1>1, RouterInvariant, PTL
============================================================================
