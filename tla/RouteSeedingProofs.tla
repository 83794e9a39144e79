------------------------- MODULE RouteSeedingProofs -------------------------
(* Theorems about RouteSeeding, for any requests, seeds and faults.        *)
EXTENDS RouteSeeding, TLAPS

\* What the assumption says of the list of seeds.
LEMMA SeedFacts ==
    /\ Len(SeedRoutes) \in Nat \ {0}
    /\ \A i \in 1 .. Len(SeedRoutes) : SeedRoutes[i] \in Seeds
    /\ \A i, j \in 1 .. Len(SeedRoutes) : SeedRoutes[i] = SeedRoutes[j] => i = j
    /\ Seeds = {SeedRoutes[i] : i \in 1 .. Len(SeedRoutes)}
<1>1. SeedRoutes \in Seq(Seeds) /\ SeedRoutes # <<>>
  BY SeedsAssumption DEF Seeds
<1>2. Len(SeedRoutes) \in Nat /\ DOMAIN SeedRoutes = 1 .. Len(SeedRoutes)
  BY <1>1
<1>3. Len(SeedRoutes) # 0
  BY <1>1
<1>4. Seeds = {SeedRoutes[i] : i \in DOMAIN SeedRoutes}
  BY DEF Seeds, Range
<1> QED
  BY <1>2, <1>3, <1>4, SeedsAssumption DEF IsInjective

LEMMA SeedingInit == Init => IInv
<1> SUFFICES ASSUME Init PROVE IInv
  OBVIOUS
<1>1. \A r \in Reqs : pc[r] = "idle" /\ next[r] = 1
  BY DEF Init
<1>2. TypeOK
  <2>1. 1 \in 1 .. Len(SeedRoutes)
    BY SeedFacts
  <2> QED
    BY <2>1 DEF Init, TypeOK, PC
<1>3. OneMaker /\ SeededSoFar /\ MakerRemains
  BY <1>1 DEF Init, OneMaker, SeededSoFar, MakerRemains, Building, Responsible
<1> QED
  BY <1>2, <1>3 DEF Init, IInv

\* Where a request may go without being the maker or leaving the making.
LEMMA BystanderStep ==
    ASSUME IInv, NEW r \in Reqs, NEW label \in PC \ (Responsible \cup {"idle"}),
           pc[r] \notin Responsible, Goto(r, label),
           label \in Building => pc[r] \in Building \cup {"idle"},
           UNCHANGED <<status, items, seeded, edited, interrupted, next>>
    PROVE  IInv'
<1>1. \A q \in Reqs : pc'[q] = IF q = r THEN label ELSE pc[q]
  BY DEF IInv, TypeOK, Goto
<1>2. TypeOK'
  BY DEF IInv, TypeOK, Goto
<1>3. OneMaker'
  BY <1>1 DEF IInv, OneMaker
<1>4. SeededSoFar'
  BY <1>1 DEF IInv, SeededSoFar, Building, Responsible
<1>5. MakerRemains'
  BY <1>1 DEF IInv, MakerRemains, Seeds
<1> QED
  BY <1>2, <1>3, <1>4, <1>5 DEF IInv

LEMMA CreateStep ==
    ASSUME IInv, NEW r \in Reqs, Create(r)
    PROVE  IInv'
<1>1. CASE status # "missing"
  BY <1>1, BystanderStep DEF Create, PC, Building, Responsible
<1>2. CASE status = "missing"
  <2>1. /\ pc[r] = "create" /\ status' = "CREATING" /\ Goto(r, "wait")
        /\ UNCHANGED <<items, seeded, edited, interrupted, next>>
    BY <1>2 DEF Create
  <2>2. \A q \in Reqs : pc'[q] = IF q = r THEN "wait" ELSE pc[q]
    BY <2>1 DEF IInv, TypeOK, Goto
  <2>3. seeded = {} /\ \A q \in Reqs : pc[q] \notin Responsible
    BY <1>2 DEF IInv, SeededSoFar
  <2>4. TypeOK'
    BY <2>1 DEF IInv, TypeOK, Goto, PC, Building, Responsible
  <2>5. OneMaker'
    BY <2>2, <2>3 DEF OneMaker
  <2>6. SeededSoFar'
    BY <2>1, <2>2, <2>3 DEF IInv, SeededSoFar, Building, Responsible
  <2>7. MakerRemains'
    BY <2>2 DEF MakerRemains, Responsible
  <2> QED
    BY <2>1, <2>4, <2>5, <2>6, <2>7 DEF IInv
<1> QED
  BY <1>1, <1>2

LEMMA WaitedStep ==
    ASSUME IInv, NEW r \in Reqs, Waited(r)
    PROVE  IInv'
<1>1. /\ pc[r] = "wait" /\ status = "ACTIVE" /\ Goto(r, "seed")
      /\ UNCHANGED <<status, items, seeded, edited, interrupted, next>>
  BY DEF Waited
<1>2. \A q \in Reqs : pc'[q] = IF q = r THEN "seed" ELSE pc[q]
  BY <1>1 DEF IInv, TypeOK, Goto
<1>3. TypeOK'
  BY <1>1 DEF IInv, TypeOK, Goto, PC, Building, Responsible
<1>4. OneMaker'
  BY <1>1, <1>2 DEF IInv, OneMaker, Responsible
<1>5. SeededSoFar'
  <2>1. next[r] = 1 /\ seeded = {}
    BY <1>1 DEF IInv, SeededSoFar, Building, Responsible
  <2>2. seeded' = {SeedRoutes[i] : i \in 1 .. next'[r] - 1}
    BY <1>1, <2>1
  <2> QED
    BY <1>1, <1>2, <2>2 DEF IInv, SeededSoFar, Building, Responsible
<1>6. MakerRemains'
  BY <1>1, <1>2 DEF MakerRemains, Responsible
<1> QED
  BY <1>1, <1>3, <1>4, <1>5, <1>6 DEF IInv

\* A put_item of the maker is the first of its bank.
LEMMA PutSeedIsNew ==
    ASSUME IInv, NEW r \in Reqs, PutSeed(r)
    PROVE  /\ next[r] \in 1 .. Len(SeedRoutes)
           /\ seeded = {SeedRoutes[i] : i \in 1 .. next[r] - 1}
           /\ SeedRoutes[next[r]] \in Seeds
           /\ SeedRoutes[next[r]] \notin seeded
<1>1. next[r] \in 1 .. Len(SeedRoutes)
  BY DEF IInv, TypeOK
<1>2. seeded = {SeedRoutes[i] : i \in 1 .. next[r] - 1}
  BY DEF IInv, SeededSoFar, PutSeed
<1>3. SeedRoutes[next[r]] \notin seeded
  BY <1>1, <1>2, SeedFacts
<1> QED
  BY <1>1, <1>2, <1>3, SeedFacts

LEMMA PutSeedStep ==
    ASSUME IInv, NEW r \in Reqs, PutSeed(r)
    PROVE  IInv'
<1>1. pc[r] = "seed" /\ UNCHANGED <<status, interrupted>> /\ status # "missing"
  BY DEF PutSeed, IInv, SeededSoFar, Responsible
<1>2. /\ items'  = items \cup {SeedRoutes[next[r]]}
      /\ seeded' = seeded \cup {SeedRoutes[next[r]]}
      /\ edited' = edited \ {SeedRoutes[next[r]]}
  BY DEF PutSeed
<1>3. seeded' = {SeedRoutes[i] : i \in 1 .. next[r]}
  BY <1>2, PutSeedIsNew
<1>4. /\ seeded' \cup edited' \subseteq items' /\ items' \in SUBSET Seeds
      /\ edited' \in SUBSET Seeds /\ seeded' \in SUBSET Seeds
  BY <1>2, PutSeedIsNew DEF IInv, TypeOK
<1>5. \A q \in Reqs \ {r} : pc[q] \notin Responsible
  BY <1>1 DEF IInv, OneMaker, Responsible
<1>6. CASE next[r] < Len(SeedRoutes)
  <2>1. next' = [next EXCEPT ![r] = @ + 1] /\ UNCHANGED pc
    BY <1>6 DEF PutSeed
  <2>2. next[r] + 1 \in 1 .. Len(SeedRoutes)
    BY <1>6, PutSeedIsNew, SeedFacts
  <2>3. /\ next' \in [Reqs -> 1 .. Len(SeedRoutes)]
        /\ next'[r] = next[r] + 1
        /\ \A q \in Reqs \ {r} : next'[q] = next[q]
    BY <2>1, <2>2 DEF IInv, TypeOK
  <2>4. TypeOK'
    BY <1>1, <1>4, <2>1, <2>3 DEF IInv, TypeOK
  <2>5. OneMaker'
    BY <2>1 DEF IInv, OneMaker
  <2>6. next'[r] - 1 = next[r]
    BY <2>3, PutSeedIsNew
  <2>7. SeededSoFar'
    BY <1>1, <1>3, <1>5, <2>1, <2>3, <2>6 DEF IInv, SeededSoFar, Building, Responsible
  <2>8. MakerRemains'
    BY <1>1, <2>1 DEF MakerRemains, Responsible
  <2> QED
    BY <1>4, <2>4, <2>5, <2>7, <2>8 DEF IInv
<1>7. CASE ~(next[r] < Len(SeedRoutes))
  <2>1. Goto(r, "ready") /\ UNCHANGED next
    BY <1>7 DEF PutSeed
  <2>2. \A q \in Reqs : pc'[q] = IF q = r THEN "ready" ELSE pc[q]
    BY <2>1 DEF IInv, TypeOK, Goto
  <2>3. next[r] = Len(SeedRoutes)
    BY <1>7, PutSeedIsNew, SeedFacts
  <2>4. seeded' = Seeds
    BY <1>3, <2>3, SeedFacts
  <2>5. TypeOK'
    BY <1>1, <1>4, <2>1 DEF IInv, TypeOK, Goto, PC
  <2>6. OneMaker'
    BY <1>5, <2>2 DEF OneMaker, Responsible
  <2>7. SeededSoFar'
    BY <1>1, <1>5, <2>1, <2>2 DEF IInv, SeededSoFar, Building, Responsible
  <2>8. MakerRemains'
    BY <2>4 DEF MakerRemains, Seeds
  <2> QED
    BY <1>4, <2>5, <2>6, <2>7, <2>8 DEF IInv
<1> QED
  BY <1>6, <1>7

\* A request that fails, or dies with the others, interrupts what it was making.
LEMMA FaultStep ==
    ASSUME IInv, Crash \/ \E r \in Reqs : DynamoFails(r)
    PROVE  IInv'
<1>1. CASE Crash
  <2>1. \A q \in Reqs : pc'[q] = IF pc[q] \in Building \cup {"ready"} THEN "error"
                                 ELSE pc[q]
    BY <1>1 DEF Crash
  <2>2. \A q \in Reqs : pc'[q] = "error" \/ pc'[q] = pc[q]
    BY <2>1 DEF Building, Responsible
  <2>3. \A q \in Reqs : pc'[q] \notin Responsible
    BY <2>1 DEF Building, Responsible
  <2>4. /\ UNCHANGED <<status, items, seeded, edited, next>>
        /\ interrupted' = (interrupted \/ \E r \in Reqs : pc[r] \in Responsible)
    BY <1>1 DEF Crash
  <2>5. TypeOK'
    BY <1>1 DEF Crash, IInv, TypeOK, PC
  <2>6. OneMaker'
    BY <2>3 DEF OneMaker
  <2>7. SeededSoFar'
    BY <2>2, <2>3, <2>4 DEF IInv, SeededSoFar, Building, Responsible
  <2>8. MakerRemains'
    BY <2>4 DEF IInv, MakerRemains, Seeds
  <2> QED
    BY <2>4, <2>5, <2>6, <2>7, <2>8 DEF IInv
<1>2. ASSUME NEW r \in Reqs, DynamoFails(r)
      PROVE  IInv'
  <2>1. \A q \in Reqs : pc'[q] = IF q = r THEN "error" ELSE pc[q]
    BY <1>2 DEF DynamoFails, Goto, IInv, TypeOK
  <2>2. UNCHANGED <<items, seeded, edited, next>>
    BY <1>2 DEF DynamoFails
  <2>3. TypeOK'
    BY <1>2 DEF DynamoFails, Goto, IInv, TypeOK, PC
  <2>4. OneMaker'
    BY <2>1 DEF IInv, OneMaker, Responsible
  <2>5. status' = "missing" => status = "missing"
    BY <1>2 DEF DynamoFails
  <2>6. SeededSoFar'
    BY <2>1, <2>2, <2>5 DEF IInv, SeededSoFar, Building, Responsible
  <2>7. MakerRemains'
    <3>1. CASE pc[r] \in Responsible \/ status' # status
      BY <1>2, <3>1 DEF DynamoFails, MakerRemains, Responsible
    <3>2. CASE pc[r] \notin Responsible /\ status' = status
      <4>1. interrupted => interrupted'
        BY <1>2 DEF DynamoFails
      <4>2. \A q \in Reqs : pc[q] \in Responsible => pc'[q] \in Responsible
        BY <2>1, <3>2
      <4> QED
        BY <2>2, <3>2, <4>1, <4>2 DEF IInv, MakerRemains, Seeds
    <3> QED
      BY <3>1, <3>2
  <2> QED
    BY <2>2, <2>3, <2>4, <2>6, <2>7 DEF IInv
<1> QED
  BY <1>1, <1>2

LEMMA SeedingNext == IInv /\ [Next]_vars => IInv'
<1> SUFFICES ASSUME IInv, [Next]_vars PROVE IInv'
  OBVIOUS
<1>1. ASSUME NEW r \in Reqs, Receive(r)
      PROVE  IInv'
  BY <1>1, BystanderStep DEF Receive, PC, Building, Responsible
<1>2. ASSUME NEW r \in Reqs, Describe(r)
      PROVE  IInv'
  BY <1>2, BystanderStep DEF Describe, PC, Building, Responsible
<1>3. ASSUME NEW r \in Reqs, Lookup(r)
      PROVE  IInv'
  <2>1. PICK label \in {"error", "found", "not_found"} : Goto(r, label)
    BY <1>3 DEF Lookup
  <2> QED
    BY <1>3, <2>1, BystanderStep DEF Lookup, PC, Building, Responsible
<1>4. CASE TableBecomesActive
  BY <1>4 DEF TableBecomesActive, IInv, TypeOK, OneMaker, SeededSoFar, MakerRemains,
              Seeds
<1>5. ASSUME NEW b \in Seeds, OperatorPut(b)
      PROVE  IInv'
  BY <1>5 DEF OperatorPut, IInv, TypeOK, OneMaker, SeededSoFar, MakerRemains, Seeds
<1>6. CASE UNCHANGED vars
  BY <1>6 DEF vars, IInv, TypeOK, OneMaker, SeededSoFar, MakerRemains, Seeds
<1> QED
  BY <1>1, <1>2, <1>3, <1>4, <1>5, <1>6, CreateStep, WaitedStep, PutSeedStep, FaultStep
     DEF Next, Proceed

\* The invariant of the seeding: one maker, who seeds in order and remains until
\* the table is complete or it is interrupted.
THEOREM SeedingInvariant == Spec => []IInv
BY SeedingInit, SeedingNext, PTL DEF Spec

\* However many requests construct the repository and whatever fails, an item an
\* operator has put is overwritten by no seed but the first of its bank, of the
\* one request that makes the table.
THEOREM SeedsOverwriteAtMostOnce == Spec => SeedsOverwriteOnce
<1>1. ASSUME IInv, Next, NEW b \in edited \ edited'
      PROVE  b \notin seeded /\ \E r \in Reqs : pc[r] = "seed" /\ b = SeedRoutes[next[r]]
  <2>1. PICK r \in Reqs : PutSeed(r)
    BY <1>1 DEF Next, Receive, Proceed, Describe, Create, Waited, Lookup, DynamoFails,
                TableBecomesActive, Crash, OperatorPut
  <2>2. pc[r] = "seed" /\ b = SeedRoutes[next[r]]
    BY <1>1, <2>1 DEF PutSeed
  <2> QED
    BY <1>1, <2>1, <2>2, PutSeedIsNew
<1>2. IInv /\ [Next]_vars =>
        [\A b \in edited \ edited' :
          b \notin seeded /\ \E r \in Reqs : pc[r] = "seed" /\ b = SeedRoutes[next[r]]]_vars
  BY <1>1
<1> QED
  BY <1>2, SeedingInvariant, PTL DEF Spec, SeedsOverwriteOnce

\* An incomplete table always has its maker at work, unless it was interrupted.
THEOREM SomebodyCompletes == Spec => []MakerRemains
<1>1. IInv => MakerRemains
  BY DEF IInv
<1> QED
  BY <1>1, SeedingInvariant, PTL
=============================================================================
