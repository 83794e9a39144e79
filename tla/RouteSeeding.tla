---------------------------- MODULE RouteSeeding ----------------------------
(***************************************************************************)
(* payment-router: RoutingRepository._init_table with ENV=local, where the *)
(* service creates and seeds its routing table itself.  The constructor    *)
(* runs when a request needs it (lru_cache does not keep two first         *)
(* requests apart, /initiate builds a repository per request), in a thread *)
(* per request.  Each request to DynamoDB is one step:                     *)
(*                                                                         *)
(*     describe -> create_table -> wait_until_exists -> put_item per bank  *)
(*                                                                         *)
(* followed by the lookup the request came for.                            *)
(***************************************************************************)
EXTENDS Naturals, Sequences, Functions

CONSTANTS
    Reqs,       \* requests that construct a repository
    SeedRoutes, \* the bank codes of SEED_ROUTES, in order
    Faults      \* what may go wrong: a subset of {"crash", "dynamo"}

ASSUME SeedsAssumption ==
    /\ SeedRoutes \in Seq(Range(SeedRoutes))
    /\ SeedRoutes # <<>>
    /\ IsInjective(SeedRoutes)

VARIABLES
    status,     \* of the table: missing, CREATING or ACTIVE
    items,      \* the banks with an item in it
    seeded,     \* history: the banks whose seed has been put
    edited,     \* history: items that are as an operator put them
    interrupted,\* history: the request that made the table ended early
    pc,         \* where each request is
    next        \* the seed a request puts next

vars == <<status, items, seeded, edited, interrupted, pc, next>>

Seeds == Range(SeedRoutes)
Responsible == {"wait", "seed"}   \* it has created the table
Building == Responsible \cup {"describe", "create"}
PC == Building \cup {"idle", "ready", "found", "not_found", "error"}

TypeOK ==
    /\ status \in {"missing", "CREATING", "ACTIVE"}
    /\ items  \in SUBSET Seeds
    /\ seeded \in SUBSET Seeds
    /\ edited \in SUBSET Seeds
    /\ interrupted \in BOOLEAN
    /\ pc     \in [Reqs -> PC]
    /\ next   \in [Reqs -> 1 .. Len(SeedRoutes)]

Init ==
    /\ status = "missing"
    /\ items  = {}
    /\ seeded = {}
    /\ edited = {}
    /\ interrupted = FALSE
    /\ pc     = [r \in Reqs |-> "idle"]
    /\ next   = [r \in Reqs |-> 1]

Goto(r, label) == pc' = [pc EXCEPT ![r] = label]

----------------------------------------------------------------------------
Receive(r) ==
    /\ pc[r] = "idle"
    /\ Goto(r, "describe")
    /\ UNCHANGED <<status, items, seeded, edited, interrupted, next>>

\* table.load: a table that exists, in whatever status, is left as it is.
Describe(r) ==
    /\ pc[r] = "describe"
    /\ Goto(r, IF status = "missing" THEN "create" ELSE "ready")
    /\ UNCHANGED <<status, items, seeded, edited, interrupted, next>>

\* ResourceInUseException taken for one's own table.
CreateAnyway(r) ==
    /\ pc[r] = "create"
    /\ status' = IF status = "missing" THEN "CREATING" ELSE status
    /\ Goto(r, "wait")
    /\ UNCHANGED <<items, seeded, edited, interrupted, next>>

\* create_table: DynamoDB makes one table of a name, and every other call
\* raises ResourceInUseException, which ends the request in HTTP 500.
Create(r) ==
    /\ pc[r] = "create"
    /\ \/ /\ status = "missing"
          /\ status' = "CREATING"
          /\ Goto(r, "wait")
       \/ /\ status # "missing"
          /\ UNCHANGED status
          /\ Goto(r, "error")
    /\ UNCHANGED <<items, seeded, edited, interrupted, next>>

TableBecomesActive ==
    /\ status = "CREATING"
    /\ status' = "ACTIVE"
    /\ UNCHANGED <<items, seeded, edited, interrupted, pc, next>>

\* wait_until_exists returns.
Waited(r) ==
    /\ pc[r] = "wait"
    /\ status = "ACTIVE"
    /\ Goto(r, "seed")
    /\ UNCHANGED <<status, items, seeded, edited, interrupted, next>>

\* The loop ends before the last route.
PutSeedOffByOne(r) ==
    /\ pc[r] = "seed"
    /\ items'  = items \cup {SeedRoutes[next[r]]}
    /\ seeded' = seeded \cup {SeedRoutes[next[r]]}
    /\ edited' = edited \ {SeedRoutes[next[r]]}
    /\ IF next[r] + 1 < Len(SeedRoutes)
       THEN next' = [next EXCEPT ![r] = @ + 1] /\ UNCHANGED pc
       ELSE Goto(r, "ready") /\ UNCHANGED next
    /\ UNCHANGED <<status, interrupted>>

\* One put_item of _seed: an unconditional write, also over an operator's item.
PutSeed(r) ==
    /\ pc[r] = "seed"
    /\ items'  = items \cup {SeedRoutes[next[r]]}
    /\ seeded' = seeded \cup {SeedRoutes[next[r]]}
    /\ edited' = edited \ {SeedRoutes[next[r]]}
    /\ IF next[r] < Len(SeedRoutes)
       THEN next' = [next EXCEPT ![r] = @ + 1] /\ UNCHANGED pc
       ELSE Goto(r, "ready") /\ UNCHANGED next
    /\ UNCHANGED <<status, interrupted>>

\* find_by_bank_code for some seeded bank; a table not ACTIVE raises.
Lookup(r) ==
    /\ pc[r] = "ready"
    /\ \/ status # "ACTIVE" /\ Goto(r, "error")
       \/ /\ status = "ACTIVE"
          /\ \E b \in Seeds :
                Goto(r, IF b \in items THEN "found" ELSE "not_found")
    /\ UNCHANGED <<status, items, seeded, edited, interrupted, next>>

\* Any other ClientError, or the waiter gives up: HTTP 500.  A create_table
\* that ends in an error may have made the table.
DynamoFails(r) ==
    /\ "dynamo" \in Faults
    /\ pc[r] \in Building \cup {"ready"}
    /\ Goto(r, "error")
    /\ \/ /\ UNCHANGED status
          /\ interrupted' = (interrupted \/ pc[r] \in Responsible)
       \/ /\ pc[r] = "create" /\ status = "missing"
          /\ status' = "CREATING"
          /\ interrupted' = TRUE
    /\ UNCHANGED <<items, seeded, edited, next>>

\* The container is stopped; the table stays as it is.
Crash ==
    /\ "crash" \in Faults
    /\ \E r \in Reqs : pc[r] \in Building
    /\ pc' = [r \in Reqs |-> IF pc[r] \in Building \cup {"ready"} THEN "error"
                             ELSE pc[r]]
    /\ interrupted' = (interrupted \/ \E r \in Reqs : pc[r] \in Responsible)
    /\ UNCHANGED <<status, items, seeded, edited, next>>

\* An operator puts the item of a bank, as scripts/seed.sh does, whether or not
\* there is one, as soon as the table takes writes.
OperatorPut(b) ==
    /\ status = "ACTIVE"
    /\ items'  = items \cup {b}
    /\ edited' = edited \cup {b}
    /\ UNCHANGED <<status, seeded, interrupted, pc, next>>

Proceed(r) ==
    Describe(r) \/ Create(r) \/ Waited(r) \/ PutSeed(r) \/ Lookup(r)

Next ==
    \/ \E r \in Reqs : Receive(r) \/ Proceed(r) \/ DynamoFails(r)
    \/ \E b \in Seeds : OperatorPut(b)
    \/ TableBecomesActive
    \/ Crash

Spec == Init /\ [][Next]_vars

\* Threads run and DynamoDB finishes the table.
FairSpec ==
    Spec /\ WF_vars(TableBecomesActive) /\ \A r \in Reqs : WF_vars(Proceed(r))

----------------------------------------------------------------------------
\* One request makes the table, and seeds it in order.
OneMaker ==
    \A q, r \in Reqs : pc[q] \in Responsible /\ pc[r] \in Responsible => q = r

SeededSoFar ==
    /\ status = "missing" => seeded = {} /\ \A r \in Reqs : pc[r] \notin Responsible
    /\ \A r \in Reqs :
           /\ pc[r] \in (Building \ {"seed"}) \cup {"idle"} => next[r] = 1
           /\ pc[r] = "wait" => seeded = {}
           /\ pc[r] = "seed" => seeded = {SeedRoutes[i] : i \in 1 .. next[r] - 1}

\* A table that is not seeded has its maker still at work, unless that one
\* was interrupted.
MakerRemains ==
    status # "missing" =>
        seeded = Seeds \/ interrupted \/ \E r \in Reqs : pc[r] \in Responsible

IInv ==
    /\ TypeOK
    /\ seeded \cup edited \subseteq items
    /\ OneMaker
    /\ SeededSoFar
    /\ MakerRemains

\* Seeding overwrites what an operator has put, but each bank once at the most,
\* however many requests initialise the table (lines 71-106): an operator's item
\* is lost only if it was put before the maker of the table came to that bank;
\* from then on, and whenever no maker is at work, it stays.
SeedsOverwriteOnce ==
    [][\A b \in edited \ edited' :
          b \notin seeded /\ \E r \in Reqs : pc[r] = "seed" /\ b = SeedRoutes[next[r]]]_vars

\* A table that any request has created is complete in the end, whoever else
\* fails or finds it half made, unless the request that created it was ended
\* before its last put_item (lines 71-106): nobody else completes it.
SeedingCompletes == (status # "missing") ~> (items = Seeds \/ interrupted)
=============================================================================
