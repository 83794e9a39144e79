----------------------------- MODULE RouteCache -----------------------------
(***************************************************************************)
(* payment-router: RoutingService.resolve over Redis and the DynamoDB      *)
(* routing table (cache-aside).  /resolve is a synchronous handler, so     *)
(* lookups run in threadpool threads and interleave at each request to     *)
(* Redis or DynamoDB:                                                      *)
(*                                                                         *)
(*     GET (and PTTL) -> get_item -> SETEX                                 *)
(*                                                                         *)
(* Nothing in the service invalidates the cache.  Routes are changed in    *)
(* the table by operators; get_item is an eventually consistent read.      *)
(***************************************************************************)
CONSTANTS
    Reqs,       \* lookups; each element makes one after the other
    Banks,      \* bank codes
    Contents,   \* the endpoints a route may name
    NoContent

ASSUME NoContentAssumption == NoContent \notin Contents

VARIABLES
    table,      \* the routing table
    replica,    \* what an eventually consistent read may still return
    cache,      \* Redis: the entry under route:<bank>, and if it has a TTL
    pc, bank,   \* where each lookup is, and for which bank
    got,        \* the route each lookup carries
    outcome,    \* how each lookup ended
    frozen,     \* the operators make no more changes
    history     \* the contents each bank has had an active route with

vars == <<table, replica, cache, pc, bank, got, outcome, frozen, history>>

Route == [content : Contents, active : BOOLEAN]
Entry == [content : Contents \cup {NoContent}, ttl : BOOLEAN]
Empty == [content |-> NoContent, ttl |-> FALSE]
Running == {"get", "read", "set"}
PC      == Running \cup {"idle", "done"}
Served  == {"CACHE", "DB"}
Outcome == Served \cup {"none", "not_found", "error"}

TypeOK ==
    /\ table   \in [Banks -> Route]
    /\ replica \in [Banks -> Route]
    /\ cache   \in [Banks -> Entry]
    /\ pc      \in [Reqs -> PC]
    /\ bank    \in [Reqs -> Banks]
    /\ got     \in [Reqs -> Contents \cup {NoContent}]
    /\ outcome \in [Reqs -> Outcome]
    /\ frozen  \in BOOLEAN
    /\ history \in [Banks -> SUBSET Contents]

ActiveContents(routes) ==
    [b \in Banks |-> {c \in {routes[b].content} : routes[b].active}]

Init ==
    /\ table   \in [Banks -> Route]
    /\ replica = table
    /\ cache   = [b \in Banks |-> Empty]
    /\ pc      = [r \in Reqs |-> "idle"]
    /\ bank    \in [Reqs -> Banks]
    /\ got     = [r \in Reqs |-> NoContent]
    /\ outcome = [r \in Reqs |-> "none"]
    /\ frozen  = FALSE
    /\ history = ActiveContents(table)

tableVars == <<table, replica, frozen, history>>

Goto(r, label) == pc' = [pc EXCEPT ![r] = label]

Answer(r, result, content) ==
    /\ Goto(r, "done")
    /\ outcome' = [outcome EXCEPT ![r] = result]
    /\ got' = [got EXCEPT ![r] = content]

Cached(b) == cache[b].content # NoContent

----------------------------------------------------------------------------
\* A lookup arrives; its VPA or IFSC names a bank.
Receive(r) ==
    /\ pc[r] \in {"idle", "done"}
    /\ \E b \in Banks : bank' = [bank EXCEPT ![r] = b]
    /\ Goto(r, "get")
    /\ got' = [got EXCEPT ![r] = NoContent]
    /\ outcome' = [outcome EXCEPT ![r] = "none"]
    /\ UNCHANGED <<cache, tableVars>>

\* _extract_bank_code: the VPA handle or the IFSC prefix is unknown, 404.
UnknownBank(r) ==
    /\ pc[r] \in {"idle", "done"}
    /\ Answer(r, "not_found", NoContent)
    /\ UNCHANGED <<cache, bank, tableVars>>

Hit(r) ==
    /\ pc[r] = "get"
    /\ Cached(bank[r])
    /\ Answer(r, "CACHE", cache[bank[r]].content)
    /\ UNCHANGED <<cache, bank, tableVars>>

Miss(r) ==
    /\ pc[r] = "get"
    /\ ~Cached(bank[r])
    /\ Goto(r, "read")
    /\ UNCHANGED <<cache, bank, got, outcome, tableVars>>

\* A Redis error on GET or PTTL, or a DynamoDB error: HTTP 500.
LookupFails(r) ==
    /\ pc[r] \in {"get", "read"}
    /\ Answer(r, "error", NoContent)
    /\ UNCHANGED <<cache, bank, tableVars>>

\* The pod is restarted: lookups under way end without an answer, and what is
\* in Redis stays.
Crash ==
    /\ pc' = [r \in Reqs |-> IF pc[r] \in Running THEN "done" ELSE pc[r]]
    /\ outcome' = [r \in Reqs |-> IF pc[r] \in Running THEN "error" ELSE outcome[r]]
    /\ got' = [r \in Reqs |-> IF pc[r] \in Running THEN NoContent ELSE got[r]]
    /\ UNCHANGED <<cache, bank, tableVars>>

\* What get_item may return.
Readable(b) == {table[b], replica[b]}

\* Any item found is taken for a route.
ReadInactive(r) ==
    /\ pc[r] = "read"
    /\ \E route \in Readable(bank[r]) :
           got' = [got EXCEPT ![r] = route.content]
    /\ Goto(r, "set")
    /\ UNCHANGED <<cache, bank, outcome, tableVars>>

\* find_by_bank_code: an active item, or 404.  Nothing is cached for a 404.
Read(r) ==
    /\ pc[r] = "read"
    /\ \E route \in Readable(bank[r]) :
           \/ /\ route.active
              /\ got' = [got EXCEPT ![r] = route.content]
              /\ Goto(r, "set")
              /\ UNCHANGED outcome
           \/ /\ ~route.active
              /\ Answer(r, "not_found", NoContent)
    /\ UNCHANGED <<cache, bank, tableVars>>

\* SET instead of SETEX.
WriteCacheForever(r) ==
    /\ pc[r] = "set"
    /\ cache' = [cache EXCEPT ![bank[r]] = [content |-> got[r], ttl |-> FALSE]]
    /\ Answer(r, "DB", got[r])
    /\ UNCHANGED <<bank, tableVars>>

\* SETEX with the full TTL, over whatever is there by now; an error is logged.
WriteCache(r) ==
    /\ pc[r] = "set"
    /\ \/ cache' = [cache EXCEPT ![bank[r]] = [content |-> got[r], ttl |-> TRUE]]
       \/ UNCHANGED cache
    /\ Answer(r, "DB", got[r])
    /\ UNCHANGED <<bank, tableVars>>

----------------------------------------------------------------------------
\* Redis drops an entry whose TTL has passed.
Expire(b) ==
    /\ Cached(b)
    /\ cache[b].ttl
    /\ cache' = [cache EXCEPT ![b] = Empty]
    /\ UNCHANGED <<pc, bank, got, outcome, tableVars>>

\* An operator changes, deactivates or activates a route.
Change(b) ==
    /\ ~frozen
    /\ \E route \in Route :
           /\ route # table[b]
           /\ table' = [table EXCEPT ![b] = route]
           /\ history' = [history EXCEPT
                  ![b] = @ \cup {c \in {route.content} : route.active}]
    /\ UNCHANGED <<replica, cache, pc, bank, got, outcome, frozen>>

Replicate(b) ==
    /\ replica[b] # table[b]
    /\ replica' = [replica EXCEPT ![b] = table[b]]
    /\ UNCHANGED <<table, cache, pc, bank, got, outcome, frozen, history>>

Freeze ==
    /\ ~frozen
    /\ frozen' = TRUE
    /\ UNCHANGED <<table, replica, cache, pc, bank, got, outcome, history>>

\* A lookup runs from one request to the next.
Proceed(r) == Hit(r) \/ Miss(r) \/ Read(r) \/ WriteCache(r)

Next ==
    \/ \E r \in Reqs : \/ Receive(r) \/ UnknownBank(r)
                       \/ Proceed(r) \/ LookupFails(r)
    \/ \E b \in Banks : Expire(b) \/ Change(b) \/ Replicate(b)
    \/ Freeze
    \/ Crash

Spec == Init /\ [][Next]_vars

\* Threads run, TTLs pass, replicas catch up.
Fairness ==
    /\ \A r \in Reqs  : WF_vars(Proceed(r))
    /\ \A b \in Banks : WF_vars(Expire(b)) /\ WF_vars(Replicate(b))

FairSpec == Spec /\ Fairness

----------------------------------------------------------------------------
\* What is cached, carried or readable as active has been in the table.
RoutesFromTable ==
    /\ \A b \in Banks :
           /\ Cached(b) => cache[b].content \in history[b]
           /\ \A route \in Readable(b) : route.active => route.content \in history[b]
    /\ \A r \in Reqs : pc[r] = "set" => got[r] \in history[bank[r]]

\* A lookup is never routed to endpoints the bank never had, active, in the
\* table, from the cache or the table, across expiry, overwriting SETEXes and
\* deactivation (routing_service.py:88-129).
ServedWasActive ==
    \A r \in Reqs : outcome[r] \in Served => got[r] \in history[bank[r]]

LookupInv == TypeOK /\ RoutesFromTable /\ ServedWasActive

Current(b, content) == table[b].active /\ content = table[b].content

\* Once the routes stay as they are, stale entries leave the cache and no
\* lookup that was under way brings one back.
StaleRoutesDrain ==
    frozen ~> [](\A b \in Banks : Cached(b) => Current(b, cache[b].content))

\* A bank's last change has reached every place a stale route could come from:
\* the replica, the cache and the lookups on their way to SETEX.
Settled(b) ==
    /\ frozen
    /\ replica[b] = table[b]
    /\ Cached(b) => Current(b, cache[b].content)
    /\ \A r \in Reqs : pc[r] = "set" /\ bank[r] = b => Current(b, got[r])

\* Then nothing brings a stale route back: the answers from the cache are right
\* for good (routing_service.py:88-129).
SettledForGood == \A b \in Banks : [](Settled(b) => []Settled(b))
============================================================================
