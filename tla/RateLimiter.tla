---------------------------- MODULE RateLimiter ----------------------------
(***************************************************************************)
(* api-gateway: the sliding-window limiter (app/rate_limiter.py) and the   *)
(* way create_payment and get_payment use it (app/main.py).  A request is  *)
(* authenticated, checked against its IP, a payment then against its payer *)
(* VPA, and only then proxied to payment-switch.  The metrics middleware   *)
(* around the handlers counts what is under way and what is turned away.   *)
(*                                                                         *)
(* A check reads the clock and then awaits one Redis transaction           *)
(* (ZREMRANGEBYSCORE, ZADD, ZCARD, EXPIRE).  Handlers interleave at that   *)
(* await, so transactions may run in another order than their time stamps. *)
(* A sorted set is the set of its members: member and score are the stamp. *)
(***************************************************************************)
EXTENDS Naturals, Sequences, FiniteSets

CONSTANTS
    Reqs,
    Keys,       \* rl:ip:... and rl:vpa:...
    Plans,      \* the keys a request is checked against, in order
    Limit,      \* RL_PER_IP_REQUESTS, RL_PER_VPA_REQUESTS
    Window,     \* RL_WINDOW_SECONDS
    Slack,      \* the second EXPIRE adds to the window
    MaxTime     \* bound on the clock

ASSUME LimiterAssumption ==
    /\ IsFiniteSet(Reqs)
    /\ Plans \subseteq Seq(Keys) \ {<<>>}
    /\ Limit \in [Keys -> Nat \ {0}]
    /\ Window \in Nat \ {0}
    /\ Slack \in Nat
    /\ MaxTime \in Nat \ {0}

VARIABLES
    now,        \* time.time()
    plan,       \* the keys of each request
    pc,         \* where each request is
    step,       \* which of its keys it is checked against
    stamp,      \* the time it read for that check
    zset,       \* Redis: the stamps under each key
    expires,    \* Redis: when each key expires
    attempts,   \* history: the stamps of all checks of a key
    admitted,   \* history: the stamps of those that were allowed
    late,       \* history: keys Redis ran a check of later than Slack allows for
    inflight,   \* HTTP_REQUESTS_IN_FLIGHT
    hits        \* RATE_LIMIT_HITS_TOTAL

requestVars == <<plan, step, stamp>>
limiterVars == <<zset, expires, attempts, admitted, late>>
metricVars  == <<inflight, hits>>
vars == <<now, pc, requestVars, limiterVars, metricVars>>

Time   == 0 .. MaxTime
Active == {"received", "authorized", "checking", "allowed", "proxied"}
PC     == Active \cup {"idle", "unauthorized", "rejected", "answered", "error"}

TypeOK ==
    /\ now      \in Time
    /\ plan     \in [Reqs -> Plans]
    /\ pc       \in [Reqs -> PC]
    /\ step     \in [Reqs -> Nat]
    /\ \A r \in Reqs : step[r] \in 1 .. Len(plan[r])
    /\ stamp    \in [Reqs -> Time]
    /\ zset     \in [Keys -> SUBSET Time]
    /\ expires  \in [Keys -> 0 .. MaxTime + Window + Slack]
    /\ attempts \in [Keys -> SUBSET Time]
    /\ admitted \in [Keys -> SUBSET Time]
    /\ late     \in SUBSET Keys
    /\ inflight \in 0 .. Cardinality(Reqs)
    /\ hits     \in 0 .. Cardinality(Reqs)

Init ==
    /\ now      = 1
    /\ plan     \in [Reqs -> Plans]
    /\ pc       = [r \in Reqs |-> "idle"]
    /\ step     = [r \in Reqs |-> 1]
    /\ stamp    = [r \in Reqs |-> 0]
    /\ zset     = [k \in Keys |-> {}]
    /\ expires  = [k \in Keys |-> 0]
    /\ attempts = [k \in Keys |-> {}]
    /\ admitted = [k \in Keys |-> {}]
    /\ late     = {}
    /\ inflight = 0
    /\ hits     = 0

KeyOf(r) == plan[r][step[r]]
Goto(r, label) == pc' = [pc EXCEPT ![r] = label]

\* The stamps later than a window before t.
Since(stamps, t) == {s \in stamps : s + Window > t}

\* The finally clause of MetricsMiddleware.dispatch, on every way out.
Finish(r, label) ==
    /\ Goto(r, label)
    /\ inflight' = inflight - 1
    /\ hits' = IF label = "rejected" THEN hits + 1 ELSE hits

----------------------------------------------------------------------------
Receive(r) ==
    /\ pc[r] = "idle"
    /\ inflight' = inflight + 1
    /\ Goto(r, "received")
    /\ UNCHANGED <<now, requestVars, limiterVars, hits>>

\* verify_auth: a key or a token that is good, or HTTP 401.
Authenticate(r) ==
    /\ pc[r] = "received"
    /\ \/ Goto(r, "authorized") /\ UNCHANGED metricVars
       \/ Finish(r, "unauthorized")
    /\ UNCHANGED <<now, requestVars, limiterVars>>

\* A check begins: now = time.time().  The clock is fine enough to give two
\* checks of one gateway process different times.
Stamp(r) ==
    /\ \/ pc[r] = "authorized" /\ UNCHANGED step
       \/ /\ pc[r] = "allowed"
          /\ step[r] < Len(plan[r])
          /\ step' = [step EXCEPT ![r] = @ + 1]
    /\ \A q \in Reqs : stamp[q] # now
    /\ \A k \in Keys : now \notin attempts[k]
    /\ stamp' = [stamp EXCEPT ![r] = now]
    /\ Goto(r, "checking")
    /\ UNCHANGED <<now, plan, limiterVars, metricVars>>

\* Redis runs the transaction: whatever becomes of the request, its stamp is in
\* the set, which lives for another window.  No timeout of the client bounds how
\* long after the clock was read that may be.
Apply(r, members) ==
    /\ zset' = [zset EXCEPT ![KeyOf(r)] = members]
    /\ expires' = [expires EXCEPT ![KeyOf(r)] = now + Window + Slack]
    /\ attempts' = [attempts EXCEPT ![KeyOf(r)] = @ \cup {stamp[r]}]
    /\ late' = IF now > stamp[r] + Slack THEN late \cup {KeyOf(r)} ELSE late

\* ZCARD counts the members, the request's own stamp among them.
Transact(r, members, limit) ==
    LET allowed == Cardinality(members) <= limit IN
    /\ pc[r] = "checking"
    /\ Apply(r, members)
    /\ admitted' =
           [admitted EXCEPT ![KeyOf(r)] = IF allowed THEN @ \cup {stamp[r]} ELSE @]
    /\ IF allowed THEN Goto(r, "allowed") /\ UNCHANGED metricVars
                  ELSE Finish(r, "rejected")
    /\ UNCHANGED <<now, requestVars>>

\* The set after ZREMRANGEBYSCORE and ZADD.
Members(r) == Since(zset[KeyOf(r)], stamp[r]) \cup {stamp[r]}

\* Old stamps are never removed.
ExecuteWithoutRemoval(r) ==
    Transact(r, zset[KeyOf(r)] \cup {stamp[r]}, Limit[KeyOf(r)])

\* The count before this request is compared with the limit.
ExecuteOffByOne(r) ==
    Transact(r, Members(r), Limit[KeyOf(r)] + 1)

\* The transaction of _sliding_check: the request's own stamp is added before
\* the count and stays when the request is rejected.
Execute(r) == Transact(r, Members(r), Limit[KeyOf(r)])

\* Redis did not get the transaction, or ran it and its answer was lost.
Unanswered(r) ==
    /\ pc[r] = "checking"
    /\ \/ UNCHANGED limiterVars
       \/ Apply(r, Members(r)) /\ UNCHANGED admitted
    /\ UNCHANGED <<now, requestVars>>

\* The gauge is lowered after the response only, not in a finally clause.
RedisFailsUncounted(r) == Unanswered(r) /\ Goto(r, "error") /\ UNCHANGED metricVars

\* Redis does not answer: no handler catches it, HTTP 500.
RedisFails(r) == Unanswered(r) /\ Finish(r, "error")

\* Between its two checks a payment's body cannot be read: the client is gone, or
\* what it sent is JSON but no object, which the except clause does not name.
BodyFails(r) ==
    /\ pc[r] = "allowed"
    /\ step[r] = 1
    /\ Finish(r, "error")
    /\ UNCHANGED <<now, requestVars, limiterVars>>

\* Proxied after its first check.
ProxyEarly(r) ==
    /\ pc[r] = "allowed"
    /\ Goto(r, "proxied")
    /\ UNCHANGED <<now, requestVars, limiterVars, metricVars>>

\* Every check passed: proxy_request.
Proxy(r) ==
    /\ pc[r] = "allowed"
    /\ step[r] = Len(plan[r])
    /\ Goto(r, "proxied")
    /\ UNCHANGED <<now, requestVars, limiterVars, metricVars>>

\* payment-switch answers, whatever its status code, or proxy_request gives up
\* after UPSTREAM_TIMEOUT (504), cannot connect (502) or loses the connection.
ProxyEnds(r) ==
    /\ pc[r] = "proxied"
    /\ \E label \in {"answered", "error"} : Finish(r, label)
    /\ UNCHANGED <<now, requestVars, limiterVars>>

\* Time passes, and Redis drops the keys that expire.
Tick ==
    /\ now < MaxTime
    /\ now' = now + 1
    /\ zset' = [k \in Keys |-> IF expires[k] <= now' THEN {} ELSE zset[k]]
    /\ UNCHANGED <<pc, requestVars, expires, attempts, admitted, late, metricVars>>

Next ==
    \/ \E r \in Reqs : \/ Receive(r) \/ Authenticate(r)
                       \/ Stamp(r) \/ Execute(r) \/ RedisFails(r)
                       \/ BodyFails(r) \/ Proxy(r) \/ ProxyEnds(r)
    \/ Tick

Spec == Init /\ [][Next]_vars

----------------------------------------------------------------------------
\* Stamps are read before their transactions run.
StampsInTime ==
    /\ \A r \in Reqs : stamp[r] <= now
    /\ \A k \in Keys :
           /\ zset[k] \cup admitted[k] \subseteq attempts[k]
           /\ \A s \in attempts[k] : s <= now
           /\ \A s \in zset[k] : s + Window + Slack <= expires[k]

\* The keys whose checks Redis has all run within Slack of their stamps, which
\* is what the second that EXPIRE adds to the window allows for.
Timely == Keys \ late

\* An admitted stamp that is not counted any more is out of every window that
\* may still be counted: it is older than an attempt's, or than any to come that
\* leaves the key timely.
ForgottenIsPast ==
    \A k \in Timely : \A s \in admitted[k] \ zset[k] :
        \/ \E t \in attempts[k] : s + Window <= t
        \/ s + Window + Slack <= now

\* No window that ends with or after the latest attempt holds more admitted
\* stamps than the limit.
WindowsWithinLimit ==
    \A k \in Timely : \A t \in Time :
        (\A s \in attempts[k] : s <= t) =>
            Cardinality(Since(admitted[k], t)) <= Limit[k]

\* A window shortened by the slack holds no more admitted stamps of a timely key
\* than the limit, wherever it ends: what runs late is counted with all that such
\* a window of its own shares with it (rate_limiter.py:26-41).
EveryWindowWithinLimit ==
    \A k \in Timely : \A t \in Time :
        Cardinality({s \in admitted[k] : s <= t /\ s + Window > t + Slack})
            <= Limit[k]

Latest(k) == {t \in attempts[k] : \A s \in attempts[k] : s <= t}

\* Counted back from the latest check, no key has let more than its limit
\* through, in whatever order the transactions ran (rate_limiter.py:26-41),
\* unless one ran so late that the key's set may have expired as a whole with
\* stamps it had to count: a delay beyond the second EXPIRE adds to the window is
\* the only thing that breaks the limit.
LatestWindowWithinLimit ==
    \A k \in Timely : \A t \in Latest(k) :
        Cardinality(Since(admitted[k], t)) <= Limit[k]

\* Nobody is turned away who made, together with everybody under the same key,
\* no more than the limit of attempts in the window before or since.
RejectedForCause ==
    \A r \in Reqs :
        pc[r] = "rejected" =>
            Cardinality(Since(attempts[KeyOf(r)], stamp[r])) > Limit[KeyOf(r)]

Passed(r, n) ==
    \A i \in 1 .. n : \E s \in admitted[plan[r][i]] : s <= stamp[r]

\* What reaches payment-switch was let through by every key it belongs to, so
\* a payment cannot pass on its IP alone (main.py:139-161).
ProxiedPassedAll ==
    \A r \in Reqs :
        pc[r] \in {"proxied", "answered"} => Passed(r, Len(plan[r]))

ChecksPassed ==
    \A r \in Reqs :
        /\ pc[r] \in {"idle", "received", "authorized"} => step[r] = 1
        /\ pc[r] = "checking" => Passed(r, step[r] - 1)
        /\ pc[r] \in {"allowed", "proxied", "answered"} => Passed(r, step[r])
        /\ pc[r] \in {"proxied", "answered"} => step[r] = Len(plan[r])

\* However a request ends, the gauge goes back down, and the alert counter
\* rises once for each request turned away, by its IP or by its VPA
\* (middleware.py:60-98 around main.py:134-201).
MetricsMatchRequests ==
    /\ inflight = Cardinality({r \in Reqs : pc[r] \in Active})
    /\ hits = Cardinality({r \in Reqs : pc[r] = "rejected"})

IInv ==
    /\ TypeOK
    /\ StampsInTime
    /\ ForgottenIsPast
    /\ WindowsWithinLimit
    /\ EveryWindowWithinLimit
    /\ RejectedForCause
    /\ ChecksPassed
    /\ MetricsMatchRequests
============================================================================
