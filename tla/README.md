# A TLA+ model of IBTS

TLA+ modules, TLC configurations and TLAPS proofs about the instant payment
switch of this repository: five FastAPI services in Python that take a payment
from a client to a bank, once.

- [The system](#the-system): its parts, their state, how they interact
- [Modules](#modules): which module models what, and how it corresponds to the code
- [Runs](#runs): what TLC checks, with which bounds, and what it shows
- [Where the code and its documentation disagree](#where-the-code-and-its-documentation-disagree)
- [Proofs](#proofs): what holds for every value of the constants, and why
- [Fairness](#fairness), [bounds](#bounds), [what is not modelled](#what-is-not-modelled)
- [Plan](#plan): what comes next

## The system

    client -> api-gateway -> payment-switch -> idempotency-guard   (check, complete)
                                            -> payment-router      (resolve)
                                            -> bank-adapter -> bank, primary or fallback
                                            -> SQS                 (settlement event)
    client -> payment-router /payment/initiate -> bank-adapter -> bank

Services talk over HTTP and share no memory. Each runs as one replica with one
worker (`.k8s/*.yaml`, `replicas: 1`) and is restarted when its liveness probe
fails, so a crash between any two steps is real and the state that survives it is
what is in DynamoDB, Redis and SQS.

| component | state | operations | what makes it hard | what makes it correct |
|---|---|---|---|---|
| idempotency-guard | a DynamoDB item per key: PROCESSING, SUCCESS, FAILED, a payload, a time to live | `/check`, `/complete` | synchronous handlers in threads interleave at every DynamoDB request; lost acknowledgements; items expire under a running call | one NEW per life of a record; a replay is the stored result |
| payment-switch | `payment_transactions`: INITIATED, PROCESSING, SUCCESS, FAILED; settlement tasks in memory | `POST /initiate`, `GET /{txn_id}` | async handlers interleave at four awaited calls; every call has a timeout and the callee goes on; scans are eventually consistent; restarts | a retry never debits again; records move forward; settlement only for what was debited; every request ends |
| bank-adapter | a registry with a pybreaker per bank and a state gauge, in memory | `/send`, `/debug/breakers/{bank}/reset` | two POSTs, either of which may have debited when it is given up; a breaker shared by concurrent sends; a reset in a thread takes it away from under them | SUCCESS implies a debit; a second POST only after a first in doubt; a breaker trips for its own sends' failures and its gauge tells so |
| payment-router | Redis entries with a TTL; the routing table | `/resolve`, `/payment/initiate`, creating and seeding the table | cache-aside lookups interleave; late SETEX; eventually consistent reads; several first requests; a payment without guard or record, whose handler holds the event loop | a served route is one the bank had; a payment goes where its bank was; stale entries drain; seeding overwrites each item once at most |
| api-gateway | Redis sorted sets per IP and VPA; a gauge and a counter in memory | `POST /payments`, `GET /payments/{id}` | time stamps are taken before the awaited transaction | no more than the limit in a window; a payment passes both checks; gauge and counter are right |
| shared/metrics/circuit_breaker.py | state, counters, opening time, in memory | `protect`, `force_open`, `force_close` | outcomes are registered in another state than the call was admitted in | it always recovers, and a recovery is earned |

The breaker in `shared/` is a class of its own that no service uses at present
(bank-adapter uses pybreaker); it is modelled as the library component it is.

Some files of this commit begin with a line of stray characters
(`idempotency-guard/app/main.py:1`, `config.py:2`, `service.py:1`,
`payment-router/app/config.py:1`, `repository/routing_repository.py:1`). The
models read the files without these lines.

## Modules

| module | models | extends or instantiates |
|---|---|---|
| `IdempotencyRegistry` | what the guard promises: an atomic claim, repeat, settle and lapse | |
| `IdempotencyGuard` | `/check` request by request, `/complete`, TTL, restarts | refines `IdempotencyRegistry` |
| `AdapterContract` | what bank-adapter and the bank promise a caller | |
| `PaymentSwitch` | `initiate_payment` from await to await | composed of `IdempotencyRegistry` and `AdapterContract` |
| `PaymentSystem` | switch, guard and adapter as they are deployed | composed of `PaymentSwitch`, `IdempotencyGuard` and `BankAdapter`; refines `PaymentSwitch` |
| `BankAdapter` | `AdapterService.send`, `_post`, the breaker registry and its reset, the gauge, pybreaker, the bank | refines `AdapterContract` |
| `CircuitBreaker` | `shared/metrics/circuit_breaker.py` | |
| `RouteCache` | `RoutingService.resolve` over Redis and DynamoDB | |
| `RouterPayment` | payment-router's `/payment/initiate` | extends `RouteCache`, composed with `AdapterContract` |
| `RouteSeeding` | `RoutingRepository._init_table` and `_seed` | |
| `RateLimiter` | `MetricsMiddleware.dispatch`, `verify_auth`, `_sliding_check`, `create_payment`, `get_payment`, `proxy_request` | |
| `IdempotencyGuardProofs`, `PaymentSwitchProofs`, `CircuitBreakerProofs`, `BankAdapterProofs`, `RouterPaymentProofs` (of `RouteCache` too), `RouteSeedingProofs`, `RateLimiterProofs`, `PaymentSystemProofs` | theorems | |
| `MC*` | constants for TLC | |

The compositions are assume-guarantee. `PaymentSwitch` runs over two abstract
specifications; `IdempotencyGuard` implements the first and `BankAdapter` the
second, both checked by TLC and proved. `PaymentSystem` puts the three services
themselves together and implements `PaymentSwitch` in turn, so what is proved over the
abstractions holds of the deployed services. `RouterPayment` is the other caller of the
adapter and runs over the same contract. The properties of both callers therefore do
not depend on how the guard serialises its calls, on which endpoint the adapter posts
to, or on what its breakers do.

**IdempotencyGuard.** One element of `Calls` per HTTP request to `/check`. `pc`
names the DynamoDB request a call makes next (`find`, `insert`, `refind`), and
each action is that request with the Python after it: `FindHit`/`FindMiss`
(service.py:13-22), `InsertWins`/`InsertLoses` (store.py:52-71), `Refind`
(service.py:37-46). `InsertUnacknowledged` is a put whose answer is lost: botocore
retries it against the call's own item, or the error reaches the caller. `Expire`
is DynamoDB's TTL. The code writes the attribute `expiresAt` (store.py:58) while
Terraform and README.MD:589 name `expiry_time`; where that holds items never
expire, which is the behaviour of the model without `Expire` steps.

**PaymentSwitch.** One element of `Reqs` per `POST /initiate`; a retry is another
element with the same key, and the record a request writes is named by it. boto3
calls block the event loop, so an action is everything between two awaits, writes
of the table included: `WriteTxn` (87-102), `Resolved` (113-146), `AdapterAnswers`
(197-231), `CompleteReturns` (230-250), and the failure branches `CheckFails`,
`ResolveFails`, `AdapterCallFails`, `CompleteFails`. `AdapterCallFails` covers
lines 154-195: httpx timeouts are no builtin `TimeoutError`, so they end in 502
through line 183 (`payment-switch/tests/test_router_payments.py:238-251` raises a
builtin one by hand). `StoreRaises` lets the statement a handler stands at fail,
applied or not. The guard (`GuardChecks`) and the adapter (`AdapterWorks`) take
their steps whether or not the handler still waits: that is what a timeout is.
`GuardComplete` is `/complete` as the code calls it, with the transaction id for
the key. With `"scan"` in `Faults` the scans may miss a record or show an earlier
state of it. `counted` is the status `payment_timer` counts a payment under
(payment_metrics.py:203-255): every way out of its block is one step of the
handler, an exception counts as FAILED whatever was set before (`TimerRaises`),
and a restart counts nothing.

**BankAdapter.** One element of `Txns` per `/send`, one of `Resets` per debug reset.
`get_breaker` is `Look`, `Make`, `Store`, `Fetch` (breaker_registry.py:12-20). Between
two sends these steps are one, as both run on the event loop (`LoopFree`); the reset
is a synchronous handler in a thread and comes between any two of them
(`ResetFinds`, `ResetDeletes`, and its own look-up). A breaker object is named by the
call that made it: `breakers` is the registry, `held` the object a send looked up at
its start and hands to both POSTs, which may no longer be the registered one. `gauge`
is what the listener and `make_breaker` set, `reporter` remembers for the properties
whose POST set it last since a breaker was made for the bank. `pc` then names the POST under way. `PrimaryReturns` and
`FallbackReturns` are what follows a POST, for each way it may end (`Results`),
including the breaker call `_post` makes *after* it. pybreaker's `call` is two
functions of its state (`CallReturning`, `CallRaising`). A bank may debit at any time
after a POST reached it (`Debit`), also when the adapter has given up. The properties
about what sends owe speak of one debit per endpoint, as each is posted to once.
Two things are said of banks. A parsed answer other than SUCCESS is a refusal to the
code: the transformers make FAILED of `PENDING` and of every status they do not know
(default_transformer.py:22), and `send` posts to the fallback after it. In the model
such a POST (`declined`) may have been debited or may be yet. A status below 500, and
an undelivered POST, is *assumed* never to be debited (`AfterResult`); that is what
the answer CLIENT_ERROR tells callers, and nothing in the code can check it.

**PaymentSystem.** Each service has its own variables, under its own names; the module
says only how they meet. A handler's step of the switch (`SwitchStep`) is that of
`PaymentSwitch`, whose view of the adapter is `AdapterView` of the adapter's own
variables: the adapter gets a request (`Adapter!Send`) exactly when that step shows the
phase "sent", which is the step that calls it. `GuardStep` is the guard's own `CallStep`
of a check the switch has sent; an item expires only when none of the payments granted
its key is under way (24 h against seconds). `/complete` stays inside `CompleteReturns`:
it is one conditional update, under a key no item has. `AdapterStep` is everything else
the adapter and the banks do. The three pods restart independently.

**CircuitBreaker.** Admission and registration are atomic under the lock; any
number of callers is in the body in between. For the properties only, `okSince` counts
successes of the current recovery, `bankUp` says that the bank has recovered, so that no
call made from then on fails, and `early` is the calls under way that were made
before: they may still fail, and `ForceOpen` may come, at any time.

**RouteCache, RouteSeeding.** A lookup is a process of its Redis and DynamoDB
requests; `Crash` ends the lookups of a restarted pod and leaves Redis and the table.
Routes are changed by operators (`Change`, and `OperatorPut` as scripts/seed.sh makes
it, of any bank and whether or not it has an item): no service does.
`seeded` and `edited` remember which banks the seeding has put, and which items
are as an operator put them. An item put while the table is ACTIVE and its seeding has not
come to that bank is lost: `put_item` is unconditional (routing_repository.py:98). It
happens once for a bank (`SeedsOverwriteOnce`).
Seeding happens with `ENV=local` only; elsewhere a missing table is an error
(routing_repository.py:81-84). `interrupted` remembers that the request that made
the table ended before its last `put_item`; the code has no trace of it, and no
other request takes over.

**RouterPayment.** One element of `Payments` per `POST /payment/initiate`, each also a
lookup of `RouteCache`; a retry is another element, since nothing in the code
recognises it. The handler is `async` and calls the synchronous `resolve`
(payment_router.py:48), so it holds the event loop from its receipt to its POST
(`OnLoop`, `LoopFree`), while the lookups of `/resolve` go on in threads. `Initiate` and
`Advance` are a step of the lookup and what the handler makes of it (`Continue`): it
goes on, posts the payment, or ends with resolve's exception. `NoVerdict` stands for
the 12 s timeout, a lost connection and an error status of the adapter, which the
handler passes on; `Restart` kills lookups and payments together. The adapter works on
whether or not the handler waits.

**RateLimiter.** A check reads the clock (`Stamp`) and then awaits one Redis
transaction (`Execute`, a call of `Transact`), for as long as it takes. In
`RedisFails` Redis did not run it, or ran it and the answer was lost, which leaves the
stamp in the set. `late` remembers the keys a transaction of which ran later after its
stamp than the second that EXPIRE adds to the window. `Plans` is the keys a request is checked against: the IP,
or the IP and then the payer's VPA. A payment whose body has no VPA, or is no
JSON, is checked against the IP only, as in main.py:143-155; JSON that is no object, or
a client that is gone, ends the request between its checks (`BodyFails`). Around the handlers,
`Receive` and `Finish` are the middleware's `dispatch`: `inflight` and `hits` are
its gauge and its counter of 429s. `Authenticate` may refuse any request.

Each mutant (an operator just before the action it changes, such as
`InsertWithoutCondition`) is a plausible slip in that code. No specification uses
it; it shows that the property it is paired with in `PROJECT.json` can fail.

## Runs

Passing runs, one per question asked of a component:

| run | instance | shows |
|---|---|---|
| `guard_checks` | 3 checks, 2 keys, 2 payloads; crash, expiry, lost answers | one grant per record, a grant has a record behind it, replays equal the stored result; `IInv`, the invariant of the proofs, contains that no fresh payment is refused; the guard implements the registry (`Implements`) |
| `switch_payments` | 2 requests, 2 keys, 1 bank reference, every fault | `IInv`, which contains that SUCCESS and settlement imply a debit, that an open record or an unsettled success has somebody who will attend to it or a named fault that took it, and that duplicate debit alarms are real; answers agree with the table; no record moves back and no final record changes; the payment counters agree with answers and records; every request ends |
| `switch_settles` | 2 requests, 2 keys; only timeouts and errors of the callees | every record gets an outcome, every success its settlement event |
| `system_payments` | a payment and its retry, 1 key, 1 bank, threshold 3; each of the three pods may restart | nothing reaches a bank but by a grant of its key; the debits of a key at the banks belong to one request, two of them only after a primary that remained in doubt; what was answered SUCCESS or settled is debited; the services together implement `PaymentSwitch` |
| `adapter_sends` | 2 sends and 1 reset, 1 bank, threshold 3; restarts | `IInv`; a breaker trips only for the failures of sends that hold it, and the gauge tells the state of the registered breaker from its registration on, whatever resets race with look-ups, unless a send from before a reset set it last; both endpoints debit only after a timeout, a 5xx, an unreadable answer or one other than SUCCESS of the primary; after CLIENT_ERROR nothing was or will be debited; a tripped breaker closes only through an answered probe; every send ends although the bank need not answer; the adapter implements the contract |
| `breaker_recovers` | 3 callers, thresholds 2 | `IInv`, which contains that OPEN always has the time it was opened at; recoveries are not put off and are earned; a recovered bank gets its traffic back for good, although calls made before fail late |
| `routes_served` | 1 lookup, 1 payment, 1 bank, 2 contents; restarts, failing calls, late debits | `RouterInv`; a route served, or posted to, is one the bank had; a payment refused by `resolve` is not debited, one answered SUCCESS is; once routes stay as they are, no stale entry remains or comes back; every payment ends |
| `seeding_first_requests` | 3 requests, 3 routes; crash, failing calls | `IInv`; what an operator has put is overwritten by the first seed of its bank and by nothing else, however many requests initialise the table; a table is completed unless the request that made it was interrupted |
| `limiter_gateway` | 3 requests, an IP (limit 2) and a VPA (limit 1) | `IInv`, which contains that a proxied payment passed both checks and that no window shortened by `Slack` holds more than the limit; no more than the limit in the window before the latest check, both of keys no check of which ran later than `Slack`; rejections have a cause; gauge and counter agree with the requests however they end |

`switch_settles` leaves faults out because its two properties are about what the
code owes when DynamoDB, SQS and the guard's `/complete` work; the two parts that
fail with them are `switch_complete_fails` below and the hazards at sqs.py:30 and
payments.py:137.

`LatestWindowWithinLimit` speaks of the keys that are not in `late`: the set of a key
expires one second after the window (rate_limiter.py:35), so a transaction that Redis runs
more than that second after its stamp may find the set gone and count from zero.
No timeout of the Redis client prevents that, and the run contains it: with three
requests, two of them late, the IP's limit of 2 is exceeded there. What the property says is that
nothing else exceeds it, in whatever order the transactions run.

## Where the code and its documentation disagree

Each of these runs checks one sentence of the documentation or of a comment, and
TLC finds a behaviour of the code that contradicts it.

| run | says | the code |
|---|---|---|
| `switch_complete_fails` | a settlement event is published for a payment (README.MD:158, 596) | when `/complete` fails after SUCCESS the handler ends with 500 before creating the settlement task |
| `switch_result_cached` | "Cache result" (payments.py:230) | the guard is completed under the transaction id, finds no such item and skips; its record stays PROCESSING |
| `adapter_open_traffic` | "Stops traffic to unhealthy bank endpoints" (README.MD:167) | the POST is made whatever the breaker's state |

Modelling met more sentences that the code does not keep. They show in the
behaviours of the models and have no run of their own:

- "original transaction not recoverable" (payments.py:84) is also said to a retry
  that comes between the claim and the record, of a payment that goes on;
- the "Duplicate debit guard" (payments.py:209) is silent when the scan returns the
  handler's own record first (`AdapterAnswers`);
- a request counted as "never reached bank" (shared/metrics/registry.py:249) was
  posted, as the breaker is consulted after the POST;
- "Prevent double debit when a retry happens after timeout" (README.MD:76, 163): the
  adapter's own retry, on the fallback, may debit a second time. Under which answers
  is what `DoubleDebitNeedsDoubt` bounds;
- the breaker state gauge of a bank (shared/metrics/registry.py:221-223, "Breaker
  state") may show an abandoned breaker: a send from before a debug reset
  reports to the breaker it holds, whose listener sets the gauge the new one shares
  (breaker_metrics.py:30). It is right again with the next report of the new one;
- `_STATE_INT` has "half_open" (breaker_metrics.py:17, 41) where pybreaker says
  "half-open": a probe shows as -1 for the moment of the call and no recovery attempt is
  counted. The gauge before and after it is right (`GaugeTellsState`);
- "one request allowed through" (circuit_breaker.py:49, 176): HALF_OPEN admits every
  call (`Probe`);
- "Debug scan - 13 banks seeded" (test-payment-router.ps1:145): a request may use
  the table while another still seeds it (`Describe`, `Lookup`), and an interrupted
  seeding is never completed;
- "payment_timer now preserves UNKNOWN" (payments.py:164): `payment_timer` sets
  FAILED on every exception (payment_metrics.py:239). `CountsMatchAnswers` says what
  that makes of the counters: FAILED there may be a payment the table says succeeded;
- "Requests rejected by IP rate limiter" (shared/metrics/registry.py:63): rejections
  by VPA are counted too (`Finish`);
- "Sliding-window", "100 req / 60s" (rate_limiter.py:15-19): transactions out of the
  order of their stamps let one more through. Counted back from the latest check the
  limit holds (`LatestWindowWithinLimit`), and so it does in every window shortened by the
  extra second of EXPIRE (`EveryWindowWithinLimit`), unless Redis runs a transaction later
  than that second. In every window of the full 60 s
  it does not: four requests of one key with limit 2 suffice.

That the switch itself never has two transactions debited for one key is proved
(`RetriesAreSafe`), and of the three services together, with the banks' own debits, too
(`PaymentsAreMadeOnce`); the fallback's second debit is a second debit of one transaction.

## Proofs

All theorems hold for any sets of keys, calls, requests, banks and references, finite
or infinite unless an assumption says so, and are checked by `tlapm`. In every module
the inductive invariant is also an invariant of a run; that of `PaymentSystem` is the
conjunction of its parts' invariants, each of which is checked by the run of its part.

**IdempotencyGuardProofs.** `OneGrantPerRecord` alone is not inductive: a call
about to insert must be known not to have been answered, and a call that lost the
race must have seen a claim. `IInv` adds `AnsweredWhenDone` and `LostRaceSawClaim`.
From it: `AtMostOneGrant`, `GrantsAreBacked`, `ReplaysAreFaithful`,
`DuplicatesAreGenuine`, and
`GuardImplementsRegistry`, where each step of the guard is one step of the registry
or leaves its variables alone.

**PaymentSwitchProofs**, from `IdsDisjoint` (transaction ids are no idempotency
keys), `NoTxnAssumption` and `FaultsAssumption`. The argument runs along the chain

    a debit  =>  the adapter was called  =>  a record past INITIATED
             =>  the guard said NEW  =>  the only grant of the key

whose links are `AdapterFollowsRecord`, `RecordFollowsHandler` and
`GrantsAreExclusive`. `NothingCached` states that `/complete` changes no record
(which is why `IdsDisjoint` is needed), so every answer comes from the table. The
exception is a key that lapsed, as the properties say. These parts are `CoreInv`, which is
inductive. Results: `ExactlyOneExecution`, `RetriesAreSafe`, `DebitsAreRecorded`,
`SettlementIsSound`, `AnswersAreTrue`, `CountsAreTrue`, and the action property
`RecordsAdvance`, all from `RecordStep`, which lists what a step may do to a record.

Two more results are inductive relative to `CoreInv`, and `IInv` is the conjunction.
`NothingIsForgotten`: an open record has a handler that will close it, a success its
event or somebody who will emit it, and where neither is true, a fault the property
names took them. That is the safety half of `BooksClose` and
`SettlementFollowsSuccess`: without those faults, all that is left to fairness is that a
handler which is there goes on.
`AlarmsAreReal`: the duplicate debit alarm reads the first record of a scan, which may
be stale or the handler's own; a reference is only written with a final state
(`ReferencesAreFinal`) and final records never change, so whoever the alarm is raised
for does share its reference with another transaction.

**PaymentSystemProofs**, from the assumptions of the parts: request ids are no keys
(`IdsDisjoint`) and no reset calls, and the threshold is positive. The module
instantiates the proof modules of its parts, so their lemmas are at hand as `Guard!X`,
`Adapter!X`, `Switch!X`. `GuardComposes` and `AdapterComposes` show that no step of one
service does to another what that one's module does not allow, so the parts' invariants
hold in the composition. `SystemImplementsSwitch` then takes the three kinds of steps one
by one: a handler's step is that of the switch, a guard's step is one step of the
registry (`GuardStepOfSwitch`, from `CallAnswers` of the guard's proofs) or none, an
adapter's is one of the contract (`AdapterStepOfSwitch`, from `ContractStep`) or none. Every
theorem about the switch therefore holds of the services; `SwitchPromisesHold` lists what clients
and operators are told, and the others are in `SystemInvariant`. What only the
composition can say is about the banks' own debits: `OnlyGrantedArePosted`,
`PaymentsAreMadeOnce` (with `DoubleDebitIsDoubtful` of the adapter for the second debit)
and `SuccessesArePaid`.

**CircuitBreakerProofs**, from `ThresholdsAssumption`: `IInv` ties the opening time
to OPEN, the counters to their thresholds and the success counter to the current
recovery; `OpenAlwaysTimed`, `ThresholdsAct`, `RecoveryStaysDue` and
`RecoveriesAreEarned` follow. `RecoveryTakenBackOncePerCall` orders the states of a breaker
whose bank has recovered (`Progress`: OPEN, HALF_OPEN with each success that counts, CLOSED)
and shows that a step goes down only if it is `ForceOpen` or ends a call made before the
recovery (`early`), of which there are only ever fewer. So late failures do take the breaker
back, each once; with finitely many callers only finitely often. Liveness is left with the
steps that go up.

**BankAdapterProofs**, from `FailMaxAssumption` (the threshold is positive) and
`CallsAssumption` (sends and resets are different calls). `IInv` has five parts beside
the types and the gauge: `InOrder`, what a POST's place in its send says about its result and about
the fallback; `ReplyTrue`; `Heard`, that a reply comes after every POST has ended and
passes a success on; `BreakersOwned`, that a breaker serves the bank it was made
for and is fresh until it is made; and `CountsEarned`, that a breaker's count is
covered by failures of sends that hold it. `GaugeKept` says that the gauge is as its last
reporter left it, and closed like a breaker just made when there is none. `BreakersOwned` is what survives a reset
that races with look-ups: which breaker is registered is anybody's guess, whose it is
never. `RegisteredFacts` reduces pybreaker's two functions to what the invariant needs.
Results: `BreakersTripForCause`, `GaugeIsRight`, `ClientErrorIsFinal`,
`DoubleDebitIsDoubtful`, `NoVerdictDropped` (a debited payment is reported FAILED only for
want of a verdict or behind an open breaker; it rests on `Heard`), `OnlyProbesClose` and
`AdapterImplementsContract`, where each step of a send is one of `AdapterContract` or a stutter.

**RouterPaymentProofs**, from `PaymentsAssumption` (a payment is a lookup).
`LookupInv` says that whatever is read, cached, replicated or served was in the table as
an active route (`RoutesFromTable`), which makes `RoutesAreGenuine` a theorem of `RouteCache`
alone. `RoutesStaySettled` says when stale routes are gone for good: once a bank's last
change has reached its replica, its cache entry and every lookup about to write one
(`Settled`), no step undoes that, which is the safety half of `StaleRoutesDrain`.
`RouterComposes` shows that the composition implements both its parts, so both
theorems carry over, and `RouterInvariant` adds what relates the parts: a payment at the
adapter was served a route, one that resolves has been told nothing, and one payment at
most is on the event loop. Results: `PaymentsGoWhereActive`, `RouterAnswersAreTrue`.

**RouteSeedingProofs**, from `SeedsAssumption`. `SeedsOverwriteOnce` needs that no bank is
put twice by the seeding, whoever initialises the table. `OneMaker` says that one request at
most creates and seeds; `SeededSoFar` that what has been put is exactly the seeds before its
next one, so that one is a bank that had not been put; `MakerRemains` that an incomplete
table has that request at work, unless it was interrupted. Results: `SeedsOverwriteAtMostOnce`,
`SomebodyCompletes`.

**RateLimiterProofs**, from `LimiterAssumption` (finitely many requests, non-empty plans,
positive limits); nothing is assumed of delays. A transaction counts the members of a set that
removal and expiry have thinned, so the argument is about what was forgotten:
`ForgottenIsPast` says that an admitted stamp that is no longer in the set is a window
older than some attempt, or so old that no check still under way can need it, the second being
where it matters that the key is timely (`Timely`): its set has lived for `Slack` longer
than the window, and the check runs within `Slack` of its stamp. `WindowsWithinLimit` then bounds every window that ends
at the latest attempt. `EveryWindowWithinLimit` bounds the others:
what shares a shortened window with the stamp being admitted no attempt has removed, none
being later than that stamp by more than `Slack`, so the transaction counts it. Results: `LimitHolds`, `EveryWindowHolds`, `RejectionsHaveCause`,
`ProxiedHavePassed`, `MetricsAreRight`.

Only model-checked: the liveness properties (`EveryRequestEnds`, `BooksClose`,
`SettlementFollowsSuccess`, `EverySendEnds`, `RecoveredBankCloses`, `StaleRoutesDrain`,
`EveryPaymentEnds`, `SeedingCompletes`): fairness and ENABLED are out of the prover's reach.
Of five of them the safety half is proved, as said above: `NothingIsForgotten` for two,
`RecoveryTakenBackOncePerCall` and `RoutesStaySettled`; `SomebodyCompletes` is that of
`SeedingCompletes`. `OpenStopsTraffic` and the other sentences of the documentation are
refuted, not proved.

## Fairness

- `PaymentSwitch`: weak fairness of `HandlerProceeds(r)` and `Emit(r)`. Every await
  of the handler is bounded by an httpx timeout (3 s, 3 s, 10 s, 3 s), whose action
  is enabled all the while, and the event loop and thread pool run what is ready.
  Nothing is assumed of clients, guard, adapter and bank, nor that statements fail.
- `BankAdapter`: weak fairness of `Proceeds(t)`: the event loop runs what is ready and
  httpx bounds both POSTs (3 s, 5 s). Banks owe nothing, nobody has to reset.
- `CircuitBreaker`: the timeout passes, callers come back, and not every call of a
  healthy bank is cancelled (strong fairness of `OnSuccess`, which a caller leaves and
  reaches again and again). Nobody has to use the manual helpers; that operators stop
  forcing the breaker open one day is the hypothesis of `RecoveredBankCloses`, without
  which it fails. Calls made before the recovery may fail at any time, or never end.
- `RouterPayment`: the lookup on the event loop goes on (`Advance`, failing or not), and
  httpx ends the POST after 12 s (`Answered` or `NoVerdict`). This assumes that Redis and
  DynamoDB answer or fail: boto3 bounds its calls, the Redis client only the connecting,
  and an unanswered GET would hold the event loop. The adapter owes no answer.
- `RouteCache`, `RouteSeeding`: threads run, TTLs pass, replicas catch up, DynamoDB
  finishes a table it creates.

## Bounds

Two or three requests, calls, sends or callers suffice for what the properties tell
apart: a winner, a loser of the race and a late retry; two owners of one reference;
two outcomes that arrive in a state of a third. Two keys or banks show that one does
not disturb the other. `FailMax` is the deployed 3, the thresholds of `CircuitBreaker` are 2, so that a
counter has a value strictly between none and enough. `MaxDebits` (2) is one debit
per endpoint. The limiter's window of 3 with a slack of 1 and a clock to 6 (`MaxTime`) lets a key fill,
expire and fill again, transactions run within the slack and beyond it, and a
shortened window hold more than one stamp. Where requests are finite
the system may stop, and the configuration says so.
Requests are permuted as symmetry in `limiter_gateway`, where they are only compared for
equality; no run with a temporal property uses symmetry.
`system_payments` has one key and one bank, as the question is what the services do to one
payment: two requests are the first and its retry, a check of three requests and a send of
two POSTs interleave with both (1.4 million states). Its only fault is the restart, which
each service has on its own: the other faults are those of `switch_payments`, where the
callees answer anything their contracts allow. Resets are left to `adapter_sends`.
`adapter_sends` has two sends and a reset, so that a send from before the reset and one
from after it report at the same time; two sends make four POSTs, enough to reach the
threshold and fail a probe. It has one bank: a breaker belongs to one bank (`BreakersOwned`).
`routes_served` has one bank, as every action of a lookup reads and writes the entries of
its own bank only, one lookup in a thread beside one payment on the event loop, and two
contents for a route before and after a change. With one payment `OneOnLoop` says nothing;
`RouterInvariant` proves it for any number.

## What is not modelled

- how a token is decoded, telemetry, dashboards, Terraform, Kubernetes, CI:
  stateless or without effect on the payment;
- the contents of the VPA and IFSC dictionaries and the field names of the banks' formats;
- JSON answers of a bank that are no object (an exception in the transformer);
- `RateLimitMiddleware` and `AuthMiddleware`, which no application installs;
- counters that nothing reads together with other state: idempotency checks, bank
  requests, the hit ratio of the route cache, DynamoDB and Redis operations;
- consumers of the settlement queue: the repository has none.

## Plan

The order is that of importance: what may debit a customer twice came first.

1. guard, registry and their proofs (done);
2. payment-switch over registry and contract, proofs (done);
3. bank-adapter with its registry, reset and gauge against the contract, proofs (done);
4. circuit breaker and proofs (done);
5. route cache, seeding and proofs (done);
6. rate limiter and proofs (done);
7. payment-router's `/payment/initiate` over the route cache and the contract, proofs
   (done);
8. switch, guard and adapter as deployed, and that they implement the switch over the
   abstractions (done);
9. the safety halves of the liveness properties (done for five); next, a measure that
   every step of a handler or a send lowers and no other step raises, which is the safety
   half of `EveryRequestEnds`, `EverySendEnds` and `EveryPaymentEnds`;
10. `RouterPayment` over `BankAdapter` itself, as 8 does it for the switch. The proofs of
   `AdapterContract` and of `RouterComposes` already carry the argument.

The gateway's 10 s timeout over the switch is not a module: it adds no behaviour to
`PaymentSwitch`, whose clients already retry at any moment.
