---------------------------- MODULE BankAdapter ----------------------------
(***************************************************************************)
(* bank-adapter (bank-adapter/app): AdapterService.send posts a payment to *)
(* the bank's primary endpoint and, when that fails, to the fallback, and  *)
(* tells a pybreaker.CircuitBreaker per bank how each POST went.           *)
(*                                                                         *)
(* Sends run on the event loop: the two POSTs are their only awaits, and   *)
(* sends interleave there.  _post consults the breaker only AFTER the      *)
(* POST: breaker.call(lambda: None) for an answer, breaker.call of a       *)
(* function that raises for a failure.  The debug reset is a synchronous   *)
(* handler: it runs in a thread, between any two statements of a send that *)
(* looks its breaker up, and takes the breaker away from sends under way.  *)
(*                                                                         *)
(* External, modelled from their use in src/: the banks, which may debit   *)
(* any time after a POST reached them, and pybreaker 1.x.                  *)
(***************************************************************************)
EXTENDS Naturals, FiniteSets

CONSTANTS
    Txns,       \* transactions, one /send call each
    Resets,     \* calls of /debug/breakers/{bank_code}/reset
    Banks,      \* bank codes
    RRNs, NoRRN,
    NoBreaker,
    FailMax     \* settings.breaker_fail_max

ASSUME FailMaxAssumption == FailMax \in Nat \ {0}
ASSUME CallsAssumption == Txns \cap Resets = {} /\ NoBreaker \notin Txns \cup Resets

\* Whoever may create a breaker; a breaker object is named by its creator.
Calls == Txns \cup Resets

VARIABLES
    bankOf,     \* AdapterRequest.bankCode, or the bank_code of a reset
    pc,         \* where each call is
    reply,      \* the AdapterResponse of each send
    bank,       \* what became of each POST at the bank's side
    seen,       \* history: how each POST ended for the adapter
    breakers,   \* _breakers: the breaker registered for each bank
    held,       \* the breaker object each send goes on using
    breaker,    \* the state of each breaker object
    gauge,      \* CIRCUIT_BREAKER_STATE, which the listener sets
    reporter    \* history: whose POST set the gauge of each bank last, since
                \* a breaker was last made for it

sendVars    == <<reply, bank, seen>>
breakerVars == <<breakers, held, breaker, gauge, reporter>>
vars == <<bankOf, pc, sendVars, breakerVars>>

Endpoints == {"primary", "fallback"}
Looking   == {"making", "storing", "fetching"}
PC        == Endpoints \cup Looking
                \cup {"idle", "sent", "deleting", "deleted",
                      "replied", "raised", "killed"}
AtBank    == {"none", "posted", "debited", "refused"}

\* How a POST may end: a parsed answer, which the transformers take for SUCCESS
\* or for FAILED (declined: a refusal, but also pending and whatever they do not
\* know), a 200 that is not JSON (garbled), the httpx timeout or a 5xx
\* (no_verdict), no connection, a status below 500 (client_error), any other
\* httpx error such as a connection broken while reading.
Results == {"success", "declined", "garbled", "no_verdict", "unreachable",
            "client_error", "broken"}
Answers  == {"success", "declined"}
Failures == {"no_verdict", "unreachable", "client_error"}

\* The results that send the payment to the fallback although the bank may have
\* debited it, or may debit it yet.
Doubtful == {"declined", "garbled", "no_verdict"}

Codes == {"none", "CIRCUIT_OPEN", "CLIENT_ERROR", "BANK_UNREACHABLE"}
Response == [status : {"none", "SUCCESS", "FAILED"}, code : Codes,
             rrn : RRNs \cup {NoRRN}]
NoResponse == [status |-> "none", code |-> "none", rrn |-> NoRRN]

\* "ripe" is open with the reset timeout passed: the next call is the probe.
Breaker == [state : {"closed", "open", "ripe"}, count : 0 .. FailMax]
FreshBreaker == [state |-> "closed", count |-> 0]

TypeOK ==
    /\ bankOf   \in [Calls -> Banks]
    /\ pc       \in [Calls -> PC]
    /\ reply    \in [Txns -> Response]
    /\ bank     \in [Txns -> [Endpoints -> AtBank]]
    /\ seen     \in [Txns -> [Endpoints -> Results \cup {"none"}]]
    /\ breakers \in [Banks -> Calls \cup {NoBreaker}]
    /\ held     \in [Txns -> Calls \cup {NoBreaker}]
    /\ breaker  \in [Calls -> Breaker]
    /\ gauge    \in [Banks -> {"closed", "open"}]
    /\ reporter \in [Banks -> Calls \cup {NoBreaker}]

Init ==
    /\ bankOf   \in [Calls -> Banks]
    /\ pc       = [c \in Calls |-> "idle"]
    /\ reply    = [t \in Txns |-> NoResponse]
    /\ bank     = [t \in Txns |-> [e \in Endpoints |-> "none"]]
    /\ seen     = [t \in Txns |-> [e \in Endpoints |-> "none"]]
    /\ breakers = [b \in Banks |-> NoBreaker]
    /\ held     = [t \in Txns |-> NoBreaker]
    /\ breaker  = [c \in Calls |-> FreshBreaker]
    /\ gauge    = [b \in Banks |-> "closed"]
    /\ reporter = [b \in Banks |-> NoBreaker]

Goto(c, label) == pc' = [pc EXCEPT ![c] = label]

\* No other send is between two of its awaits.
LoopFree(c) ==
    c \in Txns => \A t \in Txns \ {c} : pc[t] \notin Looking

----------------------------------------------------------------------------
(* pybreaker: CircuitBreaker.call, with the breaker after it, whether it   *)
(* raised CircuitBreakerError, and what IBTSBreakerListener shows of it.   *)

Called(b, raised, shown) == [breaker |-> b, raised |-> raised, shown |-> shown]

\* The function returned: an open breaker raises without calling it, a probe
\* closes the breaker, and a success forgets the failures counted so far.
CallReturning(b) ==
    IF b.state = "open" THEN Called(b, TRUE, "same")
    ELSE Called(FreshBreaker, FALSE, "closed")

\* The function raised: the FailMax-th failure in a row and a failing probe
\* open the breaker and raise CircuitBreakerError for the error.
CallRaising(b) ==
    CASE b.state = "open" -> Called(b, TRUE, "same")
      [] b.state = "closed" /\ b.count + 1 < FailMax ->
             Called([b EXCEPT !.count = @ + 1], FALSE, "same")
      [] OTHER -> Called([state |-> "open", count |-> FailMax], TRUE, "open")

\* Only a refused connection counts as a failure, a timeout as an answer.
RegisteredAnyAnswer(b, result) ==
    IF result = "unreachable" THEN CallRaising(b) ELSE CallReturning(b)

\* _post registers answers and the three failures it catches; a JSON error
\* and any other httpx error pass the breaker by.
Registered(b, result) ==
    CASE result \in Answers  -> CallReturning(b)
      [] result \in Failures -> CallRaising(b)
      [] OTHER               -> Called(b, FALSE, "same")

\* A POST makes breaker c set the gauge of a bank, or leave it.
Shows(b, c, shown) ==
    IF shown = "same" THEN UNCHANGED <<gauge, reporter>>
    ELSE /\ gauge'    = [gauge EXCEPT ![b] = shown]
         /\ reporter' = [reporter EXCEPT ![b] = c]

----------------------------------------------------------------------------
(* breaker_registry.  In get_breaker the breaker may be there, be made and *)
(* stored over another, or be gone when it is read.                        *)

\* reset_breaker, line 26: an unknown bank is left alone.
ResetFinds(r) ==
    /\ pc[r] = "idle"
    /\ Goto(r, IF breakers[bankOf[r]] = NoBreaker THEN "replied" ELSE "deleting")
    /\ UNCHANGED <<bankOf, sendVars, breakerVars>>

\* Line 27: KeyError when another reset was faster.
ResetDeletes(r) ==
    /\ pc[r] = "deleting"
    /\ IF breakers[bankOf[r]] = NoBreaker THEN Goto(r, "raised") ELSE Goto(r, "deleted")
    /\ breakers' = [breakers EXCEPT ![bankOf[r]] = NoBreaker]
    /\ UNCHANGED <<bankOf, sendVars, held, breaker, gauge, reporter>>

\* get_breaker, line 12; for a send it is the first thing its handler does.
Look(c) ==
    /\ pc[c] \in {"sent", "deleted"}
    /\ LoopFree(c)
    /\ Goto(c, IF breakers[bankOf[c]] = NoBreaker THEN "making" ELSE "fetching")
    /\ UNCHANGED <<bankOf, sendVars, breakerVars>>

\* make_breaker leaves the gauge as the last breaker of the bank had it.
MakeUnseeded(c) ==
    /\ pc[c] = "making"
    /\ Goto(c, "storing")
    /\ reporter' = [reporter EXCEPT ![bankOf[c]] = NoBreaker]
    /\ UNCHANGED <<bankOf, sendVars, breakers, held, breaker, gauge>>

\* make_breaker: the gauge of the bank is seeded with the new breaker's state.
Make(c) ==
    /\ pc[c] = "making"
    /\ Goto(c, "storing")
    /\ gauge'    = [gauge EXCEPT ![bankOf[c]] = "closed"]
    /\ reporter' = [reporter EXCEPT ![bankOf[c]] = NoBreaker]
    /\ UNCHANGED <<bankOf, sendVars, breakers, held, breaker>>

\* Line 15: the new breaker is stored, whatever is there by now.
Store(c) ==
    /\ pc[c] = "storing"
    /\ Goto(c, "fetching")
    /\ breakers' = [breakers EXCEPT ![bankOf[c]] = c]
    /\ UNCHANGED <<bankOf, sendVars, held, breaker, gauge, reporter>>

\* Line 20.  A send then posts to the primary endpoint.
Fetch(c) ==
    /\ pc[c] = "fetching"
    /\ UNCHANGED <<bankOf, reply, seen, breakers, breaker, gauge, reporter>>
    /\ \/ /\ breakers[bankOf[c]] = NoBreaker
          /\ Goto(c, "raised")
          /\ UNCHANGED <<bank, held>>
       \/ /\ breakers[bankOf[c]] # NoBreaker
          /\ IF c \in Txns
             THEN /\ Goto(c, "primary")
                  /\ held' = [held EXCEPT ![c] = breakers[bankOf[c]]]
                  /\ bank' = [bank EXCEPT ![c]["primary"] = "posted"]
             ELSE Goto(c, "replied") /\ UNCHANGED <<bank, held>>

----------------------------------------------------------------------------
(* The bank.                                                               *)

\* What a POST that ended with a result may have become at the bank.  A POST
\* that got no final answer may still be under way there.
Consistent(result, at) ==
    CASE result = "success" -> at = "debited"
      [] result \in {"client_error", "unreachable"} -> at = "posted"
      [] OTHER -> at \in {"posted", "debited"}

\* An undelivered POST is never debited, nor, by assumption, one that was
\* answered with a status below 500.
AfterResult(result, at) ==
    IF result \in {"client_error", "unreachable"} THEN "refused"
    ELSE at

Debit(t) ==
    \E e \in Endpoints :
        /\ bank[t][e] = "posted"
        /\ bank' = [bank EXCEPT ![t][e] = "debited"]
        /\ UNCHANGED <<bankOf, pc, reply, seen, breakerVars>>

----------------------------------------------------------------------------
(* AdapterService.send.                                                    *)

\* payment-switch, or payment-router's own /initiate, sends the request.
Send(t) ==
    /\ pc[t] = "idle"
    /\ Goto(t, "sent")
    /\ UNCHANGED <<bankOf, sendVars, breakerVars>>

Reply(t, status, code, rrn) ==
    /\ Goto(t, "replied")
    /\ reply' = [reply EXCEPT ![t] =
                    [status |-> status, code |-> code, rrn |-> rrn]]

\* get_breaker again for each POST.
UsedNow(t) ==
    IF breakers[bankOf[t]] = NoBreaker THEN held[t] ELSE breakers[bankOf[t]]

\* The breaker send looked up at its start is handed to both _post calls.
Used(t) == held[t]

Outcome(t, result) == Registered(breaker[Used(t)], result)

\* What both POSTs have in common: the bank's side, the breaker and its gauge.
Returned(t, e, result) ==
    /\ pc[t] = e
    /\ LoopFree(t)
    /\ Consistent(result, bank[t][e])
    /\ seen'    = [seen EXCEPT ![t][e] = result]
    /\ breaker' = [breaker EXCEPT ![Used(t)] = Outcome(t, result).breaker]
    /\ Shows(bankOf[t], Used(t), Outcome(t, result).shown)
    /\ UNCHANGED <<bankOf, breakers, held>>

BankAfter(t, e, result) ==
    [bank EXCEPT ![t][e] = AfterResult(result, @)]

\* The primary POST ends: a reply, an exception, or the fallback after one of
\* the results it is meant for.
PrimaryEnds(t, result, retried) ==
    LET raised == Outcome(t, result).raised
        after  == BankAfter(t, "primary", result) IN
    /\ Returned(t, "primary", result)
    /\ \/ /\ \/ raised /\ Reply(t, "FAILED", "CIRCUIT_OPEN", NoRRN)
             \/ /\ ~raised /\ result = "success"
                /\ \E rrn \in RRNs \cup {NoRRN} : Reply(t, "SUCCESS", "none", rrn)
             \/ /\ ~raised /\ result = "client_error" /\ result \notin retried
                /\ Reply(t, "FAILED", "CLIENT_ERROR", NoRRN)
             \/ /\ result = "broken"
                /\ Goto(t, "raised")
                /\ UNCHANGED reply
          /\ bank' = after
       \/ /\ ~raised /\ result \in retried
          /\ Goto(t, "fallback")
          /\ bank' = [after EXCEPT ![t]["fallback"] = "posted"]
          /\ UNCHANGED reply

Retried == Doubtful \cup {"unreachable"}

\* The fallback is tried after any exception, as a bare except would have it.
PrimaryRetriesAll(t) ==
    \E result \in Results :
        PrimaryEnds(t, result, Retried \cup {"client_error", "broken"})

\* The POST without its timeout: it waits for the bank to have debited.
PrimaryWaits(t) ==
    /\ bank[t]["primary"] = "debited"
    /\ \E result \in Results : PrimaryEnds(t, result, Retried)

PrimaryReturns(t) == \E result \in Results : PrimaryEnds(t, result, Retried)

\* The fallback POST ends: success, a breaker error, or anything else.
FallbackEnds(t, result, successes, code) ==
    /\ Returned(t, "fallback", result)
    /\ bank' = BankAfter(t, "fallback", result)
    /\ IF Outcome(t, result).raised THEN Reply(t, "FAILED", "CIRCUIT_OPEN", NoRRN)
       ELSE IF result \in successes
       THEN \E rrn \in RRNs \cup {NoRRN} : Reply(t, "SUCCESS", "none", rrn)
       ELSE Reply(t, "FAILED", code, NoRRN)

\* A 4xx of the fallback reported as a 4xx of the primary is.
FallbackNamesError(t) ==
    \E result \in Results :
        FallbackEnds(t, result, {"success"},
            IF result = "client_error" THEN "CLIENT_ERROR" ELSE "BANK_UNREACHABLE")

\* A 200 of the fallback taken for success.
FallbackTrustsHttp(t) ==
    \E result \in Results :
        FallbackEnds(t, result, Answers, "BANK_UNREACHABLE")

FallbackReturns(t) ==
    \E result \in Results :
        FallbackEnds(t, result, {"success"}, "BANK_UNREACHABLE")

\* The reset timeout of an open breaker passes.
ResetTimeout(c) ==
    /\ breaker[c].state = "open"
    /\ breaker' = [breaker EXCEPT ![c].state = "ripe"]
    /\ UNCHANGED <<bankOf, pc, sendVars, breakers, held, gauge, reporter>>

Running(c) == pc[c] \in Endpoints \cup Looking \cup {"deleting", "deleted"}

\* The pod restarts: calls die and no breaker is left; the banks know nothing.
Crash ==
    /\ \E c \in Calls : Running(c)
    /\ pc' = [c \in Calls |-> IF Running(c) THEN "killed" ELSE pc[c]]
    /\ breakers' = [b \in Banks |-> NoBreaker]
    /\ gauge'    = [b \in Banks |-> "closed"]
    /\ reporter' = [b \in Banks |-> NoBreaker]
    /\ UNCHANGED <<bankOf, sendVars, held, breaker>>

PostReturns(t) == PrimaryReturns(t) \/ FallbackReturns(t)

\* A handler on the event loop runs until its POST and after it.
Proceeds(t) == Make(t) \/ Store(t) \/ Fetch(t) \/ PostReturns(t)

Next ==
    \/ \E t \in Txns : Send(t) \/ PostReturns(t) \/ Debit(t)
    \/ \E r \in Resets : ResetFinds(r) \/ ResetDeletes(r)
    \/ \E c \in Calls : Look(c) \/ Make(c) \/ Store(c) \/ Fetch(c) \/ ResetTimeout(c)
    \/ Crash

Spec == Init /\ [][Next]_vars

\* httpx bounds both POSTs (3 s, 5 s), so each ends; the banks owe nothing.
FairSpec == Spec /\ \A t \in Txns : WF_vars(Proceeds(t))

----------------------------------------------------------------------------
\* A new breaker of the bank is made and about to be registered.
Storing(b) == \E c \in Calls : bankOf[c] = b /\ pc[c] = "storing"

Debited(t) == {e \in Endpoints : bank[t][e] = "debited"}

\* The POSTs that failed of the sends that use a breaker.
FailedPosts(c) ==
    {p \in Txns \X Endpoints : held[p[1]] = c /\ seen[p[1]][p[2]] \in Failures}

\* A breaker has tripped only on FailMax failures of sends that looked it up:
\* what sends from before a reset go on to report counts against the breaker
\* they hold, never against the new one (adapter_service.py:27-41,
\* breaker_registry.py:23-30).
OpenIsEarned ==
    \A c \in Calls :
        breaker[c].state # "closed" => Cardinality(FailedPosts(c)) >= FailMax

\* The gauge of a bank tells the state of its registered breaker, from the moment
\* the breaker is registered and across resets that race with look-ups, unless
\* the last POST to set it was that of a send which still holds a breaker taken
\* from the registry before; it is right again with the next report of the
\* registered one (breaker_metrics.py:26-71).
GaugeTellsState ==
    \A b \in Banks :
        LET c == breakers[b] IN
        (c # NoBreaker /\ reporter[b] \in {NoBreaker, c} /\ ~Storing(b)) =>
            (gauge[b] = "open" <=> breaker[c].state # "closed")

\* CLIENT_ERROR is the one failure after which nothing was or will be debited,
\* so that a caller may repeat the payment (adapter_service.py:72-75).
ClientErrorMeansNotDebited ==
    \A t \in Txns :
        reply[t].code = "CLIENT_ERROR" =>
            \A e \in Endpoints : bank[t][e] \notin {"posted", "debited"}

\* The two endpoints can only both debit when what the primary did remained in
\* doubt: a timeout, a 5xx, an unreadable answer, or one that is not SUCCESS and
\* may still be pending.  A 4xx, a broken connection or an undelivered POST never
\* lead there.
DoubleDebitNeedsDoubt ==
    \A t \in Txns :
        Debited(t) = Endpoints =>
            seen[t]["primary"] \in Doubtful

\* A payment reported FAILED that a bank debited was debited by a POST that did
\* not say SUCCESS: the one success the service drops is that of a POST whose
\* breaker other sends have opened meanwhile (adapter_service.py:57-64, 105-112).
FailedMeansUnheard ==
    \A t \in Txns :
        (reply[t].status = "FAILED" /\ reply[t].code # "CIRCUIT_OPEN") =>
            \A e \in Debited(t) : seen[t][e] \in Doubtful \cup {"broken"}

----------------------------------------------------------------------------
(* The inductive invariant.                                                *)

\* A breaker that a call makes is used by nobody before it is stored.
Unmade == {"idle", "sent", "deleting", "deleted", "making", "storing"}

\* A POST is made once, ends once, and the fallback only after a primary that
\* ended in a way it is meant for.
InOrder(t) ==
    /\ pc[t] \in Unmade \cup Looking => bank[t]["primary"] = "none"
    /\ \A e \in Endpoints :
          /\ pc[t] = e => /\ bank[t][e] # "none" /\ seen[t][e] = "none"
                          /\ held[t] # NoBreaker
          /\ bank[t][e] = "none" => seen[t][e] = "none"
          /\ seen[t][e] \in {"client_error", "unreachable"} =>
                 bank[t][e] = "refused"
    /\ seen[t]["primary"] \notin Retried => bank[t]["fallback"] = "none"

\* What a reply says holds when it is given and ever after.
ReplyTrue(t) ==
    /\ reply[t].status = "SUCCESS" => Debited(t) # {}
    /\ reply[t].code = "CLIENT_ERROR" =>
           /\ pc[t] = "replied"
           /\ bank[t]["primary"] = "refused" /\ bank[t]["fallback"] = "none"

\* A reply is given once, after every POST has ended, and passes a success on.
Heard(t) ==
    /\ pc[t] # "replied" => reply[t] = NoResponse
    /\ \A e \in Endpoints :
          /\ (reply[t].status # "none" /\ bank[t][e] # "none") => seen[t][e] # "none"
          /\ seen[t][e] = "success" =>
                 reply[t].status = "SUCCESS" \/ reply[t].code = "CIRCUIT_OPEN"

\* A breaker serves the bank it was made for, and is not used before.
BreakersOwned ==
    /\ \A b \in Banks : breakers[b] # NoBreaker =>
           bankOf[breakers[b]] = b /\ pc[breakers[b]] \notin Unmade
    /\ \A t \in Txns : held[t] # NoBreaker =>
           bankOf[held[t]] = bankOf[t] /\ pc[held[t]] \notin Unmade
    /\ \A c \in Calls : pc[c] \in Unmade => breaker[c] = FreshBreaker

\* A breaker counts no failure that was not one of its own sends'.
CountsEarned ==
    \A c \in Calls :
        /\ IsFiniteSet(FailedPosts(c))
        /\ breaker[c].count <= Cardinality(FailedPosts(c))
        /\ breaker[c].state # "closed" => breaker[c].count = FailMax

\* The gauge is as the last report left it; until there is one, a bank's
\* registered breaker is as it was made.
GaugeKept ==
    \A b \in Banks :
        /\ reporter[b] = NoBreaker => gauge[b] = "closed"
        /\ reporter[b] # NoBreaker =>
               /\ bankOf[reporter[b]] = b
               /\ gauge[b] = "open" <=> breaker[reporter[b]].state # "closed"
        /\ (reporter[b] = NoBreaker /\ breakers[b] # NoBreaker /\ ~Storing(b)) =>
               breaker[breakers[b]].state = "closed"

IInv ==
    /\ TypeOK
    /\ \A t \in Txns : InOrder(t) /\ ReplyTrue(t) /\ Heard(t)
    /\ BreakersOwned
    /\ CountsEarned
    /\ GaugeKept

----------------------------------------------------------------------------
\* A breaker that has tripped closes only through a POST that the bank answered
\* after the reset timeout; a reset or a restart replaces it.
ProbeCloses ==
    [][\A c \in Calls :
          (breaker[c].state # "closed" /\ breaker'[c].state = "closed") =>
              /\ breaker[c].state = "ripe"
              /\ \E t \in Txns, e \in Endpoints :
                    /\ held[t] = c
                    /\ seen[t][e] = "none"
                    /\ seen'[t][e] \in Answers]_vars

\* Every send the adapter took up ends, also when the bank never answers.
EverySendEnds ==
    \A t \in Txns :
        pc[t] \in Looking \cup {"primary"} ~> pc[t] \in {"replied", "raised", "killed"}

----------------------------------------------------------------------------
(* The adapter as payment-switch sees it.  A send that raised or died never *)
(* answers: the caller gets an error status or a broken connection.         *)

AdapterView ==
    [t \in Txns |->
        [phase  |-> IF pc[t] \in {"idle", "sent", "replied"} THEN pc[t]
                    ELSE "working",
         status |-> reply[t].status,
         rrn    |-> reply[t].rrn]]

DebitCount == [t \in Txns |-> Cardinality(Debited(t))]

Contract == INSTANCE AdapterContract
                WITH adapter <- AdapterView, debits <- DebitCount

\* The service implements the contract PaymentSwitch relies on.
Implements == Contract!Spec

----------------------------------------------------------------------------
(* What the documentation says and the code does not do.                   *)

\* "Circuit breaker: Stops traffic to unhealthy bank endpoints."
\* (README.MD:167).
OpenStopsTraffic ==
    [][\A t \in Txns :
          LET c == breakers[bankOf[t]] IN
          (c # NoBreaker /\ breaker[c].state = "open") =>
              \A e \in Endpoints : bank[t][e] = "none" => bank'[t][e] = "none"]_vars
============================================================================
