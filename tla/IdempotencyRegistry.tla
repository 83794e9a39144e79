------------------------ MODULE IdempotencyRegistry ------------------------
(***************************************************************************)
(* What the idempotency guard promises its callers, one atomic step per    *)
(* promise.  IdempotencyGuard (the service's three-call sequence over its  *)
(* DynamoDB table) is shown to implement this module, and PaymentSwitch    *)
(* uses this module as the guard it talks to.                              *)
(*                                                                         *)
(* A registry entry is a record; status "ABSENT" stands for "no item under *)
(* this key".  An answer is what a /check call returns: verdict "NEW"      *)
(* (HTTP 200) or "DUPLICATE" (HTTP 409) with the status and payload it     *)
(* carries; verdict "none" while there is no answer.                       *)
(***************************************************************************)

CONSTANTS
    Keys,       \* idempotency keys
    Calls,      \* calls to /check, one element per HTTP request
    Payloads,   \* serialised responses a caller may store with /complete
    NoPayload   \* None and "" alike: every reader only tests for truth

VARIABLES
    entries,    \* the record under each key
    answer,     \* the answer each call received
    grantees,   \* history: calls answered NEW for the record now under a key
    lapsed      \* history: keys whose record was removed by the TTL once

registryVars == <<entries, answer, grantees, lapsed>>

FinalStatus == {"SUCCESS", "FAILED"}
Status      == {"PROCESSING"} \cup FinalStatus
MaybePayload == Payloads \cup {NoPayload}

Entry  == [status : Status \cup {"ABSENT"}, payload : MaybePayload]
Answer == [verdict : {"none", "NEW", "DUPLICATE"},
           status  : Status,
           payload : MaybePayload]

AbsentEntry == [status |-> "ABSENT", payload |-> NoPayload]
Claimed     == [status |-> "PROCESSING", payload |-> NoPayload]

NoAnswer == [verdict |-> "none", status |-> "PROCESSING", payload |-> NoPayload]
NewAnswer == [verdict |-> "NEW", status |-> "PROCESSING", payload |-> NoPayload]
DuplicateAnswer(entry) ==
    [verdict |-> "DUPLICATE", status |-> entry.status, payload |-> entry.payload]

Present(k)     == entries[k].status # "ABSENT"
Unanswered(c)  == answer[c].verdict = "none"

RegistryTypeOK ==
    /\ entries  \in [Keys -> Entry]
    /\ answer   \in [Calls -> Answer]
    /\ grantees \in [Keys -> SUBSET Calls]
    /\ lapsed   \in SUBSET Keys

Init ==
    /\ entries  = [k \in Keys |-> AbsentEntry]
    /\ answer   = [c \in Calls |-> NoAnswer]
    /\ grantees = [k \in Keys |-> {}]
    /\ lapsed   = {}

----------------------------------------------------------------------------
\* The first call for a key claims it and is told so.
Claim(c, k) ==
    /\ Unanswered(c)
    /\ ~Present(k)
    /\ entries'  = [entries EXCEPT ![k] = Claimed]
    /\ answer'   = [answer EXCEPT ![c] = NewAnswer]
    /\ grantees' = [grantees EXCEPT ![k] = @ \cup {c}]
    /\ UNCHANGED lapsed

\* A claim whose acknowledgement was lost on the way: the key is taken and
\* nobody was told NEW.
ClaimUnacknowledged(k) ==
    /\ ~Present(k)
    /\ entries' = [entries EXCEPT ![k] = Claimed]
    /\ UNCHANGED <<answer, grantees, lapsed>>

\* Any later call is told DUPLICATE, with the record as it is now.
Repeat(c, k) ==
    /\ Unanswered(c)
    /\ Present(k)
    /\ answer' = [answer EXCEPT ![c] = DuplicateAnswer(entries[k])]
    /\ UNCHANGED <<entries, grantees, lapsed>>

\* A record may lapse while a call that saw it is still under way; that call
\* is told DUPLICATE and nothing else.
RepeatLapsed(c, k) ==
    /\ Unanswered(c)
    /\ ~Present(k)
    /\ k \in lapsed
    /\ answer' = [answer EXCEPT ![c] = DuplicateAnswer(Claimed)]
    /\ UNCHANGED <<entries, grantees, lapsed>>

\* A final result is stored once, over a claim.
Settle(k, status, payload) ==
    /\ entries[k].status = "PROCESSING"
    /\ entries' = [entries EXCEPT ![k] = [status |-> status, payload |-> payload]]
    /\ UNCHANGED <<answer, grantees, lapsed>>

\* The time to live of a record runs out.
Lapse(k) ==
    /\ Present(k)
    /\ entries'  = [entries EXCEPT ![k] = AbsentEntry]
    /\ grantees' = [grantees EXCEPT ![k] = {}]
    /\ lapsed'   = lapsed \cup {k}
    /\ UNCHANGED answer

Next ==
    \E k \in Keys :
        \/ ClaimUnacknowledged(k)
        \/ Lapse(k)
        \/ \E status \in FinalStatus, payload \in MaybePayload :
               Settle(k, status, payload)
        \/ \E c \in Calls : \/ Claim(c, k)
                            \/ Repeat(c, k)
                            \/ RepeatLapsed(c, k)

Spec == Init /\ [][Next]_registryVars
============================================================================
