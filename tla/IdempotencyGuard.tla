-------------------------- MODULE IdempotencyGuard --------------------------
(***************************************************************************)
(* The idempotency-guard service (idempotency-guard/app).  /check is a     *)
(* synchronous FastAPI handler: calls run in threadpool threads and        *)
(* interleave at every DynamoDB request.  One call goes through            *)
(*                                                                         *)
(*     find_by_key -> insert_if_absent -> (lost the race) find_by_key      *)
(*                                                                         *)
(* so a call is a small process with a program counter, and every action   *)
(* below is one request to the table together with the code that follows   *)
(* it up to the next request.                                              *)
(***************************************************************************)

CONSTANTS Keys, Calls, Payloads, NoPayload

VARIABLES
    pc,         \* where each call is
    key,        \* the X-Idempotency-Key header of each call
    entries,    \* the DynamoDB table, by partition key
    answer,     \* the CheckResponse of each call
    grantees,   \* history: calls answered NEW for the record now in the table
    lapsed      \* history: keys whose record the TTL removed at least once

vars == <<pc, key, entries, answer, grantees, lapsed>>

Registry == INSTANCE IdempotencyRegistry

Running == {"find", "insert", "refind"}
PC      == Running \cup {"idle", "done", "failed"}

TypeOK ==
    /\ pc  \in [Calls -> PC]
    /\ key \in [Calls -> Keys]
    /\ Registry!RegistryTypeOK

Init ==
    /\ pc  = [c \in Calls |-> "idle"]
    /\ key \in [Calls -> Keys]
    /\ Registry!Init

Goto(c, label) == pc' = [pc EXCEPT ![c] = label]

\* service.check returns a CheckResponse
Reply(c, response) ==
    /\ answer' = [answer EXCEPT ![c] = response]
    /\ Goto(c, "done")

----------------------------------------------------------------------------
\* The HTTP request arrives and a threadpool thread takes it.
Receive(c) ==
    /\ pc[c] = "idle"
    /\ Goto(c, "find")
    /\ UNCHANGED <<key, entries, answer, grantees, lapsed>>

\* store.find_by_key: a strongly consistent read.
FindHit(c) ==
    /\ pc[c] = "find"
    /\ Registry!Present(key[c])
    /\ Reply(c, Registry!DuplicateAnswer(entries[key[c]]))
    /\ UNCHANGED <<key, entries, grantees, lapsed>>

FindMiss(c) ==
    /\ pc[c] = "find"
    /\ ~Registry!Present(key[c])
    /\ Goto(c, "insert")
    /\ UNCHANGED <<key, entries, answer, grantees, lapsed>>

\* store.insert_if_absent: put_item under attribute_not_exists.
InsertWithoutCondition(c) ==
    /\ pc[c] = "insert"
    /\ entries'  = [entries EXCEPT ![key[c]] = Registry!Claimed]
    /\ grantees' = [grantees EXCEPT ![key[c]] = @ \cup {c}]
    /\ Reply(c, Registry!NewAnswer)
    /\ UNCHANGED <<key, lapsed>>

InsertWins(c) ==
    /\ pc[c] = "insert"
    /\ ~Registry!Present(key[c])
    /\ entries'  = [entries EXCEPT ![key[c]] = Registry!Claimed]
    /\ grantees' = [grantees EXCEPT ![key[c]] = @ \cup {c}]
    /\ Reply(c, Registry!NewAnswer)
    /\ UNCHANGED <<key, lapsed>>

\* A False from insert_if_absent taken for a claim.
InsertLosesIgnored(c) ==
    /\ pc[c] = "insert"
    /\ Registry!Present(key[c])
    /\ grantees' = [grantees EXCEPT ![key[c]] = @ \cup {c}]
    /\ Reply(c, Registry!NewAnswer)
    /\ UNCHANGED <<key, entries, lapsed>>

\* ConditionalCheckFailedException: another call holds the key.
InsertLoses(c) ==
    /\ pc[c] = "insert"
    /\ Registry!Present(key[c])
    /\ Goto(c, "refind")
    /\ UNCHANGED <<key, entries, answer, grantees, lapsed>>

\* The put is applied but its response is lost.  Either botocore sends it
\* again, and the condition now fails against the call's own item, or the
\* error reaches the caller: the key is taken and no call was told NEW.
InsertUnacknowledged(c) ==
    /\ pc[c] = "insert"
    /\ ~Registry!Present(key[c])
    /\ entries' = [entries EXCEPT ![key[c]] = Registry!Claimed]
    /\ \E next \in {"refind", "failed"} : Goto(c, next)
    /\ UNCHANGED <<key, answer, grantees, lapsed>>

\* The second find_by_key, after a lost race; the record may have lapsed.
Refind(c) ==
    /\ pc[c] = "refind"
    /\ Reply(c, IF Registry!Present(key[c])
                THEN Registry!DuplicateAnswer(entries[key[c]])
                ELSE Registry!DuplicateAnswer(Registry!Claimed))
    /\ UNCHANGED <<key, entries, grantees, lapsed>>

\* An insert error reported as a lost race instead of raised.
InsertErrorAsLostRace(c) ==
    /\ pc[c] = "insert"
    /\ Goto(c, "refind")
    /\ UNCHANGED <<key, entries, answer, grantees, lapsed>>

\* Any other ClientError: the request ends in HTTP 500.
RequestFails(c) ==
    /\ pc[c] \in Running
    /\ Goto(c, "failed")
    /\ UNCHANGED <<key, entries, answer, grantees, lapsed>>

\* A complete that removes the claim, as a lock would be released.
CompleteReleases(k, status, payload) ==
    /\ entries[k].status = "PROCESSING"
    /\ entries' = [entries EXCEPT ![k] = Registry!AbsentEntry]
    /\ UNCHANGED <<pc, key, answer, grantees, lapsed>>

\* store.complete without its ConditionExpression.
CompleteUnconditionally(k, status, payload) ==
    /\ Registry!Present(k)
    /\ entries' = [entries EXCEPT ![k] = [status |-> status, payload |-> payload]]
    /\ UNCHANGED <<pc, key, answer, grantees, lapsed>>

\* store.complete: one conditional update; skipped unless PROCESSING.
Complete(k, status, payload) ==
    /\ entries[k].status = "PROCESSING"
    /\ entries' = [entries EXCEPT ![k] = [status |-> status, payload |-> payload]]
    /\ UNCHANGED <<pc, key, answer, grantees, lapsed>>

\* DynamoDB removes an item whose expiresAt has passed.
Expire(k) ==
    /\ Registry!Present(k)
    /\ entries'  = [entries EXCEPT ![k] = Registry!AbsentEntry]
    /\ grantees' = [grantees EXCEPT ![k] = {}]
    /\ lapsed'   = lapsed \cup {k}
    /\ UNCHANGED <<pc, key, answer>>

\* The pod is killed: every call under way is gone, the table stays.
Crash ==
    /\ \E c \in Calls : pc[c] \in Running
    /\ pc' = [c \in Calls |-> IF pc[c] \in Running THEN "failed" ELSE pc[c]]
    /\ UNCHANGED <<key, entries, answer, grantees, lapsed>>

CallStep(c) ==
    \/ Receive(c)
    \/ FindHit(c)
    \/ FindMiss(c)
    \/ InsertWins(c)
    \/ InsertLoses(c)
    \/ InsertUnacknowledged(c)
    \/ Refind(c)
    \/ RequestFails(c)

TableStep(k) ==
    \/ Expire(k)
    \/ \E status \in Registry!FinalStatus, payload \in Registry!MaybePayload :
           Complete(k, status, payload)

Next ==
    \/ \E c \in Calls : CallStep(c)
    \/ \E k \in Keys : TableStep(k)
    \/ Crash

Spec == Init /\ [][Next]_vars

----------------------------------------------------------------------------
\* At most one call is told NEW for the life of a record, however many calls
\* for one key interleave between find_by_key and insert_if_absent
\* (idempotency-guard/app/service.py:12-49).
OneGrantPerRecord == \A k \in Keys : \A c, d \in grantees[k] : c = d

\* While a call that was told NEW relies on its claim, the record it claimed
\* is still in the table under that call's key.
GrantBackedByRecord ==
    \A k \in Keys : \A c \in grantees[k] :
        /\ Registry!Present(k)
        /\ key[c] = k
        /\ answer[c].verdict = "NEW"

\* Every replayed final result is the one the record holds, so two retries of
\* a payment are never given different results (service.py:15-22, 39-46 and
\* the PROCESSING condition of store.py:83-103).
ReplayMatchesRecord ==
    \A c \in Calls :
        (/\ answer[c].verdict = "DUPLICATE"
         /\ answer[c].status \in Registry!FinalStatus
         /\ key[c] \notin lapsed)
        => entries[key[c]] =
               [status |-> answer[c].status, payload |-> answer[c].payload]

\* A caller is told DUPLICATE only about a key that is claimed, or was until
\* its record lapsed; a fresh payment is never refused as a repeat.
DuplicateMeansClaimed ==
    \A c \in Calls :
        answer[c].verdict = "DUPLICATE" =>
            Registry!Present(key[c]) \/ key[c] \in lapsed

----------------------------------------------------------------------------
\* The inductive invariant: what the program counter of a call says about its
\* answer and about the key it has seen taken.
AnsweredWhenDone == \A c \in Calls : pc[c] # "done" => Registry!Unanswered(c)

LostRaceSawClaim ==
    \A c \in Calls :
        pc[c] = "refind" => Registry!Present(key[c]) \/ key[c] \in lapsed

IInv ==
    /\ TypeOK
    /\ AnsweredWhenDone
    /\ LostRaceSawClaim
    /\ OneGrantPerRecord
    /\ GrantBackedByRecord
    /\ ReplayMatchesRecord
    /\ DuplicateMeansClaimed

\* The three-request check implements the atomic registry.
Implements == Registry!Spec
============================================================================
