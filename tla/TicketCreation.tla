----------------------------- MODULE TicketCreation -----------------------------
(***************************************************************************)
(* POST /tickets with an idempotency key: createTicket in                   *)
(* apps/api/src/modules/tickets/service.ts, beside clients that wait 30 s   *)
(* (apps/web/src/lib/api.ts) and the hourly clean-up of the worker.         *)
(*                                                                          *)
(* The key is looked up before the transaction that creates the ticket, and *)
(* recorded after it, so a handler has four awaits:                         *)
(*   lookup  ->  tx  ->  record  ->  invalidate                             *)
(* A client that stops waiting leaves the handler running.  All attempts    *)
(* are one user's: the scope of a key is the user, so no others share it.   *)
(***************************************************************************)
EXTENDS Integers

CONSTANTS
    Attempts,   \* HTTP requests, each sent at most once; one that creates a
                \* ticket gives the ticket its id
    Keys,       \* idempotency keys
    TTL,        \* how long a key is honoured (24 hours in the code)
    MaxTime,    \* bound on the clock
    Null        \* no key, no row, no ticket

ASSUME TimeAssumption == TTL \in Nat \ {0} /\ MaxTime \in Nat

VARIABLES
    tickets,   \* the attempts that created a ticket, with its history, audit and
               \* outbox rows
    keyRow,    \* [Keys -> IdempotencyKey row or Null]
    recorded,  \* [Attempts -> Nat or Null]: when its key row was inserted (observer only)
    now,
    pc,        \* [Attempts -> phase of the handler]
    sent,      \* [Attempts -> what the client sent, or Null]; the bodies under
               \* one key are the same, no hash of them is stored or compared
    answer     \* [Attempts -> the answer the client got, or its time-out]

vars == <<tickets, keyRow, recorded, now, pc, sent, answer>>

KeyRow == [response: Attempts, expiresAt: Nat]
Sent   == [key: Keys \cup {Null}]
ASSUME NullAssumption == Null \notin Keys \cup Attempts \cup Nat \cup KeyRow \cup Sent
Kinds  == {"none", "created", "replayed", "failed", "timeout"}
Answer == [kind: Kinds, ticket: Attempts \cup {Null}]
NoAnswer == [kind |-> "none", ticket |-> Null]

Init ==
    /\ tickets = {}
    /\ keyRow = [k \in Keys |-> Null]
    /\ recorded = [a \in Attempts |-> Null]
    /\ now = 0
    /\ pc = [a \in Attempts |-> "idle"]
    /\ sent = [a \in Attempts |-> Null]
    /\ answer = [a \in Attempts |-> NoAnswer]
-----------------------------------------------------------------------------
Key(a) == sent[a].key

\* A reply reaches the client unless it has stopped waiting.
Reply(a, kind, ticket) ==
    IF answer[a].kind # "none" THEN UNCHANGED answer
    ELSE answer' = [answer EXCEPT ![a] = [kind |-> kind, ticket |-> ticket]]

\* The client waits for one attempt to be answered, or to time out, before it sends
\* another under the same key.
Send(a) ==
    /\ pc[a] = "idle"
    /\ \E k \in Keys \cup {Null} :
        /\ \A o \in Attempts : k # Null /\ sent[o] # Null /\ sent[o].key = k => answer[o].kind # "none"
        /\ sent' = [sent EXCEPT ![a] = [key |-> k]]
        /\ pc' = [pc EXCEPT ![a] = IF k = Null THEN "tx" ELSE "lookup"]
    /\ UNCHANGED <<tickets, keyRow, recorded, now, answer>>

\* existing && existing.expiresAt > now
HonouredNever(k) == FALSE  \* mutated form: the lookup lost
Honoured(k) == keyRow[k] # Null /\ keyRow[k].expiresAt > now

Replay(a) ==
    /\ pc[a] = "lookup" /\ Honoured(Key(a))
    /\ Reply(a, "replayed", keyRow[Key(a)].response)
    /\ pc' = [pc EXCEPT ![a] = "done"]
    /\ UNCHANGED <<tickets, keyRow, recorded, now, sent>>

Miss(a) ==
    /\ pc[a] = "lookup" /\ ~Honoured(Key(a))
    /\ pc' = [pc EXCEPT ![a] = "tx"]
    /\ UNCHANGED <<tickets, keyRow, recorded, now, sent, answer>>

\* The transaction: ticket, history, audit and outbox rows, all or none.
CreateTicket(a) ==
    /\ pc[a] = "tx"
    /\ tickets' = tickets \cup {a}
    /\ pc' = [pc EXCEPT ![a] = IF Key(a) = Null THEN "invalidate" ELSE "record"]
    /\ UNCHANGED <<keyRow, recorded, now, sent, answer>>

NewKeyRow(a) == [response |-> a, expiresAt |-> now + TTL]

\* idempotencyKey.create on the unique (key, scope) index.
RecordOver(a) ==  \* mutated form: the unique index missing, the row overwritten
    /\ pc[a] = "record"
    /\ keyRow' = [keyRow EXCEPT ![Key(a)] = NewKeyRow(a)]
    /\ recorded' = [recorded EXCEPT ![a] = now]
    /\ pc' = [pc EXCEPT ![a] = "invalidate"]
    /\ UNCHANGED <<tickets, now, sent, answer>>
Record(a) ==
    /\ pc[a] = "record" /\ keyRow[Key(a)] = Null
    /\ keyRow' = [keyRow EXCEPT ![Key(a)] = NewKeyRow(a)]
    /\ recorded' = [recorded EXCEPT ![a] = now]
    /\ pc' = [pc EXCEPT ![a] = "invalidate"]
    /\ UNCHANGED <<tickets, now, sent, answer>>

\* A row for the key is there, expired or not: the create throws, the answer is
\* a 500, and the ticket stays.
RecordClash(a) ==
    /\ pc[a] = "record" /\ keyRow[Key(a)] # Null
    /\ Reply(a, "failed", Null)
    /\ pc' = [pc EXCEPT ![a] = "done"]
    /\ UNCHANGED <<tickets, keyRow, recorded, now, sent>>

\* delPattern on the ticket lists, then 201.
Invalidate(a) ==
    /\ pc[a] = "invalidate"
    /\ Reply(a, "created", a)
    /\ pc' = [pc EXCEPT ![a] = "done"]
    /\ UNCHANGED <<tickets, keyRow, recorded, now, sent>>

\* An awaited call fails or the instance stops, between any two awaits.
Fail(a) ==
    /\ pc[a] \notin {"idle", "done"}
    /\ Reply(a, "failed", Null)
    /\ pc' = [pc EXCEPT ![a] = "done"]
    /\ UNCHANGED <<tickets, keyRow, recorded, now, sent>>

\* The client's 30 s are over: to it the request has failed, and the handler goes on.
ClientTimeout(a) ==
    /\ pc[a] \notin {"idle", "done"} /\ answer[a].kind = "none"
    /\ Reply(a, "timeout", Null)
    /\ UNCHANGED <<tickets, keyRow, recorded, now, pc, sent>>

\* The worker's cleanup.expired job.
Expired(k) == keyRow[k] # Null /\ keyRow[k].expiresAt < now

Cleanup ==
    /\ \E k \in Keys : Expired(k)
    /\ keyRow' = [k \in Keys |-> IF Expired(k) THEN Null ELSE keyRow[k]]
    /\ UNCHANGED <<tickets, recorded, now, pc, sent, answer>>

Tick == /\ now < MaxTime
        /\ now' = now + 1
        /\ UNCHANGED <<tickets, keyRow, recorded, pc, sent, answer>>

\* Every attempt was served and nothing is left to expire.
Finished == /\ now = MaxTime /\ \A k \in Keys : ~Expired(k)
            /\ \A a \in Attempts : pc[a] = "done"
            /\ UNCHANGED vars

Handle(a) == \/ Send(a) \/ Replay(a) \/ Miss(a) \/ CreateTicket(a) \/ Record(a) \/ RecordClash(a)
             \/ Invalidate(a) \/ Fail(a) \/ ClientTimeout(a)

Next == Tick \/ Cleanup \/ Finished \/ \E a \in Attempts : Handle(a)

Spec == Init /\ [][Next]_vars
-----------------------------------------------------------------------------
\* Every variable keeps its shape.
TypeOK ==
    /\ tickets \subseteq Attempts
    /\ keyRow \in [Keys -> KeyRow \cup {Null}]
    /\ recorded \in [Attempts -> Nat \cup {Null}]
    /\ now \in 0 .. MaxTime
    /\ pc \in [Attempts -> {"idle", "lookup", "tx", "record", "invalidate", "done"}]
    /\ sent \in [Attempts -> Sent \cup {Null}]
    /\ answer \in [Attempts -> Answer]

Succeeded(a) == answer[a].kind \in {"created", "replayed"}
SameKey(a, b) == /\ sent[a] # Null /\ sent[b] # Null
                 /\ Key(a) # Null /\ Key(a) = Key(b)

\* The key expired between the recording of x and that of y.
ExpiredBetween(x, y) == /\ recorded[x] # Null /\ recorded[y] # Null
                        /\ recorded[x] + TTL < recorded[y]

\* Whatever overlaps, times out, fails or is retried: two attempts under one key
\* that succeed are told of the same ticket, unless the key expired in between.
AnswersAgree ==
    \A a, b \in Attempts : SameKey(a, b) /\ Succeeded(a) /\ Succeeded(b) =>
        LET x == answer[a].ticket  y == answer[b].ticket
        IN  x = y \/ ExpiredBetween(x, y) \/ ExpiredBetween(y, x)

\* A second ticket under a key never appears behind the back of a client all of
\* whose attempts succeeded: one of them failed or timed out at the client, or the key expired.
NoSilentDuplicate ==
    \A a, b \in Attempts : a # b /\ SameKey(a, b) /\ {a, b} \subseteq tickets =>
        \/ \E o \in Attempts : SameKey(o, a) /\ answer[o].kind \in {"failed", "timeout"}
        \/ recorded[a] # Null /\ recorded[a] + TTL <= now
        \/ recorded[b] # Null /\ recorded[b] + TTL <= now
=============================================================================
