-------------------------------- MODULE SwrCache --------------------------------
(***************************************************************************)
(* One key of the stale-while-revalidate cache, the list of tickets: the    *)
(* reads of CacheService.swr, the recomputations they start and do not      *)
(* await, the Redis lock of both, and the writers of tickets, which commit  *)
(* to the database and then scan for the key and delete it.                 *)
(*                                                                          *)
(* A value of the list is the number of the database state it was read      *)
(* from.  Every await is a place where the others run.                      *)
(***************************************************************************)
EXTENDS Integers

CONSTANTS
    Readers,          \* clients, each with a call of swr at a time
    Writers,          \* handlers that write a ticket
    MaxVersion,       \* bound: how many writes are made
    RedisMayFail,     \* TRUE when a command to Redis may be rejected
    Null

ASSUME BoundAssumption == MaxVersion \in Nat /\ RedisMayFail \in BOOLEAN

Calls == Readers \X {"call"}
Tasks == Readers \X {"task"}  \* bound: one recomputation under way per reader
Procs == Calls \cup Tasks
ASSUME NullAssumption == Null \notin Procs /\ Null \notin [value : Nat, age : {"fresh", "stale"}]

VARIABLES
    truth,   \* the database state, numbered
    entry,   \* what the key holds and readers accept, or Null
    lock,    \* who took the lock of the key and has it, or Null
    pc,      \* per call and per recomputation: where it stands
    value,   \* per call and per recomputation: what its producer returned
    writer,  \* per writer: idle, or between its commit and its answer
    prompt   \* how the database is doing: whether every producer returns within
             \* the 5 s of the lock, so that no lock lapses under its holder
vars == <<truth, entry, lock, pc, value, writer, prompt>>

\* expiresAt and staleUntil; past staleUntil nobody accepts the envelope.
Entry   == [value : Nat, age : {"fresh", "stale"}]
Phases  == {"idle", "get", "acquire", "produce", "set", "release", "sleep", "fallback"}
Holding == {"produce", "set", "release"}  \* from the acquisition to the release

Init == /\ truth = 0 /\ entry = Null /\ lock = Null
        /\ pc = [p \in Procs |-> "idle"]
        /\ value = [p \in Procs |-> 0]
        /\ writer = [w \in Writers |-> "idle"]
        /\ prompt \in BOOLEAN

Goto(p, phase) == pc' = [pc EXCEPT ![p] = phase]
Forget(p) == value' = [value EXCEPT ![p] = 0]  \* a finished call has no locals
-----------------------------------------------------------------------------
Start(r) ==
    /\ pc[<<r, "call">>] = "idle" /\ pc[<<r, "task">>] = "idle"
    /\ Goto(<<r, "call">>, "get")
    /\ UNCHANGED <<truth, entry, lock, value, writer, prompt>>

\* A stale envelope is the answer, and a recomputation is started.
Get(r) ==
    /\ pc[<<r, "call">>] = "get"
    /\ \/ entry = Null /\ Goto(<<r, "call">>, "acquire")
       \/ entry # Null /\ entry.age = "fresh" /\ Goto(<<r, "call">>, "idle")
       \/ /\ entry # Null /\ entry.age = "stale"
          /\ pc' = [pc EXCEPT ![<<r, "call">>] = "idle", ![<<r, "task">>] = "acquire"]
       \/ RedisMayFail /\ Goto(<<r, "call">>, "acquire")
    /\ UNCHANGED <<truth, entry, lock, value, writer, prompt>>

\* Without the lock a call sleeps, a recomputation is over.
GiveWay(p) == Goto(p, IF p \in Calls THEN "sleep" ELSE "idle")

\* SET lock:cache:key token PX 5000 NX.  One that is rejected may have been done.
AcquireAnyway(p) ==  \* mutated form: without NX
    /\ pc[p] = "acquire"
    /\ lock' = p /\ Goto(p, "produce")
    /\ UNCHANGED <<truth, entry, value, writer, prompt>>
Acquire(p) ==
    /\ pc[p] = "acquire"
    /\ \/ lock = Null /\ lock' = p /\ Goto(p, "produce")
       \/ lock # Null /\ UNCHANGED lock /\ GiveWay(p)
       \/ RedisMayFail /\ lock' \in {lock, IF lock = Null THEN p ELSE lock} /\ GiveWay(p)
    /\ UNCHANGED <<truth, entry, value, writer, prompt>>

\* The producer reads the database; a rejected one goes to the finally block.
Produce(p) ==
    /\ pc[p] = "produce"
    /\ \/ value' = [value EXCEPT ![p] = truth] /\ Goto(p, "set")
       \/ UNCHANGED value /\ Goto(p, "release")
    /\ UNCHANGED <<truth, entry, lock, writer, prompt>>

\* set: a rejected command is logged.
Set(p) ==
    /\ pc[p] = "set"
    /\ \/ entry' = [value |-> value[p], age |-> "fresh"]
       \/ RedisMayFail /\ UNCHANGED entry
    /\ Goto(p, "release")
    /\ UNCHANGED <<truth, lock, value, writer, prompt>>

\* unlockScript deletes the lock if the token is still the own one.
ReleaseWhoever(p) ==  \* mutated form: DEL without the comparison
    /\ pc[p] = "release"
    /\ lock' = Null
    /\ Goto(p, "idle") /\ Forget(p)
    /\ UNCHANGED <<truth, entry, writer, prompt>>
Release(p) ==
    /\ pc[p] = "release"
    /\ \/ lock' = IF lock = p THEN Null ELSE lock
       \/ RedisMayFail /\ UNCHANGED lock
    /\ Goto(p, "idle") /\ Forget(p)
    /\ UNCHANGED <<truth, entry, writer, prompt>>

\* After 100 ms, get: any envelope that is not past staleUntil is the answer.
Retry(p) ==
    /\ pc[p] = "sleep"
    /\ \/ entry # Null /\ Goto(p, "idle")
       \/ (entry = Null \/ RedisMayFail) /\ Goto(p, "fallback")
    /\ UNCHANGED <<truth, entry, lock, value, writer, prompt>>

\* The call produces for itself and caches nothing.
Fallback(p) ==
    /\ pc[p] = "fallback"
    /\ Goto(p, "idle")
    /\ UNCHANGED <<truth, entry, lock, value, writer, prompt>>

\* The instance stops: the call ends where it stands, its lock stays.
Stop(p) ==
    /\ pc[p] # "idle"
    /\ Goto(p, "idle") /\ Forget(p)
    /\ UNCHANGED <<truth, entry, lock, writer, prompt>>
-----------------------------------------------------------------------------
\* Whether the instance has a cache: boot goes on without one when Redis does not
\* answer, and the instance invalidates nothing from then on, whatever Redis does.
Cached == IF RedisMayFail THEN BOOLEAN ELSE {TRUE}

\* A ticket is created, updated, moved or deleted: the transaction commits.
Commit(w) ==
    /\ writer[w] = "idle" /\ truth < MaxVersion
    /\ truth' = truth + 1
    /\ \E cached \in Cached : writer' = [writer EXCEPT ![w] = IF cached THEN "scan" ELSE "idle"]
    /\ UNCHANGED <<entry, lock, pc, value, prompt>>

\* delPattern: SCAN returns the key or does not; DEL follows.  A rejected command
\* is logged and ends the loop; an instance that stops ends it too.
Scan(w) ==
    /\ writer[w] = "scan"
    /\ \/ entry # Null /\ writer' = [writer EXCEPT ![w] = "delete"]
       \/ (entry = Null \/ RedisMayFail) /\ writer' = [writer EXCEPT ![w] = "idle"]
    /\ UNCHANGED <<truth, entry, lock, pc, value, prompt>>

Delete(w) ==
    /\ writer[w] = "delete"
    /\ \/ entry' = Null
       \/ RedisMayFail /\ UNCHANGED entry
    /\ writer' = [writer EXCEPT ![w] = "idle"]
    /\ UNCHANGED <<truth, lock, pc, value, prompt>>
-----------------------------------------------------------------------------
\* expiresAt passes, then staleUntil.
AgeOnce ==  \* mutated form: nothing after expiresAt
    /\ entry # Null /\ entry.age = "fresh"
    /\ entry' = [entry EXCEPT !.age = "stale"]
    /\ UNCHANGED <<truth, lock, pc, value, writer, prompt>>
Age ==
    /\ entry # Null
    /\ entry' = IF entry.age = "fresh" THEN [entry EXCEPT !.age = "stale"] ELSE Null
    /\ UNCHANGED <<truth, lock, pc, value, writer, prompt>>

\* The 5000 ms of the lock pass.
Lapse ==
    /\ lock # Null
    /\ prompt => pc[lock] \notin Holding
    /\ lock' = Null
    /\ UNCHANGED <<truth, entry, pc, value, writer, prompt>>

Serve(p) == Acquire(p) \/ Produce(p) \/ Set(p) \/ Release(p) \/ Retry(p) \/ Fallback(p)

Invalidate(w) == Scan(w) \/ Delete(w)

Next == \/ \E r \in Readers : Start(r) \/ Get(r)
        \/ \E p \in Procs : Serve(p) \/ Stop(p)
        \/ \E w \in Writers : Commit(w) \/ Invalidate(w)
        \/ Age \/ Lapse

Spec == Init /\ [][Next]_vars

\* Redis and the clock answer every await in the end, and time passes.  No call has
\* to be made, nothing has to be written.
Fairness == /\ \A p \in Procs : WF_vars(Serve(p))
            /\ WF_vars(Age)
FairSpec == Spec /\ Fairness
-----------------------------------------------------------------------------
\* Every variable keeps its shape.
TypeOK ==
    /\ truth \in 0..MaxVersion
    /\ entry \in Entry \cup {Null} /\ (entry # Null => entry.value <= truth)
    /\ lock \in Procs \cup {Null}
    /\ pc \in [Procs -> Phases]
    /\ value \in [Procs -> 0..truth]
    /\ writer \in [Writers -> {"idle", "scan", "delete"}]
    /\ prompt \in BOOLEAN

\* The lock leaves its owner by the owner's own release or by lapse (a step of no
\* call and no recomputation), never by the release of one that lost it before.
LockIsOwned == [][lock # Null /\ lock' # lock => pc' = pc \/ pc'[lock] = "idle"]_vars

\* As long as no lock lapses under its holder, the list in the cache never goes
\* back to an older state of the database, however reads, recomputations and
\* invalidations interleave and whichever Redis commands fail.
SetsAreOrdered == [][prompt /\ entry # Null /\ entry' # Null => entry'.value >= entry.value]_vars

\* What an invalidation missed, expiry repairs: once writes have stopped, the key
\* comes to hold the current list or nothing, and stays so.
Converges == <>[](entry # Null => entry.value = truth)
=============================================================================
