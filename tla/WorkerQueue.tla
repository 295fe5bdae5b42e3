------------------------------ MODULE WorkerQueue ------------------------------
(***************************************************************************)
(* The queue sla-check-v1: scan jobs, the worker processes that take them   *)
(* one at a time, the Redis lock that makes a scan a single run, the        *)
(* retries, and the failed handler, which writes a DeadLetterJob when a job *)
(* has failed for good and is awaited by nobody.                            *)
(*                                                                          *)
(* BullMQ moves the jobs between their lists; it is modelled from what the  *)
(* worker asks of it.                                                       *)
(***************************************************************************)
EXTENDS Integers

CONSTANTS
    Jobs,        \* bound: how many scans are in the queue at a time
    Workers,     \* worker processes
    Attempts,    \* defaultJobOptions.attempts
    MaxStops,    \* bound: how many times a process stops
    Null

ASSUME AttemptsAssumption == Attempts \in Nat \ {0} /\ MaxStops \in Nat
ASSUME NullAssumption == Null \notin Jobs \cup Workers

VARIABLES
    state,   \* per job: the list of the queue it is in
    made,    \* per job: attemptsMade
    stalled, \* per job: how often it was found active without a worker
    letters, \* the jobs with a DeadLetterJob row
    lock,    \* the worker whose token lock:worker:sla:global holds, or Null
    pc,      \* per worker: where it stands with its job
    cur,     \* per worker: its job, or Null
    failing, \* per worker: whether its scan was rejected
    burying, \* per worker: the jobs its failed handler is writing a row for
    lost,    \* the jobs whose row a stop kept from being written (observer only)
    stops,   \* how often a process has stopped
    prompt   \* how the database is doing: whether a scan returns within the 90 s of
             \* its lock
vars == <<state, made, stalled, letters, lost, lock, pc, cur, failing, burying, stops, prompt>>

States == {"none", "waiting", "delayed", "active", "completed", "failed"}
Phases == {"idle", "lock", "work", "release", "report"}
MaxStalls == 1  \* maxStalledCount, left at its default

Init == /\ state = [j \in Jobs |-> "none"]
        /\ made = [j \in Jobs |-> 0]
        /\ stalled = [j \in Jobs |-> 0]
        /\ letters = {} /\ lost = {} /\ lock = Null /\ stops = 0
        /\ pc = [w \in Workers |-> "idle"]
        /\ cur = [w \in Workers |-> Null]
        /\ failing = [w \in Workers |-> FALSE]
        /\ burying = [w \in Workers |-> {}]
        /\ prompt \in BOOLEAN

Move(j, list) == state' = [state EXCEPT ![j] = list]
Goto(w, phase) == pc' = [pc EXCEPT ![w] = phase]
Job == <<state, made, stalled, letters, lost>>
-----------------------------------------------------------------------------
\* The scheduler adds a scan a minute, a restarted worker upserts the same scheduler.
Schedule(j) ==
    /\ state[j] = "none"
    /\ Move(j, "waiting")
    /\ UNCHANGED <<made, stalled, letters, lost, lock, pc, cur, failing, burying, stops, prompt>>

\* concurrency 1: the next job once the last one is reported.
Take(w, j) ==
    /\ pc[w] = "idle" /\ state[j] = "waiting"
    /\ stalled[j] <= MaxStalls
    /\ Move(j, "active") /\ Goto(w, "lock")
    /\ cur' = [cur EXCEPT ![w] = j]
    /\ UNCHANGED <<made, stalled, letters, lost, lock, failing, burying, stops, prompt>>

\* withLock: SET PX NX.  A worker that does not get the lock has nothing to do.
AcquireAnyway(w) ==  \* mutated form: without NX
    /\ pc[w] = "lock"
    /\ lock' = w /\ Goto(w, "work")
    /\ UNCHANGED <<Job, cur, failing, burying, stops, prompt>>
Acquire(w) ==
    /\ pc[w] = "lock"
    /\ \/ lock = Null /\ lock' = w /\ Goto(w, "work")
       \/ lock # Null /\ UNCHANGED lock /\ Goto(w, "report")
    /\ UNCHANGED <<Job, cur, failing, burying, stops, prompt>>

\* The batch is read and logged, or the database rejects the query.
Scan(w) ==
    /\ pc[w] = "work"
    /\ Goto(w, "release")
    /\ UNCHANGED <<Job, lock, cur, failing, burying, stops, prompt>>

ScanRejected(w) ==
    /\ pc[w] = "work"
    /\ Goto(w, "release")
    /\ failing' = [failing EXCEPT ![w] = TRUE]
    /\ UNCHANGED <<Job, lock, cur, burying, stops, prompt>>

\* The finally block deletes the lock if the token is still its own.
Release(w) ==
    /\ pc[w] = "release"
    /\ lock' = IF lock = w THEN Null ELSE lock
    /\ Goto(w, "report")
    /\ UNCHANGED <<Job, cur, failing, burying, stops, prompt>>

-----------------------------------------------------------------------------
\* The worker is through with its job.
Done(w) == /\ Goto(w, "idle")
           /\ cur' = [cur EXCEPT ![w] = Null]
           /\ failing' = [failing EXCEPT ![w] = FALSE]

Complete(w) ==
    /\ pc[w] = "report" /\ ~failing[w]
    /\ Move(cur[w], "completed")
    /\ Done(w)
    /\ UNCHANGED <<made, stalled, letters, lost, lock, burying, stops, prompt>>

\* The failed handler's condition, on the attempts made with the one that failed.
ExhaustedAlways(n) == TRUE         \* mutated form: a row for every failed attempt
Exhausted(n) == n >= Attempts

\* The attempt is counted, then the event failed is emitted.
OnFailedLater(w, j) ==  \* mutated form: off by one
    /\ made' = [made EXCEPT ![j] = @ + 1]
    /\ burying' = [burying EXCEPT ![w] = IF Exhausted(made[j]) THEN @ \cup {j} ELSE @]
OnFailed(w, j) ==
    /\ made' = [made EXCEPT ![j] = @ + 1]
    /\ burying' = [burying EXCEPT ![w] = IF Exhausted(made[j] + 1) THEN @ \cup {j} ELSE @]

\* BullMQ keeps the job for another attempt after its backoff, or for good as failed.
AttemptsLeft(n) == n < Attempts
Reject(w) ==
    /\ pc[w] = "report" /\ failing[w]
    /\ Move(cur[w], IF AttemptsLeft(made[cur[w]] + 1) THEN "delayed" ELSE "failed")
    /\ OnFailed(w, cur[w])
    /\ Done(w)
    /\ UNCHANGED <<stalled, letters, lost, lock, stops, prompt>>

\* The create of the handler ends, beside whatever its worker does by then.
Bury(w, j) ==
    /\ j \in burying[w]
    /\ letters' = letters \cup {j}
    /\ burying' = [burying EXCEPT ![w] = @ \ {j}]
    /\ UNCHANGED <<state, made, stalled, lost, lock, pc, cur, failing, stops, prompt>>

\* A process ends: killed, by a signal (it waits for its workers, not for the
\* handlers), or by the handler's own rejected create, which nobody catches.  It
\* comes back idle; its lock and its active job stay behind.
Stop(w) ==
    /\ stops < MaxStops /\ (pc[w] # "idle" \/ burying[w] # {})
    /\ stops' = stops + 1
    /\ burying' = [burying EXCEPT ![w] = {}]
    /\ lost' = lost \cup burying[w]
    /\ Done(w)
    /\ UNCHANGED <<state, made, stalled, letters, lock, prompt>>
-----------------------------------------------------------------------------
\* The backoff is over.
Retry(j) ==
    /\ state[j] = "delayed"
    /\ Move(j, "waiting")
    /\ UNCHANGED <<made, stalled, letters, lost, lock, pc, cur, failing, burying, stops, prompt>>

\* An active job whose worker no longer renews it is put back.
Stall(j) ==
    /\ state[j] = "active" /\ \A w \in Workers : cur[w] # j
    /\ Move(j, "waiting")
    /\ stalled' = [stalled EXCEPT ![j] = @ + 1]
    /\ UNCHANGED <<made, letters, lost, lock, pc, cur, failing, burying, stops, prompt>>

\* One that stalled too often is failed for good by the next worker to take it,
\* whatever attempts it has left.
GiveUp(w, j) ==
    /\ pc[w] = "idle" /\ state[j] = "waiting" /\ stalled[j] > MaxStalls
    /\ Move(j, "failed")
    /\ OnFailed(w, j)
    /\ UNCHANGED <<stalled, letters, lost, lock, pc, cur, failing, stops, prompt>>

\* The 90 s of the lock are over.
LapseNever ==  \* mutated form: SET without PX
    /\ FALSE
    /\ UNCHANGED vars
Lapse ==
    /\ lock # Null
    /\ prompt => pc[lock] \notin {"work", "release"}
    /\ lock' = Null
    /\ UNCHANGED <<Job, pc, cur, failing, burying, stops, prompt>>

\* Bound: the place of a job that has ended, and is not being buried, is used for
\* another one.
Forget(j) ==
    /\ state[j] \in {"completed", "failed"} /\ \A w \in Workers : j \notin burying[w]
    /\ Move(j, "none")
    /\ made' = [made EXCEPT ![j] = 0]
    /\ stalled' = [stalled EXCEPT ![j] = 0]
    /\ letters' = letters \ {j} /\ lost' = lost \ {j}
    /\ UNCHANGED <<lock, pc, cur, failing, burying, stops, prompt>>

Serve(w) == \/ Acquire(w) \/ Scan(w) \/ ScanRejected(w) \/ Release(w) \/ Complete(w) \/ Reject(w)
            \/ \E j \in Jobs : Take(w, j) \/ GiveUp(w, j)

Turn(j) == Schedule(j) \/ Retry(j) \/ Stall(j) \/ Forget(j)

Next == \/ \E w \in Workers : Serve(w) \/ Stop(w) \/ \E j \in Jobs : Bury(w, j)
        \/ \E j \in Jobs : Turn(j)
        \/ Lapse

Spec == Init /\ [][Next]_vars

\* Redis serves the queue, time passes, and a database that is asked again and
\* again does not reject for ever.  Nothing is assumed of stops.
Fairness == /\ \A w \in Workers : WF_vars(Serve(w)) /\ SF_vars(Scan(w))
            /\ \A j \in Jobs : WF_vars(Turn(j)) /\ \A w \in Workers : WF_vars(Bury(w, j))
            /\ WF_vars(Lapse)
FairSpec == Spec /\ Fairness
-----------------------------------------------------------------------------
\* Every variable keeps its shape.
TypeOK ==
    /\ state \in [Jobs -> States]
    /\ made \in [Jobs -> 0..Attempts]
    /\ stalled \in [Jobs -> 0..MaxStalls + 1]
    /\ letters \subseteq Jobs /\ lost \subseteq Jobs
    /\ lock \in Workers \cup {Null}
    /\ pc \in [Workers -> Phases]
    /\ cur \in [Workers -> Jobs \cup {Null}]
    /\ \A w \in Workers : cur[w] = Null <=> pc[w] = "idle"
    /\ failing \in [Workers -> BOOLEAN]
    /\ burying \in [Workers -> SUBSET Jobs]
    /\ stops \in 0..MaxStops
    /\ prompt \in BOOLEAN

Pending(j) == \E w \in Workers : j \in burying[w]

\* A dead letter, written or on its way, is the last word on its job: no attempt
\* of it is left or under way, whatever stalls and restarts came before.
DeadLetterIsFinal ==
    \A j \in Jobs : j \in letters \/ Pending(j) =>
        state[j] = "failed" /\ Exhausted(made[j]) /\ \A w \in Workers : cur[w] # j

\* A job that failed for good without a dead letter had attempts left and stalled
\* too often, or it had none left and the very write of its letter was under way in
\* a process that stopped: no other stop, stall or retry costs a job its letter.
FailuresAccountedFor ==
    \A j \in Jobs : state[j] = "failed" =>
        \/ j \in letters \/ Pending(j)
        \/ made[j] < Attempts /\ stalled[j] > MaxStalls
        \/ made[j] >= Attempts /\ j \in lost

\* docs/ARCHITECTURE.md:42, "Redis locks for single-run workers": as long as a
\* scan takes less than its lock, no two workers scan, also when the scan's job
\* stalled and is run again.
SingleRun ==
    prompt => \A v, w \in Workers : pc[v] = "work" /\ pc[w] = "work" => v = w

\* Whoever stops where, scans go on being made: a lock left behind, stalled jobs and
\* exhausted ones do not end the monitoring.
ScansGoOn == []<><<\E w \in Workers : Scan(w)>>_vars

\* The life of each job, and of its dead letter, as JobContract has it.
Outcome == [j \in Jobs |-> IF state[j] \in {"waiting", "delayed", "active"} THEN "open" ELSE state[j]]
Letter  == [j \in Jobs |-> IF j \in letters THEN "written" ELSE IF Pending(j) THEN "due" ELSE "none"]

Contract == INSTANCE JobContract WITH outcome <- Outcome, letter <- Letter

\* The workers implement the contract of a job: stalled jobs that are run again,
\* attempts and handlers still writing do not make a job end twice, nor a letter fall
\* due but with the failure.
ImplementsContract == Contract!Spec

\* docs/operations.md:22, "If a job exhausts attempts, it is persisted to
\* DeadLetterJob": the row is there, or its write is under way.
ExhaustedIsBuried ==
    \A j \in Jobs : state[j] = "failed" /\ made[j] >= Attempts => j \in letters \/ Pending(j)
=============================================================================
