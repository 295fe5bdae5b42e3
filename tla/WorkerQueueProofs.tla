--------------------------- MODULE WorkerQueueProofs ---------------------------
(***************************************************************************)
(* Proofs about WorkerQueue, for any number of jobs, workers, attempts and  *)
(* stops: the type invariant, what a dead letter and a missing one mean,    *)
(* that prompt scans are single runs, and that JobContract is implemented.  *)
(***************************************************************************)
EXTENDS WorkerQueue, TLAPS

\* A worker's job is active, and no other worker's.
Owned ==
    /\ \A w \in Workers : cur[w] # Null => state[cur[w]] = "active"
    /\ \A v, w \in Workers : cur[v] # Null /\ cur[v] = cur[w] => v = w

\* A job that has not ended has attempts left; one that is worked on has not
\* stalled too often.
Counted ==
    \A j \in Jobs : /\ state[j] \in {"none", "waiting", "delayed", "active"} => made[j] < Attempts
                    /\ state[j] = "active" => stalled[j] <= MaxStalls

Coherent == TypeOK /\ Owned /\ Counted

LEMMA CoherentInit == Init => Coherent
BY AttemptsAssumption, NullAssumption DEF Init, Coherent, TypeOK, Owned, Counted, States, Phases, MaxStalls

LEMMA CoherentStep == Coherent /\ [Next]_vars => Coherent'
<1> SUFFICES ASSUME Coherent, [Next]_vars PROVE Coherent'
  OBVIOUS
<1> USE AttemptsAssumption, NullAssumption
        DEF Coherent, TypeOK, Owned, Counted, Move, Goto, Job, Done, States, Phases, MaxStalls
<1>1. ASSUME NEW w \in Workers, Serve(w) PROVE Coherent'
  <2>1. CASE Acquire(w)
    BY <2>1 DEF Acquire
  <2>2. CASE Scan(w) \/ ScanRejected(w)
    BY <2>2 DEF Scan, ScanRejected
  <2>3. CASE Release(w)
    BY <2>3 DEF Release
  <2>4. CASE Complete(w)
    BY <2>4 DEF Complete
  <2>5. CASE Reject(w)
    BY <2>5 DEF Reject, AttemptsLeft, OnFailed
  <2>6. ASSUME NEW j \in Jobs, Take(w, j) PROVE Coherent'
    BY <2>6 DEF Take
  <2>7. ASSUME NEW j \in Jobs, GiveUp(w, j) PROVE Coherent'
    BY <2>7 DEF GiveUp, OnFailed
  <2> QED BY <1>1, <2>1, <2>2, <2>3, <2>4, <2>5, <2>6, <2>7 DEF Serve
<1>2. ASSUME NEW w \in Workers, Stop(w) PROVE Coherent'
  BY <1>2 DEF Stop
<1>3. ASSUME NEW w \in Workers, NEW j \in Jobs, Bury(w, j) PROVE Coherent'
  BY <1>3 DEF Bury
<1>4. ASSUME NEW j \in Jobs, Turn(j) PROVE Coherent'
  <2>1. CASE Schedule(j)
    BY <2>1 DEF Schedule
  <2>2. CASE Retry(j)
    BY <2>2 DEF Retry
  <2>3. CASE Stall(j)
    BY <2>3 DEF Stall
  <2>4. CASE Forget(j)
    BY <2>4 DEF Forget
  <2> QED BY <1>4, <2>1, <2>2, <2>3, <2>4 DEF Turn
<1>5. CASE Lapse
  BY <1>5 DEF Lapse
<1>6. CASE UNCHANGED vars
  BY <1>6 DEF vars
<1> QED BY <1>1, <1>2, <1>3, <1>4, <1>5, <1>6 DEF Next

LEMMA AlwaysCoherent == Spec => []Coherent
BY CoherentInit, CoherentStep, PTL DEF Spec

\* Every variable keeps its shape: no job makes more attempts than it has, none
\* stalls more than once too often.
THEOREM TypeCorrect == Spec => []TypeOK
BY AlwaysCoherent, PTL DEF Coherent
-----------------------------------------------------------------------------
LEMMA LetterStep == Coherent /\ DeadLetterIsFinal /\ [Next]_vars => DeadLetterIsFinal'
<1> SUFFICES ASSUME Coherent, DeadLetterIsFinal, [Next]_vars PROVE DeadLetterIsFinal'
  OBVIOUS
<1> USE AttemptsAssumption, NullAssumption
        DEF Coherent, TypeOK, Owned, Counted, Move, Goto, Job, Done, States, Phases,
            DeadLetterIsFinal, Pending, Exhausted
<1>1. ASSUME NEW w \in Workers, Serve(w) PROVE DeadLetterIsFinal'
  <2>1. CASE Acquire(w) \/ Scan(w) \/ ScanRejected(w) \/ Release(w)
    BY <2>1 DEF Acquire, Scan, ScanRejected, Release
  <2>2. CASE Complete(w)
    BY <2>2 DEF Complete
  <2>3. CASE Reject(w)
    BY <2>3 DEF Reject, AttemptsLeft, OnFailed
  <2>4. ASSUME NEW j \in Jobs, Take(w, j) PROVE DeadLetterIsFinal'
    BY <2>4 DEF Take
  <2>5. ASSUME NEW j \in Jobs, GiveUp(w, j) PROVE DeadLetterIsFinal'
    BY <2>5 DEF GiveUp, OnFailed
  <2> QED BY <1>1, <2>1, <2>2, <2>3, <2>4, <2>5 DEF Serve
<1>2. ASSUME NEW w \in Workers, Stop(w) PROVE DeadLetterIsFinal'
  BY <1>2 DEF Stop
<1>3. ASSUME NEW w \in Workers, NEW j \in Jobs, Bury(w, j) PROVE DeadLetterIsFinal'
  BY <1>3 DEF Bury
<1>4. ASSUME NEW j \in Jobs, Turn(j) PROVE DeadLetterIsFinal'
  BY <1>4 DEF Turn, Schedule, Retry, Stall, Forget
<1>5. CASE Lapse \/ UNCHANGED vars
  BY <1>5 DEF Lapse, vars
<1> QED BY <1>1, <1>2, <1>3, <1>4, <1>5 DEF Next

\* A dead letter, written or on its way, is the last word on its job.
THEOREM DeadLettersFinal == Spec => []DeadLetterIsFinal
<1>1. Init => DeadLetterIsFinal
  BY DEF Init, DeadLetterIsFinal, Pending
<1> QED BY <1>1, LetterStep, AlwaysCoherent, PTL DEF Spec

\* A stop loses the writes its process had under way, which are exhausted jobs', and
\* leaves those of the other processes.
LEMMA AccountStep == Coherent /\ DeadLetterIsFinal /\ FailuresAccountedFor /\ [Next]_vars => FailuresAccountedFor'
<1> SUFFICES ASSUME Coherent, DeadLetterIsFinal, FailuresAccountedFor, [Next]_vars
             PROVE  FailuresAccountedFor'
  OBVIOUS
<1> USE AttemptsAssumption, NullAssumption
        DEF Coherent, TypeOK, Owned, Move, Goto, Job, Done, States,
            FailuresAccountedFor, Pending, Exhausted
<1>1. ASSUME NEW w \in Workers, Serve(w) PROVE FailuresAccountedFor'
  <2>1. CASE Acquire(w) \/ Scan(w) \/ ScanRejected(w) \/ Release(w)
    BY <2>1 DEF Acquire, Scan, ScanRejected, Release
  <2>2. CASE Complete(w)
    BY <2>2 DEF Complete
  <2>3. CASE Reject(w)
    BY <2>3 DEF Reject, AttemptsLeft, OnFailed
  <2>4. ASSUME NEW j \in Jobs, Take(w, j) PROVE FailuresAccountedFor'
    BY <2>4 DEF Take
  <2>5. ASSUME NEW j \in Jobs, GiveUp(w, j) PROVE FailuresAccountedFor'
    BY <2>5 DEF GiveUp, OnFailed
  <2> QED BY <1>1, <2>1, <2>2, <2>3, <2>4, <2>5 DEF Serve
<1>2. ASSUME NEW w \in Workers, Stop(w) PROVE FailuresAccountedFor'
  <2>1. UNCHANGED <<state, made, stalled, letters>> /\ lost' = lost \cup burying[w]
    BY <1>2 DEF Stop
  <2>2. ASSUME NEW j \in Jobs, Pending(j) PROVE Pending(j)' \/ j \in lost'
    BY <1>2, <2>2 DEF Stop
  <2>3. ASSUME NEW j \in Jobs, Pending(j) PROVE made[j] >= Attempts
    BY <2>3 DEF DeadLetterIsFinal
  <2> QED BY <2>1, <2>2, <2>3
<1>3. ASSUME NEW w \in Workers, NEW j \in Jobs, Bury(w, j) PROVE FailuresAccountedFor'
  BY <1>3 DEF Bury
<1>4. ASSUME NEW j \in Jobs, Turn(j) PROVE FailuresAccountedFor'
  BY <1>4 DEF Turn, Schedule, Retry, Stall, Forget
<1>5. CASE Lapse \/ UNCHANGED vars
  BY <1>5 DEF Lapse, vars
<1> QED BY <1>1, <1>2, <1>3, <1>4, <1>5 DEF Next

\* A job that failed for good without a dead letter stalled too often with attempts
\* left, or lost the write of its letter to the process that stopped in it.
THEOREM FailuresExplained == Spec => []FailuresAccountedFor
<1>1. Init => FailuresAccountedFor
  BY DEF Init, FailuresAccountedFor
<1> QED BY <1>1, AccountStep, DeadLettersFinal, AlwaysCoherent, PTL DEF Spec
-----------------------------------------------------------------------------
\* While scans are prompt, who is between acquisition and release has the lock.
HolderIsOwner == prompt => \A w \in Workers : pc[w] \in {"work", "release"} => lock = w

LEMMA HolderStep == Coherent /\ HolderIsOwner /\ [Next]_vars => HolderIsOwner'
<1> SUFFICES ASSUME Coherent, HolderIsOwner, [Next]_vars PROVE HolderIsOwner'
  OBVIOUS
<1> USE NullAssumption DEF Coherent, TypeOK, Goto, Job, Done, Phases, HolderIsOwner
<1>1. ASSUME NEW w \in Workers, Serve(w) PROVE HolderIsOwner'
  <2>1. CASE Acquire(w)
    BY <2>1 DEF Acquire
  <2>2. CASE Scan(w) \/ ScanRejected(w) \/ Release(w)
    BY <2>2 DEF Scan, ScanRejected, Release
  <2>3. CASE Complete(w) \/ Reject(w)
    BY <2>3 DEF Complete, Reject, OnFailed
  <2>4. ASSUME NEW j \in Jobs, Take(w, j) \/ GiveUp(w, j) PROVE HolderIsOwner'
    BY <2>4 DEF Take, GiveUp, OnFailed
  <2> QED BY <1>1, <2>1, <2>2, <2>3, <2>4 DEF Serve
<1>2. ASSUME NEW w \in Workers, Stop(w) PROVE HolderIsOwner'
  BY <1>2 DEF Stop
<1>3. ASSUME NEW w \in Workers, NEW j \in Jobs, Bury(w, j) PROVE HolderIsOwner'
  BY <1>3 DEF Bury
<1>4. ASSUME NEW j \in Jobs, Turn(j) PROVE HolderIsOwner'
  BY <1>4 DEF Turn, Schedule, Retry, Stall, Forget
<1>5. CASE Lapse \/ UNCHANGED vars
  BY <1>5 DEF Lapse, vars
<1> QED BY <1>1, <1>2, <1>3, <1>4, <1>5 DEF Next

\* As long as a scan takes less than its lock, no two workers scan.
THEOREM ScansAreSingle == Spec => []SingleRun
<1>1. Init => HolderIsOwner
  BY DEF Init, HolderIsOwner
<1>2. HolderIsOwner => SingleRun
  BY DEF HolderIsOwner, SingleRun
<1> QED BY <1>1, <1>2, HolderStep, AlwaysCoherent, PTL DEF Spec
-----------------------------------------------------------------------------
LEMMA SameLife ==
    ASSUME UNCHANGED <<state, letters, burying>> PROVE UNCHANGED Contract!vars
BY DEF Contract!vars, Outcome, Letter, Pending

\* A step moves at most one job, and only to another list that counts as open.
LEMMA StillOpen ==
    ASSUME TypeOK, NEW j \in Jobs, NEW list \in {"waiting", "delayed", "active"},
           state[j] \in {"waiting", "delayed", "active"},
           Move(j, list), UNCHANGED <<letters, burying>>
    PROVE  UNCHANGED Contract!vars
<1>1. Outcome' = Outcome
  BY DEF TypeOK, Move, Outcome
<1>2. Letter' = Letter
  BY DEF Letter, Pending
<1> QED BY <1>1, <1>2 DEF Contract!vars

\* The failed handler is run when the job fails: the letter falls due or not.
LEMMA FailIsFail ==
    ASSUME Coherent, DeadLetterIsFinal, NEW w \in Workers, NEW j \in Jobs,
           state[j] \in {"waiting", "active"}, Move(j, "failed"), OnFailed(w, j), UNCHANGED letters
    PROVE  Contract!Fail(j)
<1> USE DEF Coherent, TypeOK
<1>1. ~Pending(j) /\ j \notin letters
  BY DEF DeadLetterIsFinal
<1>2. Contract!Ends(j, "failed")
  BY DEF Contract!Ends, Outcome, Move, States
<1>3. Letter[j] = "none"
  BY <1>1 DEF Letter
<1>4. \A i \in Jobs : i # j => (Pending(i)' <=> Pending(i))
  BY DEF OnFailed, Pending
<1>5. Pending(j)' => Letter' = [Letter EXCEPT ![j] = "due"]
  BY <1>1, <1>4 DEF Letter
<1>6. ~Pending(j)' => Letter' = [Letter EXCEPT ![j] = "none"]
  BY <1>1, <1>4 DEF Letter
<1> QED BY <1>2, <1>3, <1>5, <1>6 DEF Contract!Fail

LEMMA ContractStep ==
    Coherent /\ DeadLetterIsFinal /\ [Next]_vars => [Contract!Next]_Contract!vars
<1> SUFFICES ASSUME Coherent, DeadLetterIsFinal, [Next]_vars
             PROVE  Contract!Next \/ UNCHANGED Contract!vars
  OBVIOUS
<1> USE DEF Coherent, Owned
<1>1. ASSUME NEW w \in Workers, Serve(w) PROVE Contract!Next \/ UNCHANGED Contract!vars
  <2>1. CASE Acquire(w) \/ Scan(w) \/ ScanRejected(w) \/ Release(w)
    BY <2>1, SameLife DEF Acquire, Scan, ScanRejected, Release, Job
  <2>2. CASE Complete(w)
    <3> DEFINE j == cur[w]
    <3>1. j \in Jobs /\ state[j] = "active"
      BY <2>2, NullAssumption DEF Complete, TypeOK
    <3>2. Outcome' = [Outcome EXCEPT ![j] = "completed"]
      BY <2>2, <3>1 DEF Complete, Move, TypeOK, Outcome
    <3>3. Letter' = Letter
      BY <2>2 DEF Complete, Letter, Pending
    <3>4. Contract!Complete(j)
      BY <3>1, <3>2, <3>3 DEF Contract!Complete, Contract!Ends, Outcome
    <3> QED BY <3>1, <3>4 DEF Contract!Next
  <2>3. CASE Reject(w)
    <3> DEFINE j == cur[w]
    <3>1. j \in Jobs /\ state[j] = "active" /\ made[j] \in Nat
      BY <2>3, NullAssumption DEF Reject, TypeOK
    <3>2. CASE AttemptsLeft(made[j] + 1)
      <4>1. ~Exhausted(made[j] + 1)
        BY <3>1, <3>2, AttemptsAssumption DEF AttemptsLeft, Exhausted
      <4>2. UNCHANGED burying
        BY <2>3, <4>1 DEF Reject, OnFailed, TypeOK
      <4> QED BY <2>3, <3>1, <3>2, <4>2, StillOpen DEF Reject
    <3>3. CASE ~AttemptsLeft(made[j] + 1)
      BY <2>3, <3>1, <3>3, FailIsFail DEF Reject, Contract!Next
    <3> QED BY <3>2, <3>3
  <2>4. ASSUME NEW j \in Jobs, Take(w, j) PROVE UNCHANGED Contract!vars
    BY <2>4, StillOpen DEF Take
  <2>5. ASSUME NEW j \in Jobs, GiveUp(w, j) PROVE Contract!Next
    BY <2>5, FailIsFail DEF GiveUp, Contract!Next
  <2> QED BY <1>1, <2>1, <2>2, <2>3, <2>4, <2>5 DEF Serve
<1>2. ASSUME NEW w \in Workers, Stop(w) PROVE Contract!Next
  <2> DEFINE S == {j \in Jobs : Letter[j] = "due" /\ ~Pending(j)'}
  <2>1. UNCHANGED <<state, letters>> /\ \A j \in Jobs : Pending(j)' => Pending(j)
    BY <1>2 DEF Stop, Job, Pending, TypeOK
  <2>2. Outcome' = Outcome
    BY <2>1 DEF Outcome
  <2>3. Letter' = [j \in Jobs |-> IF j \in S THEN "none" ELSE Letter[j]]
    BY <2>1 DEF Letter
  <2>4. Contract!Lose(S)
    BY <2>2, <2>3 DEF Contract!Lose
  <2> QED BY <2>4 DEF Contract!Next
<1>3. ASSUME NEW w \in Workers, NEW j \in Jobs, Bury(w, j) PROVE Contract!Next \/ UNCHANGED Contract!vars
  <2>1. Outcome' = Outcome
    BY <1>3 DEF Bury, Outcome
  <2>2. Pending(j) /\ \A i \in Jobs : i # j => (Pending(i)' <=> Pending(i))
    BY <1>3 DEF Bury, Pending, TypeOK
  <2>3. Letter' = [Letter EXCEPT ![j] = "written"]
    BY <1>3, <2>2 DEF Bury, Letter
  <2>4. CASE j \in letters
    <3>1. Letter' = Letter
      BY <2>3, <2>4 DEF Letter
    <3> QED BY <2>1, <3>1 DEF Contract!vars
  <2>5. CASE j \notin letters
    BY <2>1, <2>2, <2>3, <2>5 DEF Letter, Contract!Write, Contract!Next
  <2> QED BY <2>4, <2>5
<1>4. ASSUME NEW j \in Jobs, Turn(j) PROVE Contract!Next \/ UNCHANGED Contract!vars
  <2>1. CASE Schedule(j)
    <3>1. Outcome[j] = "none" /\ Outcome' = [Outcome EXCEPT ![j] = "open"]
      BY <2>1 DEF Schedule, Move, TypeOK, Outcome
    <3>2. Letter' = Letter
      BY <2>1 DEF Schedule, Letter, Pending
    <3> QED BY <3>1, <3>2 DEF Contract!Accept, Contract!Next
  <2>2. CASE Retry(j)
    BY <2>2, StillOpen DEF Retry
  <2>3. CASE Stall(j)
    BY <2>3, StillOpen DEF Stall
  <2>4. CASE Forget(j)
    <3>1. /\ Outcome[j] \in {"completed", "failed"}
          /\ Outcome' = [Outcome EXCEPT ![j] = "none"]
      BY <2>4 DEF Forget, Move, TypeOK, Outcome
    <3>2. ~Pending(j) /\ UNCHANGED burying /\ letters' = letters \ {j}
      BY <2>4 DEF Forget, Pending
    <3>3. Letter[j] # "due"
      BY <3>2 DEF Letter
    <3>4. Letter' = [Letter EXCEPT ![j] = "none"]
      BY <3>2 DEF Letter, Pending
    <3> QED BY <3>1, <3>3, <3>4 DEF Contract!Forget, Contract!Next
  <2> QED BY <1>4, <2>1, <2>2, <2>3, <2>4 DEF Turn
<1>5. CASE Lapse \/ UNCHANGED vars
  BY <1>5, SameLife DEF Lapse, Job, vars
<1> QED BY <1>1, <1>2, <1>3, <1>4, <1>5 DEF Next

\* The workers implement JobContract: a job ends once, and a letter falls due with
\* its failure at most, whatever stalls, retries, stops and late handlers there are.
THEOREM JobsKeepContract == Spec => ImplementsContract
<1>1. Init => Contract!Init
  BY DEF Init, Contract!Init, Outcome, Letter, Pending
<1> QED BY <1>1, ContractStep, AlwaysCoherent, DeadLettersFinal, PTL DEF Spec, ImplementsContract, Contract!Spec
=============================================================================
