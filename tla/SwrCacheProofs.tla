---------------------------- MODULE SwrCacheProofs ----------------------------
(***************************************************************************)
(* Proofs about SwrCache, for any sets of readers and writers and any       *)
(* number of writes: the type invariant, the ownership of the lock, and the *)
(* order of what is cached under prompt producers.  What is cached is       *)
(* ordered because, from its producer's read to its set, the holder of the  *)
(* lock is alone: nothing older than the entry is left in anybody's hands.  *)
(***************************************************************************)
EXTENDS SwrCache, TLAPS

LEMMA TypeInit == Init => TypeOK
BY BoundAssumption, NullAssumption DEF Init, TypeOK, Phases, Entry

LEMMA TypeStep == TypeOK /\ [Next]_vars => TypeOK'
<1> SUFFICES ASSUME TypeOK, [Next]_vars PROVE TypeOK'
  OBVIOUS
<1> USE BoundAssumption, NullAssumption DEF TypeOK, Goto, Forget, Phases
<1>1. ASSUME NEW r \in Readers, Start(r) \/ Get(r) PROVE TypeOK'
  BY <1>1 DEF Start, Get, Procs, Calls, Tasks
<1>2. ASSUME NEW p \in Procs, Serve(p) PROVE TypeOK'
  <2>1. CASE Acquire(p)
    BY <2>1 DEF Acquire, GiveWay
  <2>2. CASE Produce(p)
    BY <2>2 DEF Produce
  <2>3. CASE Set(p)
    BY <2>3 DEF Set, Entry
  <2>4. CASE Release(p)
    BY <2>4 DEF Release
  <2>5. CASE Retry(p)
    BY <2>5 DEF Retry
  <2>6. CASE Fallback(p)
    BY <2>6 DEF Fallback
  <2> QED BY <1>2, <2>1, <2>2, <2>3, <2>4, <2>5, <2>6 DEF Serve
<1>3. ASSUME NEW p \in Procs, Stop(p) PROVE TypeOK'
  BY <1>3 DEF Stop
<1>4. ASSUME NEW w \in Writers, Commit(w) PROVE TypeOK'
  BY <1>4 DEF Commit, Entry
<1>5. ASSUME NEW w \in Writers, Invalidate(w) PROVE TypeOK'
  BY <1>5 DEF Invalidate, Scan, Delete
<1>6. CASE Age
  BY <1>6 DEF Age, Entry
<1>7. CASE Lapse
  BY <1>7 DEF Lapse
<1>8. CASE UNCHANGED vars
  BY <1>8 DEF vars
<1> QED BY <1>1, <1>2, <1>3, <1>4, <1>5, <1>6, <1>7, <1>8 DEF Next

\* Every variable keeps its shape in every behaviour of the cache.
THEOREM TypeCorrect == Spec => []TypeOK
BY TypeInit, TypeStep, PTL DEF Spec
-----------------------------------------------------------------------------
\* The lock of the cache leaves its owner by the owner's release or by lapse only,
\* whether or not Redis fails and locks lapse under their holders.
THEOREM LockStaysOwned == Spec => LockIsOwned
<1>1. TypeOK /\ [Next]_vars => (lock # Null /\ lock' # lock => pc' = pc \/ pc'[lock] = "idle")
  <2> SUFFICES ASSUME TypeOK, [Next]_vars, lock # Null, lock' # lock
               PROVE  pc' = pc \/ pc'[lock] = "idle"
    OBVIOUS
  <2>1. CASE Lapse
    BY <2>1 DEF Lapse
  <2>2. ASSUME NEW p \in Procs, Release(p) PROVE pc'[lock] = "idle"
    BY <2>2 DEF Release, Goto, TypeOK
  <2>3. ASSUME NEW p \in Procs, Serve(p) PROVE Release(p)
    BY <2>3 DEF Serve, Acquire, Produce, Set, Retry, Fallback
  <2> QED
    BY <2>1, <2>2, <2>3 DEF Next, Start, Get, Stop, Commit, Invalidate, Scan, Delete, Age, vars
<1> QED BY <1>1, TypeCorrect, PTL DEF Spec, LockIsOwned
-----------------------------------------------------------------------------
\* Whoever is between acquisition and release has the lock, so it is alone there.
HolderIsOwner == prompt => \A p \in Procs : pc[p] \in Holding => lock = p

\* What waits to be set is not older than what is in the cache.
NothingOlder ==
    prompt => \A p \in Procs : pc[p] = "set" /\ entry # Null => entry.value <= value[p]

OrderInv == TypeOK /\ HolderIsOwner /\ NothingOlder

LEMMA OrderStep ==
    ASSUME OrderInv, [Next]_vars
    PROVE  HolderIsOwner' /\ NothingOlder'
<1> USE NullAssumption DEF OrderInv, TypeOK, HolderIsOwner, NothingOlder, Holding, Goto, Forget
<1>1. ASSUME NEW r \in Readers, Start(r) \/ Get(r) PROVE HolderIsOwner' /\ NothingOlder'
  BY <1>1 DEF Start, Get, Procs, Calls, Tasks
<1>2. ASSUME NEW p \in Procs, Serve(p) PROVE HolderIsOwner' /\ NothingOlder'
  <2>1. CASE Acquire(p)
    BY <2>1 DEF Acquire, GiveWay
  <2>2. CASE Produce(p)
    BY <2>2 DEF Produce
  <2>3. CASE Set(p)
    BY <2>3 DEF Set
  <2>4. CASE Release(p)
    BY <2>4 DEF Release
  <2>5. CASE Retry(p)
    BY <2>5 DEF Retry
  <2>6. CASE Fallback(p)
    BY <2>6 DEF Fallback
  <2> QED BY <1>2, <2>1, <2>2, <2>3, <2>4, <2>5, <2>6 DEF Serve
<1>3. ASSUME NEW p \in Procs, Stop(p) PROVE HolderIsOwner' /\ NothingOlder'
  BY <1>3 DEF Stop
<1>4. ASSUME NEW w \in Writers, Commit(w) \/ Invalidate(w) PROVE HolderIsOwner' /\ NothingOlder'
  BY <1>4 DEF Commit, Invalidate, Scan, Delete
<1>5. CASE Age
  BY <1>5 DEF Age, Entry
<1>6. CASE Lapse
  BY <1>6 DEF Lapse
<1>7. CASE UNCHANGED vars
  BY <1>7 DEF vars
<1> QED BY <1>1, <1>2, <1>3, <1>4, <1>5, <1>6, <1>7 DEF Next

\* As long as no lock lapses under its holder, the cached list never goes back to
\* an older state of the database.
THEOREM CacheNeverGoesBack == Spec => SetsAreOrdered
<1>1. Init => OrderInv
  BY TypeInit DEF Init, OrderInv, HolderIsOwner, NothingOlder, Holding
<1>2. OrderInv /\ [Next]_vars => OrderInv'
  BY TypeStep, OrderStep DEF OrderInv
<1>3. OrderInv /\ [Next]_vars => (prompt /\ entry # Null /\ entry' # Null => entry'.value >= entry.value)
  <2> SUFFICES ASSUME OrderInv, [Next]_vars, prompt, entry # Null, entry' # Null
               PROVE  entry'.value >= entry.value
    OBVIOUS
  <2>1. ASSUME NEW p \in Procs, Set(p) PROVE entry'.value >= entry.value
    BY <2>1 DEF Set, OrderInv, NothingOlder, TypeOK, Entry
  <2>2. CASE Age
    BY <2>2 DEF Age, OrderInv, TypeOK, Entry
  <2>3. CASE UNCHANGED entry
    BY <2>3 DEF OrderInv, TypeOK, Entry
  <2>4. ASSUME NEW w \in Writers, Invalidate(w) PROVE UNCHANGED entry
    BY <2>4 DEF Invalidate, Scan, Delete
  <2>5. ASSUME NEW p \in Procs, Serve(p) PROVE Set(p) \/ UNCHANGED entry
    BY <2>5 DEF Serve, Acquire, Produce, Release, Retry, Fallback
  <2> QED
    BY <2>1, <2>2, <2>3, <2>4, <2>5 DEF Next, Start, Get, Stop, Commit, Lapse, vars
<1> QED BY <1>1, <1>2, <1>3, PTL DEF Spec, SetsAreOrdered

-----------------------------------------------------------------------------
\* The lists in the hands of a producer that are older than the database.
Outdated == {p \in Procs : pc[p] = "set" /\ value[p] < truth}

\* What is out of date dwindles: between commits no producer comes to hold an outdated
\* list, and the key gets one only from a producer that gives it away by that, or keeps
\* the one it has while it ages.  So after the last write an outdated list can come back
\* only as often as there were producers under way, whatever fails, lapses or stops: the
\* part of Converges that no fairness is needed for.
OutdatedDwindles ==
    [][UNCHANGED truth =>
        /\ Outdated' \subseteq Outdated
        /\ entry' # Null /\ entry'.value < truth =>
              \/ UNCHANGED entry
              \/ entry # Null /\ entry.age = "fresh" /\ entry' = [entry EXCEPT !.age = "stale"]
              \/ Outdated' # Outdated]_vars

THEOREM NothingNewIsOutdated == Spec => OutdatedDwindles
<1>1. ASSUME TypeOK, [Next]_vars, UNCHANGED truth
      PROVE  /\ Outdated' \subseteq Outdated
             /\ entry' # Null /\ entry'.value < truth =>
                   \/ UNCHANGED entry
                   \/ entry # Null /\ entry.age = "fresh" /\ entry' = [entry EXCEPT !.age = "stale"]
                   \/ Outdated' # Outdated
  <2> USE DEF TypeOK, Goto, Forget
  <2>1. \A p \in Procs : pc'[p] = "set" /\ value'[p] < truth => pc[p] = "set" /\ value[p] = value'[p]
    <3>1. ASSUME NEW r \in Readers, Start(r) \/ Get(r)
          PROVE  \A p \in Procs : pc'[p] = "set" /\ value'[p] < truth => pc[p] = "set" /\ value[p] = value'[p]
      BY <1>1, <3>1 DEF Start, Get, Procs, Calls, Tasks
    <3>2. ASSUME NEW q \in Procs, Serve(q)
          PROVE  \A p \in Procs : pc'[p] = "set" /\ value'[p] < truth => pc[p] = "set" /\ value[p] = value'[p]
      <4>1. CASE Produce(q)
        BY <1>1, <4>1 DEF Produce
      <4>2. CASE Acquire(q) \/ Set(q) \/ Release(q) \/ Retry(q) \/ Fallback(q)
        BY <1>1, <4>2 DEF Acquire, GiveWay, Set, Release, Retry, Fallback
      <4> QED BY <3>2, <4>1, <4>2 DEF Serve
    <3>3. ASSUME NEW q \in Procs, Stop(q)
          PROVE  \A p \in Procs : pc'[p] = "set" /\ value'[p] < truth => pc[p] = "set" /\ value[p] = value'[p]
      BY <1>1, <3>3 DEF Stop
    <3>4. CASE UNCHANGED <<pc, value>>
      BY <3>4
    <3> QED BY <1>1, <3>1, <3>2, <3>3, <3>4 DEF Next, Commit, Invalidate, Scan, Delete, Age, Lapse, vars
  <2>2. Outdated' \subseteq Outdated
    BY <1>1, <2>1 DEF Outdated
  <2>3. ASSUME entry' # Null, entry'.value < truth, entry' # entry
        PROVE  \/ entry # Null /\ entry.age = "fresh" /\ entry' = [entry EXCEPT !.age = "stale"]
               \/ Outdated' # Outdated
    <3>1. CASE Age
      BY <2>3, <3>1 DEF Age
    <3>2. ASSUME NEW p \in Procs, Set(p) PROVE p \in Outdated /\ p \notin Outdated'
      BY <1>1, <2>3, <3>2 DEF Set, Outdated
    <3>3. Age \/ \E p \in Procs : Set(p)
      BY <1>1, <2>3 DEF Next, Start, Get, Serve, Acquire, Produce, Release, Retry, Fallback, Stop, Commit, Invalidate,
         Scan, Delete, Lapse, vars
    <3> QED BY <3>1, <3>2, <3>3
  <2> QED BY <2>2, <2>3
<1>2. TypeOK /\ [Next]_vars =>
        [UNCHANGED truth =>
            /\ Outdated' \subseteq Outdated
            /\ entry' # Null /\ entry'.value < truth =>
                  \/ UNCHANGED entry
                  \/ entry # Null /\ entry.age = "fresh" /\ entry' = [entry EXCEPT !.age = "stale"]
                  \/ Outdated' # Outdated]_vars
  BY <1>1
<1> QED BY <1>2, TypeCorrect, PTL DEF Spec, OutdatedDwindles
=============================================================================
