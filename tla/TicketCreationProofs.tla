-------------------------- MODULE TicketCreationProofs --------------------------
(***************************************************************************)
(* Proofs about TicketCreation, for any sets of attempts and keys, any time *)
(* a key is honoured and any clock: the type invariant, the agreement of    *)
(* the answers under one key, and the absence of silent duplicates.         *)
(*                                                                          *)
(* The key table is unique, so of the attempts recorded under a key all but *)
(* the one in its row have expired (Superseded, Spaced); what an attempt is *)
(* answered was recorded under its key (Told).  A client whose attempts     *)
(* never failed has one of them under way at a time (OneAtATime, Served),   *)
(* and the one that got past the lookup found nothing still honoured        *)
(* (Missed).                                                                *)
(***************************************************************************)
EXTENDS TicketCreation, TLAPS

Keyed(a) == sent[a] # Null /\ Key(a) # Null

\* Only attempts that named a key look it up and record it.
Asked ==
    \A a \in Attempts :
        /\ sent[a] = Null <=> pc[a] = "idle"
        /\ pc[a] \in {"lookup", "record"} => Keyed(a)

TypeInv == TypeOK /\ Asked

LEMMA TypeInit == Init => TypeInv
BY TimeAssumption DEF Init, TypeInv, TypeOK, Asked, NoAnswer, Answer, Kinds

LEMMA TypeStep == TypeInv /\ [Next]_vars => TypeInv'
<1> SUFFICES ASSUME TypeInv, [Next]_vars PROVE TypeInv'
  OBVIOUS
<1> USE TimeAssumption, NullAssumption DEF TypeInv, TypeOK, Asked, Keyed, Key, Reply, Answer, Kinds, Sent
<1>1. ASSUME NEW a \in Attempts, Send(a) PROVE TypeInv'
  BY <1>1 DEF Send
<1>2. ASSUME NEW a \in Attempts, Replay(a) PROVE TypeInv'
  BY <1>2 DEF Replay, Honoured, KeyRow
<1>3. ASSUME NEW a \in Attempts, Miss(a) PROVE TypeInv'
  BY <1>3 DEF Miss
<1>4. ASSUME NEW a \in Attempts, CreateTicket(a) PROVE TypeInv'
  BY <1>4 DEF CreateTicket
<1>5. ASSUME NEW a \in Attempts, Record(a) PROVE TypeInv'
  BY <1>5 DEF Record, NewKeyRow, KeyRow
<1>6. ASSUME NEW a \in Attempts, RecordClash(a) PROVE TypeInv'
  BY <1>6 DEF RecordClash
<1>7. ASSUME NEW a \in Attempts, Invalidate(a) PROVE TypeInv'
  BY <1>7 DEF Invalidate
<1>8. ASSUME NEW a \in Attempts, Fail(a) PROVE TypeInv'
  BY <1>8 DEF Fail
<1>9. ASSUME NEW a \in Attempts, ClientTimeout(a) PROVE TypeInv'
  BY <1>9 DEF ClientTimeout
<1>10. CASE Tick
  BY <1>10 DEF Tick
<1>11. CASE Cleanup
  BY <1>11 DEF Cleanup
<1>12. CASE UNCHANGED vars
  BY <1>12 DEF vars
<1> QED BY <1>1, <1>2, <1>3, <1>4, <1>5, <1>6, <1>7, <1>8, <1>9, <1>10, <1>11, <1>12
       DEF Next, Handle, Finished

\* Every variable keeps its shape in every behaviour.
THEOREM TypeCorrect == Spec => []TypeOK
<1>1. TypeInv => TypeOK
  BY DEF TypeInv
<1> QED BY <1>1, TypeInit, TypeStep, PTL DEF Spec
-----------------------------------------------------------------------------
\* What the phase of a handler says of its request.
Shape ==
    \A a \in Attempts :
        /\ pc[a] = "idle" => answer[a].kind = "none"
        /\ recorded[a] # Null => Keyed(a) /\ pc[a] \in {"invalidate", "done"} /\ recorded[a] <= now
        /\ pc[a] = "invalidate" /\ Keyed(a) => recorded[a] # Null

\* The row of a key is of an attempt recorded under it.
RowIsRecorded ==
    \A k \in Keys : keyRow[k] # Null =>
        LET x == keyRow[k].response
        IN  recorded[x] # Null /\ Key(x) = k /\ keyRow[k].expiresAt = recorded[x] + TTL

\* An attempt that is recorded but no longer in the row of its key has expired.
Superseded ==
    \A a \in Attempts : recorded[a] # Null =>
        \/ keyRow[Key(a)] # Null /\ keyRow[Key(a)].response = a
        \/ recorded[a] + TTL < now

\* Two attempts are recorded under one key only if it expired in between.
Spaced ==
    \A a, b \in Attempts : a # b /\ SameKey(a, b) /\ recorded[a] # Null /\ recorded[b] # Null =>
        ExpiredBetween(a, b) \/ ExpiredBetween(b, a)

\* The ticket an attempt is answered was recorded under its key.
Told ==
    \A a \in Attempts : Keyed(a) /\ Succeeded(a) =>
        LET x == answer[a].ticket
        IN  x \in Attempts /\ recorded[x] # Null /\ Key(x) = Key(a)

AgreeInv == TypeInv /\ Shape /\ RowIsRecorded /\ Superseded /\ Spaced /\ Told

LEMMA AgreeInit == Init => AgreeInv
BY TypeInit
DEF Init, AgreeInv, Shape, RowIsRecorded, Superseded, Spaced, Told, Keyed, Key, Succeeded, NoAnswer

LEMMA ShapeStep == TypeInv /\ Shape /\ [Next]_vars => Shape'
<1> SUFFICES ASSUME TypeInv /\ Shape, [Next]_vars PROVE Shape'
  OBVIOUS
<1> USE TimeAssumption, NullAssumption DEF TypeInv, TypeOK, Asked, Keyed, Key, KeyRow, Sent,
        Shape, Reply
<1>1. ASSUME NEW a \in Attempts, Send(a) PROVE Shape'
  BY <1>1 DEF Send
<1>2. ASSUME NEW a \in Attempts, Replay(a) PROVE Shape'
  BY <1>2 DEF Replay, Honoured
<1>3. ASSUME NEW a \in Attempts, Miss(a) PROVE Shape'
  BY <1>3 DEF Miss, Honoured
<1>4. ASSUME NEW a \in Attempts, CreateTicket(a) PROVE Shape'
  BY <1>4 DEF CreateTicket
<1>5. ASSUME NEW a \in Attempts, Record(a) PROVE Shape'
  BY <1>5 DEF Record, NewKeyRow
<1>6. ASSUME NEW a \in Attempts, RecordClash(a) PROVE Shape'
  BY <1>6 DEF RecordClash
<1>7. ASSUME NEW a \in Attempts, Invalidate(a) PROVE Shape'
  BY <1>7 DEF Invalidate
<1>8. ASSUME NEW a \in Attempts, Fail(a) PROVE Shape'
  BY <1>8 DEF Fail
<1>9. ASSUME NEW a \in Attempts, ClientTimeout(a) PROVE Shape'
  BY <1>9 DEF ClientTimeout
<1>10. CASE Tick
  BY <1>10 DEF Tick
<1>11. CASE Cleanup
  BY <1>11 DEF Cleanup, Expired
<1>12. CASE UNCHANGED vars
  BY <1>12 DEF vars
<1> QED BY <1>1, <1>2, <1>3, <1>4, <1>5, <1>6, <1>7, <1>8, <1>9, <1>10, <1>11, <1>12
       DEF Next, Handle, Finished

LEMMA RowStep == TypeInv /\ Shape /\ RowIsRecorded /\ [Next]_vars => RowIsRecorded'
<1> SUFFICES ASSUME TypeInv /\ Shape /\ RowIsRecorded, [Next]_vars PROVE RowIsRecorded'
  OBVIOUS
<1> USE TimeAssumption, NullAssumption DEF TypeInv, TypeOK, Asked, Keyed, Key, KeyRow, Sent,
        Shape, RowIsRecorded
<1>1. ASSUME NEW a \in Attempts, Send(a) PROVE RowIsRecorded'
  BY <1>1 DEF Send
<1>2. ASSUME NEW a \in Attempts, Replay(a) PROVE RowIsRecorded'
  BY <1>2 DEF Replay, Honoured
<1>3. ASSUME NEW a \in Attempts, Miss(a) PROVE RowIsRecorded'
  BY <1>3 DEF Miss, Honoured
<1>4. ASSUME NEW a \in Attempts, CreateTicket(a) PROVE RowIsRecorded'
  BY <1>4 DEF CreateTicket
<1>5. ASSUME NEW a \in Attempts, Record(a) PROVE RowIsRecorded'
  BY <1>5 DEF Record, NewKeyRow
<1>6. ASSUME NEW a \in Attempts, RecordClash(a) PROVE RowIsRecorded'
  BY <1>6 DEF RecordClash
<1>7. ASSUME NEW a \in Attempts, Invalidate(a) PROVE RowIsRecorded'
  BY <1>7 DEF Invalidate
<1>8. ASSUME NEW a \in Attempts, Fail(a) PROVE RowIsRecorded'
  BY <1>8 DEF Fail
<1>9. ASSUME NEW a \in Attempts, ClientTimeout(a) PROVE RowIsRecorded'
  BY <1>9 DEF ClientTimeout
<1>10. CASE Tick
  BY <1>10 DEF Tick
<1>11. CASE Cleanup
  BY <1>11 DEF Cleanup, Expired
<1>12. CASE UNCHANGED vars
  BY <1>12 DEF vars
<1> QED BY <1>1, <1>2, <1>3, <1>4, <1>5, <1>6, <1>7, <1>8, <1>9, <1>10, <1>11, <1>12
       DEF Next, Handle, Finished

\* A row goes by clean-up after its expiry only, so whoever loses its row has expired.
LEMMA SupersededStep == TypeInv /\ Shape /\ RowIsRecorded /\ Superseded /\ [Next]_vars => Superseded'
<1> SUFFICES ASSUME TypeInv /\ Shape /\ RowIsRecorded /\ Superseded, [Next]_vars PROVE Superseded'
  OBVIOUS
<1> USE TimeAssumption, NullAssumption DEF TypeInv, TypeOK, Asked, Keyed, Key, KeyRow, Sent,
        Shape, RowIsRecorded, Superseded
<1>1. ASSUME NEW a \in Attempts, Send(a) PROVE Superseded'
  BY <1>1 DEF Send
<1>2. ASSUME NEW a \in Attempts, Replay(a) PROVE Superseded'
  BY <1>2 DEF Replay, Honoured
<1>3. ASSUME NEW a \in Attempts, Miss(a) PROVE Superseded'
  BY <1>3 DEF Miss, Honoured
<1>4. ASSUME NEW a \in Attempts, CreateTicket(a) PROVE Superseded'
  BY <1>4 DEF CreateTicket
<1>5. ASSUME NEW a \in Attempts, Record(a) PROVE Superseded'
  BY <1>5 DEF Record, NewKeyRow
<1>6. ASSUME NEW a \in Attempts, RecordClash(a) PROVE Superseded'
  BY <1>6 DEF RecordClash
<1>7. ASSUME NEW a \in Attempts, Invalidate(a) PROVE Superseded'
  BY <1>7 DEF Invalidate
<1>8. ASSUME NEW a \in Attempts, Fail(a) PROVE Superseded'
  BY <1>8 DEF Fail
<1>9. ASSUME NEW a \in Attempts, ClientTimeout(a) PROVE Superseded'
  BY <1>9 DEF ClientTimeout
<1>10. CASE Tick
  BY <1>10 DEF Tick
<1>11. CASE Cleanup
  BY <1>11 DEF Cleanup, Expired
<1>12. CASE UNCHANGED vars
  BY <1>12 DEF vars
<1> QED BY <1>1, <1>2, <1>3, <1>4, <1>5, <1>6, <1>7, <1>8, <1>9, <1>10, <1>11, <1>12
       DEF Next, Handle, Finished

\* Who records finds no row, so whoever recorded before has expired by then.
LEMMA SpacedStep == TypeInv /\ Shape /\ Superseded /\ Spaced /\ [Next]_vars => Spaced'
<1> SUFFICES ASSUME TypeInv /\ Shape /\ Superseded /\ Spaced, [Next]_vars PROVE Spaced'
  OBVIOUS
<1> USE TimeAssumption, NullAssumption DEF TypeInv, TypeOK, Asked, Keyed, Key, KeyRow, Sent,
        Shape, Superseded, Spaced, SameKey, ExpiredBetween
<1>1. ASSUME NEW a \in Attempts, Send(a) PROVE Spaced'
  BY <1>1 DEF Send
<1>2. ASSUME NEW a \in Attempts, Replay(a) PROVE Spaced'
  BY <1>2 DEF Replay, Honoured
<1>3. ASSUME NEW a \in Attempts, Miss(a) PROVE Spaced'
  BY <1>3 DEF Miss, Honoured
<1>4. ASSUME NEW a \in Attempts, CreateTicket(a) PROVE Spaced'
  BY <1>4 DEF CreateTicket
<1>5. ASSUME NEW a \in Attempts, Record(a) PROVE Spaced'
  BY <1>5 DEF Record, NewKeyRow
<1>6. ASSUME NEW a \in Attempts, RecordClash(a) PROVE Spaced'
  BY <1>6 DEF RecordClash
<1>7. ASSUME NEW a \in Attempts, Invalidate(a) PROVE Spaced'
  BY <1>7 DEF Invalidate
<1>8. ASSUME NEW a \in Attempts, Fail(a) PROVE Spaced'
  BY <1>8 DEF Fail
<1>9. ASSUME NEW a \in Attempts, ClientTimeout(a) PROVE Spaced'
  BY <1>9 DEF ClientTimeout
<1>10. CASE Tick
  BY <1>10 DEF Tick
<1>11. CASE Cleanup
  BY <1>11 DEF Cleanup, Expired
<1>12. CASE UNCHANGED vars
  BY <1>12 DEF vars
<1> QED BY <1>1, <1>2, <1>3, <1>4, <1>5, <1>6, <1>7, <1>8, <1>9, <1>10, <1>11, <1>12
       DEF Next, Handle, Finished

\* A replay is answered what the row holds, a creation what the attempt recorded.
LEMMA ToldStep == TypeInv /\ Shape /\ RowIsRecorded /\ Told /\ [Next]_vars => Told'
<1> SUFFICES ASSUME TypeInv /\ Shape /\ RowIsRecorded /\ Told, [Next]_vars PROVE Told'
  OBVIOUS
<1> USE TimeAssumption, NullAssumption DEF TypeInv, TypeOK, Asked, Keyed, Key, KeyRow, Sent,
        Shape, RowIsRecorded, Told, Succeeded, Reply
<1>1. ASSUME NEW a \in Attempts, Send(a) PROVE Told'
  BY <1>1 DEF Send
<1>2. ASSUME NEW a \in Attempts, Replay(a) PROVE Told'
  BY <1>2 DEF Replay, Honoured
<1>3. ASSUME NEW a \in Attempts, Miss(a) PROVE Told'
  BY <1>3 DEF Miss, Honoured
<1>4. ASSUME NEW a \in Attempts, CreateTicket(a) PROVE Told'
  BY <1>4 DEF CreateTicket
<1>5. ASSUME NEW a \in Attempts, Record(a) PROVE Told'
  BY <1>5 DEF Record, NewKeyRow
<1>6. ASSUME NEW a \in Attempts, RecordClash(a) PROVE Told'
  BY <1>6 DEF RecordClash
<1>7. ASSUME NEW a \in Attempts, Invalidate(a) PROVE Told'
  BY <1>7 DEF Invalidate
<1>8. ASSUME NEW a \in Attempts, Fail(a) PROVE Told'
  BY <1>8 DEF Fail
<1>9. ASSUME NEW a \in Attempts, ClientTimeout(a) PROVE Told'
  BY <1>9 DEF ClientTimeout
<1>10. CASE Tick
  BY <1>10 DEF Tick
<1>11. CASE Cleanup
  BY <1>11 DEF Cleanup, Expired
<1>12. CASE UNCHANGED vars
  BY <1>12 DEF vars
<1> QED BY <1>1, <1>2, <1>3, <1>4, <1>5, <1>6, <1>7, <1>8, <1>9, <1>10, <1>11, <1>12
       DEF Next, Handle, Finished

\* Two attempts under one key that succeed are told of the same ticket, unless the
\* key expired between the recordings of the two they are told of.
THEOREM AnswersStayInAgreement == Spec => []AnswersAgree
<1>1. AgreeInv /\ [Next]_vars => AgreeInv'
  BY TypeStep, ShapeStep, RowStep, SupersededStep, SpacedStep, ToldStep DEF AgreeInv
<1>2. AgreeInv => AnswersAgree
  BY DEF AgreeInv, TypeInv, TypeOK, Shape, Spaced, Told, AnswersAgree, SameKey, Keyed, Key, Succeeded
<1> QED BY <1>1, <1>2, AgreeInit, PTL DEF Spec
-----------------------------------------------------------------------------
\* No attempt under the key failed or timed out.
Clean(k) == \A o \in Attempts : sent[o] # Null /\ Key(o) = k => answer[o].kind \notin {"failed", "timeout"}

\* The client has one attempt under a key under way at a time.
OneAtATime ==
    \A a, b \in Attempts : SameKey(a, b) /\ answer[a].kind = "none" /\ answer[b].kind = "none" => a = b

\* Only the client's time-out comes before the handler is done, and a handler that is
\* done has answered.
Served ==
    \A a \in Attempts :
        /\ answer[a].kind \in {"created", "replayed", "failed"} => pc[a] = "done"
        /\ pc[a] = "done" => answer[a].kind # "none"

\* A ticket of a keyed attempt is recorded, about to be, or known to have failed.
Pending ==
    \A a \in tickets :
        /\ sent[a] # Null /\ pc[a] \in {"record", "invalidate", "done"}
        /\ Keyed(a) => \/ pc[a] = "record"
                       \/ recorded[a] # Null
                       \/ answer[a].kind \in {"failed", "timeout"}

\* An attempt past the lookup found no ticket that was still to be honoured.
Missed ==
    \A a, b \in Attempts :
        SameKey(a, b) /\ pc[a] \in {"tx", "record"} /\ Clean(Key(a)) /\ recorded[b] # Null =>
            recorded[b] + TTL <= now

SilentInv == AgreeInv /\ OneAtATime /\ Served /\ Pending /\ Missed

LEMMA SilentInit == Init => SilentInv
BY AgreeInit DEF Init, SilentInv, OneAtATime, Served, Pending, Missed, SameKey, Keyed, Key, NoAnswer

LEMMA ServedStep == TypeInv /\ Shape /\ Served /\ [Next]_vars => Served'
<1> SUFFICES ASSUME TypeInv /\ Shape /\ Served, [Next]_vars PROVE Served'
  OBVIOUS
<1> USE TimeAssumption, NullAssumption DEF TypeInv, TypeOK, Asked, Keyed, Key, KeyRow, Sent,
        Shape, Served, Reply, Answer, Kinds
<1>1. ASSUME NEW a \in Attempts, Send(a) PROVE Served'
  BY <1>1 DEF Send
<1>2. ASSUME NEW a \in Attempts, Replay(a) PROVE Served'
  BY <1>2 DEF Replay, Honoured
<1>3. ASSUME NEW a \in Attempts, Miss(a) PROVE Served'
  BY <1>3 DEF Miss, Honoured
<1>4. ASSUME NEW a \in Attempts, CreateTicket(a) PROVE Served'
  BY <1>4 DEF CreateTicket
<1>5. ASSUME NEW a \in Attempts, Record(a) PROVE Served'
  BY <1>5 DEF Record, NewKeyRow
<1>6. ASSUME NEW a \in Attempts, RecordClash(a) PROVE Served'
  BY <1>6 DEF RecordClash
<1>7. ASSUME NEW a \in Attempts, Invalidate(a) PROVE Served'
  BY <1>7 DEF Invalidate
<1>8. ASSUME NEW a \in Attempts, Fail(a) PROVE Served'
  BY <1>8 DEF Fail
<1>9. ASSUME NEW a \in Attempts, ClientTimeout(a) PROVE Served'
  BY <1>9 DEF ClientTimeout
<1>10. CASE Tick
  BY <1>10 DEF Tick
<1>11. CASE Cleanup
  BY <1>11 DEF Cleanup, Expired
<1>12. CASE UNCHANGED vars
  BY <1>12 DEF vars
<1> QED BY <1>1, <1>2, <1>3, <1>4, <1>5, <1>6, <1>7, <1>8, <1>9, <1>10, <1>11, <1>12
       DEF Next, Handle, Finished

\* Only Send adds an unanswered attempt, when the others under its key are answered.
LEMMA OneAtATimeStep == TypeInv /\ OneAtATime /\ [Next]_vars => OneAtATime'
<1> SUFFICES ASSUME TypeInv /\ OneAtATime, [Next]_vars PROVE OneAtATime'
  OBVIOUS
<1> USE TimeAssumption, NullAssumption DEF TypeInv, TypeOK, Asked, Keyed, Key, KeyRow, Sent,
        OneAtATime, SameKey, Reply, Answer, Kinds
<1>1. ASSUME NEW a \in Attempts, Send(a) PROVE OneAtATime'
  BY <1>1 DEF Send
<1>2. ASSUME NEW a \in Attempts, Replay(a) PROVE OneAtATime'
  BY <1>2 DEF Replay, Honoured
<1>3. ASSUME NEW a \in Attempts, Miss(a) PROVE OneAtATime'
  BY <1>3 DEF Miss, Honoured
<1>4. ASSUME NEW a \in Attempts, CreateTicket(a) PROVE OneAtATime'
  BY <1>4 DEF CreateTicket
<1>5. ASSUME NEW a \in Attempts, Record(a) PROVE OneAtATime'
  BY <1>5 DEF Record, NewKeyRow
<1>6. ASSUME NEW a \in Attempts, RecordClash(a) PROVE OneAtATime'
  BY <1>6 DEF RecordClash
<1>7. ASSUME NEW a \in Attempts, Invalidate(a) PROVE OneAtATime'
  BY <1>7 DEF Invalidate
<1>8. ASSUME NEW a \in Attempts, Fail(a) PROVE OneAtATime'
  BY <1>8 DEF Fail
<1>9. ASSUME NEW a \in Attempts, ClientTimeout(a) PROVE OneAtATime'
  BY <1>9 DEF ClientTimeout
<1>10. CASE Tick
  BY <1>10 DEF Tick
<1>11. CASE Cleanup
  BY <1>11 DEF Cleanup, Expired
<1>12. CASE UNCHANGED vars
  BY <1>12 DEF vars
<1> QED BY <1>1, <1>2, <1>3, <1>4, <1>5, <1>6, <1>7, <1>8, <1>9, <1>10, <1>11, <1>12
       DEF Next, Handle, Finished

LEMMA PendingStep == TypeInv /\ Shape /\ Served /\ Pending /\ [Next]_vars => Pending'
<1> SUFFICES ASSUME TypeInv /\ Shape /\ Served /\ Pending, [Next]_vars PROVE Pending'
  OBVIOUS
<1> USE TimeAssumption, NullAssumption DEF TypeInv, TypeOK, Asked, Keyed, Key, KeyRow, Sent,
        Shape, Served, Pending, Reply, Answer, Kinds
<1>1. ASSUME NEW a \in Attempts, Send(a) PROVE Pending'
  BY <1>1 DEF Send
<1>2. ASSUME NEW a \in Attempts, Replay(a) PROVE Pending'
  BY <1>2 DEF Replay, Honoured
<1>3. ASSUME NEW a \in Attempts, Miss(a) PROVE Pending'
  BY <1>3 DEF Miss, Honoured
<1>4. ASSUME NEW a \in Attempts, CreateTicket(a) PROVE Pending'
  BY <1>4 DEF CreateTicket
<1>5. ASSUME NEW a \in Attempts, Record(a) PROVE Pending'
  BY <1>5 DEF Record, NewKeyRow
<1>6. ASSUME NEW a \in Attempts, RecordClash(a) PROVE Pending'
  BY <1>6 DEF RecordClash
<1>7. ASSUME NEW a \in Attempts, Invalidate(a) PROVE Pending'
  BY <1>7 DEF Invalidate
<1>8. ASSUME NEW a \in Attempts, Fail(a) PROVE Pending'
  BY <1>8 DEF Fail
<1>9. ASSUME NEW a \in Attempts, ClientTimeout(a) PROVE Pending'
  BY <1>9 DEF ClientTimeout
<1>10. CASE Tick
  BY <1>10 DEF Tick
<1>11. CASE Cleanup
  BY <1>11 DEF Cleanup, Expired
<1>12. CASE UNCHANGED vars
  BY <1>12 DEF vars
<1> QED BY <1>1, <1>2, <1>3, <1>4, <1>5, <1>6, <1>7, <1>8, <1>9, <1>10, <1>11, <1>12
       DEF Next, Handle, Finished

\* Another attempt that records meanwhile would be a second one under way.
LEMMA MissedStep == AgreeInv /\ OneAtATime /\ Served /\ Missed /\ [Next]_vars => Missed'
<1> SUFFICES ASSUME AgreeInv /\ OneAtATime /\ Served /\ Missed, [Next]_vars PROVE Missed'
  OBVIOUS
<1> USE TimeAssumption, NullAssumption
    DEF TypeInv, TypeOK, Asked, Keyed, Key, KeyRow, Sent, AgreeInv, Shape, RowIsRecorded, Superseded,
        OneAtATime, Served, Missed, Clean, SameKey, Reply, Answer, Kinds
<1>1. ASSUME NEW a \in Attempts, Send(a) PROVE Missed'
  BY <1>1 DEF Send
<1>2. ASSUME NEW a \in Attempts, Replay(a) PROVE Missed'
  BY <1>2 DEF Replay, Honoured
<1>3. ASSUME NEW a \in Attempts, Miss(a) PROVE Missed'
  BY <1>3 DEF Miss, Honoured
<1>4. ASSUME NEW a \in Attempts, CreateTicket(a) PROVE Missed'
  BY <1>4 DEF CreateTicket
<1>5. ASSUME NEW a \in Attempts, Record(a) PROVE Missed'
  BY <1>5 DEF Record, NewKeyRow
<1>6. ASSUME NEW a \in Attempts, RecordClash(a) PROVE Missed'
  <2>1. UNCHANGED <<sent, now, recorded>> /\ \A b \in Attempts : pc'[b] \in {"tx", "record"} => pc'[b] = pc[b]
    BY <1>6 DEF RecordClash
  <2>2. \A b \in Attempts : answer[b].kind \in {"failed", "timeout"} => answer'[b].kind = answer[b].kind
    BY <1>6 DEF RecordClash
  <2> HIDE DEF TypeOK, Shape, RowIsRecorded, Superseded, Served, OneAtATime, Answer, Kinds, Reply
  <2> QED BY <2>1, <2>2
<1>7. ASSUME NEW a \in Attempts, Invalidate(a) PROVE Missed'
  <2>1. UNCHANGED <<sent, now, recorded>> /\ \A b \in Attempts : pc'[b] \in {"tx", "record"} => pc'[b] = pc[b]
    BY <1>7 DEF Invalidate
  <2>2. \A b \in Attempts : answer[b].kind \in {"failed", "timeout"} => answer'[b].kind = answer[b].kind
    BY <1>7 DEF Invalidate
  <2> HIDE DEF TypeOK, Shape, RowIsRecorded, Superseded, Served, OneAtATime, Answer, Kinds, Reply
  <2> QED BY <2>1, <2>2
<1>8. ASSUME NEW a \in Attempts, Fail(a) PROVE Missed'
  <2>1. UNCHANGED <<sent, now, recorded>> /\ \A b \in Attempts : pc'[b] \in {"tx", "record"} => pc'[b] = pc[b]
    BY <1>8 DEF Fail
  <2>2. \A b \in Attempts : answer[b].kind \in {"failed", "timeout"} => answer'[b].kind = answer[b].kind
    BY <1>8 DEF Fail
  <2> HIDE DEF TypeOK, Shape, RowIsRecorded, Superseded, Served, OneAtATime, Answer, Kinds, Reply
  <2> QED BY <2>1, <2>2
<1>9. ASSUME NEW a \in Attempts, ClientTimeout(a) PROVE Missed'
  <2>1. UNCHANGED <<sent, now, recorded>> /\ \A b \in Attempts : pc'[b] \in {"tx", "record"} => pc'[b] = pc[b]
    BY <1>9 DEF ClientTimeout
  <2>2. \A b \in Attempts : answer[b].kind \in {"failed", "timeout"} => answer'[b].kind = answer[b].kind
    BY <1>9 DEF ClientTimeout
  <2> HIDE DEF TypeOK, Shape, RowIsRecorded, Superseded, Served, OneAtATime, Answer, Kinds, Reply
  <2> QED BY <2>1, <2>2
<1>10. CASE Tick
  BY <1>10 DEF Tick
<1>11. CASE Cleanup
  BY <1>11 DEF Cleanup, Expired
<1>12. CASE UNCHANGED vars
  BY <1>12 DEF vars
<1> QED BY <1>1, <1>2, <1>3, <1>4, <1>5, <1>6, <1>7, <1>8, <1>9, <1>10, <1>11, <1>12
       DEF Next, Handle, Finished

\* No second ticket under a key appears behind the back of a client all of whose
\* attempts succeeded, unless the key expired.
THEOREM NoDuplicateIsSilent == Spec => []NoSilentDuplicate
<1>1. AgreeInv /\ [Next]_vars => AgreeInv'
  BY TypeStep, ShapeStep, RowStep, SupersededStep, SpacedStep, ToldStep DEF AgreeInv
<1>2. SilentInv /\ [Next]_vars => SilentInv'
  BY <1>1, ServedStep, OneAtATimeStep, PendingStep, MissedStep DEF SilentInv, AgreeInv
<1>3. SilentInv => NoSilentDuplicate
  BY TimeAssumption, NullAssumption
     DEF SilentInv, AgreeInv, TypeInv, TypeOK, Shape, Spaced, OneAtATime, Served, Pending, Missed,
         NoSilentDuplicate, SameKey, Clean, Keyed, Key, ExpiredBetween, Answer, Kinds
<1> QED BY <1>2, <1>3, SilentInit, PTL DEF Spec
=============================================================================
