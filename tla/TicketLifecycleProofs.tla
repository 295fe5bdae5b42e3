------------------------- MODULE TicketLifecycleProofs -------------------------
(***************************************************************************)
(* Proofs about TicketLifecycle for any tickets, requests, bodies and clock. *)
(***************************************************************************)
EXTENDS TicketLifecycle, FiniteSetTheorems, TLAPS

\* What a handler's phase says of its input, its snapshot and its answer.
Shape ==
    \A r \in Requests :
        /\ pc[r] = "idle" => seen[r] = Null /\ reply[r] = "none"
        /\ pc[r] # "idle" => args[r] \in Args
        /\ reply[r] # "none" => pc[r] = "done"
        /\ pc[r] \in {"find", "tx"} =>
              \/ args[r].op = "update" /\ args[r].input \in UpdateInputs
              \/ args[r].op = "status" /\ args[r].input \in StatusInputs
        /\ pc[r] \in {"delete", "audit"} => args[r].op = "delete"
        /\ pc[r] = "tx" => seen[r] \in Row
        /\ (pc[r] = "invalidate" \/ reply[r] = "ok") /\ args[r].op # "delete" => seen[r] \in Row

\* The row an accepted PATCH writes is a row of the table, one version on.
LEMMA UpdatedRowType ==
    ASSUME NEW rw \in Row, NEW in \in UpdateInputs
    PROVE  /\ UpdatedRow(rw, in) \in Row
           /\ UpdatedRow(rw, in).version = rw.version + 1
           /\ UpdatedRow(rw, in).status = rw.status
           /\ UpdatedRow(rw, in).deleted = rw.deleted
<1>1. in \in UpdateInput
  BY InputAssumption
<1>2. PICK v \in Nat \ {0} : v = rw.version + 1
  BY DEF Row
<1>3. PICK rep \in SUBSET ReportFields : rep = (rw.report \cup in.fill) \ in.blank
  BY <1>1 DEF Row, UpdateInput
<1>4. PICK b \in BOOLEAN : b = (in.schedule = "set" \/ (in.schedule = "keep" /\ rw.scheduled))
  OBVIOUS
<1>5. UpdatedRow(rw, in) = [rw EXCEPT !.version = v, !.scheduled = b, !.report = rep]
  BY <1>2, <1>3, <1>4, Zenon DEF UpdatedRow
<1>6. /\ [rw EXCEPT !.version = v, !.scheduled = b, !.report = rep] \in Row
      /\ [rw EXCEPT !.version = v, !.scheduled = b, !.report = rep].version = v
      /\ [rw EXCEPT !.version = v, !.scheduled = b, !.report = rep].status = rw.status
      /\ [rw EXCEPT !.version = v, !.scheduled = b, !.report = rep].deleted = rw.deleted
  BY DEF Row
<1> QED BY <1>2, <1>5, <1>6, Zenon

\* So is the row soft delete leaves.
LEMMA DeletedRowType ==
    ASSUME NEW rw \in Row
    PROVE  /\ DeletedRow(rw) \in Row
           /\ DeletedRow(rw).version = rw.version + 1
           /\ DeletedRow(rw).status = rw.status
           /\ DeletedRow(rw).deleted = TRUE
<1>1. PICK v \in Nat \ {0} : v = rw.version + 1
  BY DEF Row
<1>2. DeletedRow(rw) = [rw EXCEPT !.deleted = TRUE, !.version = v]
  BY <1>1 DEF DeletedRow
<1>3. PICK b \in BOOLEAN : b = TRUE
  OBVIOUS
<1>4. /\ [rw EXCEPT !.deleted = b, !.version = v] \in Row
      /\ [rw EXCEPT !.deleted = b, !.version = v].version = v
      /\ [rw EXCEPT !.deleted = b, !.version = v].status = rw.status
      /\ [rw EXCEPT !.deleted = b, !.version = v].deleted = b
  BY DEF Row
<1> QED BY <1>1, <1>2, <1>3, <1>4, Zenon

\* So is the row an accepted status change writes, whichever snapshot it used.
LEMMA StatusRowType ==
    ASSUME now \in Nat, NEW rw \in Row, NEW current \in Row, NEW in \in StatusInputs
    PROVE  /\ StatusRow(rw, current, in) \in Row
           /\ StatusRow(rw, current, in).version = rw.version + 1
           /\ StatusRow(rw, current, in).status = in.status
           /\ StatusRow(rw, current, in).deleted = rw.deleted
           /\ StatusRow(rw, current, in).scheduled = (rw.scheduled \/ in.schedules)
           /\ in.status = "RESOLVED" => StatusRow(rw, current, in).report = in.report
           /\ in.status = "CANCELLED" => "cancelledReason" \in StatusRow(rw, current, in).stamps
<1>1. in \in StatusInput
  BY InputAssumption
<1>2. PauseAccumulated(rw, current) \in Int
  <2>1. CASE Resumes(current)
    <3>1. current.pausedAt \in Nat
      BY <2>1 DEF Resumes, Row
    <3>2. (now - current.pausedAt) \div TicksPerSecond \in Int
      BY <3>1, NumberAssumption
    <3> QED BY <2>1, <3>2 DEF PauseAccumulated, Row
  <2>2. CASE ~Resumes(current)
    BY <2>2 DEF PauseAccumulated, Row
  <2> QED BY <2>1, <2>2
<1>3. PICK p \in Nat \cup {Null} :
        p = IF Resumes(current) THEN Null ELSE IF in.status = "PAUSED" THEN now ELSE rw.pausedAt
  BY DEF Row
<1>4. PICK st \in SUBSET Stamps :
        st = rw.stamps \cup {s \in Stamps :
                   \/ s = "resolvedAt" /\ in.status = "RESOLVED"
                   \/ s = "closedAt" /\ in.status = "CLOSED"
                   \/ s = "cancelledReason" /\ in.status = "CANCELLED"}
  BY DEF Row
<1>5. PICK rep \in SUBSET ReportFields : rep = IF in.status = "RESOLVED" THEN in.report ELSE rw.report
  BY <1>1 DEF Row, StatusInput
<1>6. PICK b \in BOOLEAN : b = (rw.scheduled \/ in.schedules)
  OBVIOUS
<1>7. PICK v \in Nat \ {0} : v = rw.version + 1
  BY DEF Row
<1>8. PICK acc \in Int : acc = PauseAccumulated(rw, current)
  BY <1>2
<1>9. PICK s \in Statuses : s = in.status
  BY <1>1 DEF StatusInput
<1> DEFINE next == [rw EXCEPT !.version = v, !.status = s, !.scheduled = b, !.pausedAt = p,
                              !.accPause = acc, !.report = rep, !.stamps = st]
<1>10. StatusRow(rw, current, in) = next
  BY <1>3, <1>4, <1>5, <1>6, <1>7, <1>8, <1>9, Zenon DEF StatusRow
<1>11. /\ next \in Row
       /\ next.version = v /\ next.status = s /\ next.deleted = rw.deleted
       /\ next.scheduled = b /\ next.report = rep /\ next.stamps = st
  BY DEF Row
<1>12. in.status = "CANCELLED" => "cancelledReason" \in st
  BY <1>4 DEF Stamps
<1> HIDE DEF next
<1> QED BY <1>5, <1>6, <1>7, <1>9, <1>10, <1>11, <1>12

LEMMA InitShape == Init => TypeOK /\ Shape
<1> SUFFICES ASSUME Init PROVE TypeOK /\ Shape
  OBVIOUS
<1>1. \A s \in SeedStatuses : SeedRow(s) \in Row
  BY SeedAssumption DEF SeedRow, Row
<1>2. row \in [Tickets -> Row]
  BY <1>1 DEF Init
<1>3. history \in [Tickets -> Seq(Entry)]
  <2>1. \A t \in Tickets : [from |-> Null, to |-> row[t].status] \in Entry
    BY <1>2 DEF Entry, Row
  <2> QED BY <2>1 DEF Init
<1>4. 0 \in 0 .. MaxTime
  BY NumberAssumption
<1> QED BY <1>2, <1>3, <1>4 DEF Init, TypeOK, Shape, Phases, Replies

\* TypeOK and Shape are inductive together.
LEMMA ShapeStep == TypeOK /\ Shape /\ [Next]_vars => TypeOK' /\ Shape'
<1> SUFFICES ASSUME TypeOK, Shape, [Next]_vars PROVE TypeOK' /\ Shape'
  OBVIOUS
<1> USE DEF Phases, Replies
<1>1. ASSUME NEW r \in Requests, NEW a \in Args, NEW phase \in {"find", "delete"}, Send(r, a, phase),
             phase = "find" => \/ a.op = "update" /\ a.input \in UpdateInputs
                               \/ a.op = "status" /\ a.input \in StatusInputs,
             phase = "delete" => a.op = "delete"
      PROVE  TypeOK' /\ Shape'
  BY <1>1 DEF Send, tables, clock, TypeOK, Shape
<1>2. ASSUME NEW r \in Requests, SubmitUpdate(r) PROVE TypeOK' /\ Shape'
  <2> PICK t \in Tickets, in \in UpdateInputs : \E v \in 1 .. row[t].version + Lookahead :
          Send(r, [op |-> "update", ticket |-> t, version |-> v, input |-> in], "find")
    BY <1>2 DEF SubmitUpdate
  <2>1. PICK v \in 1 .. row[t].version + Lookahead :
          Send(r, [op |-> "update", ticket |-> t, version |-> v, input |-> in], "find")
    OBVIOUS
  <2>2. [op |-> "update", ticket |-> t, version |-> v, input |-> in] \in Args
    BY NumberAssumption DEF Args, Ops, TypeOK, Row
  <2> QED BY <1>1, <2>1, <2>2
<1>3. ASSUME NEW r \in Requests, SubmitStatus(r) PROVE TypeOK' /\ Shape'
  <2> PICK t \in Tickets, in \in StatusInputs : \E v \in 1 .. row[t].version + Lookahead :
          Send(r, [op |-> "status", ticket |-> t, version |-> v, input |-> in], "find")
    BY <1>3 DEF SubmitStatus
  <2>1. PICK v \in 1 .. row[t].version + Lookahead :
          Send(r, [op |-> "status", ticket |-> t, version |-> v, input |-> in], "find")
    OBVIOUS
  <2>2. [op |-> "status", ticket |-> t, version |-> v, input |-> in] \in Args
    BY NumberAssumption DEF Args, Ops, TypeOK, Row
  <2> QED BY <1>1, <2>1, <2>2
<1>4. ASSUME NEW r \in Requests, SubmitDelete(r) PROVE TypeOK' /\ Shape'
  <2>1. PICK t \in Tickets :
          Send(r, [op |-> "delete", ticket |-> t, version |-> 0, input |-> Null], "delete")
    BY <1>4 DEF SubmitDelete
  <2>2. [op |-> "delete", ticket |-> t, version |-> 0, input |-> Null] \in Args
    BY DEF Args, Ops
  <2> QED BY <1>1, <2>1, <2>2
<1>5. ASSUME NEW r \in Requests, GetTicket(r) PROVE TypeOK' /\ Shape'
  <2> PICK t \in Tickets : \E copy \in Held(t) \cup {Null} : GetAnswer(r, t, copy)
    BY <1>5 DEF GetTicket
  <2>1. PICK copy \in Held(t) \cup {Null} : GetAnswer(r, t, copy)
    OBVIOUS
  <2>2. copy # Null => copy \in Row
    BY DEF Held, Shape
  <2>3. [op |-> "get", ticket |-> t, input |-> Null,
         version |-> IF copy = Null THEN 0 ELSE copy.version] \in Args
    BY <2>2 DEF Args, Ops, Row
  <2> DEFINE a == [op |-> "get", ticket |-> t, input |-> Null,
                   version |-> IF copy = Null THEN 0 ELSE copy.version]
  <2>a. args' = [args EXCEPT ![r] = a]
    BY <2>1 DEF GetAnswer
  <2>b. a \in Args
    BY <2>3
  <2>c. row[t] \in Row
    BY DEF TypeOK
  <2> HIDE DEF a
  <2>d. PICK b \in Replies \ {"none"} :
          /\ pc' = [pc EXCEPT ![r] = "done"] /\ reply' = [reply EXCEPT ![r] = b]
          /\ \/ seen' = seen /\ b # "ok"
             \/ \E rw \in Row : seen' = [seen EXCEPT ![r] = rw]
    BY <2>1, <2>2, <2>c DEF GetAnswer, Answer
  <2>4. /\ args' \in [Requests -> Args \cup {Null}] /\ pc' \in [Requests -> Phases]
        /\ seen' \in [Requests -> Row \cup {Null}] /\ reply' \in [Requests -> Replies]
    BY <2>a, <2>b, <2>d DEF TypeOK
  <2>5. TypeOK'
    BY <2>1, <2>4 DEF GetAnswer, tables, clock, TypeOK
  <2>6. /\ pc'[r] = "done" /\ args'[r] \in Args /\ reply'[r] # "none"
        /\ reply'[r] = "ok" => seen'[r] \in Row
        /\ \A q \in Requests \ {r} : /\ pc'[q] = pc[q] /\ args'[q] = args[q]
                                   /\ seen'[q] = seen[q] /\ reply'[q] = reply[q]
    BY <2>a, <2>b, <2>d DEF TypeOK
  <2> QED BY <2>5, <2>6 DEF Shape
<1>6. ASSUME NEW r \in Requests, pc[r] \notin {"idle", "done", "invalidate"}, NEW a \in Replies \ {"none", "ok"},
             Answer(r, a), UNCHANGED <<tables, clock, args, seen>>
      PROVE  TypeOK' /\ Shape'
  BY <1>6 DEF Answer, tables, clock, TypeOK, Shape
<1>7. ASSUME NEW r \in Requests, FindMissing(r) \/ Conflict(r) \/ DeleteMissing(r)
      PROVE  TypeOK' /\ Shape'
  BY <1>6, <1>7 DEF FindMissing, Conflict, DeleteMissing
<1>8. ASSUME NEW r \in Requests, Fail(r) PROVE TypeOK' /\ Shape'
  BY <1>8 DEF Fail, Answer, tables, clock, TypeOK, Shape
<1>9. ASSUME NEW r \in Requests, Invalidate(r) PROVE TypeOK' /\ Shape'
  BY <1>9 DEF Invalidate, Answer, tables, clock, TypeOK, Shape
<1>10. ASSUME NEW r \in Requests, FindForUpdate(r) \/ FindForStatus(r) PROVE TypeOK' /\ Shape'
  <2>1. Target(r) \in Tickets
    BY <1>10 DEF FindForUpdate, FindForStatus, Target, Shape, Args
  <2>2. row[Target(r)] \in Row /\ args[r] \in Args
    BY <1>10, <2>1 DEF FindForUpdate, FindForStatus, TypeOK, Shape
  <2>3. /\ seen' = [seen EXCEPT ![r] = row[Target(r)]] /\ UNCHANGED <<tables, clock, args>>
        /\ \/ pc' = [pc EXCEPT ![r] = "tx"] /\ reply' = reply
           \/ pc' = [pc EXCEPT ![r] = "done"] /\ reply' = [reply EXCEPT ![r] = "badRequest"]
    BY <1>10 DEF FindForUpdate, FindForStatus, Answer
  <2>4. TypeOK'
    BY <2>2, <2>3 DEF tables, clock, TypeOK
  <2>5. pc[r] = "find"
    BY <1>10 DEF FindForUpdate, FindForStatus
  <2> QED BY <2>2, <2>3, <2>4, <2>5 DEF TypeOK, Shape
<1>11. ASSUME NEW r \in Requests, NEW next \in Row, NEW e \in Entry, NEW a \in {"update", "status_change"},
              pc[r] = "tx", Write(r, next, e, a), outbox' \in [Tickets -> Nat]
       PROVE  TypeOK' /\ Shape'
  <2>1. Target(r) \in Tickets /\ seen[r] \in Row
    BY <1>11 DEF Target, Shape, Args
  <2>2. [action |-> a, before |-> seen[r], after |-> next] \in Trace
    BY <2>1 DEF Trace
  <2>3. /\ row' \in [Tickets -> Row]
        /\ history' \in [Tickets -> Seq(Entry)]
        /\ audit' \in [Tickets -> Seq(Trace)]
    BY <1>11, <2>1, <2>2 DEF Write, TypeOK
  <2>4. TypeOK'
    BY <1>11, <2>3 DEF Write, clock, TypeOK
  <2>5. Shape'
    BY <1>11, <2>1 DEF Write, TypeOK, Shape
  <2> QED BY <2>4, <2>5
<1>12. ASSUME NEW r \in Requests, CommitUpdate(r) PROVE TypeOK' /\ Shape'
  <2>1. Target(r) \in Tickets /\ row[Target(r)] \in Row /\ args[r].input \in UpdateInputs
    BY <1>12 DEF CommitUpdate, Target, TypeOK, Shape, Args
  <2>2. UpdatedRow(row[Target(r)], args[r].input) \in Row
    BY <2>1, UpdatedRowType
  <2>3. [from |-> Null, to |-> Null] \in Entry
    BY DEF Entry
  <2>4. outbox' \in [Tickets -> Nat]
    BY <1>12, <2>1 DEF CommitUpdate, TypeOK
  <2> QED BY <1>11, <1>12, <2>2, <2>3, <2>4 DEF CommitUpdate
<1>13. ASSUME NEW r \in Requests, CommitStatus(r) PROVE TypeOK' /\ Shape'
  <2>1. /\ Target(r) \in Tickets /\ row[Target(r)] \in Row /\ seen[r] \in Row
        /\ args[r].input \in StatusInputs /\ now \in Nat
    BY <1>13 DEF CommitStatus, Target, TypeOK, Shape, Args
  <2> DEFINE next == StatusRow(row[Target(r)], seen[r], args[r].input)
  <2>2. next \in Row
    BY <2>1, StatusRowType
  <2>3. [from |-> seen[r].status, to |-> next.status] \in Entry
    BY <2>1, <2>2 DEF Entry, Row
  <2>4. outbox' \in [Tickets -> Nat]
    BY <1>13 DEF CommitStatus, TypeOK
  <2>5. pc[r] = "tx" /\ Write(r, next, [from |-> seen[r].status, to |-> next.status], "status_change")
    BY <1>13 DEF CommitStatus
  <2> HIDE DEF next
  <2> QED BY <1>11, <2>2, <2>3, <2>4, <2>5
<1>14. ASSUME NEW r \in Requests, DeleteRow(r) PROVE TypeOK' /\ Shape'
  <2>1. Target(r) \in Tickets /\ row[Target(r)] \in Row
    BY <1>14 DEF DeleteRow, Target, TypeOK, Shape, Args
  <2>2. DeletedRow(row[Target(r)]) \in Row
    BY <2>1, DeletedRowType
  <2>3. row' \in [Tickets -> Row]
    BY <1>14, <2>1, <2>2 DEF DeleteRow, TypeOK
  <2>4. TypeOK'
    BY <1>14, <2>3 DEF DeleteRow, clock, TypeOK
  <2> QED BY <1>14, <2>4 DEF DeleteRow, TypeOK, Shape
<1>15. ASSUME NEW r \in Requests, AuditDelete(r) PROVE TypeOK' /\ Shape'
  <2>1. Target(r) \in Tickets
    BY <1>15 DEF AuditDelete, Target, Shape, Args
  <2>2. [action |-> "soft_delete", before |-> Null, after |-> Null] \in Trace
    BY DEF Trace
  <2>3. audit' \in [Tickets -> Seq(Trace)]
    BY <1>15, <2>1, <2>2 DEF AuditDelete, TypeOK
  <2> QED BY <1>15, <2>3 DEF AuditDelete, clock, TypeOK, Shape
<1>16. CASE Tick
  BY <1>16, NumberAssumption DEF Tick, tables, TypeOK, Shape
<1>17. CASE UNCHANGED vars
  BY <1>17 DEF vars, TypeOK, Shape
<1> QED
  BY <1>2, <1>3, <1>4, <1>5, <1>7, <1>8, <1>9, <1>10, <1>12, <1>13, <1>14, <1>15, <1>16, <1>17
  DEF Next, Handle, Finished

\* Types hold in every reachable state, for any constants.
THEOREM TypeCorrect == Spec => []TypeOK
<1>1. Spec => [](TypeOK /\ Shape)
  BY InitShape, ShapeStep, PTL DEF Spec
<1> QED BY <1>1, PTL
-----------------------------------------------------------------------------
\* Only three steps write to the Ticket table.
LEMMA WhoWrites ==
    [Next]_vars => (\E r \in Requests : CommitUpdate(r) \/ CommitStatus(r) \/ DeleteRow(r)) \/ UNCHANGED row
BY DEF Next, Handle, Tick, Finished, vars, tables, Send, SubmitUpdate, SubmitStatus, SubmitDelete,
       GetTicket, GetAnswer, FindMissing, FindForUpdate, FindForStatus, Conflict, DeleteMissing,
       AuditDelete, Invalidate, Fail

\* The rows only ever move on: a step leaves a row as it is or takes it one
\* version on, and what a handler or a client holds is the row it last read.
LEMMA RowStep ==
    ASSUME TypeOK, Shape, [Next]_vars, NEW t \in Tickets
    PROVE  row'[t] = row[t] \/ row'[t].version = row[t].version + 1
<1>1. ASSUME NEW r \in Requests, CommitUpdate(r) PROVE row'[t] = row[t] \/ row'[t].version = row[t].version + 1
  <2>1. Target(r) \in Tickets /\ row[Target(r)] \in Row /\ args[r].input \in UpdateInputs
    BY <1>1 DEF CommitUpdate, Target, TypeOK, Shape, Args
  <2>2. UpdatedRow(row[Target(r)], args[r].input).version = row[Target(r)].version + 1
    BY <2>1, UpdatedRowType
  <2>3. row' = [row EXCEPT ![Target(r)] = UpdatedRow(row[Target(r)], args[r].input)]
    BY <1>1 DEF CommitUpdate, Write
  <2> QED BY <2>1, <2>2, <2>3 DEF TypeOK
<1>2. ASSUME NEW r \in Requests, CommitStatus(r) PROVE row'[t] = row[t] \/ row'[t].version = row[t].version + 1
  <2>1. /\ Target(r) \in Tickets /\ row[Target(r)] \in Row /\ seen[r] \in Row
        /\ args[r].input \in StatusInputs /\ now \in Nat
    BY <1>2 DEF CommitStatus, Target, TypeOK, Shape, Args
  <2>2. StatusRow(row[Target(r)], seen[r], args[r].input).version = row[Target(r)].version + 1
    BY <2>1, StatusRowType
  <2>3. row' = [row EXCEPT ![Target(r)] = StatusRow(row[Target(r)], seen[r], args[r].input)]
    BY <1>2 DEF CommitStatus, Write
  <2> QED BY <2>1, <2>2, <2>3 DEF TypeOK
<1>3. ASSUME NEW r \in Requests, DeleteRow(r) PROVE row'[t] = row[t] \/ row'[t].version = row[t].version + 1
  <2>1. Target(r) \in Tickets /\ row[Target(r)] \in Row
    BY <1>3 DEF DeleteRow, Target, TypeOK, Shape, Args
  <2> QED BY <1>3, <2>1, DeletedRowType DEF DeleteRow, TypeOK
<1> QED BY <1>1, <1>2, <1>3, WhoWrites

\* What one request's step does to the snapshot of a request.
LEMMA SeenStep ==
    ASSUME TypeOK, Shape, [Next]_vars, NEW r \in Requests
    PROVE  \/ seen'[r] = Null
           \/ seen'[r] = seen[r] /\ Target(r)' = Target(r)
           \/ Target(r)' \in Tickets /\ seen'[r] \in {row[Target(r)'], row'[Target(r)']}
           \/ \E q \in Requests : /\ seen[q] # Null /\ seen'[r] = seen[q]
                                  /\ Target(r)' = Target(q)
<1> USE DEF Target
<1>1. ASSUME NEW q \in Requests, SubmitUpdate(q) \/ SubmitStatus(q) \/ SubmitDelete(q)
      PROVE  seen'[r] = Null \/ (seen'[r] = seen[r] /\ Target(r)' = Target(r))
  <2>1. PICK a : Send(q, a, "find") \/ Send(q, a, "delete")
    <3>1. CASE SubmitUpdate(q)
      BY <3>1, Zenon DEF SubmitUpdate
    <3>2. CASE SubmitStatus(q)
      BY <3>2, Zenon DEF SubmitStatus
    <3>3. CASE SubmitDelete(q)
      BY <3>3, Zenon DEF SubmitDelete
    <3> QED BY <1>1, <3>1, <3>2, <3>3
  <2> QED BY <2>1 DEF Send, TypeOK, Shape
<1>2. ASSUME NEW q \in Requests, GetTicket(q)
      PROVE  \/ seen'[r] = Null
             \/ seen'[r] = seen[r] /\ Target(r)' = Target(r)
             \/ Target(r)' \in Tickets /\ seen'[r] \in {row[Target(r)'], row'[Target(r)']}
             \/ \E p \in Requests : seen[p] # Null /\ seen'[r] = seen[p] /\ Target(r)' = Target(p)
  <2>1. PICK t \in Tickets : \E copy \in Held(t) \cup {Null} : GetAnswer(q, t, copy)
    BY <1>2 DEF GetTicket
  <2>2. PICK copy \in Held(t) \cup {Null} : GetAnswer(q, t, copy)
    BY <2>1
  <2>3. CASE r # q
    <3>1. args'[r] = args[r]
      <4>1. PICK a : args' = [args EXCEPT ![q] = a]
        BY <2>2, Zenon DEF GetAnswer
      <4> QED BY <2>3, <4>1 DEF TypeOK
    <3>2. seen'[r] = seen[r]
      <4>1. UNCHANGED seen \/ \E rw : seen' = [seen EXCEPT ![q] = rw]
        BY <2>2, Zenon DEF GetAnswer
      <4> QED BY <2>3, <4>1 DEF TypeOK
    <3> QED BY <3>1, <3>2
  <2>4. CASE r = q
    <3>1. Target(r)' = t /\ seen[r] = Null
      BY <2>2, <2>4 DEF GetAnswer, TypeOK, Shape
    <3>2. CASE UNCHANGED seen
      BY <3>1, <3>2
    <3>3. CASE seen' = [seen EXCEPT ![q] = row[t]]
      BY <2>4, <3>1, <3>3 DEF TypeOK
    <3>4. CASE copy # Null /\ seen' = [seen EXCEPT ![q] = copy]
      <4>1. PICK p \in Requests : seen[p] = copy /\ args[p].ticket = t
        BY <3>4 DEF Held
      <4> QED BY <2>4, <3>1, <3>4, <4>1 DEF TypeOK
    <3> QED BY <2>2, <3>2, <3>3, <3>4 DEF GetAnswer
  <2> QED BY <2>3, <2>4
<1>3. ASSUME NEW q \in Requests, FindForUpdate(q) \/ FindForStatus(q)
      PROVE  \/ seen'[r] = seen[r] /\ Target(r)' = Target(r)
             \/ Target(r)' \in Tickets /\ seen'[r] \in {row[Target(r)'], row'[Target(r)']}
  <2>1. /\ seen' = [seen EXCEPT ![q] = row[args[q].ticket]] /\ args' = args
        /\ pc[q] = "find"
    BY <1>3 DEF FindForUpdate, FindForStatus
  <2> QED BY <2>1 DEF TypeOK, Shape, Args
<1>4. ASSUME NEW q \in Requests, CommitUpdate(q) \/ CommitStatus(q)
      PROVE  \/ seen'[r] = seen[r] /\ Target(r)' = Target(r)
             \/ Target(r)' \in Tickets /\ seen'[r] \in {row[Target(r)'], row'[Target(r)']}
  <2>1. PICK next : /\ row' = [row EXCEPT ![args[q].ticket] = next]
                    /\ seen' = [seen EXCEPT ![q] = next] /\ args' = args /\ pc[q] = "tx"
    BY <1>4, Zenon DEF CommitUpdate, CommitStatus, Write
  <2> QED BY <2>1 DEF TypeOK, Shape, Args
<1>5. ASSUME UNCHANGED <<args, seen>> PROVE seen'[r] = seen[r] /\ Target(r)' = Target(r)
  BY <1>5
<1>6. \/ UNCHANGED <<args, seen>>
      \/ \E q \in Requests : \/ SubmitUpdate(q) \/ SubmitStatus(q) \/ SubmitDelete(q) \/ GetTicket(q)
                             \/ FindForUpdate(q) \/ FindForStatus(q) \/ CommitUpdate(q) \/ CommitStatus(q)
  BY DEF Next, Handle, Tick, Finished, vars, FindMissing, Conflict, DeleteRow, DeleteMissing,
         AuditDelete, Invalidate, Fail
<1> QED BY <1>1, <1>2, <1>3, <1>4, <1>5, <1>6

LEMMA SnapshotStep ==
    TypeOK /\ Shape /\ TypeOK' /\ SnapshotCoherent /\ [Next]_vars => SnapshotCoherent'
<1> SUFFICES ASSUME TypeOK, Shape, TypeOK', SnapshotCoherent, [Next]_vars, NEW r \in Requests, seen'[r] # Null
             PROVE  /\ seen'[r].version <= row'[Target(r)'].version
                    /\ seen'[r].version = row'[Target(r)'].version => seen'[r] = row'[Target(r)']
  BY DEF SnapshotCoherent, Target
<1> DEFINE Coherent(rw, t) == rw.version <= row[t].version /\ (rw.version = row[t].version => rw = row[t])
<1>1. ASSUME NEW rw \in Row, NEW t \in Tickets, Coherent(rw, t)
      PROVE  rw.version <= row'[t].version /\ (rw.version = row'[t].version => rw = row'[t])
  <2>1. row[t] \in Row /\ rw.version \in Nat /\ row[t].version \in Nat
    BY DEF TypeOK, Row
  <2> QED BY <1>1, <2>1, RowStep
<1>2. ASSUME NEW q \in Requests, seen[q] # Null
      PROVE  seen[q] \in Row /\ Target(q) \in Tickets /\ Coherent(seen[q], Target(q))
  BY <1>2 DEF SnapshotCoherent, TypeOK, Shape, Target, Args
<1> HIDE DEF Coherent
<1>3. CASE seen'[r] = seen[r] /\ Target(r)' = Target(r)
  BY <1>1, <1>2, <1>3
<1>4. CASE Target(r)' \in Tickets /\ seen'[r] \in {row[Target(r)'], row'[Target(r)']}
  <2>1. ASSUME NEW t \in Tickets PROVE row[t] \in Row /\ row'[t] \in Row /\ Coherent(row[t], t)
    <3>1. row[t] \in Row /\ row'[t] \in Row
      BY DEF TypeOK
    <3>2. row[t].version \in Nat
      BY <3>1 DEF Row
    <3> QED BY <3>1, <3>2 DEF Coherent
  <2>2. CASE seen'[r] = row[Target(r)']
    BY <1>1, <1>4, <2>1, <2>2
  <2>3. CASE seen'[r] = row'[Target(r)']
    <3>1. row'[Target(r)'].version \in Nat
      BY <1>4, <2>1 DEF Row
    <3> QED BY <2>3, <3>1
  <2> QED BY <1>4, <2>2, <2>3
<1>5. CASE \E q \in Requests : seen[q] # Null /\ seen'[r] = seen[q] /\ Target(r)' = Target(q)
  BY <1>1, <1>2, <1>5
<1> QED BY <1>3, <1>4, <1>5, SeenStep

\* What clients and handlers hold is never ahead of the table, and the version
\* identifies the row, whatever versions clients name in their requests.
THEOREM SnapshotsCoherent == Spec => []SnapshotCoherent
<1>1. Init => SnapshotCoherent
  BY DEF Init, SnapshotCoherent
<1>2. Spec => [](TypeOK /\ Shape)
  BY InitShape, ShapeStep, PTL DEF Spec
<1> QED BY <1>1, <1>2, SnapshotStep, PTL DEF Spec

\* A 304 vouches for the copy the client holds: at the moment GET answers it,
\* the copy is the stored row.
THEOREM NotModifiedSound == Spec => NotModifiedIsCurrent
<1>1. ASSUME TypeOK, Shape, SnapshotCoherent, [Next]_vars,
             NEW r \in Requests, reply[r] = "none", reply'[r] = "notModified"
      PROVE  ~row[Target(r)'].deleted /\ seen'[r] = row[Target(r)']
  <2>1. PICK q \in Requests : GetTicket(q)
    BY <1>1 DEF Next, Handle, Tick, Finished, vars, Send, SubmitUpdate, SubmitStatus, SubmitDelete,
         FindMissing, FindForUpdate, FindForStatus, CommitUpdate, CommitStatus, Write, Conflict,
         DeleteRow, DeleteMissing, AuditDelete, Invalidate, Fail, Answer, TypeOK
  <2>2. PICK t \in Tickets : \E copy \in Held(t) \cup {Null} : GetAnswer(q, t, copy)
    BY <2>1 DEF GetTicket
  <2>3. PICK copy \in Held(t) \cup {Null} : GetAnswer(q, t, copy)
    BY <2>2
  <2>4. /\ q = r /\ ~row[t].deleted /\ copy # Null /\ copy.version = row[t].version
        /\ seen' = [seen EXCEPT ![r] = copy]
    BY <1>1, <2>3 DEF GetAnswer, Answer, Etag, TypeOK
  <2>5. PICK a : args' = [args EXCEPT ![r] = a] /\ a.ticket = t
    <3> DEFINE a == [op |-> "get", ticket |-> t, input |-> Null,
                     version |-> IF copy = Null THEN 0 ELSE copy.version]
    <3>1. args' = [args EXCEPT ![q] = a]
      BY <2>3, Zenon DEF GetAnswer
    <3>2. a.ticket = t
      OBVIOUS
    <3> HIDE DEF a
    <3> QED BY <2>4, <3>1, <3>2
  <2>6. args \in [Requests -> Args \cup {Null}] /\ seen \in [Requests -> Row \cup {Null}]
    BY <1>1 DEF TypeOK
  <2>7. Target(r)' = t /\ seen'[r] = copy
    BY <2>4, <2>5, <2>6 DEF Target
  <2>8. PICK p \in Requests : copy = seen[p] /\ Target(p) = t
    BY <2>4 DEF Held, Target
  <2>9. copy = row[t]
    BY <1>1, <2>4, <2>8 DEF SnapshotCoherent
  <2> QED BY <2>4, <2>7, <2>9
<1>2. Spec => [](TypeOK /\ Shape)
  BY InitShape, ShapeStep, PTL DEF Spec
<1>3. TypeOK /\ Shape /\ SnapshotCoherent /\ [Next]_vars =>
        [\A r \in Requests : reply[r] = "none" /\ reply'[r] = "notModified" =>
           ~row[Target(r)'].deleted /\ seen'[r] = row[Target(r)']]_vars
  BY <1>1
<1> QED BY <1>2, <1>3, SnapshotsCoherent, PTL DEF Spec, NotModifiedIsCurrent
-----------------------------------------------------------------------------
\* Who has an accepted write after a step: those that had one, and the request
\* whose transaction the step commits.
Committed(r) ==
    /\ pc[r] = "tx" /\ Matches(Target(r), args[r].version)
    /\ args' = args
    /\ row'[Target(r)].version = row[Target(r)].version + 1
    /\ seen'[r] = row'[Target(r)]
    /\ \A q \in Requests \ {r} : pc'[q] = pc[q] /\ reply'[q] = reply[q]

LEMMA CommitStep ==
    ASSUME TypeOK, Shape, NEW r \in Requests, CommitUpdate(r) \/ CommitStatus(r)
    PROVE  Committed(r)
<1>1. /\ Target(r) \in Tickets /\ row[Target(r)] \in Row /\ seen[r] \in Row /\ pc[r] = "tx" /\ now \in Nat
      /\ Matches(Target(r), args[r].version)
  BY DEF CommitUpdate, CommitStatus, Target, TypeOK, Shape, Args
<1>2. PICK next : /\ row' = [row EXCEPT ![Target(r)] = next]
                  /\ next.version = row[Target(r)].version + 1
                  /\ seen' = [seen EXCEPT ![r] = next]
                  /\ pc' = [pc EXCEPT ![r] = "invalidate"] /\ args' = args /\ reply' = reply
  <2>1. CASE CommitUpdate(r)
    <3> DEFINE next == UpdatedRow(row[Target(r)], args[r].input)
    <3>1. next.version = row[Target(r)].version + 1
      BY <1>1, <2>1, UpdatedRowType DEF CommitUpdate, Shape
    <3>2. Write(r, next, [from |-> Null, to |-> Null], "update")
      BY <2>1 DEF CommitUpdate
    <3> HIDE DEF next
    <3> QED BY <3>1, <3>2 DEF Write
  <2>2. CASE CommitStatus(r)
    <3> DEFINE next == StatusRow(row[Target(r)], seen[r], args[r].input)
    <3>1. next.version = row[Target(r)].version + 1
      BY <1>1, <2>2, StatusRowType DEF CommitStatus, Shape
    <3>2. Write(r, next, [from |-> seen[r].status, to |-> next.status], "status_change")
      BY <2>2 DEF CommitStatus
    <3> HIDE DEF next
    <3> QED BY <3>1, <3>2 DEF Write
  <2> QED BY <2>1, <2>2
<1>3. row'[Target(r)] = next /\ seen'[r] = next
  BY <1>1, <1>2 DEF TypeOK
<1> QED BY <1>1, <1>2, <1>3 DEF Committed, TypeOK

LEMMA WroteStep ==
    ASSUME TypeOK, Shape, [Next]_vars, NEW r \in Requests, Wrote(r)'
    PROVE  \/ Wrote(r) /\ args'[r] = args[r] /\ seen'[r] = seen[r]
           \/ Committed(r)
<1> USE DEF Wrote
<1>1. ASSUME NEW q \in Requests, CommitUpdate(q) \/ CommitStatus(q)
      PROVE  Committed(r) \/ (Wrote(r) /\ args'[r] = args[r] /\ seen'[r] = seen[r])
  <2>1. CASE q = r
    BY <1>1, <2>1, CommitStep
  <2>2. CASE q # r
    <3>1. \E rw : seen' = [seen EXCEPT ![q] = rw]
      BY <1>1 DEF CommitUpdate, CommitStatus, Write
    <3>2. seen'[r] = seen[r]
      BY <2>2, <3>1 DEF TypeOK
    <3> QED BY <1>1, <2>2, <3>2, CommitStep DEF Committed
  <2> QED BY <2>1, <2>2
<1>2. ASSUME NEW q \in Requests, Invalidate(q) \/ AuditDelete(q)
      PROVE  Wrote(r) /\ args'[r] = args[r] /\ seen'[r] = seen[r]
  BY <1>2 DEF Invalidate, AuditDelete, Answer, TypeOK, Shape
<1>3. ASSUME NEW q \in Requests, NEW a \in Replies \ {"ok"}, Answer(q, a), UNCHANGED <<args, seen>>
      PROVE  Wrote(r) /\ args'[r] = args[r] /\ seen'[r] = seen[r]
  BY <1>3 DEF Answer, TypeOK
<1>4. ASSUME NEW q \in Requests, FindMissing(q) \/ Conflict(q) \/ DeleteMissing(q) \/ Fail(q)
      PROVE  Wrote(r) /\ args'[r] = args[r] /\ seen'[r] = seen[r]
  BY <1>3, <1>4 DEF FindMissing, Conflict, DeleteMissing, Fail, Replies
<1>5. ASSUME NEW q \in Requests, FindForUpdate(q) \/ FindForStatus(q)
      PROVE  Wrote(r) /\ args'[r] = args[r] /\ seen'[r] = seen[r]
  BY <1>5 DEF FindForUpdate, FindForStatus, Answer, TypeOK, Shape
<1>6. ASSUME NEW q \in Requests, DeleteRow(q)
      PROVE  Wrote(r) /\ args'[r] = args[r] /\ seen'[r] = seen[r]
  BY <1>6 DEF DeleteRow, TypeOK
<1>7. ASSUME NEW q \in Requests, SubmitUpdate(q) \/ SubmitStatus(q) \/ SubmitDelete(q)
      PROVE  Wrote(r) /\ args'[r] = args[r] /\ seen'[r] = seen[r]
  <2>1. PICK a : Send(q, a, "find") \/ Send(q, a, "delete")
    <3>1. CASE SubmitUpdate(q)
      BY <3>1, Zenon DEF SubmitUpdate
    <3>2. CASE SubmitStatus(q)
      BY <3>2, Zenon DEF SubmitStatus
    <3>3. CASE SubmitDelete(q)
      BY <3>3, Zenon DEF SubmitDelete
    <3> QED BY <1>7, <3>1, <3>2, <3>3
  <2> QED BY <2>1 DEF Send, TypeOK, Shape
<1>8. ASSUME NEW q \in Requests, GetTicket(q)
      PROVE  Wrote(r) /\ args'[r] = args[r] /\ seen'[r] = seen[r]
  <2>1. PICK t \in Tickets : \E copy \in Held(t) \cup {Null} : GetAnswer(q, t, copy)
    BY <1>8 DEF GetTicket
  <2>2. PICK copy \in Held(t) \cup {Null} : GetAnswer(q, t, copy)
    BY <2>1
  <2>3. PICK a : args' = [args EXCEPT ![q] = a] /\ a.op = "get"
    <3> DEFINE ask == [op |-> "get", ticket |-> t, input |-> Null,
                       version |-> IF copy = Null THEN 0 ELSE copy.version]
    <3>1. args' = [args EXCEPT ![q] = ask]
      BY <2>2, Zenon DEF GetAnswer
    <3>2. ask.op = "get"
      OBVIOUS
    <3> HIDE DEF ask
    <3> QED BY <3>1, <3>2
  <2>4. UNCHANGED seen \/ \E rw : seen' = [seen EXCEPT ![q] = rw]
    BY <2>2, Zenon DEF GetAnswer
  <2>5. \E ans : pc' = [pc EXCEPT ![q] = "done"] /\ reply' = [reply EXCEPT ![q] = ans]
    BY <2>2 DEF GetAnswer, Answer
  <2>6. q # r
    BY <2>3 DEF TypeOK
  <2> QED BY <2>3, <2>4, <2>5, <2>6 DEF TypeOK
<1>9. CASE Tick \/ UNCHANGED vars
  BY <1>9 DEF Tick, vars, TypeOK
<1> QED BY <1>1, <1>2, <1>4, <1>5, <1>6, <1>7, <1>8, <1>9 DEF Next, Handle, Finished

\* An accepted write is behind the row it wrote to.
WritesBehind == \A r \in Requests : Wrote(r) => args[r].version < row[Target(r)].version

LEMMA WritesStep ==
    TypeOK /\ Shape /\ TypeOK' /\ WritesBehind /\ NoLostUpdate /\ AnswerIsOwnWrite /\ [Next]_vars
        => WritesBehind' /\ NoLostUpdate' /\ AnswerIsOwnWrite'
<1> SUFFICES ASSUME TypeOK, Shape, TypeOK', WritesBehind, NoLostUpdate, AnswerIsOwnWrite, [Next]_vars
             PROVE  WritesBehind' /\ NoLostUpdate' /\ AnswerIsOwnWrite'
  OBVIOUS
<1>1. ASSUME NEW r \in Requests, Wrote(r)
      PROVE  /\ Target(r) \in Tickets
             /\ args[r].version \in Nat /\ row[Target(r)].version \in Nat
             /\ args[r].version < row'[Target(r)].version
  <2>1. args[r] \in Args /\ Target(r) \in Tickets
    BY <1>1 DEF Wrote, Shape, Target, Args
  <2>2. row[Target(r)].version \in Nat /\ args[r].version \in Nat
    BY <2>1 DEF TypeOK, Row, Args
  <2> QED BY <1>1, <2>1, <2>2, RowStep DEF WritesBehind
<1>2. ASSUME NEW r \in Requests, Committed(r)
      PROVE  /\ Target(r)' = Target(r) /\ args'[r] = args[r]
             /\ args[r].version = row[Target(r)].version /\ args[r].version \in Nat
             /\ row'[Target(r)].version = args[r].version + 1
             /\ seen'[r] = row'[Target(r)]
  <2>1. args[r] \in Args
    BY <1>2 DEF Committed, Shape
  <2> QED BY <1>2, <2>1 DEF Committed, Matches, Target, Args
<1>3. WritesBehind'
  <2> SUFFICES ASSUME NEW r \in Requests, Wrote(r)' PROVE args'[r].version < row'[Target(r)'].version
    BY DEF WritesBehind, Target
  <2>1. CASE Wrote(r) /\ args'[r] = args[r]
    BY <1>1, <2>1 DEF Target
  <2>2. CASE Committed(r)
    BY <1>2, <2>2
  <2> QED BY <2>1, <2>2, WroteStep
<1>4. NoLostUpdate'
  <2> SUFFICES ASSUME NEW r \in Requests, NEW q \in Requests, Wrote(r)', Wrote(q)',
                      Target(r)' = Target(q)', args'[r].version = args'[q].version
               PROVE  r = q
    BY DEF NoLostUpdate, Target
  <2>1. CASE (Wrote(r) /\ args'[r] = args[r]) /\ (Wrote(q) /\ args'[q] = args[q])
    BY <2>1 DEF NoLostUpdate, Target
  <2>2. ASSUME NEW p \in Requests, NEW o \in Requests, Committed(p), Wrote(o), args'[o] = args[o],
               Target(p)' = Target(o)', args'[p].version = args'[o].version
        PROVE  FALSE
    BY <1>1, <1>2, <2>2 DEF WritesBehind, Target
  <2>3. CASE Committed(r) /\ Committed(q)
    BY <2>3 DEF Committed, Wrote, Shape
  <2> QED BY <2>1, <2>2, <2>3, WroteStep
<1>5. AnswerIsOwnWrite'
  <2> SUFFICES ASSUME NEW r \in Requests, Wrote(r)' PROVE seen'[r].version = args'[r].version + 1
    BY DEF AnswerIsOwnWrite
  <2>1. CASE Wrote(r) /\ args'[r] = args[r] /\ seen'[r] = seen[r]
    BY <2>1 DEF AnswerIsOwnWrite
  <2>2. CASE Committed(r)
    BY <1>2, <2>2
  <2> QED BY <2>1, <2>2, WroteStep
<1> QED BY <1>3, <1>4, <1>5

\* No two accepted writes were based on the same version of a ticket, and each is
\* answered with the version it made: for any number of requests, whatever
\* versions they name.
THEOREM NoUpdateLost == Spec => [](NoLostUpdate /\ AnswerIsOwnWrite)
<1>1. Init => WritesBehind /\ NoLostUpdate /\ AnswerIsOwnWrite
  BY DEF Init, WritesBehind, NoLostUpdate, AnswerIsOwnWrite, Wrote
<1>2. Spec => [](TypeOK /\ Shape)
  BY InitShape, ShapeStep, PTL DEF Spec
<1> QED BY <1>1, <1>2, WritesStep, PTL DEF Spec
-----------------------------------------------------------------------------
\* What a handler knows about its request while clients name only versions they
\* were given: the version is not ahead of the row it read, and the checks passed
\* on that row.
Informed ==
    \A r \in Requests :
        /\ pc[r] = "find" => args[r].version <= row[Target(r)].version
        /\ pc[r] = "tx" => args[r].version <= seen[r].version
        /\ pc[r] = "tx" /\ args[r].op = "status" => Acceptable(seen[r], args[r].input)

LEMMA InformedStep ==
    ASSUME Lookahead = 0
    PROVE  TypeOK /\ Shape /\ TypeOK' /\ Informed /\ [Next]_vars => Informed'
<1> SUFFICES ASSUME TypeOK, Shape, TypeOK', Informed, [Next]_vars, NEW r \in Requests
             PROVE  /\ pc'[r] = "find" => args'[r].version <= row'[Target(r)'].version
                    /\ pc'[r] = "tx" => args'[r].version <= seen'[r].version
                    /\ pc'[r] = "tx" /\ args'[r].op = "status" => Acceptable(seen'[r], args'[r].input)
  BY DEF Informed, Target, Acceptable
<1> DEFINE Same == pc'[r] = pc[r] /\ args'[r] = args[r] /\ seen'[r] = seen[r]
<1>1. CASE Same
  <2>1. ASSUME pc[r] = "find" PROVE args[r].version <= row'[Target(r)].version
    <3>1. Target(r) \in Tickets /\ args[r].version \in Nat
      BY <2>1 DEF Shape, Args, Target
    <3>2. row[Target(r)].version \in Nat
      BY <3>1 DEF TypeOK, Row
    <3> QED BY <2>1, <3>1, <3>2, RowStep DEF Informed
  <2> QED BY <1>1, <2>1 DEF Informed, Target
<1>2. CASE pc'[r] \notin {"find", "tx"}
  BY <1>2
<1>3. ASSUME NEW q \in Requests, SubmitUpdate(q) \/ SubmitStatus(q)
      PROVE  Same \/ (pc'[r] = "find" /\ args'[r].version <= row'[Target(r)'].version)
  <2>1. PICK a : Send(q, a, "find") /\ a.version <= row[a.ticket].version
    <3>1. CASE SubmitUpdate(q)
      <4>1. PICK t \in Tickets, in \in UpdateInputs : \E v \in 1 .. row[t].version + Lookahead :
              Send(q, [op |-> "update", ticket |-> t, version |-> v, input |-> in], "find")
        BY <3>1 DEF SubmitUpdate
      <4>2. row[t].version \in Nat
        BY DEF TypeOK, Row
      <4> QED BY <4>1, <4>2
    <3>2. CASE SubmitStatus(q)
      <4>1. PICK t \in Tickets, in \in StatusInputs : \E v \in 1 .. row[t].version + Lookahead :
              Send(q, [op |-> "status", ticket |-> t, version |-> v, input |-> in], "find")
        BY <3>2 DEF SubmitStatus
      <4>2. row[t].version \in Nat
        BY DEF TypeOK, Row
      <4> QED BY <4>1, <4>2
    <3> QED BY <1>3, <3>1, <3>2
  <2> QED BY <1>3, <2>1 DEF Send, tables, Target, TypeOK
<1>4. ASSUME NEW q \in Requests, FindForUpdate(q) \/ FindForStatus(q)
      PROVE  \/ Same
             \/ pc'[r] # "tx" /\ pc'[r] # "find"
             \/ /\ pc'[r] = "tx" /\ args'[r].version <= seen'[r].version
                /\ args'[r].op = "status" => Acceptable(seen'[r], args'[r].input)
  <2> SUFFICES ASSUME ~Same, pc'[r] = "tx" \/ pc'[r] = "find"
               PROVE  /\ pc'[r] = "tx" /\ args'[r].version <= seen'[r].version
                      /\ args'[r].op = "status" => Acceptable(seen'[r], args'[r].input)
    OBVIOUS
  <2>1. /\ q = r /\ pc[r] = "find" /\ pc'[r] = "tx" /\ args' = args /\ seen' = [seen EXCEPT ![r] = row[Target(r)]]
        /\ args[r].op = "status" => Acceptable(row[Target(r)], args[r].input)
    BY <1>4 DEF FindForUpdate, FindForStatus, Answer, TypeOK
  <2>2. seen'[r] = row[Target(r)]
    BY <2>1 DEF TypeOK
  <2> QED BY <2>1, <2>2 DEF Informed
<1>5. ASSUME NEW q \in Requests, FindMissing(q) \/ Conflict(q) \/ DeleteMissing(q) \/ Fail(q) \/ Invalidate(q)
      PROVE  Same \/ pc'[r] \notin {"find", "tx"}
  BY <1>5 DEF FindMissing, Conflict, DeleteMissing, Fail, Invalidate, Answer, TypeOK
<1>6. ASSUME NEW q \in Requests, DeleteRow(q) \/ AuditDelete(q)
      PROVE  Same \/ pc'[r] \notin {"find", "tx"}
  BY <1>6 DEF DeleteRow, AuditDelete, TypeOK
<1>7. ASSUME NEW q \in Requests, CommitUpdate(q) \/ CommitStatus(q)
      PROVE  Same \/ pc'[r] \notin {"find", "tx"}
  <2>1. PICK rw : /\ seen' = [seen EXCEPT ![q] = rw] /\ pc' = [pc EXCEPT ![q] = "invalidate"] /\ args' = args
    BY <1>7, Zenon DEF CommitUpdate, CommitStatus, Write
  <2> QED BY <2>1 DEF TypeOK
<1>8. ASSUME NEW q \in Requests, SubmitDelete(q) PROVE Same \/ pc'[r] \notin {"find", "tx"}
  <2>1. PICK a : Send(q, a, "delete")
    BY <1>8, Zenon DEF SubmitDelete
  <2> QED BY <2>1 DEF Send, TypeOK
<1>9. ASSUME NEW q \in Requests, GetTicket(q) PROVE Same \/ pc'[r] \notin {"find", "tx"}
  <2>1. PICK t \in Tickets : \E copy \in Held(t) \cup {Null} : GetAnswer(q, t, copy)
    BY <1>9 DEF GetTicket
  <2>2. PICK copy \in Held(t) \cup {Null} : GetAnswer(q, t, copy)
    BY <2>1
  <2>3. /\ pc' = [pc EXCEPT ![q] = "done"]
        /\ \E a : args' = [args EXCEPT ![q] = a]
        /\ UNCHANGED seen \/ \E rw : seen' = [seen EXCEPT ![q] = rw]
    BY <2>2, Zenon DEF GetAnswer, Answer
  <2> QED BY <2>3 DEF TypeOK
<1> HIDE DEF Same
<1>10. \/ Same \/ pc'[r] \notin {"find", "tx"}
       \/ pc'[r] = "find" /\ args'[r].version <= row'[Target(r)'].version
       \/ /\ pc'[r] = "tx" /\ args'[r].version <= seen'[r].version
          /\ args'[r].op = "status" => Acceptable(seen'[r], args'[r].input)
  <2>1. CASE Tick \/ UNCHANGED vars
    BY <2>1 DEF Same, Tick, vars
  <2> QED BY <2>1, <1>3, <1>4, <1>5, <1>6, <1>7, <1>8, <1>9 DEF Next, Handle, Finished
<1> QED BY <1>1, <1>10

HonestInv == TypeOK /\ Shape /\ SnapshotCoherent /\ Informed

LEMMA HonestInvariant ==
    ASSUME Lookahead = 0
    PROVE  Spec => []HonestInv
<1>1. Init => HonestInv
  BY InitShape DEF Init, HonestInv, SnapshotCoherent, Informed
<1>2. HonestInv /\ [Next]_vars => HonestInv'
  BY ShapeStep, SnapshotStep, InformedStep DEF HonestInv
<1> QED BY <1>1, <1>2, PTL DEF Spec

\* The guard on the version makes the read before the transaction as good as a
\* read inside it: what the handler checked is the row it writes over.
LEMMA CommitIsCurrent ==
    ASSUME HonestInv, NEW r \in Requests, pc[r] = "tx", Matches(Target(r), args[r].version)
    PROVE  seen[r] = row[Target(r)]
<1>1. args[r] \in Args /\ Target(r) \in Tickets /\ seen[r] \in Row
  BY DEF HonestInv, Shape, Target, Args
<1>2. args[r].version \in Nat /\ seen[r].version \in Nat /\ row[Target(r)].version \in Nat
  BY <1>1 DEF HonestInv, TypeOK, Args, Row
<1>3. args[r].version <= seen[r].version /\ args[r].version = row[Target(r)].version
  BY DEF HonestInv, Informed, Matches
<1> QED BY <1>1, <1>2, <1>3, NullAssumption DEF HonestInv, SnapshotCoherent

\* With clients that name versions they were given, the endpoints implement
\* TicketContract: legal moves only, one version per write, nothing after deletion.
THEOREM LifecycleImplementsContract ==
    ASSUME Lookahead = 0
    PROVE  Spec => ImplementsContract
<1>1. Init => Contract!Init
  <2> SUFFICES ASSUME Init PROVE Contract!Init
    OBVIOUS
  <2>1. \A t \in Tickets : \E s \in SeedStatuses : row[t] = SeedRow(s)
    BY DEF Init
  <2>2. \A t \in Tickets : row[t].status \in SeedStatuses /\ row[t].version = 1 /\ row[t].deleted = FALSE
    <3> SUFFICES ASSUME NEW t \in Tickets
                 PROVE  row[t].status \in SeedStatuses /\ row[t].version = 1 /\ row[t].deleted = FALSE
      OBVIOUS
    <3>1. PICK s \in SeedStatuses : row[t] = SeedRow(s)
      BY <2>1
    <3>2. SeedRow(s).status = s /\ SeedRow(s).version = 1 /\ SeedRow(s).deleted = FALSE
      <4>1. PICK b \in BOOLEAN : b = (s = "SCHEDULED")
        OBVIOUS
      <4> QED BY <4>1 DEF SeedRow
    <3> QED BY <3>1, <3>2
  <2> QED BY <2>2 DEF Contract!Init
<1>2. HonestInv /\ [Next]_vars => [Contract!Next]_(Contract!vars)
  <2> SUFFICES ASSUME HonestInv, [Next]_vars PROVE [Contract!Next]_(Contract!vars)
    OBVIOUS
  <2>1. row \in [Tickets -> Row] /\ TypeOK /\ Shape
    BY DEF HonestInv, TypeOK
  <2>2. CASE UNCHANGED row
    BY <2>2 DEF Contract!vars
  <2>3. ASSUME NEW r \in Requests, CommitUpdate(r) PROVE Contract!Next
    <3>t. PICK t \in Tickets : t = Target(r)
      BY <2>1, <2>3 DEF CommitUpdate, Target, Shape, Args
    <3>n. PICK next : next = UpdatedRow(row[t], args[r].input)
      OBVIOUS
    <3>1. t \in Tickets /\ row[t] \in Row /\ ~row[t].deleted
      BY <2>1, <2>3, <3>t DEF CommitUpdate, Matches
    <3>2. next.version = row[t].version + 1 /\ next.status = row[t].status /\ next.deleted = row[t].deleted
      <4>1. args[r].input \in UpdateInputs
        BY <2>1, <2>3 DEF CommitUpdate, Shape
      <4> QED BY <3>1, <3>n, <4>1, UpdatedRowType
    <3>3. row' = [row EXCEPT ![t] = next]
      BY <2>3, <3>t, <3>n DEF CommitUpdate, Write
    <3>4. Contract!Edit(t)
      BY <2>1, <3>1, <3>2, <3>3 DEF Contract!Edit, Contract!Bump
    <3> QED BY <3>1, <3>4 DEF Contract!Next
  <2>4. ASSUME NEW r \in Requests, CommitStatus(r) PROVE Contract!Next
    <3>t. PICK t \in Tickets : t = Target(r)
      BY <2>1, <2>4 DEF CommitStatus, Target, Shape, Args
    <3>n. PICK next : next = StatusRow(row[t], seen[r], args[r].input)
      OBVIOUS
    <3>1. t \in Tickets /\ row[t] \in Row /\ ~row[t].deleted /\ seen[r] \in Row /\ now \in Nat
      BY <2>1, <2>4, <3>t DEF CommitStatus, Matches, TypeOK, Shape
    <3>2. /\ next.version = row[t].version + 1 /\ next.status = args[r].input.status
          /\ next.deleted = row[t].deleted
      <4>1. args[r].input \in StatusInputs
        BY <2>1, <2>4 DEF CommitStatus, Shape
      <4> QED BY <3>1, <3>n, <4>1, StatusRowType
    <3>3. row' = [row EXCEPT ![t] = next]
      BY <2>4, <3>t, <3>n DEF CommitStatus, Write
    <3>4. seen[r] = row[t]
      BY <2>4, <3>t, CommitIsCurrent DEF CommitStatus
    <3>5. next.status \in ValidTransitions[row[t].status]
      BY <2>4, <3>2, <3>4 DEF CommitStatus, HonestInv, Informed, Acceptable
    <3>6. Contract!Move(t)
      <4>1. Contract!Bump(t)
        BY <2>1, <3>1, <3>2, <3>3 DEF Contract!Bump
      <4>2. [u \in Tickets |-> row'[u].status] = [[u \in Tickets |-> row[u].status] EXCEPT ![t] = next.status]
        BY <2>1, <3>3
      <4>3. [u \in Tickets |-> row'[u].deleted] = [u \in Tickets |-> row[u].deleted]
        BY <2>1, <3>2, <3>3
      <4>4. \E s \in ValidTransitions[row[t].status] :
              [u \in Tickets |-> row'[u].status] = [[u \in Tickets |-> row[u].status] EXCEPT ![t] = s]
        BY <3>5, <4>2, Zenon
      <4>5. [u \in Tickets |-> row[u].status][t] = row[t].status
        BY <3>1
      <4>6. Contract!ValidTransitions = ValidTransitions
        BY DEF Contract!ValidTransitions, ValidTransitions, Contract!Statuses, Statuses
      <4> QED BY <4>1, <4>3, <4>4, <4>5, <4>6, Zenon DEF Contract!Move
    <3> QED BY <3>1, <3>6 DEF Contract!Next
  <2>5. ASSUME NEW r \in Requests, DeleteRow(r) PROVE Contract!Next
    <3>t. PICK t \in Tickets : t = Target(r)
      BY <2>1, <2>5 DEF DeleteRow, Target, Shape, Args
    <3>n. PICK next : next = DeletedRow(row[t])
      OBVIOUS
    <3>1. t \in Tickets /\ row[t] \in Row /\ ~row[t].deleted
      BY <2>1, <2>5, <3>t DEF DeleteRow
    <3>2. next.version = row[t].version + 1 /\ next.status = row[t].status /\ next.deleted = TRUE
      BY <3>1, <3>n, DeletedRowType
    <3>3. row' = [row EXCEPT ![t] = next]
      BY <2>5, <3>t, <3>n DEF DeleteRow
    <3>4. Contract!Remove(t)
      BY <2>1, <3>1, <3>2, <3>3 DEF Contract!Remove, Contract!Bump
    <3> QED BY <3>1, <3>4 DEF Contract!Next
  <2> QED BY <2>2, <2>3, <2>4, <2>5, WhoWrites
<1> QED BY <1>1, <1>2, HonestInvariant, PTL DEF Spec, ImplementsContract, Contract!Spec

\* Under the same assumption no ticket enters SCHEDULED, RESOLVED or CANCELLED
\* without the date, report or reason the handler checked for.
THEOREM EntryRequirementsHold ==
    ASSUME Lookahead = 0
    PROVE  Spec => EntryRequirements
<1> DEFINE Entered(rw) == /\ rw.status = "SCHEDULED" => rw.scheduled
                          /\ rw.status = "RESOLVED" => rw.report = ReportFields
                          /\ rw.status = "CANCELLED" => "cancelledReason" \in rw.stamps
<1>1. ASSUME HonestInv, [Next]_vars, NEW t \in Tickets, row'[t].status # row[t].status
      PROVE  Entered(row'[t])
  <2>1. row \in [Tickets -> Row] /\ TypeOK /\ Shape
    BY <1>1 DEF HonestInv, TypeOK
  <2>2. ASSUME NEW r \in Requests, CommitUpdate(r) PROVE FALSE
    <3>1. /\ Target(r) \in Tickets /\ row[Target(r)] \in Row
          /\ row' = [row EXCEPT ![Target(r)] = UpdatedRow(row[Target(r)], args[r].input)]
          /\ args[r].input \in UpdateInputs
      BY <2>1, <2>2 DEF CommitUpdate, Write, Target, Shape, Args
    <3> QED BY <1>1, <2>1, <3>1, UpdatedRowType
  <2>3. ASSUME NEW r \in Requests, DeleteRow(r) PROVE FALSE
    <3>1. Target(r) \in Tickets /\ row[Target(r)] \in Row
      BY <2>1, <2>3 DEF DeleteRow, Target, Shape, Args
    <3> QED BY <1>1, <2>1, <2>3, <3>1, DeletedRowType DEF DeleteRow
  <2>4. ASSUME NEW r \in Requests, CommitStatus(r) PROVE Entered(row'[t])
    <3> DEFINE next == StatusRow(row[Target(r)], seen[r], args[r].input)
    <3>1. /\ Target(r) \in Tickets /\ row[Target(r)] \in Row /\ seen[r] \in Row /\ now \in Nat
          /\ args[r].input \in StatusInputs
      BY <2>1, <2>4 DEF CommitStatus, Target, TypeOK, Shape, Args
    <3>2. row' = [row EXCEPT ![Target(r)] = next]
      BY <2>4 DEF CommitStatus, Write
    <3>3. seen[r] = row[Target(r)] /\ Acceptable(seen[r], args[r].input)
      BY <1>1, <2>4, CommitIsCurrent DEF CommitStatus, HonestInv, Informed
    <3>4. Entered(next)
      <4> DEFINE in == args[r].input
      <4>1. /\ next.status = in.status
            /\ next.scheduled = (row[Target(r)].scheduled \/ in.schedules)
            /\ in.status = "RESOLVED" => next.report = in.report
            /\ in.status = "CANCELLED" => "cancelledReason" \in next.stamps
        BY <3>1, StatusRowType
      <4> HIDE DEF next
      <4> QED BY <3>3, <4>1 DEF Acceptable
    <3>5. row'[t] = next
      <4>1. t = Target(r)
        BY <1>1, <2>1, <3>1, <3>2
      <4> QED BY <2>1, <3>2, <4>1
    <3> HIDE DEF next, Entered
    <3> QED BY <3>4, <3>5
  <2> QED BY <1>1, <2>2, <2>3, <2>4, WhoWrites
<1>2. HonestInv /\ [Next]_vars =>
         [\A t \in Tickets : row'[t].status # row[t].status =>
            /\ row'[t].status = "SCHEDULED" => row'[t].scheduled
            /\ row'[t].status = "RESOLVED" => row'[t].report = ReportFields
            /\ row'[t].status = "CANCELLED" => "cancelledReason" \in row'[t].stamps]_vars
  BY <1>1
<1> QED BY <1>2, HonestInvariant, PTL DEF Spec, EntryRequirements
-----------------------------------------------------------------------------
(***************************************************************************)
(* What a ticket leaves behind, its history and its audit log, tells its    *)
(* story, for clients that name versions they were given.  Both logs copy   *)
(* a row read before the transaction; the guard on the version makes it the *)
(* row written over (CommitIsCurrent), so each entry continues the one      *)
(* before.                                                                  *)
(***************************************************************************)

\* A row without statuses, as updateTicket writes, leads to the same status.
LEMMA LeadsOnUnmoved ==
    ASSUME NEW h \in Seq(Entry), NEW s, LeadsTo(h, s), NEW e \in Entry, e.to = Null
    PROVE  LeadsTo(Append(h, e), s)
<1> DEFINE g == Append(h, e)
<1>1. Len(h) \in Nat /\ Len(g) = Len(h) + 1 /\ g[Len(h) + 1] = e /\ \A i \in 1..Len(h) : g[i] = h[i]
  OBVIOUS
<1> HIDE DEF g
<1>2. Len(h) > 0 /\ Len(g) > 0 /\ g[1].to # Null
  BY <1>1 DEF LeadsTo
<1>3. ASSUME NEW i \in 1..Len(g), g[i].to # Null
      PROVE  /\ \A j \in (i + 1)..Len(g) :
                   g[j].to # Null /\ (\A k \in (i + 1)..(j - 1) : g[k].to = Null) => g[j].from = g[i].to
             /\ (\A k \in (i + 1)..Len(g) : g[k].to = Null) => g[i].to = s
  <2>1. i \in 1..Len(h) /\ g[i] = h[i]
    BY <1>1, <1>3
  <2>2. ASSUME NEW j \in (i + 1)..Len(g), g[j].to # Null, \A k \in (i + 1)..(j - 1) : g[k].to = Null
        PROVE  g[j].from = g[i].to
    <3>1. j \in (i + 1)..Len(h) /\ g[j] = h[j]
      BY <1>1, <2>1, <2>2
    <3>2. \A k \in (i + 1)..(j - 1) : h[k].to = Null
      BY <1>1, <2>1, <2>2, <3>1
    <3> QED BY <1>3, <2>1, <2>2, <3>1, <3>2 DEF LeadsTo
  <2>3. ASSUME \A k \in (i + 1)..Len(g) : g[k].to = Null PROVE g[i].to = s
    <3>1. \A k \in (i + 1)..Len(h) : h[k].to = Null
      BY <1>1, <2>1, <2>3
    <3> QED BY <1>3, <2>1, <3>1 DEF LeadsTo
  <2> QED BY <2>2, <2>3
<1>4. LeadsTo(g, s)
  BY <1>2, <1>3, Zenon DEF LeadsTo
<1> QED BY <1>4 DEF g

\* A row that leaves s for e.to leads to e.to.
LEMMA LeadsOnMoved ==
    ASSUME NEW h \in Seq(Entry), NEW s, LeadsTo(h, s), NEW e \in Entry, e.to # Null, e.from = s
    PROVE  LeadsTo(Append(h, e), e.to)
<1> DEFINE g == Append(h, e)
<1>1. Len(h) \in Nat /\ Len(g) = Len(h) + 1 /\ g[Len(h) + 1] = e /\ \A i \in 1..Len(h) : g[i] = h[i]
  OBVIOUS
<1> HIDE DEF g
<1>2. Len(h) > 0 /\ Len(g) > 0 /\ g[1].to # Null
  BY <1>1 DEF LeadsTo
<1>3. ASSUME NEW i \in 1..Len(g), g[i].to # Null
      PROVE  /\ \A j \in (i + 1)..Len(g) :
                   g[j].to # Null /\ (\A k \in (i + 1)..(j - 1) : g[k].to = Null) => g[j].from = g[i].to
             /\ (\A k \in (i + 1)..Len(g) : g[k].to = Null) => g[i].to = e.to
  <2>1. CASE i = Len(h) + 1
    BY <1>1, <2>1
  <2>2. CASE i \in 1..Len(h)
    <3>1. g[i] = h[i] /\ h[i].to # Null
      BY <1>1, <1>3, <2>2
    <3>2. ASSUME NEW j \in (i + 1)..Len(g), g[j].to # Null, \A k \in (i + 1)..(j - 1) : g[k].to = Null
          PROVE  g[j].from = g[i].to
      <4>1. \A k \in (i + 1)..(j - 1) : h[k].to = Null
        BY <1>1, <2>2, <3>2
      <4>2. CASE j \in (i + 1)..Len(h)
        <5>1. g[j] = h[j]
          BY <1>1, <2>2, <4>2
        <5> QED BY <2>2, <3>1, <3>2, <4>1, <4>2, <5>1 DEF LeadsTo
      <4>3. CASE j = Len(h) + 1
        <5>1. h[i].to = s
          <6>1. \A k \in (i + 1)..Len(h) : h[k].to = Null
            BY <1>1, <4>1, <4>3
          <6> QED BY <2>2, <3>1, <6>1 DEF LeadsTo
        <5> QED BY <1>1, <3>1, <4>3, <5>1
      <4> QED BY <1>1, <2>2, <4>2, <4>3
    <3>3. ~(\A k \in (i + 1)..Len(g) : g[k].to = Null)
      BY <1>1, <2>2
    <3> QED BY <3>2, <3>3
  <2> QED BY <1>1, <2>1, <2>2
<1>4. LeadsTo(g, e.to)
  BY <1>2, <1>3, Zenon DEF LeadsTo
<1> QED BY <1>4 DEF g

\* The status rows of the history form one chain that ends in the ticket's status.
THEOREM HistoryLeadsToStatus ==
    ASSUME Lookahead = 0
    PROVE  Spec => []StatusHistory
<1>1. Init => StatusHistory
  <2> SUFFICES ASSUME Init, NEW t \in Tickets PROVE LeadsTo(history[t], row[t].status)
    BY DEF StatusHistory
  <2>1. history[t] = <<[from |-> Null, to |-> row[t].status]>> /\ row[t].status \in Statuses
    BY InitShape DEF Init, TypeOK, Row
  <2> QED BY <2>1, NullAssumption DEF LeadsTo
<1>2. HonestInv /\ StatusHistory /\ [Next]_vars => StatusHistory'
  <2> SUFFICES ASSUME HonestInv, StatusHistory, [Next]_vars, NEW t \in Tickets
               PROVE  LeadsTo(history'[t], row'[t].status)
    BY DEF StatusHistory
  <2>1. TypeOK /\ Shape /\ history[t] \in Seq(Entry) /\ row[t] \in Row /\ LeadsTo(history[t], row[t].status)
    BY DEF HonestInv, TypeOK, StatusHistory
  <2>2. ASSUME NEW r \in Requests, CommitUpdate(r) PROVE LeadsTo(history'[t], row'[t].status)
    <3>1. /\ Target(r) \in Tickets /\ row[Target(r)] \in Row /\ args[r].input \in UpdateInputs
          /\ row' = [row EXCEPT ![Target(r)] = UpdatedRow(row[Target(r)], args[r].input)]
          /\ history' = [history EXCEPT ![Target(r)] = Append(@, [from |-> Null, to |-> Null])]
      BY <2>1, <2>2 DEF CommitUpdate, Write, Target, Shape, Args, TypeOK
    <3>2. row'[t].status = row[t].status
      BY <2>1, <3>1, UpdatedRowType DEF TypeOK
    <3>3. CASE t = Target(r)
      <4>1. history'[t] = Append(history[t], [from |-> Null, to |-> Null])
        BY <2>1, <3>1, <3>3 DEF TypeOK
      <4>2. [from |-> Null, to |-> Null] \in Entry
        BY DEF Entry
      <4> QED BY <2>1, <3>2, <4>1, <4>2, LeadsOnUnmoved
    <3>4. CASE t # Target(r)
      BY <2>1, <3>1, <3>2, <3>4 DEF TypeOK
    <3> QED BY <3>3, <3>4
  <2>3. ASSUME NEW r \in Requests, CommitStatus(r) PROVE LeadsTo(history'[t], row'[t].status)
    <3> DEFINE next == StatusRow(row[Target(r)], seen[r], args[r].input)
    <3>1. /\ Target(r) \in Tickets /\ row[Target(r)] \in Row /\ seen[r] \in Row /\ now \in Nat
          /\ args[r].input \in StatusInputs
      BY <2>1, <2>3 DEF CommitStatus, Target, TypeOK, Shape, Args
    <3>2. seen[r] = row[Target(r)]
      BY <2>3, CommitIsCurrent DEF CommitStatus
    <3>3. next \in Row /\ next.status \in Statuses
      BY <3>1, StatusRowType DEF Row
    <3>4. /\ row' = [row EXCEPT ![Target(r)] = next]
          /\ history' = [history EXCEPT ![Target(r)] = Append(@, [from |-> seen[r].status, to |-> next.status])]
      BY <2>3 DEF CommitStatus, Write
    <3> HIDE DEF next
    <3>5. CASE t = Target(r)
      <4>1. history'[t] = Append(history[t], [from |-> row[t].status, to |-> next.status]) /\ row'[t] = next
        BY <2>1, <3>1, <3>2, <3>4, <3>5 DEF TypeOK
      <4>2. [from |-> row[t].status, to |-> next.status] \in Entry /\ next.status # Null
        BY <2>1, <3>3, NullAssumption DEF Entry, Row
      <4> QED BY <2>1, <4>1, <4>2, LeadsOnMoved
    <3>6. CASE t # Target(r)
      BY <2>1, <3>1, <3>4, <3>6 DEF TypeOK
    <3> QED BY <3>5, <3>6
  <2>4. ASSUME NEW r \in Requests, DeleteRow(r) PROVE LeadsTo(history'[t], row'[t].status)
    <3>1. Target(r) \in Tickets /\ row[Target(r)] \in Row
      BY <2>1, <2>4 DEF DeleteRow, Target, Shape, Args, TypeOK
    <3>2. row'[t].status = row[t].status /\ history' = history
      BY <2>1, <2>4, <3>1, DeletedRowType DEF DeleteRow, TypeOK
    <3> QED BY <2>1, <3>2
  <2>5. \/ UNCHANGED <<row, history>>
        \/ \E r \in Requests : CommitUpdate(r) \/ CommitStatus(r) \/ DeleteRow(r)
    BY DEF Next, Handle, Tick, Finished, vars, tables, SubmitUpdate, SubmitStatus, SubmitDelete, Send, GetTicket,
           GetAnswer, FindMissing, FindForUpdate, FindForStatus, Conflict, DeleteMissing, AuditDelete,
           Invalidate, Fail
  <2> QED BY <2>1, <2>2, <2>3, <2>4, <2>5
<1> QED BY <1>1, <1>2, HonestInvariant, PTL DEF Spec
-----------------------------------------------------------------------------
\* The image an entry has of a row, its deletion undone.
LEMMA AliveImage ==
    ASSUME NEW rw \in Row, ~rw.deleted
    PROVE  /\ Gone(rw) = 0 /\ Writes(rw) = rw.version - 1 /\ rw.version \in Nat \ {0}
           /\ [rw EXCEPT !.deleted = FALSE, !.version = @ - Gone(rw)] = rw
<1>1. Gone(rw) = 0
  BY Zenon DEF Gone
<1>2. rw.version \in Nat \ {0} /\ Writes(rw) = rw.version - 1
  BY <1>1 DEF Writes, Row
<1>3. PICK b \in BOOLEAN : b = FALSE
  OBVIOUS
<1>4. PICK v \in Nat \ {0} : v = rw.version - Gone(rw) /\ v = rw.version
  BY <1>1, <1>2
<1>5. rw.deleted = b
  BY <1>3 DEF Row
<1>6. [rw EXCEPT !.deleted = b, !.version = v] = rw
  BY <1>4, <1>5 DEF Row
<1>7. [rw EXCEPT !.deleted = FALSE, !.version = rw.version - Gone(rw)] = rw
  BY <1>3, <1>4, <1>6, Zenon
<1> QED BY <1>1, <1>2, <1>7

LEMMA GoneImage ==
    ASSUME NEW rw \in Row, ~rw.deleted
    PROVE  /\ Gone(DeletedRow(rw)) = 1 /\ Writes(DeletedRow(rw)) = Writes(rw)
           /\ [DeletedRow(rw) EXCEPT !.deleted = FALSE, !.version = @ - Gone(DeletedRow(rw))] = rw
<1> DEFINE d == DeletedRow(rw)
<1>1. d.deleted = TRUE /\ d.version = rw.version + 1 /\ d \in Row
  BY DeletedRowType
<1>2. Gone(d) = 1
  BY <1>1, Zenon DEF Gone
<1>3. Writes(d) = Writes(rw) /\ rw.version \in Nat \ {0}
  <2>1. rw.version \in Nat \ {0} /\ Writes(rw) = rw.version - 1
    BY AliveImage
  <2> HIDE DEF d
  <2>2. Writes(d) = d.version - 1 - Gone(d)
    BY DEF Writes
  <2> QED BY <1>1, <1>2, <2>1, <2>2
<1>4. PICK b \in BOOLEAN : b = FALSE
  OBVIOUS
<1>5. PICK v \in Nat \ {0} : v = d.version - Gone(d) /\ v = rw.version
  BY <1>1, <1>2, <1>3
<1>6. rw.deleted = b
  BY <1>4 DEF Row
<1>7. PICK c \in BOOLEAN : c = TRUE
  OBVIOUS
<1>8. PICK w \in Nat \ {0} : w = rw.version + 1
  BY <1>3
<1>9. d = [rw EXCEPT !.deleted = c, !.version = w]
  BY <1>7, <1>8, Zenon DEF DeletedRow
<1> HIDE DEF d
<1>10. [[rw EXCEPT !.deleted = c, !.version = w] EXCEPT !.deleted = b, !.version = v] = rw
  BY <1>5, <1>6 DEF Row
<1>11. [d EXCEPT !.deleted = FALSE, !.version = d.version - Gone(d)] = rw
  BY <1>4, <1>5, <1>9, <1>10, Zenon
<1> QED BY <1>2, <1>3, <1>11 DEF d

\* A write of the ticket continues the log with its before and after images.
LEMMA ReplaysOnWrite ==
    ASSUME NEW log \in Seq(Trace), NEW rw \in Row, Replays(log, rw), ~rw.deleted,
           NEW next \in Row, next.version = rw.version + 1, next.deleted = rw.deleted,
           NEW action \in {"update", "status_change"}
    PROVE  Replays(Append(log, [action |-> action, before |-> rw, after |-> next]), next)
<1> DEFINE e == [action |-> action, before |-> rw, after |-> next]
           g == Append(log, e)
<1>1. e \in Trace /\ e.action # "soft_delete" /\ e.before = rw /\ e.after = next
  BY DEF Trace
<1> HIDE DEF e
<1>2. Len(log) \in Nat /\ Len(g) = Len(log) + 1 /\ g[Len(log) + 1] = e /\ \A i \in 1..Len(log) : g[i] = log[i]
  BY <1>1
<1> HIDE DEF g
<1>3. PICK n \in Nat : n = rw.version - 1 /\ Writes(rw) = n /\ Writes(next) = n + 1
  <2>1. ~next.deleted
    BY Zenon
  <2>2. Writes(rw) = rw.version - 1 /\ rw.version \in Nat \ {0} /\ Writes(next) = next.version - 1
    BY <2>1, AliveImage, Zenon
  <2> QED BY <2>2
<1>4. /\ Len(log) = n /\ \A i \in 1..n : log[i].action # "soft_delete"
      /\ \A i \in 2..n : log[i].before = log[i - 1].after
      /\ n > 0 => log[n].after = rw
  <2>1. [rw EXCEPT !.deleted = FALSE, !.version = @ - Gone(rw)] = rw
    BY AliveImage
  <2> QED BY <1>3, <2>1, Zenon DEF Replays
<1>5. \A i \in 1..(n + 1) : g[i].action # "soft_delete"
  BY <1>1, <1>2, <1>4
<1>6. \A i \in 2..(n + 1) : g[i].before = g[i - 1].after
  <2> SUFFICES ASSUME NEW i \in 2..(n + 1) PROVE g[i].before = g[i - 1].after
    OBVIOUS
  <2>1. CASE i \in 2..n
    BY <2>1, <1>2, <1>4
  <2>2. CASE i = n + 1
    BY <2>2, <1>1, <1>2, <1>4
  <2> QED BY <2>1, <2>2
<1>7. [next EXCEPT !.deleted = FALSE, !.version = @ - Gone(next)] = next
  <2>1. ~next.deleted
    BY Zenon
  <2> QED BY <2>1, AliveImage, Zenon
<1>8. Len(g) = n + 1 /\ n + 1 >= 0 /\ g[n + 1].after = next
  BY <1>1, <1>2, <1>4
<1>9. Replays(g, next)
  BY <1>3, <1>5, <1>6, <1>7, <1>8, Zenon DEF Replays
<1> QED BY <1>9 DEF g, e

\* The deletion of a row leaves its writes as they are.
LEMMA ReplaysOnDelete ==
    ASSUME NEW log, NEW rw \in Row, Replays(log, rw), ~rw.deleted
    PROVE  Replays(log, DeletedRow(rw)) /\ Len(log) = Writes(DeletedRow(rw))
<1> DEFINE d == DeletedRow(rw)
<1>1. /\ [rw EXCEPT !.deleted = FALSE, !.version = @ - Gone(rw)] = rw
      /\ [d EXCEPT !.deleted = FALSE, !.version = @ - Gone(d)] = rw
      /\ Writes(d) = Writes(rw)
  BY AliveImage, GoneImage, Zenon
<1> HIDE DEF d
<1>2. Replays(log, d) /\ Len(log) = Writes(d)
  BY <1>1, Zenon DEF Replays
<1> QED BY <1>2 DEF d

\* Its entry comes behind them.
LEMMA ReplaysOnEntry ==
    ASSUME NEW log \in Seq(Trace), NEW rw \in Row, Replays(log, rw), rw.deleted, Len(log) = Writes(rw)
    PROVE  Replays(Append(log, [action |-> "soft_delete", before |-> Null, after |-> Null]), rw)
<1> DEFINE e == [action |-> "soft_delete", before |-> Null, after |-> Null]
           g == Append(log, e)
<1>1. e \in Trace /\ e.action = "soft_delete"
  BY DEF Trace
<1> HIDE DEF e
<1>2. Len(log) \in Nat /\ Len(g) = Len(log) + 1 /\ g[Len(log) + 1] = e /\ \A i \in 1..Len(log) : g[i] = log[i]
  BY <1>1
<1> HIDE DEF g
<1>3. Replays(g, rw)
  BY <1>1, <1>2 DEF Replays
<1> QED BY <1>3 DEF g, e

\* A handler that stands between the two statements of a deletion is the one that
\* deleted the row, and the only one; its entry is not written yet.
Deleting ==
    \A r \in Requests : pc[r] = "audit" =>
        /\ row[Target(r)].deleted /\ Len(audit[Target(r)]) = Writes(row[Target(r)])
        /\ \A q \in Requests : pc[q] = "audit" /\ Target(q) = Target(r) => q = r

\* What a step does to the three tables of the trail.
LEMMA AuditStep ==
    ASSUME HonestInv, AuditTrail, Deleting, [Next]_vars, NEW t \in Tickets
    PROVE  \/ row'[t] = row[t] /\ audit'[t] = audit[t]
           \/ /\ ~row[t].deleted /\ ~row'[t].deleted /\ Replays(audit'[t], row'[t])
           \/ /\ ~row[t].deleted /\ row'[t].deleted /\ audit'[t] = audit[t]
              /\ Replays(audit'[t], row'[t]) /\ Len(audit'[t]) = Writes(row'[t])
              /\ \E r \in Requests : /\ pc[r] # "audit" /\ Target(r) = t
                                  /\ pc' = [pc EXCEPT ![r] = "audit"] /\ args' = args
           \/ /\ row'[t] = row[t] /\ Replays(audit'[t], row'[t])
              /\ \E r \in Requests : /\ pc[r] = "audit" /\ Target(r) = t
                                  /\ pc' = [pc EXCEPT ![r] = "invalidate"] /\ args' = args
<1>1. /\ TypeOK /\ Shape /\ row \in [Tickets -> Row] /\ audit \in [Tickets -> Seq(Trace)]
      /\ row[t] \in Row /\ audit[t] \in Seq(Trace) /\ Replays(audit[t], row[t])
  BY DEF HonestInv, TypeOK, AuditTrail
<1>2. ASSUME NEW r \in Requests, NEW next \in Row, NEW action \in {"update", "status_change"}, Target(r) \in Tickets,
             pc[r] = "tx", Matches(Target(r), args[r].version),
             next.version = row[Target(r)].version + 1, next.deleted = row[Target(r)].deleted,
             row' = [row EXCEPT ![Target(r)] = next],
             audit' = [audit EXCEPT ![Target(r)] = Append(@, [action |-> action, before |-> seen[r], after |-> next])]
      PROVE  \/ row'[t] = row[t] /\ audit'[t] = audit[t]
             \/ ~row[t].deleted /\ ~row'[t].deleted /\ Replays(audit'[t], row'[t])
  <2>1. CASE t = Target(r)
    <3>1. seen[r] = row[t] /\ ~row[t].deleted
      BY <1>2, <2>1, CommitIsCurrent DEF Matches
    <3>2. row'[t] = next /\ audit'[t] = Append(audit[t], [action |-> action, before |-> row[t], after |-> next])
      BY <1>1, <1>2, <2>1, <3>1
    <3> QED BY <1>1, <1>2, <2>1, <3>1, <3>2, ReplaysOnWrite
  <2>2. CASE t # Target(r)
    BY <1>1, <1>2, <2>2
  <2> QED BY <2>1, <2>2
<1>3. ASSUME NEW r \in Requests, CommitUpdate(r)
      PROVE  \/ row'[t] = row[t] /\ audit'[t] = audit[t]
             \/ ~row[t].deleted /\ ~row'[t].deleted /\ Replays(audit'[t], row'[t])
  <2> DEFINE next == UpdatedRow(row[Target(r)], args[r].input)
  <2>1. Target(r) \in Tickets /\ row[Target(r)] \in Row /\ args[r].input \in UpdateInputs
    BY <1>1, <1>3 DEF CommitUpdate, Target, Shape, Args
  <2>2. next \in Row /\ next.version = row[Target(r)].version + 1 /\ next.deleted = row[Target(r)].deleted
    BY <2>1, UpdatedRowType
  <2>3. /\ pc[r] = "tx" /\ Matches(Target(r), args[r].version) /\ row' = [row EXCEPT ![Target(r)] = next]
        /\ audit' = [audit EXCEPT ![Target(r)] = Append(@, [action |-> "update", before |-> seen[r], after |-> next])]
    BY <1>3 DEF CommitUpdate, Write
  <2> HIDE DEF next
  <2> QED BY <1>2, <2>1, <2>2, <2>3
<1>4. ASSUME NEW r \in Requests, CommitStatus(r)
      PROVE  \/ row'[t] = row[t] /\ audit'[t] = audit[t]
             \/ ~row[t].deleted /\ ~row'[t].deleted /\ Replays(audit'[t], row'[t])
  <2> DEFINE next == StatusRow(row[Target(r)], seen[r], args[r].input)
  <2>1. /\ Target(r) \in Tickets /\ row[Target(r)] \in Row /\ seen[r] \in Row /\ now \in Nat
        /\ args[r].input \in StatusInputs
    BY <1>1, <1>4 DEF CommitStatus, Target, TypeOK, Shape, Args
  <2>2. next \in Row /\ next.version = row[Target(r)].version + 1 /\ next.deleted = row[Target(r)].deleted
    BY <2>1, StatusRowType
  <2>3. /\ pc[r] = "tx" /\ Matches(Target(r), args[r].version) /\ row' = [row EXCEPT ![Target(r)] = next]
        /\ audit' = [audit EXCEPT ![Target(r)] =
                        Append(@, [action |-> "status_change", before |-> seen[r], after |-> next])]
    BY <1>4 DEF CommitStatus, Write
  <2> HIDE DEF next
  <2> QED BY <1>2, <2>1, <2>2, <2>3
<1>5. ASSUME NEW r \in Requests, DeleteRow(r)
      PROVE  \/ row'[t] = row[t] /\ audit'[t] = audit[t]
             \/ /\ ~row[t].deleted /\ row'[t].deleted /\ audit'[t] = audit[t]
                /\ Replays(audit'[t], row'[t]) /\ Len(audit'[t]) = Writes(row'[t])
                /\ pc[r] # "audit" /\ Target(r) = t /\ pc' = [pc EXCEPT ![r] = "audit"] /\ args' = args
  <2>1. CASE t = Target(r)
    <3>1. row'[t] = DeletedRow(row[t]) /\ audit' = audit /\ ~row[t].deleted
      BY <1>1, <1>5, <2>1 DEF DeleteRow
    <3>2. pc[r] # "audit" /\ pc' = [pc EXCEPT ![r] = "audit"] /\ args' = args
      BY <1>5 DEF DeleteRow
    <3> QED BY <1>1, <2>1, <3>1, <3>2, ReplaysOnDelete, DeletedRowType
  <2>2. CASE t # Target(r)
    BY <1>1, <1>5, <2>2 DEF DeleteRow
  <2> QED BY <2>1, <2>2
<1>6. ASSUME NEW r \in Requests, AuditDelete(r)
      PROVE  \/ row'[t] = row[t] /\ audit'[t] = audit[t]
             \/ /\ row'[t] = row[t] /\ Replays(audit'[t], row'[t])
                /\ pc[r] = "audit" /\ Target(r) = t /\ pc' = [pc EXCEPT ![r] = "invalidate"] /\ args' = args
  <2>1. row' = row /\ pc[r] = "audit" /\ pc' = [pc EXCEPT ![r] = "invalidate"] /\ args' = args
    BY <1>6 DEF AuditDelete
  <2>2. CASE t = Target(r)
    <3>1. audit'[t] = Append(audit[t], [action |-> "soft_delete", before |-> Null, after |-> Null])
      BY <1>1, <1>6, <2>2 DEF AuditDelete
    <3>2. row[t].deleted /\ Len(audit[t]) = Writes(row[t])
      BY <2>1, <2>2 DEF Deleting
    <3> QED BY <1>1, <2>1, <2>2, <3>1, <3>2, ReplaysOnEntry
  <2>3. CASE t # Target(r)
    BY <1>1, <1>6, <2>1, <2>3 DEF AuditDelete
  <2> QED BY <2>2, <2>3
<1>7. \/ UNCHANGED <<row, audit>>
      \/ \E r \in Requests : CommitUpdate(r) \/ CommitStatus(r) \/ DeleteRow(r) \/ AuditDelete(r)
  BY DEF Next, Handle, Tick, Finished, vars, tables, SubmitUpdate, SubmitStatus, SubmitDelete, Send, GetTicket,
         GetAnswer, FindMissing, FindForUpdate, FindForStatus, Conflict, DeleteMissing, Invalidate, Fail
<1> QED BY <1>3, <1>4, <1>5, <1>6, <1>7

\* A handler gets between the two statements of a deletion by deleting the row, or
\* it is there already.
LEMMA WhoDeletes ==
    ASSUME TypeOK, [Next]_vars, NEW r \in Requests, pc'[r] = "audit"
    PROVE  (pc[r] = "audit" /\ args'[r] = args[r]) \/ DeleteRow(r)
<1> DEFINE Stays == pc[r] = "audit" /\ args'[r] = args[r]
<1>1. ASSUME NEW q \in Requests, SubmitUpdate(q) \/ SubmitStatus(q) \/ SubmitDelete(q) PROVE Stays
  <2>1. \E a : Send(q, a, "find") \/ Send(q, a, "delete")
    BY <1>1, Zenon DEF SubmitUpdate, SubmitStatus, SubmitDelete
  <2>2. /\ pc' = [pc EXCEPT ![q] = "find"] \/ pc' = [pc EXCEPT ![q] = "delete"]
        /\ pc[q] = "idle" /\ \E a : args' = [args EXCEPT ![q] = a]
    BY <2>1, Zenon DEF Send
  <2> QED BY <2>2 DEF TypeOK
<1>2. ASSUME NEW q \in Requests, GetTicket(q) PROVE Stays
  <2>1. PICK t \in Tickets : \E copy \in Held(t) \cup {Null} : GetAnswer(q, t, copy)
    BY <1>2 DEF GetTicket
  <2>2. PICK copy \in Held(t) \cup {Null} : GetAnswer(q, t, copy)
    BY <2>1
  <2>3. pc' = [pc EXCEPT ![q] = "done"] /\ \E a : args' = [args EXCEPT ![q] = a]
    BY <2>2, Zenon DEF GetAnswer, Answer
  <2> QED BY <2>3 DEF TypeOK
<1>3. ASSUME NEW q \in Requests, FindMissing(q) \/ FindForUpdate(q) \/ FindForStatus(q) \/ Conflict(q)
                                 \/ DeleteMissing(q) \/ AuditDelete(q) \/ Invalidate(q) \/ Fail(q)
      PROVE  Stays
  BY <1>3 DEF FindMissing, FindForUpdate, FindForStatus, Conflict, DeleteMissing, AuditDelete, Invalidate, Fail,
              Answer, TypeOK
<1>4. ASSUME NEW q \in Requests, CommitUpdate(q) \/ CommitStatus(q) PROVE Stays
  <2>1. pc' = [pc EXCEPT ![q] = "invalidate"] /\ args' = args
    BY <1>4, Zenon DEF CommitUpdate, CommitStatus, Write
  <2> QED BY <2>1 DEF TypeOK
<1>5. ASSUME NEW q \in Requests, DeleteRow(q) PROVE Stays \/ DeleteRow(r)
  BY <1>5 DEF DeleteRow, TypeOK
<1>6. CASE Tick \/ UNCHANGED vars
  BY <1>6 DEF Tick, vars
<1> HIDE DEF Stays
<1>7. Stays \/ DeleteRow(r)
  <2>1. CASE \E q \in Requests : Handle(q)
    BY <2>1, <1>1, <1>2, <1>3, <1>4, <1>5, Zenon DEF Handle
  <2>2. Tick \/ UNCHANGED vars \/ \E q \in Requests : Handle(q)
    BY Zenon DEF Next, Finished
  <2> QED BY <2>1, <2>2, <1>6 DEF Stays
<1> QED BY <1>7 DEF Stays

LEMMA DeletingStep ==
    HonestInv /\ HonestInv' /\ AuditTrail /\ Deleting /\ [Next]_vars => Deleting'
<1> SUFFICES ASSUME HonestInv, HonestInv', AuditTrail, Deleting, [Next]_vars, NEW r \in Requests, pc'[r] = "audit"
             PROVE  /\ row'[Target(r)'].deleted /\ Len(audit'[Target(r)']) = Writes(row'[Target(r)'])
                    /\ \A q \in Requests : pc'[q] = "audit" /\ Target(q)' = Target(r)' => q = r
  BY DEF Deleting, Writes, Gone
<1> PICK t : t = Target(r)'
  OBVIOUS
<1>1. TypeOK /\ Shape /\ t \in Tickets /\ row[t] \in Row
  BY DEF HonestInv, Shape, Target, Args, TypeOK
<1>2. \A q \in Requests : pc'[q] = "audit" =>
        /\ Target(q)' = Target(q)
        /\ \/ pc[q] = "audit"
           \/ pc[q] = "delete" /\ ~row[Target(q)].deleted /\ pc' = [pc EXCEPT ![q] = "audit"]
              /\ row' = [row EXCEPT ![Target(q)] = DeletedRow(row[Target(q)])]
  BY <1>1, WhoDeletes DEF DeleteRow, Target
<1>3. t = Target(r)
  BY <1>2
<1>4. CASE pc[r] = "audit"
  <2>1. row[t].deleted /\ Len(audit[t]) = Writes(row[t]) /\ \A q \in Requests : pc[q] = "audit" /\ Target(q) = t => q = r
    BY <1>3, <1>4, Zenon DEF Deleting
  <2>2. ~(\E q \in Requests : pc[q] = "audit" /\ Target(q) = t /\ pc' = [pc EXCEPT ![q] = "invalidate"])
    BY <1>1, <2>1 DEF TypeOK
  <2>3. row'[t] = row[t] /\ audit'[t] = audit[t]
    BY <1>1, <2>1, <2>2, AuditStep, Zenon
  <2>4. \A q \in Requests : pc'[q] = "audit" /\ Target(q)' = t => q = r
    BY <1>2, <2>1, Zenon
  <2> QED BY <2>1, <2>3, <2>4
<1>5. CASE pc[r] # "audit"
  <2>1. /\ ~row[t].deleted /\ pc' = [pc EXCEPT ![r] = "audit"]
        /\ row' = [row EXCEPT ![t] = DeletedRow(row[t])]
    BY <1>2, <1>3, <1>5
  <2>2. row'[t] = DeletedRow(row[t]) /\ row'[t].deleted
    <3>1. row'[t] = DeletedRow(row[t])
      BY <1>1, <2>1 DEF TypeOK
    <3>2. DeletedRow(row[t]).deleted = TRUE
      BY <1>1, DeletedRowType
    <3> QED BY <3>1, <3>2
  <2>3. Len(audit'[t]) = Writes(row'[t])
    <3>1. row'[t] # row[t]
      BY <2>1, <2>2, Zenon
    <3> QED BY <1>1, <2>2, <3>1, AuditStep, Zenon
  <2>4. ASSUME NEW q \in Requests, pc'[q] = "audit", Target(q)' = t PROVE q = r
    <3>1. Target(q) = t
      BY <1>2, <2>4
    <3>2. pc[q] # "audit"
      BY <2>1, <3>1, Zenon DEF Deleting
    <3> QED BY <1>1, <2>1, <2>4, <3>2 DEF TypeOK
  <2> QED BY <2>2, <2>3, <2>4
<1> QED BY <1>4, <1>5

\* The audit log replays every ticket, whatever is interleaved with the statement
\* that deletes a row and the one that records it.
THEOREM AuditReplaysTicket ==
    ASSUME Lookahead = 0
    PROVE  Spec => []AuditTrail
<1>1. Init => AuditTrail /\ Deleting
  <2> SUFFICES ASSUME Init PROVE AuditTrail /\ Deleting
    OBVIOUS
  <2>1. Deleting
    BY DEF Init, Deleting
  <2>2. ASSUME NEW t \in Tickets PROVE Replays(audit[t], row[t])
    <3>1. PICK s \in SeedStatuses : row[t] = SeedRow(s)
      BY DEF Init
    <3>2. row[t].version = 1 /\ ~row[t].deleted
      <4>1. SeedRow(s).deleted = FALSE
        BY Zenon DEF SeedRow
      <4>2. SeedRow(s).version = 1
        BY Zenon DEF SeedRow
      <4> QED BY <3>1, <4>1, <4>2
    <3>3. audit[t] = <<>> /\ row[t] \in Row
      BY InitShape DEF Init, TypeOK
    <3>4. Writes(row[t]) = 0
      <4>1. Writes(row[t]) = row[t].version - 1
        BY <3>2, <3>3, AliveImage, Zenon
      <4> QED BY <3>2, <4>1
    <3> QED BY <3>3, <3>4 DEF Replays
  <2> QED BY <2>1, <2>2 DEF AuditTrail
<1>2. HonestInv /\ AuditTrail /\ Deleting /\ [Next]_vars => AuditTrail'
  <2> SUFFICES ASSUME HonestInv, AuditTrail, Deleting, [Next]_vars, NEW t \in Tickets
               PROVE  Replays(audit'[t], row'[t])
    BY DEF AuditTrail
  <2> QED BY AuditStep, Zenon DEF AuditTrail
<1>3. HonestInv /\ HonestInv' /\ AuditTrail /\ Deleting /\ [Next]_vars => Deleting'
  BY DeletingStep
<1> QED BY <1>1, <1>2, <1>3, HonestInvariant, PTL DEF Spec
-----------------------------------------------------------------------------
\* What a handler is about to write over was not deleted when it was read.
ReadAlive == \A r \in Requests : pc[r] = "tx" => seen[r] \in Row /\ ~seen[r].deleted

LEMMA ReadAliveStep == TypeOK /\ Shape /\ ReadAlive /\ [Next]_vars => ReadAlive'
<1> SUFFICES ASSUME TypeOK, Shape, ReadAlive, [Next]_vars, NEW r \in Requests, pc'[r] = "tx"
             PROVE  seen'[r] \in Row /\ ~seen'[r].deleted
  BY DEF ReadAlive
<1> DEFINE Same == pc[r] = "tx" /\ seen'[r] = seen[r]
           Found == FindForUpdate(r) \/ FindForStatus(r)
<1>1. ASSUME NEW q \in Requests, SubmitUpdate(q) \/ SubmitStatus(q) \/ SubmitDelete(q) PROVE Same
  <2>1. \E a : Send(q, a, "find") \/ Send(q, a, "delete")
    BY <1>1, Zenon DEF SubmitUpdate, SubmitStatus, SubmitDelete
  <2>2. (pc' = [pc EXCEPT ![q] = "find"] \/ pc' = [pc EXCEPT ![q] = "delete"]) /\ seen' = seen
    BY <2>1, Zenon DEF Send
  <2> QED BY <2>2 DEF TypeOK
<1>2. ASSUME NEW q \in Requests, GetTicket(q) PROVE Same
  <2>1. PICK t \in Tickets : \E copy \in Held(t) \cup {Null} : GetAnswer(q, t, copy)
    BY <1>2 DEF GetTicket
  <2>2. PICK copy \in Held(t) \cup {Null} : GetAnswer(q, t, copy)
    BY <2>1
  <2>3. pc' = [pc EXCEPT ![q] = "done"] /\ (UNCHANGED seen \/ \E rw : seen' = [seen EXCEPT ![q] = rw])
    BY <2>2, Zenon DEF GetAnswer, Answer
  <2> QED BY <2>3 DEF TypeOK
<1>3. ASSUME NEW q \in Requests, FindMissing(q) \/ Conflict(q) \/ DeleteMissing(q) \/ AuditDelete(q)
                                 \/ DeleteRow(q) \/ Invalidate(q) \/ Fail(q)
      PROVE  Same
  BY <1>3 DEF FindMissing, Conflict, DeleteMissing, AuditDelete, DeleteRow, Invalidate, Fail, Answer, TypeOK
<1>4. ASSUME NEW q \in Requests, CommitUpdate(q) \/ CommitStatus(q) PROVE Same
  <2>1. pc' = [pc EXCEPT ![q] = "invalidate"] /\ \E rw : seen' = [seen EXCEPT ![q] = rw]
    BY <1>4, Zenon DEF CommitUpdate, CommitStatus, Write
  <2> QED BY <2>1 DEF TypeOK
<1>5. ASSUME NEW q \in Requests, FindForUpdate(q) \/ FindForStatus(q) PROVE Same \/ Found
  BY <1>5 DEF FindForUpdate, FindForStatus, Answer, TypeOK
<1>6. CASE Tick \/ UNCHANGED vars
  BY <1>6 DEF Tick, vars, ReadAlive
<1>7. CASE Same
  BY <1>7 DEF ReadAlive
<1>8. CASE Found
  <2>1. Target(r) \in Tickets /\ seen' = [seen EXCEPT ![r] = row[Target(r)]] /\ ~row[Target(r)].deleted
    BY <1>8 DEF FindForUpdate, FindForStatus, Target, Shape, Args
  <2>2. seen'[r] = row[Target(r)] /\ row[Target(r)] \in Row
    BY <2>1 DEF TypeOK
  <2> QED BY <2>1, <2>2
<1> HIDE DEF Same, Found
<1>9. Tick \/ UNCHANGED vars \/ \E q \in Requests : Handle(q)
  BY Zenon DEF Next, Finished
<1>10. CASE \E q \in Requests : Handle(q)
  <2>1. Same \/ Found
    BY <1>10, <1>1, <1>2, <1>3, <1>4, <1>5, Zenon DEF Handle
  <2> QED BY <1>7, <1>8, <2>1
<1> QED BY <1>6, <1>9, <1>10

\* A conflict is answered to a version that is out of date, and to no other, for
\* clients that name versions they were given.
THEOREM ConflictsAreReal ==
    ASSUME Lookahead = 0
    PROVE  Spec => ConflictIsReal
<1>1. ASSUME HonestInv, ReadAlive, [Next]_vars, NEW r \in Requests, reply[r] = "none", reply'[r] = "conflict"
      PROVE  row[Target(r)].version > args[r].version
  <2>1. Conflict(r)
    <3>1. TypeOK
      BY <1>1 DEF HonestInv
    <3>2. reply' # reply
      BY <1>1
    <3>3. ASSUME NEW q \in Requests, GetTicket(q) PROVE FALSE
      <4>1. \E b \in {"notFound", "notModified", "ok"} : reply' = [reply EXCEPT ![q] = b]
        BY <3>3, Zenon DEF GetTicket, GetAnswer, Answer
      <4> QED BY <1>1, <3>1, <4>1 DEF TypeOK
    <3>4. ASSUME NEW q \in Requests, FindMissing(q) \/ FindForStatus(q) \/ DeleteMissing(q) \/ Invalidate(q) \/ Fail(q)
          PROVE  FALSE
      <4>1. \/ UNCHANGED reply
            \/ \E b \in {"notFound", "badRequest", "ok", "failed"} : reply' = [reply EXCEPT ![q] = b]
        BY <3>4, Zenon DEF FindMissing, FindForStatus, DeleteMissing, Invalidate, Fail, Answer
      <4> QED BY <1>1, <3>1, <4>1 DEF TypeOK
    <3>5. ASSUME NEW q \in Requests, Conflict(q) PROVE q = r
      BY <1>1, <3>1, <3>5 DEF Conflict, Answer, TypeOK
    <3>6. \A q \in Requests : ~SubmitUpdate(q) /\ ~SubmitStatus(q) /\ ~SubmitDelete(q) /\ ~FindForUpdate(q)
                              /\ ~CommitUpdate(q) /\ ~CommitStatus(q) /\ ~DeleteRow(q) /\ ~AuditDelete(q)
      BY <3>2, Zenon DEF SubmitUpdate, SubmitStatus, SubmitDelete, Send, FindForUpdate, CommitUpdate, CommitStatus,
                         Write, DeleteRow, AuditDelete
    <3>7. ~Tick /\ ~UNCHANGED vars
      BY <3>2 DEF Tick, vars
    <3>8. \E q \in Requests : Handle(q)
      BY <1>1, <3>7, Zenon DEF Next, Finished
    <3> QED BY <3>3, <3>4, <3>5, <3>6, <3>8, Zenon DEF Handle
  <2>2. /\ pc[r] = "tx" /\ ~Matches(Target(r), args[r].version)
        /\ TypeOK /\ Shape /\ seen[r] \in Row /\ ~seen[r].deleted /\ seen[r] # Null
    BY <1>1, <2>1, NullAssumption DEF Conflict, HonestInv, ReadAlive
  <2>3. Target(r) \in Tickets /\ args[r] \in Args /\ row[Target(r)] \in Row
    BY <2>2 DEF Shape, Args, Target, TypeOK
  <2>4. /\ args[r].version <= seen[r].version /\ seen[r].version <= row[Target(r)].version
        /\ seen[r].version = row[Target(r)].version => seen[r] = row[Target(r)]
    BY <1>1, <2>2 DEF HonestInv, Informed, SnapshotCoherent
  <2>5. args[r].version \in Nat /\ seen[r].version \in Nat /\ row[Target(r)].version \in Nat
    BY <2>2, <2>3 DEF Args, Row
  <2>6. args[r].version # row[Target(r)].version
    <3> SUFFICES ASSUME args[r].version = row[Target(r)].version PROVE FALSE
      OBVIOUS
    <3>1. seen[r] = row[Target(r)]
      BY <2>4, <2>5
    <3> QED BY <2>2, <3>1, Zenon DEF Matches
  <2> QED BY <2>4, <2>5, <2>6
<1>2. HonestInv /\ ReadAlive /\ [Next]_vars =>
        [\A r \in Requests : reply[r] = "none" /\ reply'[r] = "conflict" => row[Target(r)].version > args[r].version]_vars
  BY <1>1
<1>3. Init => ReadAlive
  BY DEF Init, ReadAlive
<1>4. HonestInv /\ ReadAlive /\ [Next]_vars => ReadAlive'
  BY ReadAliveStep DEF HonestInv
<1> QED BY <1>2, <1>3, <1>4, HonestInvariant, PTL DEF Spec, ConflictIsReal
-----------------------------------------------------------------------------
\* An appended row counts as a departure from s if it is one.
LEMMA LeftAppended ==
    ASSUME NEW h \in Seq(Entry), NEW e \in Entry, NEW s
    PROVE  /\ Cardinality(Left(h, s)) \in Nat
           /\ Cardinality(Left(Append(h, e), s)) = Cardinality(Left(h, s)) + (IF e.from = s THEN 1 ELSE 0)
<1> DEFINE g == Append(h, e)
<1>1. /\ Len(h) \in Nat /\ DOMAIN h = 1..Len(h) /\ DOMAIN g = 1..(Len(h) + 1)
      /\ g[Len(h) + 1] = e /\ \A i \in 1..Len(h) : g[i] = h[i]
  OBVIOUS
<1> HIDE DEF g
<1>2. Left(h, s) \subseteq 1..Len(h) /\ IsFiniteSet(1..Len(h))
  BY <1>1, FS_Interval DEF Left
<1>3. IsFiniteSet(Left(h, s))
  BY <1>2, FS_Subset
<1>4. Cardinality(Left(h, s)) \in Nat
  BY <1>3, FS_CardinalityType
<1>5. CASE e.from = s
  <2>1. Left(g, s) = Left(h, s) \cup {Len(h) + 1}
    BY <1>1, <1>5 DEF Left
  <2>2. Len(h) + 1 \notin Left(h, s)
    BY <1>1, <1>2
  <2> QED BY <1>3, <1>4, <1>5, <2>1, <2>2, FS_AddElement DEF g
<1>6. CASE e.from # s
  <2>1. Left(g, s) = Left(h, s)
    BY <1>1, <1>6 DEF Left
  <2> QED BY <1>4, <1>6, <2>1 DEF g
<1> QED BY <1>5, <1>6

\* A ticket has a pause under way while it is PAUSED, and only then.
Timed(rw, time) ==
    /\ rw.pausedAt # Null <=> rw.status = "PAUSED"
    /\ rw.pausedAt # Null => rw.pausedAt <= time

\* The row rw accounts for all but what n resumptions round down of its ticks of pause.
Accounted(rw, time, ticks, n) ==
    LET running == IF rw.pausedAt = Null THEN 0 ELSE time - rw.pausedAt
        lost    == ticks - (rw.accPause * TicksPerSecond + running)
    IN  0 <= lost /\ lost <= n * (TicksPerSecond - 1)

\* A resumption takes less than a second from what is accounted for.
LEMMA RoundedDown ==
    ASSUME NEW a \in Int, NEW x \in Nat, NEW ticks \in Nat, NEW n \in Nat,
           0 <= ticks - (a * TicksPerSecond + x),
           ticks - (a * TicksPerSecond + x) <= n * (TicksPerSecond - 1)
    PROVE  /\ 0 <= ticks - (a + x \div TicksPerSecond) * TicksPerSecond
           /\ ticks - (a + x \div TicksPerSecond) * TicksPerSecond <= (n + 1) * (TicksPerSecond - 1)
<1> DEFINE T == TicksPerSecond
           d == x \div T
<1>1. T \in Nat /\ T > 0
  BY NumberAssumption
<1>2. d \in Int /\ d * T <= x /\ x <= d * T + (T - 1)
  BY <1>1
<1> HIDE DEF d
<1>3. (a + d) * T = a * T + d * T
  BY <1>1, <1>2
<1>4. (n + 1) * (T - 1) = n * (T - 1) + (T - 1)
  BY <1>1
<1>5. a * T \in Int /\ d * T \in Int /\ n * (T - 1) \in Int
  BY <1>1, <1>2
<1> QED BY <1>1, <1>2, <1>3, <1>4, <1>5 DEF d

\* What a status change does to the pause, if the row it read is the row it writes.
LEMMA StatusPause ==
    ASSUME NEW rw \in Row, NEW in \in StatusInputs, in.status \in ValidTransitions[rw.status], now \in Nat,
           Timed(rw, now), NEW ticks \in Nat, NEW n \in Nat, Accounted(rw, now, ticks, n),
           NEW next, next = StatusRow(rw, rw, in)
    PROVE  /\ Timed(next, now)
           /\ Accounted(next, now, ticks, n + (IF rw.status = "PAUSED" THEN 1 ELSE 0))
<1>1. /\ next.status = in.status
      /\ next.pausedAt = IF Resumes(rw) THEN Null ELSE IF in.status = "PAUSED" THEN now ELSE rw.pausedAt
      /\ next.accPause = PauseAccumulated(rw, rw)
  BY DEF StatusRow, Row
<1>2. Resumes(rw) <=> rw.status = "PAUSED"
  BY DEF Resumes, Timed
<1>3. rw.pausedAt \in Nat \cup {Null} /\ rw.accPause \in Int /\ now # Null /\ rw.status \in Statuses
  BY NullAssumption DEF Row
<1>4. CASE rw.status = "PAUSED"
  <2>1. in.status # "PAUSED"
    BY <1>4 DEF ValidTransitions, Statuses
  <2>2. rw.pausedAt \in Nat /\ rw.pausedAt <= now /\ now - rw.pausedAt \in Nat
    BY <1>3, <1>4 DEF Timed
  <2>3. next.pausedAt = Null /\ next.accPause = rw.accPause + (now - rw.pausedAt) \div TicksPerSecond
    BY <1>1, <1>2, <1>4 DEF PauseAccumulated
  <2>4. /\ 0 <= ticks - next.accPause * TicksPerSecond
        /\ ticks - next.accPause * TicksPerSecond <= (n + 1) * (TicksPerSecond - 1)
    <3>1. /\ 0 <= ticks - (rw.accPause * TicksPerSecond + (now - rw.pausedAt))
          /\ ticks - (rw.accPause * TicksPerSecond + (now - rw.pausedAt)) <= n * (TicksPerSecond - 1)
      BY <1>4 DEF Accounted, Timed
    <3> QED BY <1>3, <2>2, <2>3, <3>1, RoundedDown
  <2>5. next.accPause * TicksPerSecond + 0 = next.accPause * TicksPerSecond
    <3>1. next.accPause \in Int
      BY <1>3, <2>2, <2>3, NumberAssumption
    <3> QED BY <3>1, NumberAssumption
  <2> QED BY <1>1, <1>4, <2>1, <2>3, <2>4, <2>5 DEF Timed, Accounted
<1>5. CASE rw.status # "PAUSED"
  <2>1. rw.pausedAt = Null /\ next.accPause = rw.accPause
    BY <1>1, <1>2, <1>5 DEF PauseAccumulated, Timed
  <2>2. next.pausedAt = IF in.status = "PAUSED" THEN now ELSE Null
    BY <1>1, <1>2, <1>5, <2>1
  <2>3. now - now = 0 /\ n + 0 = n
    BY Z3
  <2> QED BY <1>1, <1>3, <1>5, <2>1, <2>2, <2>3 DEF Timed, Accounted
<1> QED BY <1>4, <1>5

Paused == \A t \in Tickets : Timed(row[t], now) /\ Accounted(row[t], now, stopwatch[t], Resumptions(t))

LEMMA PausedInit == "PAUSED" \notin SeedStatuses /\ Init => Paused
<1> SUFFICES ASSUME "PAUSED" \notin SeedStatuses, Init, NEW t \in Tickets
             PROVE  Timed(row[t], now) /\ Accounted(row[t], now, stopwatch[t], Resumptions(t))
  BY DEF Paused
<1>1. PICK s \in SeedStatuses : row[t] = SeedRow(s)
  BY DEF Init
<1>2. row[t].status # "PAUSED" /\ row[t].pausedAt = Null /\ row[t].accPause = 0
  BY <1>1 DEF SeedRow
<1>3. history[t] = <<[from |-> Null, to |-> row[t].status]>> /\ stopwatch[t] = 0 /\ now = 0
  BY DEF Init
<1>4. Left(history[t], "PAUSED") = {}
  BY <1>3, NullAssumption DEF Left, Statuses
<1>5. Resumptions(t) = 0
  BY <1>4, FS_EmptySet DEF Resumptions
<1> QED BY <1>2, <1>3, <1>5, NumberAssumption DEF Timed, Accounted

\* A write that leaves status and pause alone, and a history row that leaves no status.
LEMMA PauseKept ==
    ASSUME TypeOK, Paused, NEW t \in Tickets, now' = now, stopwatch' = stopwatch,
           row'[t].status = row[t].status, row'[t].pausedAt = row[t].pausedAt,
           row'[t].accPause = row[t].accPause, Resumptions(t)' = Resumptions(t)
    PROVE  Timed(row'[t], now') /\ Accounted(row'[t], now', stopwatch'[t], Resumptions(t)')
BY DEF Paused, Timed, Accounted

\* While a pause runs, it and the row's account of it grow together.
LEMMA PauseGoesOn ==
    ASSUME NEW rw \in Row, rw.pausedAt \in Nat, rw.pausedAt # Null, NEW time \in Nat, NEW ticks \in Nat,
           NEW n, Accounted(rw, time, ticks, n)
    PROVE  Accounted(rw, time + 1, ticks + 1, n)
<1> DEFINE lost(w, m) == w - (rw.accPause * TicksPerSecond + (m - rw.pausedAt))
           most == n * (TicksPerSecond - 1)
<1>1. \A w, m : Accounted(rw, m, w, n) <=> 0 <= lost(w, m) /\ lost(w, m) <= most
  BY DEF Accounted
<1>2. ASSUME NEW a \in Int, NEW p \in Nat
      PROVE  ticks + 1 - (a + (time + 1 - p)) = ticks - (a + (time - p))
  OBVIOUS
<1>3. rw.accPause * TicksPerSecond \in Int
  BY NumberAssumption DEF Row
<1>4. lost(ticks + 1, time + 1) = lost(ticks, time)
  BY <1>2, <1>3
<1> HIDE DEF lost, most
<1> QED BY <1>1, <1>4

LEMMA PausedStep ==
    ASSUME HonestInv, Paused, [Next]_vars
    PROVE  Paused'
<1> SUFFICES ASSUME NEW t \in Tickets
             PROVE  Timed(row'[t], now') /\ Accounted(row'[t], now', stopwatch'[t], Resumptions(t)')
  BY DEF Paused
<1>1. /\ TypeOK /\ Shape /\ row \in [Tickets -> Row] /\ row[t] \in Row /\ history[t] \in Seq(Entry)
      /\ now \in Nat /\ stopwatch[t] \in Nat
  BY DEF HonestInv, TypeOK
<1>2. /\ Timed(row[t], now) /\ Accounted(row[t], now, stopwatch[t], Resumptions(t))
      /\ row[t].pausedAt \in Nat \cup {Null} /\ row[t].accPause \in Int /\ row[t].status \in Statuses
  BY <1>1 DEF Paused, Row
<1>3. Resumptions(t) \in Nat
  <2>1. [from |-> Null, to |-> Null] \in Entry
    BY DEF Entry
  <2> QED BY <1>1, <2>1, LeftAppended DEF Resumptions
<1>4. ASSUME Tick PROVE Timed(row'[t], now') /\ Accounted(row'[t], now', stopwatch'[t], Resumptions(t)')
  <2>1. /\ row' = row /\ Resumptions(t)' = Resumptions(t) /\ now' = now + 1
        /\ stopwatch'[t] = IF row[t].status = "PAUSED" THEN stopwatch[t] + 1 ELSE stopwatch[t]
    BY <1>4 DEF Tick, tables, Resumptions
  <2>2. row[t].accPause * TicksPerSecond \in Int /\ Resumptions(t) * (TicksPerSecond - 1) \in Int
    BY <1>2, <1>3, NumberAssumption
  <2>3. CASE row[t].status = "PAUSED"
    <3>1. row[t].pausedAt # Null /\ row[t].pausedAt \in Nat /\ row[t].pausedAt <= now
      BY <1>2, <2>3 DEF Timed
    <3>2. Timed(row[t], now + 1)
      BY <1>1, <1>2, <3>1 DEF Timed
    <3>3. Accounted(row[t], now + 1, stopwatch[t] + 1, Resumptions(t))
      BY <1>1, <1>2, <3>1, PauseGoesOn
    <3>4. stopwatch'[t] = stopwatch[t] + 1
      BY <2>1, <2>3
    <3> QED BY <2>1, <3>2, <3>3, <3>4
  <2>4. CASE row[t].status # "PAUSED"
    BY <1>1, <1>2, <2>1, <2>2, <2>4 DEF Timed, Accounted
  <2> QED BY <2>3, <2>4
<1>5. ASSUME NEW r \in Requests, CommitUpdate(r)
      PROVE  Timed(row'[t], now') /\ Accounted(row'[t], now', stopwatch'[t], Resumptions(t)')
  <2> DEFINE e == [from |-> Null, to |-> Null]
  <2>1. /\ row' = [row EXCEPT ![Target(r)] = UpdatedRow(row[Target(r)], args[r].input)]
        /\ history' = [history EXCEPT ![Target(r)] = Append(@, e)]
        /\ now' = now /\ stopwatch' = stopwatch
    BY <1>5 DEF CommitUpdate, Write, clock
  <2>2. /\ row'[t].status = row[t].status /\ row'[t].pausedAt = row[t].pausedAt
        /\ row'[t].accPause = row[t].accPause
    BY <1>1, <2>1 DEF UpdatedRow, Row
  <2>3. e \in Entry /\ e.from # "PAUSED"
    BY NullAssumption DEF Entry, Statuses
  <2>4. history'[t] = IF t = Target(r) THEN Append(history[t], e) ELSE history[t]
    BY <1>1, <2>1 DEF TypeOK
  <2>5. Resumptions(t)' = Resumptions(t)
    <3>1. Cardinality(Left(Append(history[t], e), "PAUSED")) = Resumptions(t)
      BY <1>1, <1>3, <2>3, LeftAppended DEF Resumptions
    <3> QED BY <2>4, <3>1 DEF Resumptions
  <2> QED BY <1>1, <2>1, <2>2, <2>5, PauseKept
<1>6. ASSUME NEW r \in Requests, CommitStatus(r)
      PROVE  Timed(row'[t], now') /\ Accounted(row'[t], now', stopwatch'[t], Resumptions(t)')
  <2>1. now' = now /\ stopwatch' = stopwatch
    BY <1>6 DEF CommitStatus, Write, clock
  <2>2. CASE t # Target(r)
    <3>1. row'[t] = row[t] /\ history'[t] = history[t]
      BY <1>1, <1>6, <2>2 DEF CommitStatus, Write, TypeOK
    <3> QED BY <1>1, <2>1, <3>1, PauseKept DEF Resumptions
  <2>3. CASE t = Target(r)
    <3> DEFINE next == StatusRow(row[t], row[t], args[r].input)
               e == [from |-> row[t].status, to |-> next.status]
    <3>1. seen[r] = row[t] /\ args[r].input \in StatusInputs
      BY <1>1, <1>6, <2>3, CommitIsCurrent DEF CommitStatus, Shape
    <3>2. args[r].input.status \in ValidTransitions[row[t].status]
      BY <1>6, <3>1 DEF CommitStatus, HonestInv, Informed, Acceptable
    <3>3. row'[t] = next /\ history'[t] = Append(history[t], e)
      BY <1>1, <1>6, <2>3, <3>1 DEF CommitStatus, Write, TypeOK
    <3>4. next \in Row
      BY <1>1, <3>1, StatusRowType
    <3> HIDE DEF next
    <3>5. e \in Entry
      BY <1>2, <3>4 DEF Entry, Row
    <3>6. Resumptions(t)' = Resumptions(t) + (IF row[t].status = "PAUSED" THEN 1 ELSE 0)
      BY <1>1, <3>3, <3>5, LeftAppended DEF Resumptions
    <3>7. /\ Timed(next, now)
          /\ Accounted(next, now, stopwatch[t], Resumptions(t) + (IF row[t].status = "PAUSED" THEN 1 ELSE 0))
      BY <1>1, <1>2, <1>3, <3>1, <3>2, StatusPause DEF next
    <3> QED BY <2>1, <3>3, <3>6, <3>7
  <2> QED BY <2>2, <2>3
<1>7. ASSUME NEW r \in Requests, DeleteRow(r)
      PROVE  Timed(row'[t], now') /\ Accounted(row'[t], now', stopwatch'[t], Resumptions(t)')
  <2>1. /\ row' = [row EXCEPT ![Target(r)] = DeletedRow(row[Target(r)])]
        /\ history' = history /\ now' = now /\ stopwatch' = stopwatch
    BY <1>7 DEF DeleteRow, clock
  <2>2. /\ row'[t].status = row[t].status /\ row'[t].pausedAt = row[t].pausedAt
        /\ row'[t].accPause = row[t].accPause
    BY <1>1, <2>1 DEF DeletedRow, Row
  <2> QED BY <1>1, <2>1, <2>2, PauseKept DEF Resumptions
<1>8. CASE UNCHANGED <<row, history, now, stopwatch>>
  BY <1>1, <1>8, PauseKept DEF Resumptions
<1>9. \/ Tick \/ UNCHANGED <<row, history, now, stopwatch>>
      \/ \E r \in Requests : CommitUpdate(r) \/ CommitStatus(r) \/ DeleteRow(r)
  BY DEF Next, Handle, Finished, vars, tables, clock, SubmitUpdate, SubmitStatus, SubmitDelete, Send, GetTicket,
         GetAnswer, FindMissing, FindForUpdate, FindForStatus, Conflict, DeleteMissing, AuditDelete,
         Invalidate, Fail
<1> QED BY <1>4, <1>5, <1>6, <1>7, <1>8, <1>9

\* The row accounts for all the time its ticket was PAUSED, less than a second short for
\* each resumption, although a resumption computes its share from a row read before.
\* Tickets that are PAUSED from the start, as some of the seed's, have no pause to end.
THEOREM PausesAreAccounted ==
    ASSUME Lookahead = 0, "PAUSED" \notin SeedStatuses
    PROVE  Spec => []PauseAccounting
<1>1. Init => Paused
  BY PausedInit
<1>2. HonestInv /\ Paused /\ [Next]_vars => Paused'
  BY PausedStep
<1>3. Paused => PauseAccounting
  BY DEF Paused, Accounted, PauseAccounting
<1> QED BY <1>1, <1>2, <1>3, HonestInvariant, PTL DEF Spec
=============================================================================
