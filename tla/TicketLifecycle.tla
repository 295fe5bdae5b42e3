---------------------------- MODULE TicketLifecycle ----------------------------
(***************************************************************************)
(* The ticket endpoints of apps/api/src/modules/tickets: GET, PATCH, PATCH  *)
(* status and DELETE on /tickets/:id, run by any number of API instances    *)
(* against one Postgres row per ticket.                                     *)
(*                                                                          *)
(* A handler is a sequence of awaits, and other handlers run between any    *)
(* two of them.  pc[r] is the await that request r stands before:           *)
(*   find        prisma.ticket.findFirst, read outside any transaction      *)
(*   tx          prisma.$transaction: guarded updateMany, history, audit,   *)
(*               outbox.  One step, because the row stays locked from the   *)
(*               updateMany to the commit and an abort undoes all of it     *)
(*   delete      the lone updateMany of softDeleteTicket                    *)
(*   audit       the audit row of softDeleteTicket, outside a transaction   *)
(*   invalidate  the cache calls before the answer (see SwrCache)           *)
(* A request is served once, so |Requests| bounds the versions.             *)
(***************************************************************************)
EXTENDS Integers, Sequences, FiniteSets, TicketStatus

CONSTANTS
    Tickets,        \* ticket ids
    Requests,       \* HTTP requests, each sent at most once
    SeedStatuses,   \* statuses of the tickets in the table at the start
    ClientOps,      \* the operations clients call, a subset of Ops
    UpdateInputs,   \* PATCH bodies clients send, a subset of UpdateInput
    StatusInputs,   \* PATCH status bodies clients send, a subset of StatusInput
    Lookahead,      \* how far beyond the stored version a client may name one:
                    \* 0 for clients that send a version they were given
    TicksPerSecond, \* resolution of the clock
    MaxTime,        \* bound on the clock
    Null            \* SQL NULL, and "no value yet"

Ops == {"get", "update", "status", "delete"}
UpdateInput == [schedule: {"keep", "set", "clear"},
                fill: SUBSET ReportFields, blank: SUBSET ReportFields]
StatusInput == [status: Statuses, reason: BOOLEAN, schedules: BOOLEAN,
                report: SUBSET ReportFields]
Stamps == {"resolvedAt", "closedAt", "cancelledReason"}

ASSUME SeedAssumption == SeedStatuses \subseteq Statuses
ASSUME InputAssumption ==
    /\ ClientOps \subseteq Ops
    /\ UpdateInputs \subseteq UpdateInput
    /\ StatusInputs \subseteq StatusInput
ASSUME NumberAssumption == Lookahead \in Nat /\ TicksPerSecond \in Nat \ {0} /\ MaxTime \in Nat

VARIABLES
    row,       \* [Tickets -> Row], the Ticket table
    history,   \* per ticket, the TicketHistory rows in commit order
    audit,     \* per ticket, the AuditLog rows in commit order
    outbox,    \* per ticket, how many OutboxEvent rows exist
    now,       \* wall clock, in ticks
    stopwatch, \* per ticket, the ticks its status was PAUSED (observer only)
    pc, args, seen, reply \* per request: see above, its input, the row its
                          \* handler last read, and its answer

tables == <<row, history, audit, outbox>>
clock  == <<now, stopwatch>>
vars   == <<row, history, audit, outbox, now, stopwatch, pc, args, seen, reply>>
-----------------------------------------------------------------------------
Row == [status: Statuses, version: Nat \ {0}, deleted: BOOLEAN,
        scheduled: BOOLEAN,          \* scheduledAt is set
        report: SUBSET ReportFields, \* the report fields that are not empty
        pausedAt: Nat \cup {Null}, accPause: Int, stamps: SUBSET Stamps]

ASSUME NullAssumption == Null \notin Row \cup Statuses \cup Nat

\* The seed's tickets: any status but CANCELLED, no pause running, no stamps.
SeedRow(s) == [status |-> s, version |-> 1, deleted |-> FALSE,
               scheduled |-> s = "SCHEDULED",
               report |-> IF s \in {"RESOLVED", "CLOSED"} THEN ReportFields ELSE {},
               pausedAt |-> Null, accPause |-> 0, stamps |-> {}]

Args == [op: Ops, ticket: Tickets, version: Nat, input: UpdateInputs \cup StatusInputs \cup {Null}]
Phases  == {"idle", "find", "tx", "delete", "audit", "invalidate", "done"}
Replies == {"none", "ok", "notModified", "badRequest", "notFound", "conflict", "failed"}

Init ==
    /\ row \in [Tickets -> {SeedRow(s) : s \in SeedStatuses}]
    /\ history = [t \in Tickets |-> <<[from |-> Null, to |-> row[t].status]>>]
    /\ audit = [t \in Tickets |-> <<>>]
    /\ outbox = [t \in Tickets |-> 0]
    /\ now = 0
    /\ stopwatch = [t \in Tickets |-> 0]
    /\ pc = [r \in Requests |-> "idle"]
    /\ args = [r \in Requests |-> Null]
    /\ seen = [r \in Requests |-> Null]
    /\ reply = [r \in Requests |-> "none"]
-----------------------------------------------------------------------------
\* The answer leaves the handler.
Answer(r, a) == /\ pc' = [pc EXCEPT ![r] = "done"]
                /\ reply' = [reply EXCEPT ![r] = a]

\* A client sends a request; phase is where its handler starts.
Send(r, a, phase) == /\ pc[r] = "idle" /\ a.op \in ClientOps
                     /\ pc' = [pc EXCEPT ![r] = phase]
                     /\ args' = [args EXCEPT ![r] = a]
                     /\ UNCHANGED <<tables, clock, seen, reply>>

\* The body's version is any the client was given, however old.
SubmitUpdate(r) ==
    \E t \in Tickets, in \in UpdateInputs : \E v \in 1 .. row[t].version + Lookahead :
        Send(r, [op |-> "update", ticket |-> t, version |-> v, input |-> in], "find")

SubmitStatus(r) ==
    \E t \in Tickets, in \in StatusInputs : \E v \in 1 .. row[t].version + Lookahead :
        Send(r, [op |-> "status", ticket |-> t, version |-> v, input |-> in], "find")

SubmitDelete(r) ==
    \E t \in Tickets :
        Send(r, [op |-> "delete", ticket |-> t, version |-> 0, input |-> Null], "delete")
-----------------------------------------------------------------------------
\* makeEtag hashes updatedAt and version; within one ticket the UPDATE that
\* moves one moves the other, so the version stands for the pair.
EtagOfStatus(rw) == rw.status  \* mutated form: the version left out of the hash
Etag(rw) == rw.version

\* The copies of t that clients hold, from answers that carried an etag.
Held(t) == {seen[q] : q \in {p \in Requests : /\ reply[p] = "ok"
                                             /\ args[p].ticket = t
                                             /\ args[p].op # "delete"}}

\* GET /tickets/:id, with If-None-Match when the client holds a copy: one read.
GetAnswer(r, t, copy) ==
    /\ pc[r] = "idle" /\ "get" \in ClientOps
    /\ args' = [args EXCEPT ![r] = [op |-> "get", ticket |-> t, input |-> Null,
                                    version |-> IF copy = Null THEN 0 ELSE copy.version]]
    /\ \/ /\ row[t].deleted
          /\ Answer(r, "notFound")
          /\ UNCHANGED seen
       \/ /\ ~row[t].deleted
          /\ copy # Null /\ Etag(copy) = Etag(row[t])
          /\ seen' = [seen EXCEPT ![r] = copy]  \* the client keeps its copy
          /\ Answer(r, "notModified")
       \/ /\ ~row[t].deleted
          /\ copy # Null => Etag(copy) # Etag(row[t])
          /\ seen' = [seen EXCEPT ![r] = row[t]]
          /\ Answer(r, "ok")
    /\ UNCHANGED <<tables, clock>>

GetTicket(r) == \E t \in Tickets : \E copy \in Held(t) \cup {Null} : GetAnswer(r, t, copy)
-----------------------------------------------------------------------------
Target(r) == args[r].ticket

\* findFirst where deletedAt is null finds nothing.
FindMissing(r) ==
    /\ pc[r] = "find" /\ row[Target(r)].deleted
    /\ Answer(r, "notFound")
    /\ UNCHANGED <<tables, clock, args, seen>>

FindForUpdate(r) ==
    /\ pc[r] = "find" /\ args[r].op = "update" /\ ~row[Target(r)].deleted
    /\ seen' = [seen EXCEPT ![r] = row[Target(r)]]
    /\ pc' = [pc EXCEPT ![r] = "tx"]
    /\ UNCHANGED <<tables, clock, args, reply>>

\* The checks changeTicketStatus makes on the row it read, before its transaction.
AcceptableAnywhere(current, in) ==  \* mutated form: the transition table not consulted
    /\ in.status = "CANCELLED" => in.reason
    /\ in.status = "SCHEDULED" => in.schedules \/ current.scheduled
    /\ in.status = "RESOLVED" => in.report = ReportFields
AcceptableUnscheduled(current, in) ==  \* mutated form: scheduledAt not required
    /\ in.status \in ValidTransitions[current.status]
    /\ in.status = "CANCELLED" => in.reason
    /\ in.status = "RESOLVED" => in.report = ReportFields
Acceptable(current, in) ==
    /\ in.status \in ValidTransitions[current.status]
    /\ in.status = "CANCELLED" => in.reason
    /\ in.status = "SCHEDULED" => in.schedules \/ current.scheduled
    /\ in.status = "RESOLVED" => in.report = ReportFields

FindForStatus(r) ==
    /\ pc[r] = "find" /\ args[r].op = "status" /\ ~row[Target(r)].deleted
    /\ seen' = [seen EXCEPT ![r] = row[Target(r)]]
    /\ \/ /\ Acceptable(row[Target(r)], args[r].input)
          /\ pc' = [pc EXCEPT ![r] = "tx"]
          /\ UNCHANGED reply
       \/ /\ ~Acceptable(row[Target(r)], args[r].input)
          /\ Answer(r, "badRequest")
    /\ UNCHANGED <<tables, clock, args>>
-----------------------------------------------------------------------------
\* updateTicket's data, applied to the row.
UpdatedRowSameVersion(rw, in) ==  \* mutated form: version not incremented
    [rw EXCEPT !.scheduled = in.schedule = "set" \/ (in.schedule = "keep" /\ @),
               !.report = (@ \cup in.fill) \ in.blank]
UpdatedRow(rw, in) ==
    [rw EXCEPT !.version = @ + 1,
               !.scheduled = in.schedule = "set" \/ (in.schedule = "keep" /\ @),
               !.report = (@ \cup in.fill) \ in.blank]

Resumes(current) == current.status = "PAUSED" /\ current.pausedAt # Null

\* mutated form: resuming forgets the seconds that earlier pauses accumulated
PauseOverwritten(rw, current) ==
    IF Resumes(current) THEN (now - current.pausedAt) \div TicksPerSecond ELSE rw.accPause
PauseAccumulated(rw, current) ==
    IF Resumes(current) THEN rw.accPause + (now - current.pausedAt) \div TicksPerSecond
    ELSE rw.accPause

\* changeTicketStatus's data, applied to the row; the pause is computed from
\* the row the handler read before the transaction.
StatusRow(rw, current, in) ==
    [rw EXCEPT !.version = @ + 1,
               !.status = in.status,
               !.scheduled = @ \/ in.schedules,
               !.pausedAt = IF Resumes(current) THEN Null
                            ELSE IF in.status = "PAUSED" THEN now ELSE @,
               !.accPause = PauseAccumulated(rw, current),
               !.report = IF in.status = "RESOLVED" THEN in.report ELSE @,
               !.stamps = @ \cup {st \in Stamps :
                   \/ st = "resolvedAt" /\ in.status = "RESOLVED"
                   \/ st = "closedAt" /\ in.status = "CLOSED"
                   \/ st = "cancelledReason" /\ in.status = "CANCELLED"}]

\* The where clause of the guarded updateMany matches its one row.
MatchesAnyVersion(t, v) == ~row[t].deleted  \* mutated form: version not in the where
MatchesNewer(t, v) == ~row[t].deleted /\ row[t].version >= v  \* mutated form: >= for =
Matches(t, v) == ~row[t].deleted /\ row[t].version = v

\* The transaction commits next as t's new row, with its history and audit rows.
\* The audit's before image is the row read before the transaction.
Write(r, next, entry, action) ==
    /\ row' = [row EXCEPT ![Target(r)] = next]
    /\ history' = [history EXCEPT ![Target(r)] = Append(@, entry)]
    /\ audit' = [audit EXCEPT ![Target(r)] =
                    Append(@, [action |-> action, before |-> seen[r], after |-> next])]
    /\ seen' = [seen EXCEPT ![r] = next]
    /\ pc' = [pc EXCEPT ![r] = "invalidate"]
    /\ UNCHANGED <<clock, args, reply>>

CommitUpdate(r) ==
    /\ pc[r] = "tx" /\ args[r].op = "update" /\ Matches(Target(r), args[r].version)
    /\ Write(r, UpdatedRow(row[Target(r)], args[r].input), [from |-> Null, to |-> Null], "update")
    /\ outbox' = [outbox EXCEPT ![Target(r)] = @ + 1]

CommitStatus(r) ==
    /\ pc[r] = "tx" /\ args[r].op = "status" /\ Matches(Target(r), args[r].version)
    /\ LET next == StatusRow(row[Target(r)], seen[r], args[r].input)
       IN  Write(r, next, [from |-> seen[r].status, to |-> next.status], "status_change")
    /\ UNCHANGED outbox

\* updateMany matched no row: the transaction throws and rolls back.
Conflict(r) ==
    /\ pc[r] = "tx" /\ ~Matches(Target(r), args[r].version)
    /\ Answer(r, "conflict")
    /\ UNCHANGED <<tables, clock, args, seen>>
-----------------------------------------------------------------------------
DeletedRowSameVersion(rw) == [rw EXCEPT !.deleted = TRUE]  \* mutated form: version not incremented
DeletedRow(rw) == [rw EXCEPT !.deleted = TRUE, !.version = @ + 1]

DeleteRow(r) ==
    /\ pc[r] = "delete" /\ ~row[Target(r)].deleted
    /\ row' = [row EXCEPT ![Target(r)] = DeletedRow(row[Target(r)])]
    /\ pc' = [pc EXCEPT ![r] = "audit"]
    /\ UNCHANGED <<history, audit, outbox, clock, args, seen, reply>>

DeleteMissing(r) ==
    /\ pc[r] = "delete" /\ row[Target(r)].deleted
    /\ Answer(r, "notFound")
    /\ UNCHANGED <<tables, clock, args, seen>>

AuditDelete(r) ==
    /\ pc[r] = "audit"
    /\ audit' = [audit EXCEPT ![Target(r)] =
                    Append(@, [action |-> "soft_delete", before |-> Null, after |-> Null])]
    /\ pc' = [pc EXCEPT ![r] = "invalidate"]
    /\ UNCHANGED <<row, history, outbox, clock, args, seen, reply>>

\* delPattern and del on the cache, then the answer.
Invalidate(r) ==
    /\ pc[r] = "invalidate"
    /\ Answer(r, "ok")
    /\ UNCHANGED <<tables, clock, args, seen>>

\* The awaited call fails or the instance stops: what was committed stays, a
\* transaction under way is undone, and the client has an error or nothing.
Fail(r) ==
    /\ pc[r] \notin {"idle", "done"}
    /\ Answer(r, "failed")
    /\ UNCHANGED <<tables, clock, args, seen>>

Tick ==
    /\ now < MaxTime
    /\ now' = now + 1
    /\ stopwatch' = [t \in Tickets |-> IF row[t].status = "PAUSED" THEN stopwatch[t] + 1
                                       ELSE stopwatch[t]]
    /\ UNCHANGED <<tables, pc, args, seen, reply>>

\* Every request has been served and the clock has run out.
Finished ==
    /\ now = MaxTime
    /\ \A r \in Requests : pc[r] = "done"
    /\ UNCHANGED vars

Handle(r) ==
    \/ SubmitUpdate(r) \/ SubmitStatus(r) \/ SubmitDelete(r) \/ GetTicket(r)
    \/ FindMissing(r) \/ FindForUpdate(r) \/ FindForStatus(r)
    \/ CommitUpdate(r) \/ CommitStatus(r) \/ Conflict(r)
    \/ DeleteRow(r) \/ DeleteMissing(r) \/ AuditDelete(r)
    \/ Invalidate(r) \/ Fail(r)

Next == Tick \/ Finished \/ \E r \in Requests : Handle(r)

Spec == Init /\ [][Next]_vars
-----------------------------------------------------------------------------
Entry == [from: Statuses \cup {Null}, to: Statuses \cup {Null}]
Trace == [action: {"update", "status_change", "soft_delete"},
          before: Row \cup {Null}, after: Row \cup {Null}]

\* Every variable keeps the shape the tables and the handlers give it.
TypeOK ==
    /\ row \in [Tickets -> Row]
    /\ history \in [Tickets -> Seq(Entry)]
    /\ audit \in [Tickets -> Seq(Trace)]
    /\ outbox \in [Tickets -> Nat]
    /\ now \in 0 .. MaxTime
    /\ stopwatch \in [Tickets -> Nat]
    /\ pc \in [Requests -> Phases]
    /\ args \in [Requests -> Args \cup {Null}]
    /\ seen \in [Requests -> Row \cup {Null}]
    /\ reply \in [Requests -> Replies]

\* A row a handler or a client holds is never from the future, and one that
\* carries the stored version is the stored row: the version (and with it the
\* ETag and the guard of updateMany) identifies the contents of a ticket.
SnapshotCoherent ==
    \A r \in Requests : seen[r] # Null =>
        /\ seen[r].version <= row[Target(r)].version
        /\ seen[r].version = row[Target(r)].version => seen[r] = row[Target(r)]

\* GET answers 304 only to a client whose copy is the row as it is stored now.
NotModifiedIsCurrent ==
    [][\A r \in Requests : reply[r] = "none" /\ reply'[r] = "notModified" =>
          ~row[Target(r)'].deleted /\ seen'[r] = row[Target(r)']]_vars

\* The history rows h with a status, read in order, lead to status s: each leaves
\* the status the one before it entered, and the last one entered s.
LeadsTo(h, s) ==
    /\ Len(h) > 0 /\ h[1].to # Null
    /\ \A i \in 1..Len(h) : h[i].to # Null =>
          /\ \A j \in (i + 1)..Len(h) :
                h[j].to # Null /\ (\A k \in (i + 1)..(j - 1) : h[k].to = Null) => h[j].from = h[i].to
          /\ (\A k \in (i + 1)..Len(h) : h[k].to = Null) => h[i].to = s

\* The TicketHistory leads to the ticket's status, although fromStatus was read
\* before the transaction that writes it.
StatusHistory == \A t \in Tickets : LeadsTo(history[t], row[t].status)

\* The audit rows in log replay rw: the before image of each write is the after
\* image of the write before it, and the last after image is rw as it was before
\* its deletion, of which there is no entry or one, at the end.
Gone(rw) == IF rw.deleted THEN 1 ELSE 0
Writes(rw) == rw.version - 1 - Gone(rw)
Replays(log, rw) ==
    /\ Writes(rw) >= 0
    /\ \/ Len(log) = Writes(rw)
       \/ rw.deleted /\ Len(log) = Writes(rw) + 1 /\ log[Writes(rw) + 1].action = "soft_delete"
    /\ \A i \in 1..Writes(rw) : log[i].action # "soft_delete"
    /\ \A i \in 2..Writes(rw) : log[i].before = log[i - 1].after
    /\ Writes(rw) > 0 => log[Writes(rw)].after = [rw EXCEPT !.deleted = FALSE, !.version = @ - Gone(rw)]

\* The AuditLog replays the ticket, although before images are read before the
\* transaction and the entry of a deletion is written in none.
AuditTrail == \A t \in Tickets : Replays(audit[t], row[t])

\* r's write to its ticket was committed and r has not failed.
Wrote(r) == /\ pc[r] = "invalidate" \/ reply[r] = "ok"
            /\ args[r].op \in {"update", "status"}

\* Two writes are never accepted on the strength of the same version: neither
\* silently overwrites what the other one's author had not seen.
NoLostUpdate ==
    \A r, q \in Requests :
        Wrote(r) /\ Wrote(q) /\ Target(r) = Target(q) /\ args[r].version = args[q].version => r = q

\* The row a write answers with, and whose ETag the client keeps, is the row that
\* write made: exactly one version after the one the client named.
AnswerIsOwnWrite == \A r \in Requests : Wrote(r) => seen[r].version = args[r].version + 1

\* 409 is answered only to a request whose version is out of date.
ConflictIsReal ==
    [][\A r \in Requests : reply[r] = "none" /\ reply'[r] = "conflict" =>
          row[Target(r)].version > args[r].version]_vars

\* A ticket is never SCHEDULED, RESOLVED or CANCELLED by a write that leaves it
\* without a date, a full report or a reason: the checks ran on a row read before
\* the transaction, and the write lands on the row as it is by then.
EntryRequirements ==
    [][\A t \in Tickets : row'[t].status # row[t].status =>
          /\ row'[t].status = "SCHEDULED" => row'[t].scheduled
          /\ row'[t].status = "RESOLVED" => row'[t].report = ReportFields
          /\ row'[t].status = "CANCELLED" => "cancelledReason" \in row'[t].stamps]_vars

\* The history rows that leave s, and how often t left PAUSED.
Left(h, s) == {i \in DOMAIN h : h[i].from = s}
Resumptions(t) == Cardinality(Left(history[t], "PAUSED"))

\* The pause the row accounts for, accumulated seconds plus the pause under way,
\* is the time the ticket was PAUSED, but for what each resumption rounds down.
PauseAccounting ==
    \A t \in Tickets :
        LET running == IF row[t].pausedAt = Null THEN 0 ELSE now - row[t].pausedAt
            lost    == stopwatch[t] - (row[t].accPause * TicksPerSecond + running)
        IN  0 <= lost /\ lost <= Resumptions(t) * (TicksPerSecond - 1)

Contract == INSTANCE TicketContract WITH
                status  <- [t \in Tickets |-> row[t].status],
                version <- [t \in Tickets |-> row[t].version],
                deleted <- [t \in Tickets |-> row[t].deleted]

\* The handlers implement the contract: a ticket moves only along the transition
\* table, one version per write, and not at all once it is deleted.
ImplementsContract == Contract!Spec
=============================================================================
