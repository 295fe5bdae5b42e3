# A verification project for cowork-service-desk

The service desk keeps tickets of a coworking space: a Fastify API (any number of
instances) over PostgreSQL and Redis, a BullMQ worker, a React client. This directory
holds TLA+ models of its core, the TLC runs that check them on small instances, and
TLAPS proofs about them for every instance. `PROJECT.json` maps each definition to the
lines it models, and lists runs, mutants, findings, hazards and theorems.

Paths below are relative to the repository.

## 1. Inventory

| Component | State | Operations | What is hard | What makes it correct |
|---|---|---|---|---|
| Ticket lifecycle, `apps/api/src/modules/tickets` | `Ticket`, `TicketHistory`, `AuditLog`, `OutboxEvent` rows | GET (ETag), PATCH, PATCH status, DELETE | the row is read before the transaction that writes it; deletion is two statements | no lost update; moves along the table; history and audit replay the ticket; sound ETags |
| Ticket creation, same service | ticket rows, `IdempotencyKey` | POST with a key | lookup, transaction and recording of the key are three steps; clients stop waiting while the handler goes on | attempts that succeed agree; no silent duplicate |
| Sessions, `modules/auth`, `middleware/auth.ts` | `Session` rows | login with eviction, refresh, logout, remote logout, logout of the others | READ COMMITTED hides concurrent inserts; refresh reads outside its transaction | the oldest are evicted; one live session per login |
| List cache, `services/cache.ts`, `services/locks.ts` | one Redis key per page, a lock per key | `swr`, background recomputation, `delPattern` | a read overlaps an invalidation; the lock lapses; Redis commands fail and are logged only | what is cached does not go back; the lock is its owner's; staleness ends |
| SLA calculator, `modules/sla/calculator.ts` | the cursor and count of each loop | `addBusinessHours`, `effectiveBusinessSeconds`, `slaStatus`, called by its tests only | loops over minutes of a calendar, from dates between minutes; midnight's two names; pause outside business hours | deadlines in opening times; the two functions agree; termination |
| Worker queues, `apps/worker/src` | BullMQ jobs, worker locks, `DeadLetterJob` | schedule, process, retry (5 attempts), fail, dead-letter | the dead-letter row is written by an event handler nobody awaits; a job whose lock is taken counts as done; stalls after a stop | dead letters are final and missing ones explained; scans are single runs and go on |
| Worker jobs | keys, sessions | hourly clean-up; the others only read and log | runs beside the API | covered with what they clean |
| Websocket, `websocket/socket.ts` | `activeUsers` and a gauge, per process | handshake, connect (replaces the previous socket), disconnect, join | late handshakes; either end notices a loss first; several instances and restarts | registry and gauge agree with the sockets; no endless replacing |
| Chat, `modules/chat` | `Message` with `readBy` | post, mark as read | two tabs mark at once; answers that come too late | a user is in `readBy` once; answers are true |
| Attachments, `modules/uploads`, `services/storage.ts` | `Attachment`, the files | upload, remove | store then insert; keys that coincide; a file cut by the multipart plugin | rows have their files; orphans are explained |
| Administration, `modules/admin` | users, companies, categories, suppliers, rooms | create, patch, `toggle`, paged list | read then write; count then page; rows of one `createdAt` | toggles add up; patches stand; a walk is the table |
| Dashboard, notifications, reports | none of their own | one query each | the dashboard is cached for 10 s + 30 s and never invalidated | eventual by its own words |
| HTTP shell, configuration | none | boot, multipart limit, rate limit, health; a time-out and correlation ids that reach no route | boot without Redis | covered where it bites |
| Web client | access token, socket, query cache | login, logout, 401, requests with a time-out of 30 s, socket reconnect | a request given up goes on at the server; every 401 logs out, nothing refreshes; the socket outlives or misses the token | who logs out ends without a socket |

Interactions. Handlers share PostgreSQL rows and never each other's memory. A ticket write
invalidates the list keys after its commit (`delPattern`), whatever Redis answers. The
worker deletes idempotency keys and revokes expired sessions under the handlers' feet.
Every authenticated handler reads its session first, and so does the handshake of a socket.
A client that stops waiting does not stop the handler. The registry of sockets is the one state an
instance keeps in memory for itself. `OutboxEvent` rows are written and read by nobody; `emitRealtime` has no caller. The SLA
calculator has none outside its tests either: no route and no job computes a deadline with it.

## 2. Modules

| Module | Stands for | Composition |
|---|---|---|
| `TicketStatus` | the statuses and the transition table | extended by the next two |
| `TicketContract` | the abstract promise: one version per write, moves along the table, nothing after deletion | implemented by `TicketLifecycle` |
| `TicketLifecycle` | the ticket endpoints | `Contract == INSTANCE TicketContract WITH ...` |
| `TicketLifecycleProofs` | theorems about it, its history and its audit log | extends it and TLAPS |
| `TicketCreation` | POST /tickets, clients that stop waiting, the clean-up of keys | |
| `TicketCreationProofs` | theorems about it | extends it and TLAPS |
| `TicketThread` | the messages, read marks and attachments of a ticket, the storage providers, clients that stop waiting | |
| `TicketThreadProofs` | theorems about it | extends it and TLAPS |
| `SlaCalculator` | the deadline of a ticket and the business time it used | |
| `Sessions` | the sessions of one user | |
| `SessionsProofs` | theorems about it | extends it and TLAPS |
| `Realtime` | the sockets of one user: the tabs of the client and the registries of the instances | |
| `RealtimeProofs` | theorems about it | extends it and TLAPS |
| `SwrCache` | one key of the list cache, its lock, its writers | stands for the `invalidate` phase of the two ticket modules |
| `SwrCacheProofs` | theorems about it | extends it and TLAPS |
| `JobContract` | the abstract promise: a job ends once, a dead letter falls due with its failure | implemented by `WorkerQueue` |
| `WorkerQueue` | the scan queue, its workers, lock and dead letters | `Contract == INSTANCE JobContract WITH ...` |
| `WorkerQueueProofs` | theorems about it | extends it and TLAPS |
| `MasterData` | an administration table, its writers and a client that walks its pages | |
| `AdministrationProofs` | theorems about `MasterData` and `SlaCalculator` | extends both and TLAPS; their variables are disjoint, so each theorem is about one of them |
| `MC...` | finite values and symmetry for TLC | extend one module each |

### Correspondence

A handler is a process whose `pc` is the await it stands before; all other processes run
between two awaits. A Prisma call is one step. A transaction whose first statement locks the
one row it writes is one step as well, because nobody sees its middle and an abort undoes it;
login's transaction is three steps, because it reads what other transactions may commit
meanwhile. `Fail` at any await is a rejected call or an instance that stops: what was
committed stays.

* `TicketLifecycle`. `row` is the `Ticket` table with what the checks and the properties tell
  apart: status, version, deletion, whether a date is set, which of the four report fields are
  filled, the pause and the stamps. `FindForUpdate`, `FindForStatus` and `FindMissing` are
  `findFirst`; `CommitUpdate`, `CommitStatus` and `Conflict` the transactions with the
  guarded `updateMany` (`Matches`); `DeleteRow` and `AuditDelete` the two statements of
  `softDeleteTicket`; `GetTicket` the read with `If-None-Match`. An ETag is the version:
  within one ticket, `updatedAt` and `version` move together.
* `TicketCreation`. `Replay` and `Miss` are the lookup, `CreateTicket` the transaction,
  `Record` and `RecordClash` the insert into the unique index, `Invalidate` the end;
  `ClientTimeout` is the end of the client's 30 s (`apps/web/src/lib/api.ts:4`), which leaves the
  handler running; `Reply` reaches a client that still waits. A client waits for an answer, or for
  its time-out, before it uses the key again, and uses it for one body.
* `Sessions`. `Login`, `ListSessions` and `LoginCommit` are login's transaction, `visible`
  marks what has committed; `FindSession` and `Rotate` are refresh; `Authenticate` is the
  preHandler of the revoking routes. `born` stands for `createdAt`, strictly increasing.
  `patient`, chosen at the start, says whether clients wait for each answer.
* `SwrCache`. A value of the list is the number of the database state it was read from. A
  reader has a call and at most one background recomputation; `Acquire` and `Release` are the
  Redis lock, `Lapse` its 5 s, `Age` the passing of `expiresAt` and `staleUntil`. `prompt`,
  chosen at the start, says whether producers return before the lock lapses. `Cached` is false for a
  writer whose instance found no Redis at its boot: it goes on without a cache and invalidates nothing.
* `WorkerQueue`. One process per worker, as the queue has concurrency 1. `Take` to `Complete` or
  `Reject` is the life of a job in its worker, `Acquire` and `Release` are `withLock`; `OnFailed`
  is the listener on `failed`, whose row is still being written (`burying`) while the worker goes on.
  `Stop` is a kill, a signal or the unhandled rejection of that write; the process comes back idle.
  `lost` only observes: the jobs whose write a stop interrupted.
  `Stall`, `GiveUp`, `Retry` and `Forget` are BullMQ's. `prompt`, chosen at the start, says whether
  scans return within the 90 s of the lock. To `JobContract` a job is none, open, completed or failed,
  and its letter none, due (`burying`) or written.
* `TicketThread`. An upload is received (`Received` is the cut of the multipart plugin), checked
  (`Acceptable`, `validateUpload`), stored and recorded; the local provider stores in two steps,
  `Open` (`wx` rejects a key that is there) and `WriteFile`, S3 in one, which may store and still be
  rejected. A key is the millisecond and the file. `MarkRead` is one UPDATE that found its rows
  as of its start. `ClientTimeout` is as in `TicketCreation`. Provider and `UPLOAD_MAX_SIZE_MB`
  are chosen at the start.
* `SlaCalculator`. One iteration of a loop per step. Time is in ticks finer than a minute; minutes,
  hours, days and weeks nest as they do but are shorter. `Hour` has midnight as 0 or as the last hour,
  as the ICU of the build has it. The reference is `OpenTicks`, the opening times day by day.
* `Realtime`. A tab has a token, a socket.io client (`client`) and the connection it dialled (`cur`);
  `conn` is a connection as the server sees it: `Verify` is the handshake's middleware, `Admit` the
  connection handler, `Disconnected` the disconnect handler. `cut` and `lost` are connections whose
  end one side has not noticed. socket.io's client reconnects after a loss and not after a refusal or
  a disconnect by the server, and the program does not either (`Goodbye`).
* `MasterData`. `SendToggle` reads and `Flip` writes; `Patch` is one UPDATE; `Create` sets id and date,
  `Insert` commits. A page is `Count`, then `FindMany`; `walk` is a client that asks for page after
  page up to `totalPages`. `raced`, `walk.quiet` and `walk.torn` only observe.

## 3. Runs

| Run | Instance | Shows |
|---|---|---|
| `Lifecycle` | 1 ticket in TRIAGE, IN_PROGRESS or RESOLVED; 3 requests of any operation; clients name versions they were given, however old (`Lookahead = 0`) | `SnapshotCoherent`, `NoLostUpdate`, `NotModifiedIsCurrent`, `ConflictIsReal`, `EntryRequirements`, `StatusHistory`, `AuditTrail`, `ImplementsContract` |
| `LifecyclePause` | 4 status changes, clock of 4 half seconds | `PauseAccounting` |
| `Creation` | 4 attempts, 1 key, TTL 1, clock of 4 | `AnswersAgree`, `NoSilentDuplicate` |
| `Sessions` | 4 requests, limit 2, patient or not | `EvictsOldest`, `OneSessionPerLine` |
| `SessionsRevival` | 3 requests | `RevokedHasNoHeir` fails |
| `SwrCache` | 2 readers, 2 writers, 2 writes, commands to Redis that fail, instances without Redis | `SetsAreOrdered`, `LockIsOwned`, `Converges` |
| `WorkerQueue` | 2 jobs at a time, 2 workers, 3 attempts, 3 stops, prompt or not | `DeadLetterIsFinal`, `FailuresAccountedFor`, `SingleRun`, `ScansGoOn`, `ImplementsContract` |
| `WorkerBurial` | as `WorkerQueue`, 1 stop | `ExhaustedIsBuried` fails |
| `SlaCalculator` | 36 calendars over a week of 3 days (one free) of 3 hours of 2 minutes of 2 ticks, local time 4 ticks ahead; 9 creations, 2 totals, 9 delays, 4 pauses; horizon of 160 ticks | `SlaTypeOK`, `DeadlineInOpenTime`, `DeadlineAgrees`, `PauseNeverCharged`, `Ends` |
| `TicketThread` | 3 requests, 2 users, 3 files, multipart limit 2, maximum 1 or 2, clock of 1, both providers | `RowsBacked`, `FilesAccountedFor`, `WholeBelowLimit`, `AnswerIsTrue`, `ReceiptsOnce` |
| `Realtime` | 2 tabs, 2 instances, 4 sockets at a time, 3 events | `RegistryAgrees`, `LogoutCloses`, `Settles` |
| `MasterData` | 4 ids, 2 of them seeded with one date; 3 requests, pages of 1 or 2, clock of 1 | `TypeOK`, `TogglesAddUp`, `PatchesStand`, `QuietWalkIsTheTable`, `MissedOnlyByTornPage` |

Bounds and why they are enough. Tickets do not interact, so one is checked; the proofs cover
any number. Three requests are a reader or writer overlapped by two others, which is what a
stale read between two writes needs; a fourth adds versions, not new overlaps. The bodies
(`MCUpdates`, `MCMoves`) are those that decide a check one way or the other. Four attempts
under a key are the least for an overlap, a late finisher and a replay after expiry. Four
requests with a limit of two make an eviction by two logins at once, and a line of rotations
with a revocation. Two readers with their recomputations are four contenders for one lock. Three
attempts are a first, a middle and a last one (the code makes five); three stops fail a job by stalls
and lose a dead letter in one behaviour.

The calendars open at midnight, before the end of the day, all day, for one hour or never, with a
holiday on no, a working or the next week's day; creations fall on minutes and between them, at night,
on the weekend; the horizon is four weeks and more, and a deadline with business minutes is always
within it. Three files are one that fits, one the plugin cuts and one that is refused; two equal
uploads in one millisecond share a key. Two tabs on one instance replace each other, on two they do
not; four sockets are two that live and two a tab left behind, and three events are two logins and
an accident, or a login and two accidents. Four ids with pages of one or two make walks of several
pages, and rows that come in front of and behind the page.

Requests and attempts are symmetric, in `WorkerBurial` jobs and workers too; the runs with liveness
use no symmetry. Most runs stop in `Finished` only, when every request is served and nothing is
left to expire. `SlaCalculator` and `Realtime` do not check for deadlock: a function returns, and
tabs that have settled have nothing to do once the events are spent.

All type invariants are proved. Those of `SlaCalculator` and `MasterData` are run as well, since a
plausible mistake of the code (`Math.max` left out, a column without its default) breaks them.

Each property of a passing run has a mutant: a mutated form of one definition, kept in the
module next to it and marked as such (a version left out of the where clause, a lock taken
without NX, a slice from the wrong end), under which the property fails.

### Findings

* **A successor of a revoked session** (`SessionsRevival`). refresh does not repeat its check in
  its transaction; two refreshes or a logout in between show it.
* **A dead letter that is never written** (`WorkerBurial`). The listener on `failed` is async; nobody
  awaits or catches it. Shutdown does not wait for it, and a rejected create ends the process.
  `FailuresAccountedFor` says that besides these jobs, whose very write a stop interrupted (`lost`),
  only those that stalled too often with attempts left go without.

Other behaviour the models show, which no text of the repository denies or which a property above
bounds, and which has no run of its own:

* `changeTicketStatus` checks the transition on the row it read and guards the write with the
  version of the body. If a client pipelines two requests and the second names the version the
  first will make, the check sees the old row and the write lands on the new one. With versions
  clients were given this cannot happen (`LifecycleImplementsContract`).
* PATCH clears the date or empties the report of a ticket whose status required them.
* An idempotency key is recorded after its ticket was committed: a failure, or a client that gives up,
  in between makes a duplicate of the retry (`NoSilentDuplicate` says that it is never silent).
* Two logins at once do not see each other's row and may leave more than `MAX_SESSIONS`.
* A list produced before a write may be set after that write's invalidation and is then served
  until it expires: `Converges` bounds it.
* A deletion that fails between its two statements has no audit entry.
* A pause is wall-clock time taken from business time: one over a night excuses time that was
  worked. `PauseNeverCharged` is the direction that does hold.
* With both limits at 10 MB, as they are by default, a file the multipart plugin cut is recorded;
  `WholeBelowLimit` is about lower values of `UPLOAD_MAX_SIZE_MB`.
* `timeoutPlugin` and `correlationPlugin` are registered as plugins of their own (`apps/api/src/app.ts:31`,
  `:32`) and nothing lifts their `onRequest` hooks out of Fastify's encapsulation, so these apply to no
  route: the server never answers 503 for time, and `request.correlationId` is undefined in every
  handler. This is read from the code; the models simply have no time-out at the server.
* A tab whose socket the server replaced does not come back until it is loaded again.

### Fairness

`SwrCache`, `WorkerQueue`, `SlaCalculator` and `Realtime` state liveness.

* `SwrCache`: weak fairness of `Serve(p)` says that Redis, the database and timers settle every
  await in the end (each has a time-out, and a rejection is an outcome of the step); weak fairness
  of `Age` says that time passes. Nothing is assumed of clients or of writers, of invalidations or
  of lapses: `Converges` has to do without them.
* `WorkerQueue`: weak fairness says the same of the workers' steps, of the scheduler and BullMQ's
  timers (`Turn`), of the handlers' writes and of the lock's lapse; strong fairness of `Scan` says
  that a database asked again and again does not reject for ever, without which no scan need ever
  succeed. `ScansGoOn` then depends on locks that lapse and jobs that stall.
* `SlaCalculator`: weak fairness of `SlaNext`. The loops are synchronous code of one thread.
* `Realtime`: weak fairness of each tab's client library (it dials after its back-off and hears what
  it is told) and of each connection at the server (the session's query returns, pings time out).
  Users, networks and restarts owe nothing; `MaxEvents` makes their accidents finitely many, which
  is what "tabs settle once nothing more happens" (`Settles`) supposes.

## 4. Proofs

All theorems are for any values of the constants that satisfy the named ASSUMEs of the modules: the
types of the constants, finitely many requests where sessions are counted and finitely many ids where
rows are, and that `Null` is none of the values it stands beside. TLC evaluates each assumption in a run. `Lookahead = 0`, where a
theorem needs it, is an assumption of the theorem.

`TicketLifecycleProofs`:

* `TypeCorrect`: the type invariant, from lemmas about the rows each write makes.
* `SnapshotsCoherent`: `Shape` (a request under way has arguments, and a row in its hands if its
  phase says so) and `SnapshotCoherent` are inductive together: every step that changes a row
  moves its version by one (`RowStep`), and what a request holds is copied from the row
  (`SeenStep`).
* `NotModifiedSound` follows: equal versions mean equal rows.
* `NoUpdateLost`: not inductive by itself. `WritesBehind` says that an accepted write named a
  version below the stored one; `WhoWrites` that a commit names exactly the stored one.
* `LifecycleImplementsContract` and `EntryRequirementsHold` hold only for clients that name versions
  they were given (`Lookahead = 0`). The strengthening `Informed` says that a request stands
  before its transaction with a row at least as new as its version, acceptable if it changes the
  status; so when the guard matches, coherence makes that row the stored one
  (`CommitIsCurrent`) and the check still counts. This is the argument the code rests on; a client
  that names a version ahead of what it was given takes it away.

* `HistoryLeadsToStatus`, like the next three for `Lookahead = 0` and by `CommitIsCurrent`: a history row names as `fromStatus` what was read before the transaction;
  that it was the stored status makes the row the next link of the chain (lemmas on `LeadsTo` of an
  appended sequence).
* `AuditReplaysTicket`: what is replayed lags behind the row of a ticket between the two statements
  of its deletion. `Deleting` says that the handler standing there is the one that deleted the row
  and the only one, and that its entry is not written yet; so a second one is never added.
* `ConflictsAreReal`: `ReadAlive` (who stands before a transaction read a row that was not deleted),
  so a guard that fails on a deleted row means that the deletion, and its new version, came since.
* `PausesAreAccounted`, for tickets that do not start out PAUSED: `Timed` says that a pause is under way
  exactly while the status is PAUSED, and not from the future; a resumption then adds the whole seconds
  of it (`RoundedDown`), and the tick of a clock adds as much to the pause as to the time (`PauseGoesOn`).

`TicketCreationProofs`:

* `AnswersStayInAgreement`: `Superseded` says that an attempt recorded but no longer in the row of
  its key has expired, `Spaced` that two recordings under one key have an expiry between them, `Told`
  that the ticket of an answer was recorded under its key.
* `NoDuplicateIsSilent`: a client has one attempt under a key unanswered at a time (`OneAtATime`), and
  only its own time-out comes before the handler is done (`Served`). So, while nothing failed or timed out
  under the key, a ticket that was made is recorded or about to be (`Pending`), and an attempt past
  the lookup found nothing recorded that was still to be honoured (`Missed`).

`TicketThreadProofs`: `Stands` gives each phase what its request has by then: arguments, a key once it
stored, no row before it is done. `RowsStayBacked` needs that what is stored whole stays whole (with
`wx` nobody opens that key again) and that who is about to record has stored it whole (`Backed`). `NothingCutBelowLimit` carries the check's
verdict to the row (`Measured`). `ReceiptsStayOnce`: appending to a list of distinct readers, after
the row was looked at again, keeps it one, and who is in `readBy` stays there.
`FilesStayAccountedFor` and `AnswersAreTrue` are inductive relative to the type invariant.

`SessionsProofs`:

* `TypeCorrect`, with `Placed`: the sessions a phase refers to are there, and `born` orders the rows.
* `EvictionTakesOldest`: the sessions kept of those found are the youngest `Max` of them; the argument
  picks the oldest of the kept by the well-founded order of `born` and counts what follows it.
* `RotationKeepsOne`: `Chained` says that with a client that waits every row has one successor at most,
  one that has it is revoked, and who is about to rotate a row is alone and the row has no successor
  yet. `Ancestors` is defined as a closure, not by
  recursion, so the ancestors of an unrevoked row are shown to be a whole line (`LineIsWhole`)
  without induction over its length.

`RealtimeProofs`: `Owned` says that a tab's connection is its own and not `cut`, `Registered` that the
open connections of an instance are the registered one. Both are kept by `Admit` because the
disconnect handler of the replaced socket runs inside it, and by the late end of any other socket
because the handler compares ids before it forgets one.

* `LogoutGivesUp` and `TabsAreAnswered`: `Attached` says that a tab has a connection exactly while its
  client waits or is up, and no client without a token; `Known` that a connection which is not given up
  is the one its tab has. So what is left of `LogoutCloses` to fairness is that the server notices a
  connection given up, and of `Settles` that it answers one that waits.

`SwrCacheProofs`:

* `TypeCorrect` and `LockStaysOwned` need no assumption, and hold with lapses and failures.
* `CacheNeverGoesBack`: under prompt producers, whoever is between acquisition and release owns
  the lock (`HolderIsOwner`), so it is alone there, and what it is about to set is not older
  than the entry (`NothingOlder`).
* `NothingNewIsOutdated`: between commits the lists that are older than the database only become fewer
  in the hands of producers (`Outdated`), and the key gets one only by taking it from there, or keeps it
  while it ages. This is the variant behind `Converges`; that it runs out is fairness.

`WorkerQueueProofs`:

* `TypeCorrect`: with `Owned` (a worker's job is active and its own) and `Counted` (a job that has not
  ended has attempts left), inductive together.
* `DeadLettersFinal`, relative to these. `FailuresExplained` needs it: the writes that a stop loses
  are exactly those its process had under way (`lost`), and each was of an exhausted job.
* `ScansAreSingle`: while scans are prompt, who is between acquisition and release has the lock.
* `JobsKeepContract`: each action is mapped to the abstract one or to a stutter. `Counted` makes the
  failure of a worker the end of an open job, `DeadLettersFinal` keeps a letter under way from being
  due twice.

`AdministrationProofs`, about `MasterData`. `Inductive` is the conjunction of the type invariant and
nine parts.

* `TypeCorrect`, with `Busy` (a request under way has something to do).
* `TogglesCount`: `Placed` says that a row that is being inserted is in one request's hands and holds its
  defaults, that the others name rows of the list, and that who is recorded is through; `Current` that a
  toggle which has read, and whose row has not raced, still holds what the row does. Then a flip changes the parity of the toggles of its
  row with the column, and nothing else changes either (`WriteAppended`: what an appended write adds to
  a set of writes).
* `LastPatchStands`: relative to `Placed` and `Recorded` (who stands before an update is a patch, who stands before a
  flip a toggle): what is appended is the last to name its columns, and the others keep the column as it was.
* `QuietWalk`: a page lists the rows of its ranks (`PageLists`); ranks are a bijection between the table and its
  numbers (`RankInOrder`), by counting the rows before each, so pages meet without a gap or an overlap
  (`PagesCover`). `Quiet` says that until a row comes, what the walk has is sorted and of the ranks its
  pages have passed.
* `TornPageAlone`: rows that come push those of the start to higher ranks only (`RankGrows`). `Behind` says that a
  row of the start that is not listed yet lies beyond the pages asked for, `Walked` that the count is the size of
  the table unless a row came since; so a last page that is not torn reaches the end of the table.

`AdministrationProofs`, about `SlaCalculator`, for any lengths of minutes, hours, days and weeks, any calendars,
creations, pauses and questions:

* `OpenAt`: `isBusinessMinute`, which divides, agrees at each tick with the opening times of a day, which are
  intervals. From `DivUnique` and `DivReaches` (quotients by their multiples) through `DayAndHour`, `DayIs` and
  `HourReaches`.
* The loops sample one tick in a minute, and creations fall between minutes. `SameMinute` says that all ticks of
  a minute are open or none is, and `TurnCounts` that a turn moves the count by what was open on the way, but for
  the minute of the creation. So the difference does not add up: `Counted` says that the open time behind the
  cursor plus the open rest of the minute it stands in is what was counted plus the open rest of the
  creation's minute. Open time is a cardinality of a set of ticks, so it is added up by
  `OpenCounts` and `OpenAdds` and no induction over ticks is needed. `SlaInductive` is the type invariant and
  `Counted` for each of the loops and their results (`Adding`, `Added`, `Measuring`, `Measured`).
* `DeadlineFallsInOpenTime`: from `Added`, since `addBusinessHours` ends on an open minute only.
* `DeadlinesAgree`: both loops walk the same minutes, so one is a minute behind the other or more (`WalkBehind`),
  and what it has still before it counts.
* `PausesNeverCharged`: the measuring overshoots its end by less than a minute (`Measuring`), and what is open of a
  pause is at most its length.
* `ShutCalendarsHang`: the safety half of the hazard that `Ends` is about, for the calendars of lemma
  `ShutCalendars` and any bound.

Model-checked only: the liveness properties `Converges`, `ScansGoOn`, `Ends`, `LogoutCloses` and `Settles`, which
are out of the prover's reach. The second half of `Ends` is about the calendars of its run: a week of holidays has
no business minutes and the next one may.

## 5. What is abstracted, and what is not modelled

* Texts, identifiers, DTOs, roles, tokens, passwords, cookies.
* The clock stands still inside a step. Ties of `createdAt` are modelled in `MasterData` only; clocks
  that disagree between instances are not modelled.
* The seed's PAUSED tickets have no `slaPausedAt`; they are legal initial rows of the theorems
  but those of the pauses, whose accounting starts with the pauses the API makes.
* The list of tickets is one value to `SwrCache`. Its count and its page are two statements, as those
  of an administration table in `MasterData`; there no row leaves, while tickets also do by deletion.
* A request is sent at most once and operations on one row are not queued by the database: the
  order of steps is any order.
* A worker that stalls without stopping (a blocked event loop), and is joined by another on the same
  job; queues with more than one job at a time in a process; Redis commands of the worker, which
  wait for Redis rather than fail.
* `tickets:<id>`, which the writers delete as well, is a key nothing sets.
* Calendars in time zones that change their offset (daylight saving).
* A connection in `Realtime` belongs to one user; the 15 minutes of an access token are `Spoil`. The token
  of the handshake is checked against the session there as one outcome, not against `Sessions`.

Hazards that no property covers, each with its reason in `PROJECT.json`: a PATCH that undoes what a
status required; a key reused for another body; waiting calls that all produce; the count and the page
of the list of tickets, where rows also leave; worked time that a pause swallows; scans longer than
their lock; a message posted again after a lost answer; the hour that some builds call 24. And
`TogglesAddUp` sets rows aside on which two toggles overlapped, as `OneSessionPerLine` does clients that
do not wait.

Not modelled:

* Notifications and reports: each route is one statement or a constant answer. The worker's jobs of these
  names only log.
* Rooms of the websocket server and `emitRealtime`, which nobody calls.
* The rows of `OutboxEvent` beyond their writing, as nobody reads them.
* The client's query cache, pages and components: presentation over the answers modelled here.
* The rest of boot, health, correlation, rate limits and headers: configuration and pure I/O.
* The dashboard's three counts, the seed's data but for what is an initial state, the generated client of
  the database.

## 6. Plan

What is left, in this order:

1. Variants for `Settles` and `ScansGoOn`, as `OutdatedDwindles` is one for `Converges`; an abstract
   contract of creation under a key, implemented by `TicketCreation`.
2. `BrowserSession`: the tab's token of `Realtime` against the rows of `Sessions`, with the refresh
   endpoint nobody calls.
3. The list of tickets with deletions between the pages, and the dashboard's counts against each other.
4. The worker's other queues, with several jobs at a time in a process.
