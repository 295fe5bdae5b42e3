------------------------------- MODULE MasterData -------------------------------
(***************************************************************************)
(* The administration routes, apps/api/src/modules/admin/crudRoutes.ts, on   *)
(* one table (users, companies, categories, suppliers or rooms): create,     *)
(* patch, toggle, and the list that a client walks page by page.             *)
(*                                                                          *)
(* A patch is one UPDATE.  toggle reads the row and then writes.  A page is   *)
(* two statements at READ COMMITTED, the count and the rows.  createdAt is    *)
(* set before the row is committed, to a millisecond, so rows may tie and may *)
(* appear behind younger ones.  Nothing deletes a row.                       *)
(***************************************************************************)
EXTENDS Integers, Sequences, FiniteSets

CONSTANTS
    Ids,        \* ids of rows, in the order of the column
    Seeded,     \* the rows that are there at the start, all of one date
    Requests,   \* writing requests, each sent at most once
    Fields,     \* the columns a patch may name
    Limits,     \* page sizes to choose from
    MaxTime,    \* bound on the clock
    Null

ASSUME IdAssumption == Ids \subseteq Nat /\ IsFiniteSet(Ids) /\ Seeded \subseteq Ids
ASSUME BoundAssumption == Limits \subseteq Nat \ {0} /\ MaxTime \in Nat

VARIABLES
    table,    \* [Ids -> row or Null]
    clock,    \* the millisecond
    pc,       \* per request: where its handler stands
    args,     \* per request: what it does, to which row, naming which columns
    seen,     \* per request: what toggle read
    written,  \* the requests that updated a row, in that order (observer only)
    raced,    \* the rows a toggle wrote while another stood before its write
              \* (observer only)
    walk      \* the client that walks the list
vars == <<table, clock, pc, args, seen, written, raced, walk>>

Row  == [createdAt : 0..MaxTime, visible : BOOLEAN, active : BOOLEAN,
         by : [Fields -> Requests \cup {Null}]]  \* by: whose patch set the column
ASSUME NullAssumption == Null \notin Requests \cup Row
Args == [op : {"create", "patch", "toggle"}, id : Ids, fields : SUBSET Fields]
NoArgs == [op |-> "create", id |-> 0, fields |-> {}]
Walk == [phase : {"idle", "count", "page", "over"}, page : Nat, limit : Limits, total : Nat,
         got : Seq(Ids),      \* the rows of the pages so far
         first : SUBSET Ids,  \* the rows there were at the start (observer only)
         quiet : BOOLEAN,     \* no row has come since the start (observer only)
         torn : BOOLEAN]      \* one came inside the last page (observer only)

NewRow(date, visible) ==
    [createdAt |-> date, visible |-> visible, active |-> TRUE, by |-> [f \in Fields |-> Null]]

Init == /\ table = [i \in Ids |-> IF i \in Seeded THEN NewRow(0, TRUE) ELSE Null]
        /\ clock = 0
        /\ pc = [r \in Requests |-> "idle"] /\ args = [r \in Requests |-> NoArgs]
        /\ seen = [r \in Requests |-> FALSE]
        /\ written = <<>> /\ raced = {}
        /\ walk \in [phase : {"idle"}, page : {1}, limit : Limits, total : {0}, got : {<<>>},
                     first : {{}}, quiet : {TRUE}, torn : {FALSE}]

Visible == {i \in Ids : table[i] # Null /\ table[i].visible}
Goto(r, phase) == pc' = [pc EXCEPT ![r] = phase]
Send(r, op, i, F, phase) ==
    /\ pc[r] = "idle" /\ Goto(r, phase)
    /\ args' = [args EXCEPT ![r] = [op |-> op, id |-> i, fields |-> F]]
-----------------------------------------------------------------------------
\* POST: id and createdAt are set, then the row is inserted.
Create(r) ==
    /\ \E i \in Ids : /\ table[i] = Null /\ Send(r, "create", i, {}, "insert")
                      /\ table' = [table EXCEPT ![i] = NewRow(clock, FALSE)]
    /\ UNCHANGED <<clock, seen, written, raced, walk>>

InsertedBare(row) == [row EXCEPT !.visible = TRUE, !.active = Null]  \* mutated form: no default
Inserted(row) == [row EXCEPT !.visible = TRUE]

Insert(r) ==
    /\ pc[r] = "insert" /\ Goto(r, "done")
    /\ table' = [table EXCEPT ![args[r].id] = Inserted(@)]
    /\ walk' = [walk EXCEPT !.quiet = @ /\ walk.phase = "idle",
                            !.torn = @ \/ walk.phase = "page"]
    /\ UNCHANGED <<clock, args, seen, written, raced>>
-----------------------------------------------------------------------------
\* PATCH /:id: the columns the body names.
PatchedAll(by, F, r) == [f \in Fields |-> IF f \in F THEN r ELSE Null]  \* mutated form:
                                                      \* columns not named are emptied
Patched(by, F, r) == [f \in Fields |-> IF f \in F THEN r ELSE by[f]]

SendPatch(r) ==
    /\ \E i \in Visible, F \in SUBSET Fields : Send(r, "patch", i, F, "update")
    /\ UNCHANGED <<table, clock, seen, written, raced, walk>>

Patch(r) ==
    /\ pc[r] = "update" /\ Goto(r, "done")
    /\ table' = [table EXCEPT ![args[r].id].by = Patched(@, args[r].fields, r)]
    /\ written' = Append(written, r)
    /\ UNCHANGED <<clock, args, seen, raced, walk>>
-----------------------------------------------------------------------------
\* PATCH /:id/toggle: findUniqueOrThrow, then update.
SendToggle(r) ==
    /\ \E i \in Visible : Send(r, "toggle", i, {}, "flip")
    /\ seen' = [seen EXCEPT ![r] = table[args'[r].id].active]
    /\ UNCHANGED <<table, clock, written, raced, walk>>

ToggledAsRead(b) == b  \* mutated form: what was read is written
Toggled(b) == ~b

Flip(r) ==
    /\ pc[r] = "flip" /\ Goto(r, "done")
    /\ table' = [table EXCEPT ![args[r].id].active = Toggled(seen[r])]
    /\ written' = Append(written, r)
    /\ raced' = raced \cup {args[q].id : q \in {p \in Requests \ {r} : pc[p] = "flip" /\ args[p].id = args[r].id}}
    /\ UNCHANGED <<clock, args, seen, walk>>

\* A statement is rejected or the instance stops.
Fail(r) ==
    /\ pc[r] \notin {"idle", "done"} /\ Goto(r, "done")
    /\ table' = IF pc[r] = "insert" THEN [table EXCEPT ![args[r].id] = Null] ELSE table
    /\ UNCHANGED <<clock, args, seen, written, raced, walk>>
-----------------------------------------------------------------------------
\* GET with page and limit: the count.
Count ==
    /\ walk.phase \in {"idle", "count"}
    /\ walk' = [walk EXCEPT !.phase = "page", !.total = Cardinality(Visible), !.torn = FALSE,
                            !.first = IF walk.phase = "idle" THEN Visible ELSE @]
    /\ UNCHANGED <<table, clock, pc, args, seen, written, raced>>

\* orderBy createdAt desc, id desc: the orders the database may return S in.
Before(i, j) == \/ table[i].createdAt > table[j].createdAt
                \/ table[i].createdAt = table[j].createdAt /\ i > j
OrdersByDate(S) ==  \* mutated form: createdAt desc alone
    {o \in [1..Cardinality(S) -> S] :
        \A m, n \in DOMAIN o : m < n => o[m] # o[n] /\ table[o[m]].createdAt >= table[o[n]].createdAt}
Orders(S) == {o \in [1..Cardinality(S) -> S] : \A m, n \in DOMAIN o : m < n => Before(o[m], o[n])}

\* pageResult
TotalPagesDown(total, limit) == total \div limit  \* mutated form: Math.floor
TotalPages(total, limit) == (total + limit - 1) \div limit

\* skip (page - 1) * limit, take limit.
Skip == (walk.page - 1) * walk.limit
Page(o) == LET last == IF Skip + walk.limit < Cardinality(Visible) THEN Skip + walk.limit ELSE Cardinality(Visible)
           IN  SubSeq(o, Skip + 1, last)

\* The rows of the page; the client goes on up to totalPages.
FindMany ==
    /\ walk.phase = "page"
    /\ \E o \in Orders(Visible) :
          walk' = [walk EXCEPT !.got = @ \o Page(o),
                               !.phase = IF walk.page >= TotalPages(walk.total, walk.limit) THEN "over" ELSE "count",
                               !.page = @ + 1]
    /\ UNCHANGED <<table, clock, pc, args, seen, written, raced>>

Pass ==
    /\ clock < MaxTime /\ clock' = clock + 1
    /\ UNCHANGED <<table, pc, args, seen, written, raced, walk>>

Finished ==
    /\ walk.phase = "over" /\ clock = MaxTime /\ \A r \in Requests : pc[r] = "done"
    /\ UNCHANGED vars

Handle(r) == \/ Create(r) \/ Insert(r) \/ SendPatch(r) \/ Patch(r)
             \/ SendToggle(r) \/ Flip(r) \/ Fail(r)

Next == Count \/ FindMany \/ Pass \/ Finished \/ \E r \in Requests : Handle(r)

Spec == Init /\ [][Next]_vars
-----------------------------------------------------------------------------
\* Every variable keeps its shape.
TypeOK ==
    /\ table \in [Ids -> Row \cup {Null}] /\ clock \in 0..MaxTime
    /\ pc \in [Requests -> {"idle", "insert", "update", "flip", "done"}]
    /\ args \in [Requests -> Args \cup {NoArgs}] /\ seen \in [Requests -> BOOLEAN]
    /\ written \in Seq(Requests) /\ raced \subseteq Ids /\ walk \in Walk

Writes(i, op) == {n \in DOMAIN written : args[written[n]].id = i /\ args[written[n]].op = op}

\* Toggles add up: a row is inactive after an odd number of them, unless two stood
\* between their read and their write at once, in which case they may count as one.
TogglesAddUp ==
    \A i \in Visible \ raced : table[i].active = (Cardinality(Writes(i, "toggle")) % 2 = 0)

Naming(i, f) == {n \in Writes(i, "patch") : f \in args[written[n]].fields}

\* Patches stand: a column holds what the last patch that named it wrote, whatever
\* toggles read before that patch and wrote after it, and whatever other patches
\* left out.
PatchesStand ==
    \A i \in Visible, f \in Fields :
        /\ Naming(i, f) = {} => table[i].by[f] = Null
        /\ \A n \in Naming(i, f) :
              (\A m \in Naming(i, f) : m <= n) => table[i].by[f] = written[n]

Listed == {walk.got[n] : n \in DOMAIN walk.got}

\* A walk during which no row comes returns the table, each row once and in one
\* order, although rows of one seeding share their createdAt.
QuietWalkIsTheTable ==
    walk.phase = "over" /\ walk.quiet =>
        /\ Listed = walk.first
        /\ \A m, n \in DOMAIN walk.got : m < n => Before(walk.got[m], walk.got[n])

\* A walk during which rows do come may repeat rows, but misses one that was there
\* at its start only if one came between the count and the rows of its last page:
\* then the page the last row moved to is past the total.
MissedOnlyByTornPage ==
    walk.phase = "over" /\ ~walk.torn => walk.first \subseteq Listed
=============================================================================
