---------------------------- MODULE AdministrationProofs ----------------------------
(***************************************************************************)
(* Proofs about what the administration keeps: MasterData, its tables and    *)
(* the list a client walks, for any ids, requests, columns, page sizes and   *)
(* any clock; and SlaCalculator, which computes with the calendar and the    *)
(* hours of a category, for any lengths of minutes, hours, days and weeks,    *)
(* any calendars, inputs and bound.                                         *)
(***************************************************************************)
EXTENDS MasterData, SlaCalculator, FiniteSetTheorems, TLAPS

\* Requests that are under way have something to do.
Busy == \A r \in Requests : pc[r] \notin {"idle", "done"} => args[r] \in Args

LEMMA NewRowType ==
    ASSUME NEW date \in 0..MaxTime, NEW visible \in BOOLEAN
    PROVE  NewRow(date, visible) \in Row
<1>1. PICK by \in [Fields -> Requests \cup {Null}] : by = [f \in Fields |-> Null]
  OBVIOUS
<1>2. [createdAt |-> date, visible |-> visible, active |-> TRUE, by |-> by] \in Row
  BY DEF Row
<1> QED BY <1>1, <1>2, Zenon DEF NewRow

LEMMA BusyInit == Init => TypeOK /\ Busy
<1> SUFFICES ASSUME Init PROVE TypeOK /\ Busy
  OBVIOUS
<1>1. 0 \in 0..MaxTime /\ NewRow(0, TRUE) \in Row
  <2>1. 0 \in 0..MaxTime
    BY BoundAssumption
  <2> QED BY <2>1, NewRowType, Zenon
<1>2. walk \in Walk
  <2>1. <<>> \in Seq(Ids) /\ {} \in SUBSET Ids
    <3>1. {} \in SUBSET Ids
      BY Zenon
    <3>2. <<>> \in Seq(Ids)
      OBVIOUS
    <3> QED BY <3>1, <3>2
  <2>2. \A l \in Limits : [phase |-> "idle", page |-> 1, limit |-> l, total |-> 0, got |-> <<>>,
                            first |-> {}, quiet |-> TRUE, torn |-> FALSE] \in Walk
    BY <2>1, BoundAssumption DEF Walk
  <2>3. PICK l \in Limits : walk = [phase |-> "idle", page |-> 1, limit |-> l, total |-> 0, got |-> <<>>,
                                     first |-> {}, quiet |-> TRUE, torn |-> FALSE]
    BY DEF Init
  <2> QED BY <2>2, <2>3, Zenon
<1>3. table \in [Ids -> Row \cup {Null}]
  BY <1>1 DEF Init
<1>4. args \in [Requests -> Args \cup {NoArgs}]
  BY DEF Init
<1>5. written \in Seq(Requests) /\ raced \subseteq Ids
  BY DEF Init
<1>6. /\ pc \in [Requests -> {"idle", "insert", "update", "flip", "done"}]
      /\ seen \in [Requests -> BOOLEAN]
      /\ \A r \in Requests : pc[r] = "idle"
  BY DEF Init
<1> QED BY <1>1, <1>2, <1>3, <1>4, <1>5, <1>6 DEF Init, TypeOK, Busy

LEMMA SendTypes ==
    ASSUME TypeOK, Busy, NEW r \in Requests, NEW op \in {"create", "patch", "toggle"}, NEW i \in Ids,
           NEW F \in SUBSET Fields, NEW phase \in {"insert", "update", "flip"}, Send(r, op, i, F, phase)
    PROVE  /\ pc' \in [Requests -> {"idle", "insert", "update", "flip", "done"}]
           /\ args' \in [Requests -> Args \cup {NoArgs}]
           /\ Busy'
           /\ args'[r] = [op |-> op, id |-> i, fields |-> F]
           /\ pc[r] = "idle" /\ pc'[r] = phase
           /\ \A q \in Requests \ {r} : pc'[q] = pc[q] /\ args'[q] = args[q]
<1>1. [op |-> op, id |-> i, fields |-> F] \in Args
  BY DEF Args
<1> QED BY <1>1 DEF TypeOK, Busy, Send, Goto

LEMMA GotoTypes ==
    ASSUME TypeOK, Busy, NEW r \in Requests, Goto(r, "done"), args' = args
    PROVE  /\ pc' \in [Requests -> {"idle", "insert", "update", "flip", "done"}]
           /\ Busy'
           /\ pc'[r] = "done"
           /\ \A q \in Requests \ {r} : pc'[q] = pc[q]
BY DEF TypeOK, Busy, Goto

\* A row that is there keeps its shape whatever of its columns is written.
LEMMA RowTypes ==
    ASSUME NEW row \in Row
    PROVE  /\ row # Null
           /\ Inserted(row) \in Row
           /\ \A F \in SUBSET Fields, r \in Requests :
                 [row EXCEPT !.by = Patched(row.by, F, r)] \in Row
           /\ \A b \in BOOLEAN : [row EXCEPT !.active = Toggled(b)] \in Row
BY NullAssumption DEF Row, Inserted, Patched, Toggled

\* The columns of the walk.
LEMMA WalkFields ==
    ASSUME walk \in Walk
    PROVE  /\ walk.page \in Nat /\ walk.total \in Nat
           /\ walk.limit \in Nat \ {0}
           /\ walk.got \in Seq(Ids)
           /\ walk.quiet \in BOOLEAN /\ walk.torn \in BOOLEAN
           /\ walk.phase \in {"idle", "count", "page", "over"}
<1>1. walk.limit \in Limits /\ walk.page \in Nat /\ walk.total \in Nat /\ walk.got \in Seq(Ids)
  BY DEF Walk
<1>2. /\ walk.quiet \in BOOLEAN /\ walk.torn \in BOOLEAN
      /\ walk.phase \in {"idle", "count", "page", "over"}
  BY DEF Walk
<1> QED BY <1>1, <1>2, BoundAssumption

LEMMA VisibleFinite == /\ Visible \subseteq Ids /\ IsFiniteSet(Visible)
                       /\ Cardinality(Visible) \in Nat
<1>1. Visible \in SUBSET Ids
  BY DEF Visible
<1> QED BY <1>1, IdAssumption, FS_Subset, FS_CardinalityType

LEMMA SubSeqIs ==
    ASSUME NEW S, NEW s \in Seq(S), NEW k \in Nat, NEW z \in Nat, z <= Len(s)
    PROVE  /\ SubSeq(s, k + 1, z) \in Seq(S)
           /\ Len(SubSeq(s, k + 1, z)) = IF k + 1 <= z THEN z - k ELSE 0
           /\ \A n \in 1..Len(SubSeq(s, k + 1, z)) : SubSeq(s, k + 1, z)[n] = s[k + n]
<1>1. SubSeq(s, k + 1, z) \in Seq(S)
  OBVIOUS
<1>2. Len(SubSeq(s, k + 1, z)) = IF k + 1 <= z THEN z - k ELSE 0
  OBVIOUS
<1>3. \A n \in 1..(IF k + 1 <= z THEN z - k ELSE 0) : SubSeq(s, k + 1, z)[n] = s[k + n]
  OBVIOUS
<1> QED BY <1>1, <1>2, <1>3

LEMMA PageType ==
    ASSUME TypeOK, NEW o \in Orders(Visible), walk.page \in Nat \ {0}
    PROVE  /\ Page(o) \in Seq(Visible)
           /\ Len(Page(o)) = IF Skip + walk.limit < Cardinality(Visible) THEN walk.limit
                             ELSE IF Skip < Cardinality(Visible) THEN Cardinality(Visible) - Skip ELSE 0
           /\ \A n \in 1..Len(Page(o)) : Page(o)[n] = o[Skip + n] /\ Skip + n \in 1..Cardinality(Visible)
<1> DEFINE total == Cardinality(Visible)
           last == IF Skip + walk.limit < total THEN Skip + walk.limit ELSE total
<1>1. total \in Nat
  BY VisibleFinite
<1>2. walk.limit \in Nat \ {0} /\ Skip \in Nat
  <2>1. walk.limit \in Nat \ {0} /\ walk.page - 1 \in Nat
    BY WalkFields DEF TypeOK
  <2>2. \A a, b \in Nat : a * b \in Nat
    OBVIOUS
  <2> QED BY <2>1, <2>2 DEF Skip
<1>3. o \in [1..total -> Visible]
  BY DEF Orders
<1>4. Page(o) = SubSeq(o, Skip + 1, last)
  BY DEF Page
<1> HIDE DEF total
<1>5. o \in Seq(Visible) /\ Len(o) = total
  BY <1>1, <1>3
<1>6. last \in Nat /\ last <= total /\ (Skip + walk.limit < total => last = Skip + walk.limit)
      /\ (~(Skip + walk.limit < total) => last = total)
  BY <1>1, <1>2
<1> HIDE DEF last
<1>7. last = IF Skip + walk.limit < total THEN Skip + walk.limit ELSE total
  BY DEF last
<1>8. PICK k \in Nat, l \in Nat \ {0}, z \in Nat : k = Skip /\ l = walk.limit /\ z = last
  BY <1>2, <1>6
<1>9. /\ Page(o) \in Seq(Visible) /\ Len(Page(o)) = IF k + 1 <= z THEN z - k ELSE 0
      /\ \A n \in 1..Len(Page(o)) : Page(o)[n] = o[k + n]
  <2>1. z <= Len(o) /\ Page(o) = SubSeq(o, k + 1, z)
    BY <1>4, <1>5, <1>6, <1>8
  <2> QED BY <1>5, <2>1, SubSeqIs
<1>10. (IF k + 1 <= z THEN z - k ELSE 0) = IF k + l < total THEN l ELSE IF k < total THEN total - k ELSE 0
  BY <1>1, <1>7, <1>8
<1>11. \A n \in 1..(IF k + 1 <= z THEN z - k ELSE 0) : k + n \in 1..total
  BY <1>1, <1>6, <1>8
<1>12. Len(Page(o)) = IF k + l < total THEN l ELSE IF k < total THEN total - k ELSE 0
  BY <1>9, <1>10
<1>13. \A n \in 1..Len(Page(o)) : Page(o)[n] = o[k + n] /\ k + n \in 1..total
  BY <1>9, <1>11, Zenon
<1>14. /\ Len(Page(o)) = IF Skip + walk.limit < total THEN walk.limit
                          ELSE IF Skip < total THEN total - Skip ELSE 0
       /\ \A n \in 1..Len(Page(o)) : Page(o)[n] = o[Skip + n] /\ Skip + n \in 1..total
  BY <1>8, <1>12, <1>13, Zenon
<1> QED BY <1>9, <1>14, Zenon DEF total

\* A row that is being inserted is nobody else's and holds its defaults; the others that
\* requests name are in the list, and stay there.
Placed ==
    /\ \A r \in Requests :
          /\ pc[r] = "insert" =>
                /\ table[args[r].id] # Null /\ ~table[args[r].id].visible
                /\ table[args[r].id].active /\ \A f \in Fields : table[args[r].id].by[f] = Null
                /\ \A q \in Requests \ {r} : pc[q] = "insert" => args[q].id # args[r].id
          /\ pc[r] \in {"update", "flip"} => args[r].id \in Visible
    /\ \A n \in DOMAIN written : pc[written[n]] = "done" /\ args[written[n]].id \in Visible

\* The walk moves on by pages of rows that are there.
Walked ==
    /\ walk.page \in Nat \ {0}
    /\ walk.phase = "idle" => walk.page = 1 /\ walk.got = <<>> /\ walk.first = {} /\ ~walk.torn
    /\ walk.first \subseteq Visible
    /\ walk.phase = "page" /\ ~walk.torn => walk.total = Cardinality(Visible)

LEMMA TypesNext == TypeOK /\ Busy /\ Placed /\ Walked /\ [Next]_vars => TypeOK' /\ Busy'
<1> SUFFICES ASSUME TypeOK, Busy, Placed, Walked, [Next]_vars PROVE TypeOK' /\ Busy'
  OBVIOUS
<1>1. ASSUME NEW r \in Requests, Create(r) PROVE TypeOK' /\ Busy'
  <2>1. PICK i \in Ids : Send(r, "create", i, {}, "insert") /\ table' = [table EXCEPT ![i] = NewRow(clock, FALSE)]
    BY <1>1 DEF Create
  <2>2. NewRow(clock, FALSE) \in Row
    BY NewRowType DEF TypeOK
  <2>3. table' \in [Ids -> Row \cup {Null}]
    BY <2>1, <2>2 DEF TypeOK
  <2> QED BY <1>1, <2>1, <2>3, SendTypes DEF TypeOK, Create
<1>2. ASSUME NEW r \in Requests, Insert(r) PROVE TypeOK' /\ Busy'
  <2>1. args[r].id \in Ids /\ table[args[r].id] \in Row
    <3>1. args[r] \in Args
      BY <1>2 DEF Insert, Busy
    <3>2. table[args[r].id] # Null
      BY <1>2 DEF Insert, Placed
    <3> QED BY <3>1, <3>2 DEF Args, TypeOK
  <2>2. Inserted(table[args[r].id]) \in Row
    BY <2>1, RowTypes
  <2>3. table' \in [Ids -> Row \cup {Null}]
    BY <1>2, <2>2 DEF Insert, TypeOK
  <2>4. walk' \in Walk
    BY <1>2 DEF Insert, TypeOK, Walk
  <2> QED BY <1>2, <2>3, <2>4, GotoTypes DEF TypeOK, Insert
<1>3. ASSUME NEW r \in Requests, SendPatch(r) PROVE TypeOK' /\ Busy'
  <2>1. PICK i \in Ids, F \in SUBSET Fields : Send(r, "patch", i, F, "update")
    BY <1>3 DEF SendPatch, Visible
  <2> QED BY <1>3, <2>1, SendTypes DEF TypeOK, SendPatch
<1>4. ASSUME NEW r \in Requests, Patch(r) PROVE TypeOK' /\ Busy'
  <2>1. args[r].id \in Ids /\ args[r].fields \in SUBSET Fields /\ table[args[r].id] \in Row
    <3>1. args[r] \in Args
      BY <1>4 DEF Patch, Busy
    <3>2. table[args[r].id] # Null
      BY <1>4 DEF Patch, Placed, Visible
    <3> QED BY <3>1, <3>2 DEF Args, TypeOK
  <2>2. [table[args[r].id] EXCEPT !.by = Patched(table[args[r].id].by, args[r].fields, r)] \in Row
    BY <2>1, RowTypes
  <2>3. table' \in [Ids -> Row \cup {Null}]
    BY <1>4, <2>2 DEF Patch, TypeOK
  <2>4. written' \in Seq(Requests)
    BY <1>4 DEF Patch, TypeOK
  <2> QED BY <1>4, <2>3, <2>4, GotoTypes DEF TypeOK, Patch
<1>5. ASSUME NEW r \in Requests, SendToggle(r) PROVE TypeOK' /\ Busy'
  <2>1. PICK i \in Visible : Send(r, "toggle", i, {}, "flip")
    BY <1>5 DEF SendToggle
  <2>2. i \in Ids /\ table[i] \in Row
    BY DEF Visible, TypeOK
  <2>3. seen' \in [Requests -> BOOLEAN]
    <3>1. args'[r] = [op |-> "toggle", id |-> i, fields |-> {}]
      BY <2>1, <2>2, SendTypes
    <3> QED BY <1>5, <2>2, <3>1 DEF SendToggle, TypeOK, Row
  <2> QED BY <1>5, <2>1, <2>2, <2>3, SendTypes DEF TypeOK, SendToggle
<1>6. ASSUME NEW r \in Requests, Flip(r) PROVE TypeOK' /\ Busy'
  <2>1. args[r].id \in Ids /\ table[args[r].id] \in Row
    <3>1. args[r] \in Args
      BY <1>6 DEF Flip, Busy
    <3>2. table[args[r].id] # Null
      BY <1>6 DEF Flip, Placed, Visible
    <3> QED BY <3>1, <3>2 DEF Args, TypeOK
  <2>2. [table[args[r].id] EXCEPT !.active = Toggled(seen[r])] \in Row
    BY <2>1, RowTypes DEF TypeOK
  <2>3. table' \in [Ids -> Row \cup {Null}]
    BY <1>6, <2>2 DEF Flip, TypeOK
  <2>4. written' \in Seq(Requests)
    BY <1>6 DEF Flip, TypeOK
  <2>5. raced' \subseteq Ids
    <3>1. \A p \in Requests : pc[p] = "flip" => args[p].id \in Ids
      BY DEF Busy, Args
    <3> QED BY <1>6, <3>1 DEF Flip, TypeOK
  <2> QED BY <1>6, <2>3, <2>4, <2>5, GotoTypes DEF TypeOK, Flip
<1>7. ASSUME NEW r \in Requests, Fail(r) PROVE TypeOK' /\ Busy'
  <2>1. table' \in [Ids -> Row \cup {Null}]
    BY <1>7 DEF Fail, TypeOK
  <2> QED BY <1>7, <2>1, GotoTypes DEF TypeOK, Fail
<1>8. CASE Count
  <2>1. Visible \subseteq Ids /\ Cardinality(Visible) \in Nat
    BY VisibleFinite
  <2>2. walk' \in Walk
    BY <1>8, <2>1 DEF Count, TypeOK, Walk
  <2> QED BY <1>8, <2>2 DEF Count, TypeOK, Busy
<1>9. CASE FindMany
  <2>1. PICK o \in Orders(Visible) :
          walk' = [walk EXCEPT !.got = @ \o Page(o),
                               !.phase = IF walk.page >= TotalPages(walk.total, walk.limit) THEN "over" ELSE "count",
                               !.page = @ + 1]
    BY <1>9 DEF FindMany
  <2>2. Page(o) \in Seq(Ids)
    <3>1. Page(o) \in Seq(Visible)
      BY PageType DEF Walked
    <3>2. Visible \subseteq Ids
      BY VisibleFinite
    <3> QED BY <3>1, <3>2
  <2>3. walk.got \o Page(o) \in Seq(Ids) /\ walk.page + 1 \in Nat
    BY <2>2, WalkFields DEF TypeOK
  <2>4. PICK g \in Seq(Ids), p \in Nat, h \in {"count", "over"} :
          walk' = [walk EXCEPT !.got = g, !.phase = h, !.page = p]
    BY <2>1, <2>3
  <2>5. walk' \in Walk
    BY <2>4 DEF TypeOK, Walk
  <2> QED BY <1>9, <2>5 DEF FindMany, TypeOK, Busy
<1>10. CASE Pass
  BY <1>10, BoundAssumption DEF Pass, TypeOK, Busy
<1>11. CASE UNCHANGED vars
  BY <1>11 DEF vars, TypeOK, Busy
<1> QED BY <1>1, <1>2, <1>3, <1>4, <1>5, <1>6, <1>7, <1>8, <1>9, <1>10, <1>11
        DEF Next, Handle, Finished

\* The row a request under way writes.
LEMMA OwnRow ==
    ASSUME TypeOK, Busy, Placed, NEW r \in Requests, pc[r] \in {"insert", "update", "flip"}
    PROVE  /\ args[r].id \in Ids /\ args[r].fields \in SUBSET Fields
           /\ table[args[r].id] \in Row
<1>1. args[r] \in Args
  BY DEF Busy
<1>2. table[args[r].id] # Null
  BY DEF Placed, Visible
<1> QED BY <1>1, <1>2 DEF Args, TypeOK

\* What an action does to the rows: only Insert brings one, nothing takes one
\* away, and no row that is there is given another date.
LEMMA RowsStay ==
    ASSUME TypeOK, Busy, Placed, [Next]_vars
    PROVE  /\ \A i \in Visible : i \in Visible' /\ table'[i].createdAt = table[i].createdAt
           /\ Visible' = Visible \/ \E r \in Requests : Insert(r)
           /\ \A r \in Requests : Insert(r) =>
                 /\ table'[args[r].id].active /\ \A f \in Fields : table'[args[r].id].by[f] = Null
                 /\ \A i \in Ids \ {args[r].id} : table'[i] = table[i]
                 /\ args[r].id \notin Visible /\ Visible' = Visible \cup {args[r].id}
<1>1. ASSUME NEW r \in Requests, Create(r)
      PROVE  /\ \A i \in Visible : table'[i] = table[i]
             /\ Visible' = Visible
  <2>1. PICK j \in Ids : table[j] = Null /\ table' = [table EXCEPT ![j] = NewRow(clock, FALSE)]
    BY <1>1 DEF Create
  <2>2. table'[j] = NewRow(clock, FALSE) /\ \A i \in Ids \ {j} : table'[i] = table[i]
    BY <2>1 DEF TypeOK
  <2>3. ~table'[j].visible
    BY <2>2 DEF NewRow
  <2> QED BY <2>1, <2>2, <2>3 DEF Visible
<1>2. ASSUME NEW r \in Requests, Insert(r)
      PROVE  /\ \A i \in Visible : table'[i] = table[i]
             /\ table'[args[r].id].active /\ \A f \in Fields : table'[args[r].id].by[f] = Null
             /\ \A i \in Ids \ {args[r].id} : table'[i] = table[i]
             /\ args[r].id \notin Visible /\ Visible' = Visible \cup {args[r].id}
  <2>1. args[r].id \in Ids /\ table[args[r].id] \in Row
    BY <1>2, OwnRow DEF Insert
  <2>2. /\ table'[args[r].id] = Inserted(table[args[r].id])
        /\ \A i \in Ids \ {args[r].id} : table'[i] = table[i]
    BY <1>2, <2>1 DEF Insert, TypeOK
  <2>3. /\ Inserted(table[args[r].id]) # Null
        /\ Inserted(table[args[r].id]).visible
        /\ Inserted(table[args[r].id]).active = table[args[r].id].active
        /\ Inserted(table[args[r].id]).by = table[args[r].id].by
    <3>1. Inserted(table[args[r].id]) # Null
      BY <2>1, RowTypes
    <3> QED BY <2>1, <3>1 DEF Inserted, Row
  <2>4. /\ ~table[args[r].id].visible /\ table[args[r].id].active
        /\ \A f \in Fields : table[args[r].id].by[f] = Null
    BY <1>2 DEF Insert, Placed
  <2> QED BY <2>1, <2>2, <2>3, <2>4 DEF Visible
<1>3. ASSUME NEW r \in Requests, Patch(r) \/ Flip(r)
      PROVE  /\ \A i \in Visible : table'[i].createdAt = table[i].createdAt
             /\ Visible' = Visible
  <2>1. args[r].id \in Ids /\ table[args[r].id] \in Row /\ args[r].fields \in SUBSET Fields
    BY <1>3, OwnRow DEF Patch, Flip
  <2>2. /\ table'[args[r].id].visible = table[args[r].id].visible /\ table'[args[r].id] # Null
        /\ table'[args[r].id].createdAt = table[args[r].id].createdAt
    <3>1. CASE Patch(r)
      <4>1. table'[args[r].id] = [table[args[r].id] EXCEPT !.by = Patched(table[args[r].id].by, args[r].fields, r)]
        BY <2>1, <3>1 DEF Patch, TypeOK
      <4>2. [table[args[r].id] EXCEPT !.by = Patched(table[args[r].id].by, args[r].fields, r)] \in Row
        BY <2>1, RowTypes
      <4> QED BY <2>1, <4>1, <4>2, RowTypes DEF Row
    <3>2. CASE Flip(r)
      <4>1. table'[args[r].id] = [table[args[r].id] EXCEPT !.active = Toggled(seen[r])]
        BY <2>1, <3>2 DEF Flip, TypeOK
      <4>2. [table[args[r].id] EXCEPT !.active = Toggled(seen[r])] \in Row
        BY <2>1, RowTypes DEF TypeOK
      <4> QED BY <2>1, <4>1, <4>2, RowTypes DEF Row
    <3> QED BY <1>3, <3>1, <3>2
  <2>3. \A i \in Ids \ {args[r].id} : table'[i] = table[i]
    BY <1>3, <2>1 DEF Patch, Flip, TypeOK
  <2>4. table[args[r].id] # Null
    BY <2>1, RowTypes
  <2> QED BY <2>1, <2>2, <2>3, <2>4 DEF Visible
<1>4. ASSUME NEW r \in Requests, Fail(r)
      PROVE  /\ \A i \in Visible : table'[i] = table[i]
             /\ Visible' = Visible
  <2>1. CASE pc[r] = "insert"
    <3>1. args[r].id \in Ids /\ args[r].id \notin Visible
      BY <2>1, OwnRow DEF Placed, Visible
    <3>2. table' = [table EXCEPT ![args[r].id] = Null]
      BY <1>4, <2>1 DEF Fail
    <3> QED BY <3>1, <3>2 DEF Visible, TypeOK
  <2>2. CASE pc[r] # "insert"
    BY <1>4, <2>2 DEF Fail, Visible
  <2> QED BY <2>1, <2>2
<1>5. ASSUME UNCHANGED table
      PROVE  /\ \A i \in Visible : table'[i] = table[i]
             /\ Visible' = Visible
  BY <1>5 DEF Visible
<1>6. (\E r \in Requests : Create(r) \/ Insert(r) \/ Patch(r) \/ Flip(r) \/ Fail(r)) \/ UNCHANGED table
  BY DEF Next, Handle, SendPatch, SendToggle, Count, FindMany, Pass, Finished, vars
<1> QED BY <1>1, <1>2, <1>3, <1>4, <1>5, <1>6

LEMMA PlacedInit == Init => Placed
BY DEF Init, Placed

\* A request that wrote is done and is not sent again: it stays as it is.
LEMMA WrittenStay ==
    ASSUME TypeOK, Busy, Placed, [Next]_vars, NEW n \in DOMAIN written
    PROVE  /\ written[n] \in Requests
           /\ pc'[written[n]] = "done" /\ args'[written[n]] = args[written[n]]
<1> DEFINE q == written[n]
<1>1. q \in Requests
  BY DEF TypeOK
<1>2. pc[q] = "done"
  BY DEF Placed
<1> HIDE DEF q
<1>3. ASSUME NEW r \in Requests, Handle(r) PROVE pc'[q] = "done" /\ args'[q] = args[q]
  <2>1. pc[r] # "done"
    BY <1>3 DEF Handle, Create, Insert, SendPatch, Patch, SendToggle, Flip, Fail, Send
  <2>2. \/ UNCHANGED args
        \/ \E i \in Ids, op \in {"create", "patch", "toggle"}, F \in SUBSET Fields :
              args' = [args EXCEPT ![r] = [op |-> op, id |-> i, fields |-> F]]
    BY <1>3 DEF Handle, Create, Insert, SendPatch, Patch, SendToggle, Flip, Fail, Send, Visible
  <2>3. \E phase \in {"idle", "insert", "update", "flip", "done"} : pc' = [pc EXCEPT ![r] = phase]
    BY <1>3 DEF Handle, Create, Insert, SendPatch, Patch, SendToggle, Flip, Fail, Send, Goto
  <2> QED BY <1>1, <1>2, <2>1, <2>2, <2>3 DEF TypeOK
<1>4. CASE ~\E r \in Requests : Handle(r)
  <2>1. UNCHANGED <<pc, args>>
    BY <1>4 DEF Next, Count, FindMany, Pass, Finished, vars
  <2> QED BY <1>2, <1>1, <2>1 DEF q
<1> QED BY <1>1, <1>3, <1>4 DEF q

LEMMA PlacedNext == ASSUME TypeOK, Busy, Placed, [Next]_vars PROVE Placed'
<1>1. \A i \in Visible : i \in Visible'
  BY RowsStay
<1>2. \A n \in DOMAIN written : pc'[written[n]] = "done" /\ args'[written[n]].id \in Visible'
  BY <1>1, WrittenStay DEF Placed
<1>3. ASSUME NEW r \in Requests, Create(r) PROVE Placed'
  <2>1. PICK i \in Ids : /\ table[i] = Null /\ Send(r, "create", i, {}, "insert")
                         /\ table' = [table EXCEPT ![i] = NewRow(clock, FALSE)]
    BY <1>3 DEF Create
  <2>2. /\ pc'[r] = "insert" /\ args'[r] = [op |-> "create", id |-> i, fields |-> {}]
        /\ \A q \in Requests \ {r} : pc'[q] = pc[q] /\ args'[q] = args[q]
    BY <2>1, SendTypes
  <2>3. table'[i] = NewRow(clock, FALSE) /\ \A j \in Ids \ {i} : table'[j] = table[j]
    BY <2>1 DEF TypeOK
  <2>4. /\ ~table'[i].visible /\ table'[i].active /\ \A f \in Fields : table'[i].by[f] = Null
    BY <2>3 DEF NewRow
  <2>5. table'[i] # Null
    <3>1. NewRow(clock, FALSE) \in Row
      BY NewRowType DEF TypeOK
    <3> QED BY <2>3, <3>1, RowTypes
  <2>6. ASSUME NEW q \in Requests \ {r}, pc[q] = "insert"
        PROVE  args[q].id \in Ids /\ args[q].id # i
    BY <2>1, <2>6, OwnRow DEF Placed
  <2>7. UNCHANGED written
    BY <1>3 DEF Create
  <2>8. ASSUME NEW q \in Requests, pc'[q] = "insert"
        PROVE  /\ table'[args'[q].id] # Null /\ ~table'[args'[q].id].visible
               /\ table'[args'[q].id].active /\ \A f \in Fields : table'[args'[q].id].by[f] = Null
               /\ \A p \in Requests \ {q} : pc'[p] = "insert" => args'[p].id # args'[q].id
    <3>1. CASE q = r
      BY <2>2, <2>4, <2>5, <2>6, <3>1
    <3>2. CASE q # r
      <4>1. pc[q] = "insert" /\ args'[q] = args[q] /\ table'[args[q].id] = table[args[q].id]
        BY <2>2, <2>3, <2>6, <2>8, <3>2
      <4> QED BY <2>2, <2>6, <2>8, <3>2, <4>1 DEF Placed
    <3> QED BY <3>1, <3>2
  <2>9. ASSUME NEW q \in Requests, pc'[q] \in {"update", "flip"}
        PROVE  args'[q].id \in Visible'
    BY <1>1, <2>2, <2>9 DEF Placed
  <2> QED BY <1>2, <2>7, <2>8, <2>9 DEF Placed
<1>4. ASSUME NEW r \in Requests, SendPatch(r) \/ SendToggle(r) PROVE Placed'
  <2>1. PICK i \in Visible, op \in {"patch", "toggle"}, F \in SUBSET Fields, phase \in {"update", "flip"} :
           Send(r, op, i, F, phase)
    BY <1>4 DEF SendPatch, SendToggle
  <2>2. /\ pc'[r] = phase /\ args'[r] = [op |-> op, id |-> i, fields |-> F]
        /\ \A q \in Requests \ {r} : pc'[q] = pc[q] /\ args'[q] = args[q]
    BY <2>1, VisibleFinite, SendTypes
  <2>3. UNCHANGED <<written, table>>
    BY <1>4 DEF SendPatch, SendToggle
  <2> QED BY <1>1, <1>2, <2>2, <2>3 DEF Placed
<1>5. ASSUME NEW r \in Requests, Insert(r) \/ Patch(r) \/ Flip(r) \/ Fail(r) PROVE Placed'
  <2>1. pc'[r] = "done" /\ (\A q \in Requests \ {r} : pc'[q] = pc[q]) /\ args' = args
    BY <1>5, GotoTypes DEF Insert, Patch, Flip, Fail
  <2>2. ASSUME NEW q \in Requests \ {r}, pc[q] = "insert"
        PROVE  table'[args[q].id] = table[args[q].id]
    <3>1. args[q].id \in Ids /\ ~table[args[q].id].visible
      BY <2>2, OwnRow DEF Placed
    <3>2. pc[r] \in {"insert", "update", "flip"} => args[r].id \in Ids /\ args[r].id # args[q].id
      BY <2>2, <3>1, OwnRow DEF Placed, Visible
    <3> QED BY <1>5, <3>1, <3>2 DEF Insert, Patch, Flip, Fail, TypeOK
  <2>3. \A n \in DOMAIN written' : pc'[written'[n]] = "done" /\ args'[written'[n]].id \in Visible'
    <3>1. CASE Patch(r) \/ Flip(r)
      <4>1. written' = Append(written, r) /\ args[r].id \in Visible
        BY <3>1 DEF Patch, Flip, Placed
      <4> QED BY <1>1, <1>2, <2>1, <4>1 DEF TypeOK
    <3>2. CASE Insert(r) \/ Fail(r)
      BY <1>2, <3>2 DEF Insert, Fail
    <3> QED BY <1>5, <3>1, <3>2
  <2> QED BY <1>1, <2>1, <2>2, <2>3 DEF Placed
<1>6. CASE Count \/ FindMany \/ Pass \/ Finished \/ UNCHANGED vars
  <2>1. UNCHANGED <<table, pc, args, written>>
    BY <1>6 DEF Count, FindMany, Pass, Finished, vars
  <2> QED BY <2>1 DEF Placed, Visible
<1> QED BY <1>3, <1>4, <1>5, <1>6 DEF Next, Handle

-----------------------------------------------------------------------------
\* What a write adds to the record of writes.
LEMMA WriteAppended ==
    ASSUME TypeOK, Busy, Placed, [Next]_vars, NEW r \in Requests, written' = Append(written, r),
           NEW i, NEW op
    PROVE  /\ DOMAIN written = 1..Len(written) /\ Len(written) \in Nat
           /\ \A n \in DOMAIN written : written'[n] = written[n] /\ args'[written'[n]] = args[written[n]]
           /\ written'[Len(written) + 1] = r
           /\ Len(written) + 1 \notin Writes(i, op)
           /\ Writes(i, op)' = IF args'[r].id = i /\ args'[r].op = op
                               THEN Writes(i, op) \cup {Len(written) + 1} ELSE Writes(i, op)
<1>1. /\ DOMAIN written = 1..Len(written) /\ Len(written) \in Nat
      /\ DOMAIN written' = 1..(Len(written) + 1)
      /\ \A n \in DOMAIN written : written'[n] = written[n]
      /\ written'[Len(written) + 1] = r
  BY DEF TypeOK
<1>2. \A n \in DOMAIN written : args'[written'[n]] = args[written[n]]
  BY <1>1, WrittenStay
<1> QED BY <1>1, <1>2 DEF Writes

LEMMA WritesKept ==
    ASSUME TypeOK, Busy, Placed, [Next]_vars, UNCHANGED written, NEW i, NEW op
    PROVE  /\ Writes(i, op)' = Writes(i, op)
           /\ \A n \in DOMAIN written : written'[n] = written[n] /\ args'[written'[n]] = args[written[n]]
<1>1. \A n \in DOMAIN written : args'[written[n]] = args[written[n]]
  BY WrittenStay
<1> QED BY <1>1 DEF Writes

LEMMA WritesFinite == ASSUME TypeOK, NEW i, NEW op PROVE IsFiniteSet(Writes(i, op)) /\ Cardinality(Writes(i, op)) \in Nat
<1>1. Writes(i, op) \in SUBSET (1..Len(written)) /\ Len(written) \in Nat
  BY DEF Writes, TypeOK
<1>2. IsFiniteSet(1..Len(written))
  BY <1>1, FS_Interval
<1> QED BY <1>1, <1>2, FS_Subset, FS_CardinalityType

\* A toggle that has read and has not raced holds what the row holds.
Current == \A r \in Requests :
    pc[r] = "flip" /\ args[r].id \notin raced => seen[r] = table[args[r].id].active

Recorded == \A r \in Requests : /\ pc[r] = "update" => args[r].op = "patch"
                                /\ pc[r] = "flip" => args[r].op = "toggle"

LEMMA RecordedNext == ASSUME TypeOK, Busy, Recorded, [Next]_vars PROVE Recorded'
<1>1. ASSUME NEW r \in Requests, Handle(r) PROVE Recorded'
  <2>1. CASE Create(r) \/ SendPatch(r) \/ SendToggle(r)
    <3>1. PICK i \in Ids, F \in SUBSET Fields, p \in {<<"create", "insert">>, <<"patch", "update">>, <<"toggle", "flip">>} :
             Send(r, p[1], i, F, p[2])
      BY <2>1 DEF Create, SendPatch, SendToggle, Visible
    <3>2. /\ pc'[r] = p[2] /\ args'[r] = [op |-> p[1], id |-> i, fields |-> F]
          /\ \A q \in Requests \ {r} : pc'[q] = pc[q] /\ args'[q] = args[q]
      BY <3>1, SendTypes
    <3> QED BY <3>2 DEF Recorded
  <2>2. CASE Insert(r) \/ Patch(r) \/ Flip(r) \/ Fail(r)
    BY <2>2, GotoTypes DEF Insert, Patch, Flip, Fail, Recorded
  <2> QED BY <1>1, <2>1, <2>2 DEF Handle
<1>2. CASE Count \/ FindMany \/ Pass \/ Finished \/ UNCHANGED vars
  <2>1. UNCHANGED <<pc, args>>
    BY <1>2 DEF Count, FindMany, Pass, Finished, vars
  <2> QED BY <2>1 DEF Recorded
<1> QED BY <1>1, <1>2 DEF Next

\* Only Flip writes the switch of a row that is there, only Patch its columns.
LEMMA RowWrites ==
    ASSUME TypeOK, Busy, Placed, [Next]_vars, NEW i \in Visible
    PROVE  /\ \/ table'[i].active = table[i].active
              \/ \E r \in Requests : Flip(r) /\ args[r].id = i
           /\ \/ table'[i].by = table[i].by
              \/ \E r \in Requests : Patch(r) /\ args[r].id = i
           /\ \A r \in Requests : Flip(r) /\ args[r].id = i => table'[i].active = Toggled(seen[r])
           /\ \A r \in Requests : Patch(r) /\ args[r].id = i =>
                 table'[i].by = Patched(table[i].by, args[r].fields, r)
<1>1. i \in Ids /\ table[i] \in Row
  BY DEF Visible, TypeOK
<1>2. ASSUME NEW r \in Requests, Flip(r)
      PROVE  table'[i] = IF args[r].id = i THEN [table[i] EXCEPT !.active = Toggled(seen[r])] ELSE table[i]
  BY <1>1, <1>2 DEF Flip, TypeOK
<1>3. ASSUME NEW r \in Requests, Patch(r)
      PROVE  table'[i] = IF args[r].id = i THEN [table[i] EXCEPT !.by = Patched(table[i].by, args[r].fields, r)]
                         ELSE table[i]
  BY <1>1, <1>3 DEF Patch, TypeOK
<1>4. ASSUME NEW r \in Requests, Create(r) PROVE table'[i] = table[i]
  BY <1>1, <1>4 DEF Create, Visible, TypeOK
<1>5. ASSUME NEW r \in Requests, Insert(r) PROVE table'[i] = table[i]
  BY <1>1, <1>5, RowsStay
<1>6. ASSUME NEW r \in Requests, Fail(r) PROVE table'[i] = table[i]
  <2>1. pc[r] = "insert" => args[r].id \in Ids /\ args[r].id # i
    BY OwnRow DEF Placed, Visible
  <2> QED BY <1>1, <1>6, <2>1 DEF Fail, TypeOK
<1>7. (\E r \in Requests : Create(r) \/ Insert(r) \/ Patch(r) \/ Flip(r) \/ Fail(r)) \/ UNCHANGED table
  BY DEF Next, Handle, SendPatch, SendToggle, Count, FindMany, Pass, Finished, vars
<1>8. \A r \in Requests : Flip(r) =>
         /\ table'[i].by = table[i].by
         /\ table'[i].active = IF args[r].id = i THEN Toggled(seen[r]) ELSE table[i].active
  BY <1>1, <1>2 DEF Row
<1>9. \A r \in Requests : Patch(r) =>
         /\ table'[i].active = table[i].active
         /\ table'[i].by = IF args[r].id = i THEN Patched(table[i].by, args[r].fields, r) ELSE table[i].by
  BY <1>1, <1>3 DEF Row
<1>10. (\E r \in Requests : Patch(r) \/ Flip(r)) \/ table'[i] = table[i]
  BY <1>4, <1>5, <1>6, <1>7
<1> QED BY <1>8, <1>9, <1>10

LEMMA CurrentNext == ASSUME TypeOK, Busy, Placed, Current, [Next]_vars PROVE Current'
<1> SUFFICES ASSUME NEW q \in Requests, pc'[q] = "flip", args'[q].id \notin raced'
             PROVE  seen'[q] = table'[args'[q].id].active
  BY DEF Current
<1>1. ASSUME NEW r \in Requests, SendToggle(r), q = r PROVE seen'[q] = table'[args'[q].id].active
  <2>1. seen' = [seen EXCEPT ![r] = table[args'[r].id].active] /\ table' = table
    BY <1>1 DEF SendToggle
  <2> QED BY <1>1, <2>1 DEF TypeOK
<1>2. CASE pc[q] = "flip" /\ args'[q] = args[q] /\ seen'[q] = seen[q] /\ raced \subseteq raced'
  <2>1. args[q].id \in Visible /\ seen[q] = table[args[q].id].active
    BY <1>2 DEF Placed, Current
  <2>2. ASSUME NEW r \in Requests, Flip(r), args[r].id = args[q].id PROVE FALSE
    <3>1. q # r
      BY <2>2 DEF Flip, Goto, TypeOK
    <3>2. args[q].id \in raced'
      BY <1>2, <2>2, <3>1 DEF Flip
    <3> QED BY <1>2, <3>2
  <2>3. table'[args[q].id].active = table[args[q].id].active
    BY <2>1, <2>2, RowWrites
  <2> QED BY <1>2, <2>1, <2>3
<1>3. ASSUME NEW r \in Requests, Create(r) \/ SendPatch(r) \/ SendToggle(r), ~(SendToggle(r) /\ q = r)
      PROVE  pc[q] = "flip" /\ args'[q] = args[q] /\ seen'[q] = seen[q] /\ raced \subseteq raced'
  <2>1. PICK i \in Ids, F \in SUBSET Fields, p \in {<<"create", "insert">>, <<"patch", "update">>, <<"toggle", "flip">>} :
           Send(r, p[1], i, F, p[2]) /\ (~SendToggle(r) => p[2] # "flip")
    BY <1>3 DEF Create, SendPatch, SendToggle, Visible
  <2>2. /\ pc'[r] = p[2] /\ args'[r] = [op |-> p[1], id |-> i, fields |-> F]
        /\ \A s \in Requests \ {r} : pc'[s] = pc[s] /\ args'[s] = args[s]
    <3>1. Send(r, p[1], i, F, p[2])
      BY <2>1
    <3> QED BY <3>1, SendTypes
  <2>3. q # r
    BY <1>3, <2>1, <2>2
  <2>4. seen'[q] = seen[q] /\ raced' = raced
    BY <1>3, <2>3 DEF Create, SendPatch, SendToggle, TypeOK
  <2> QED BY <2>2, <2>3, <2>4
<1>4. ASSUME NEW r \in Requests, Insert(r) \/ Patch(r) \/ Flip(r) \/ Fail(r)
      PROVE  pc[q] = "flip" /\ args'[q] = args[q] /\ seen'[q] = seen[q] /\ raced \subseteq raced'
  <2>1. pc'[r] = "done" /\ (\A s \in Requests \ {r} : pc'[s] = pc[s]) /\ args' = args
    BY <1>4, GotoTypes DEF Insert, Patch, Flip, Fail
  <2> QED BY <1>4, <2>1 DEF Insert, Patch, Flip, Fail
<1>5. CASE Count \/ FindMany \/ Pass \/ Finished \/ UNCHANGED vars
  <2>1. UNCHANGED <<pc, args, seen, raced>>
    BY <1>5 DEF Count, FindMany, Pass, Finished, vars
  <2> QED BY <1>2, <2>1
<1> QED BY <1>1, <1>2, <1>3, <1>4, <1>5 DEF Next, Handle

LEMMA TogglesNext ==
    ASSUME TypeOK, Busy, Placed, Recorded, Current, TogglesAddUp, [Next]_vars
    PROVE  TogglesAddUp'
<1> SUFFICES ASSUME NEW i \in Visible', i \notin raced'
             PROVE  table'[i].active = (Cardinality(Writes(i, "toggle")') % 2 = 0)
  BY DEF TogglesAddUp
<1>1. IsFiniteSet(Writes(i, "toggle")) /\ Cardinality(Writes(i, "toggle")) \in Nat
  BY WritesFinite
<1>2. i \notin raced
  BY DEF Next, Handle, Create, Insert, SendPatch, Patch, SendToggle, Flip, Fail, Count, FindMany, Pass, Finished, vars
<1>3. ASSUME NEW r \in Requests, Flip(r), i \in Visible, args[r].id = i
      PROVE  table'[i].active = (Cardinality(Writes(i, "toggle")') % 2 = 0)
  <2>1. /\ written' = Append(written, r) /\ args'[r].id = i /\ args'[r].op = "toggle"
        /\ seen[r] = table[i].active /\ seen[r] \in BOOLEAN
    BY <1>2, <1>3 DEF Flip, Recorded, Current, TypeOK
  <2>2. /\ Writes(i, "toggle")' = Writes(i, "toggle") \cup {Len(written) + 1}
        /\ Len(written) + 1 \notin Writes(i, "toggle")
    BY <2>1, WriteAppended
  <2>3. Cardinality(Writes(i, "toggle")') = Cardinality(Writes(i, "toggle")) + 1
    BY <1>1, <2>2, FS_AddElement
  <2>4. table'[i].active = ~seen[r]
    BY <1>3, RowWrites DEF Toggled
  <2>5. seen[r] = (Cardinality(Writes(i, "toggle")) % 2 = 0)
    BY <1>2, <1>3, <2>1 DEF TogglesAddUp
  <2> DEFINE c == Cardinality(Writes(i, "toggle"))
  <2>6. c \in Nat
    BY <1>1
  <2> HIDE DEF c
  <2>7. ((c + 1) % 2 = 0) <=> ~(c % 2 = 0)
    BY <2>6
  <2> QED BY <2>1, <2>3, <2>4, <2>5, <2>7 DEF c
<1>4. CASE i \in Visible /\ ~\E r \in Requests : Flip(r) /\ args[r].id = i
  <2>1. table'[i].active = table[i].active
    BY <1>4, RowWrites
  <2>2. Writes(i, "toggle")' = Writes(i, "toggle")
    <3>1. CASE \E r \in Requests : Patch(r) \/ Flip(r)
      <4>1. PICK r \in Requests : Patch(r) \/ Flip(r)
        BY <3>1
      <4>2. written' = Append(written, r) /\ args'[r] = args[r]
        BY <4>1 DEF Patch, Flip
      <4>3. ~(args'[r].id = i /\ args'[r].op = "toggle")
        BY <1>4, <4>1, <4>2 DEF Patch, Recorded
      <4> QED BY <4>2, <4>3, WriteAppended
    <3>2. CASE ~\E r \in Requests : Patch(r) \/ Flip(r)
      BY <3>2, WritesKept DEF Next, Handle, Create, Insert, SendPatch, SendToggle, Fail, Count, FindMany, Pass,
            Finished, vars
    <3> QED BY <3>1, <3>2
  <2> QED BY <1>2, <1>4, <2>1, <2>2 DEF TogglesAddUp
<1>5. CASE i \notin Visible
  <2>1. PICK r \in Requests : Insert(r) /\ args[r].id = i
    BY <1>5, RowsStay
  <2>2. table'[i].active /\ UNCHANGED written
    BY <2>1, RowsStay DEF Insert
  <2>3. Writes(i, "toggle")' = {}
    <3>1. Writes(i, "toggle") = {}
      BY <1>5 DEF Writes, Placed
    <3> QED BY <2>2, <3>1, WritesKept
  <2>4. table'[i].active \in BOOLEAN
    <3>1. i \in Ids /\ table[i] \in Row
      BY <2>1, OwnRow DEF Insert
    <3>2. Inserted(table[i]) \in Row
      BY <3>1, RowTypes
    <3> QED BY <2>1, <3>1, <3>2 DEF Insert, TypeOK, Row
  <2>5. Cardinality(Writes(i, "toggle")') = 0
    BY <2>3, FS_EmptySet
  <2>6. (Cardinality(Writes(i, "toggle")') % 2 = 0) = TRUE
    BY <2>5
  <2> QED BY <2>2, <2>4, <2>6
<1> QED BY <1>3, <1>4, <1>5

LEMMA PatchesNext ==
    ASSUME TypeOK, Busy, Placed, Recorded, PatchesStand, [Next]_vars
    PROVE  PatchesStand'
<1> SUFFICES ASSUME NEW i \in Visible', NEW f \in Fields
             PROVE  /\ Naming(i, f)' = {} => table'[i].by[f] = Null
                    /\ \A n \in Naming(i, f)' :
                          (\A m \in Naming(i, f)' : m <= n) => table'[i].by[f] = written'[n]
  BY DEF PatchesStand
<1>1. \A n \in DOMAIN written : n \in Nat
  BY DEF TypeOK
<1>2. i \in Visible => /\ Naming(i, f) = {} => table[i].by[f] = Null
                       /\ \A n \in Naming(i, f) :
                             (\A m \in Naming(i, f) : m <= n) => table[i].by[f] = written[n]
  BY DEF PatchesStand
<1>3. ASSUME NEW r \in Requests, Patch(r), i \in Visible, args[r].id = i
      PROVE  /\ Naming(i, f)' = {} => table'[i].by[f] = Null
             /\ \A n \in Naming(i, f)' :
                   (\A m \in Naming(i, f)' : m <= n) => table'[i].by[f] = written'[n]
  <2>1. /\ written' = Append(written, r) /\ args'[r].id = i /\ args'[r].op = "patch"
        /\ args' = args
    BY <1>3 DEF Patch, Recorded
  <2>2. /\ Writes(i, "patch")' = Writes(i, "patch") \cup {Len(written) + 1}
        /\ Len(written) \in Nat /\ DOMAIN written = 1..Len(written)
        /\ \A n \in DOMAIN written : written'[n] = written[n] /\ args'[written'[n]] = args[written[n]]
        /\ written'[Len(written) + 1] = r
    BY <2>1, WriteAppended
  <2>3. Writes(i, "patch") \subseteq DOMAIN written
    BY DEF Writes
  <2>4. Naming(i, f)' = IF f \in args[r].fields THEN Naming(i, f) \cup {Len(written) + 1} ELSE Naming(i, f)
    BY <2>1, <2>2, <2>3 DEF Naming
  <2>5. Naming(i, f) \subseteq DOMAIN written
    BY <2>3 DEF Naming
  <2>6. table'[i].by[f] = IF f \in args[r].fields THEN r ELSE table[i].by[f]
    <3>1. table'[i].by = Patched(table[i].by, args[r].fields, r)
      BY <1>3, RowWrites
    <3> QED BY <3>1 DEF Patched
  <2> QED BY <1>2, <1>3, <2>2, <2>4, <2>5, <2>6
<1>4. CASE i \in Visible /\ ~\E r \in Requests : Patch(r) /\ args[r].id = i
  <2>1. table'[i].by = table[i].by
    BY <1>4, RowWrites
  <2>2. /\ Writes(i, "patch")' = Writes(i, "patch")
        /\ \A n \in DOMAIN written : written'[n] = written[n] /\ args'[written'[n]] = args[written[n]]
    <3>1. CASE \E r \in Requests : Patch(r) \/ Flip(r)
      <4>1. PICK r \in Requests : Patch(r) \/ Flip(r)
        BY <3>1
      <4>2. written' = Append(written, r) /\ args'[r] = args[r]
        BY <4>1 DEF Patch, Flip
      <4>3. ~(args'[r].id = i /\ args'[r].op = "patch")
        BY <1>4, <4>1, <4>2 DEF Flip, Recorded
      <4> QED BY <4>2, <4>3, WriteAppended
    <3>2. CASE ~\E r \in Requests : Patch(r) \/ Flip(r)
      BY <3>2, WritesKept DEF Next, Handle, Create, Insert, SendPatch, SendToggle, Fail, Count, FindMany, Pass,
            Finished, vars
    <3> QED BY <3>1, <3>2
  <2>3. Naming(i, f)' = Naming(i, f) /\ Naming(i, f) \subseteq DOMAIN written
    BY <2>2 DEF Naming, Writes
  <2> QED BY <1>2, <1>4, <2>1, <2>2, <2>3
<1>5. CASE i \notin Visible
  <2>1. PICK r \in Requests : Insert(r) /\ args[r].id = i
    BY <1>5, RowsStay
  <2>2. table'[i].by[f] = Null /\ UNCHANGED written
    BY <2>1, RowsStay DEF Insert
  <2>3. Writes(i, "patch")' = {}
    <3>1. Writes(i, "patch") = {}
      BY <1>5 DEF Writes, Placed
    <3> QED BY <2>2, <3>1, WritesKept
  <2> QED BY <2>2, <2>3 DEF Naming
<1> QED BY <1>3, <1>4, <1>5

-----------------------------------------------------------------------------
\* How many rows come before a row in the list.
Ahead(i) == {j \in Visible : Before(j, i)}
Rank(i) == Cardinality(Ahead(i))

LEMMA BeforeIsStrict ==
    ASSUME TypeOK, NEW i \in Visible, NEW j \in Visible, Before(i, j)
    PROVE  i # j /\ ~Before(j, i)
<1>1. i \in Nat /\ j \in Nat
  BY VisibleFinite, IdAssumption
<1>2. table[i].createdAt \in Nat /\ table[j].createdAt \in Nat
  <2>1. table[i] \in Row /\ table[j] \in Row
    BY DEF Visible, TypeOK
  <2>2. table[i].createdAt \in 0..MaxTime /\ table[j].createdAt \in 0..MaxTime
    BY <2>1 DEF Row
  <2> QED BY <2>2, BoundAssumption
<1> QED BY <1>1, <1>2 DEF Before

LEMMA RankInOrder ==
    ASSUME TypeOK, NEW o \in Orders(Visible)
    PROVE  /\ \A k \in 1..Cardinality(Visible) : o[k] \in Visible /\ Rank(o[k]) = k - 1
           /\ \A i \in Visible : \E k \in 1..Cardinality(Visible) : o[k] = i
<1> DEFINE n == Cardinality(Visible)
<1>1. n \in Nat /\ IsFiniteSet(Visible)
  BY VisibleFinite
<1>2. o \in [1..n -> Visible] /\ \A k, l \in 1..n : k < l => Before(o[k], o[l])
  BY DEF Orders
<1> HIDE DEF n
<1>3. \A k, l \in 1..n : k < l => o[k] # o[l] /\ ~Before(o[l], o[k])
  <2> SUFFICES ASSUME NEW k \in 1..n, NEW l \in 1..n, k < l PROVE o[k] # o[l] /\ ~Before(o[l], o[k])
    OBVIOUS
  <2>1. o[k] \in Visible /\ o[l] \in Visible /\ Before(o[k], o[l])
    BY <1>2
  <2> QED BY <2>1, BeforeIsStrict
<1>4. o \in Injection(1..n, Visible)
  BY <1>1, <1>2, <1>3 DEF Injection, IsInjective
<1>5. o \in Surjection(1..n, Visible)
  <2>1. Cardinality(1..n) = n
    BY <1>1, FS_Interval
  <2> QED BY <1>1, <1>4, <2>1, FS_Injection DEF n
<1>6. \A i \in Visible : \E k \in 1..n : o[k] = i
  BY <1>5 DEF Surjection
<1>7. ASSUME NEW k \in 1..n PROVE o[k] \in Visible /\ Rank(o[k]) = k - 1
  <2>1. \A l \in 1..n : Before(o[l], o[k]) <=> l < k
    <3>1. ~Before(o[k], o[k])
      BY <1>2, BeforeIsStrict
    <3> QED BY <1>1, <1>2, <1>3, <3>1
  <2>2. Ahead(o[k]) = {o[l] : l \in 1..(k - 1)}
    BY <1>1, <1>2, <1>6, <2>1 DEF Ahead
  <2> DEFINE p == [l \in 1..(k - 1) |-> o[l]]
  <2>3. p \in Bijection(1..(k - 1), Ahead(o[k]))
    BY <1>1, <1>2, <1>3, <2>2 DEF Bijection, Injection, IsInjective, Surjection
  <2>4. IsFiniteSet(1..(k - 1)) /\ Cardinality(1..(k - 1)) = k - 1
    BY FS_Interval
  <2>5. Cardinality(Ahead(o[k])) = Cardinality(1..(k - 1))
    BY <2>3, <2>4, FS_Bijection DEF ExistsBijection
  <2> QED BY <1>2, <2>4, <2>5 DEF Rank
<1> QED BY <1>6, <1>7 DEF n

\* Rows that stay keep their order; those ahead of one only become more.
LEMMA RankGrows ==
    ASSUME TypeOK, Busy, Placed, [Next]_vars
    PROVE  /\ \A i, j \in Visible : Before(i, j)' <=> Before(i, j)
           /\ \A i \in Visible : /\ Rank(i)' \in Nat /\ Rank(i) \in Nat /\ Rank(i)' >= Rank(i)
                                 /\ Visible' = Visible => Rank(i)' = Rank(i)
<1>1. \A i, j \in Visible : Before(i, j)' <=> Before(i, j)
  BY RowsStay DEF Before
<1>2. IsFiniteSet(Visible')
  <2>1. Visible' \in SUBSET Ids
    BY DEF Visible
  <2> QED BY <2>1, IdAssumption, FS_Subset
<1>3. ASSUME NEW i \in Visible
      PROVE  /\ Rank(i)' \in Nat /\ Rank(i) \in Nat /\ Rank(i)' >= Rank(i)
             /\ Visible' = Visible => Rank(i)' = Rank(i)
  <2>1. Ahead(i) \in SUBSET Ahead(i)' /\ Ahead(i)' \in SUBSET Visible'
    BY <1>1, RowsStay DEF Ahead
  <2>2. IsFiniteSet(Ahead(i)') /\ Cardinality(Ahead(i)') \in Nat
    BY <1>2, <2>1, FS_Subset, FS_CardinalityType
  <2>3. Cardinality(Ahead(i)) \in Nat /\ Cardinality(Ahead(i)) <= Cardinality(Ahead(i)')
    BY <2>1, <2>2, FS_Subset, FS_CardinalityType
  <2>4. Visible' = Visible => Ahead(i)' = Ahead(i)
    BY <1>1 DEF Ahead
  <2> QED BY <2>2, <2>3, <2>4 DEF Rank
<1> QED BY <1>1, <1>3

LEMMA PagesCover ==
    ASSUME NEW page \in Nat \ {0}, NEW limit \in Nat \ {0}, NEW total \in Nat
    PROVE  /\ (page + 1 - 1) * limit = (page - 1) * limit + limit
           /\ page * limit = (page - 1) * limit + limit
           /\ (page - 1) * limit \in Nat
           /\ page >= TotalPages(total, limit) => page * limit >= total
<1>1. /\ (page + 1 - 1) * limit = (page - 1) * limit + limit
      /\ page * limit = (page - 1) * limit + limit
      /\ (page - 1) * limit \in Nat
  <2>1. PICK p \in Nat : page = p + 1
    <3>1. page - 1 \in Nat /\ page = (page - 1) + 1
      OBVIOUS
    <3> QED BY <3>1
  <2>2. (p + 1) * limit = p * limit + limit /\ p * limit \in Nat
    OBVIOUS
  <2>3. page + 1 - 1 = p + 1 /\ page - 1 = p
    BY <2>1
  <2> QED BY <2>1, <2>2, <2>3
<1>2. ASSUME page >= TotalPages(total, limit) PROVE page * limit >= total
  <2> DEFINE q == (total + limit - 1) \div limit
  <2>1. q \in Nat /\ total + limit - 1 <= q * limit + (limit - 1)
    OBVIOUS
  <2>2. q <= page
    BY <1>2 DEF TotalPages
  <2> HIDE DEF q
  <2>3. q * limit <= page * limit /\ q * limit \in Nat /\ page * limit \in Nat
    BY <2>1, <2>2
  <2> QED BY <2>1, <2>3
<1> QED BY <1>1, <1>2

\* A page lists the rows of its ranks, in their order.
LEMMA PageLists ==
    ASSUME TypeOK, Walked, NEW o \in Orders(Visible), walk'.got = walk.got \o Page(o)
    PROVE  /\ Listed \subseteq Listed'
           /\ \A i \in Visible : Rank(i) >= Skip /\ Rank(i) < Skip + walk.limit => i \in Listed'
           /\ \A i \in Listed' \ Listed : i \in Visible /\ Rank(i) < Skip + walk.limit
           /\ (/\ \A i \in Listed : \E k \in 1..Cardinality(Visible) : i = o[k] /\ k <= Skip
               /\ \A m, n \in DOMAIN walk.got : m < n => Before(walk.got[m], walk.got[n]))
              => \A m, n \in DOMAIN walk'.got : m < n => Before(walk'.got[m], walk'.got[n])
<1> DEFINE p == Page(o)
           N == Cardinality(Visible)
           g == walk.got
           h == walk'.got
           s == Skip
           l == walk.limit
<1>1. N \in Nat /\ l \in Nat \ {0} /\ s \in Nat
  <2>1. walk.page \in Nat \ {0} /\ walk.limit \in Nat \ {0}
    BY WalkFields DEF TypeOK, Walked
  <2>2. Skip \in Nat
    BY <2>1, PagesCover DEF Skip
  <2> QED BY <2>1, <2>2, VisibleFinite
<1>2. /\ p \in Seq(Visible)
      /\ Len(p) = IF s + l < N THEN l ELSE IF s < N THEN N - s ELSE 0
      /\ \A n \in 1..Len(p) : p[n] = o[s + n] /\ s + n \in 1..N
  BY PageType DEF Walked
<1>3. \A k \in 1..N : o[k] \in Visible /\ Rank(o[k]) = k - 1
  BY RankInOrder
<1>4. \A i \in Visible : \E k \in 1..N : o[k] = i
  BY RankInOrder
<1>5. g \in Seq(Ids)
  BY WalkFields DEF TypeOK
<1>6. \A k, m \in 1..N : k < m => Before(o[k], o[m])
  BY DEF Orders
<1>7. h = g \o p
  OBVIOUS
<1>8. Listed = {g[n] : n \in DOMAIN g} /\ Listed' = {h[n] : n \in DOMAIN h}
  BY DEF Listed
<1> HIDE DEF N, g, h, l, p
<1>9. /\ Len(g) \in Nat /\ Len(p) \in Nat /\ DOMAIN g = 1..Len(g) /\ DOMAIN h = 1..(Len(g) + Len(p))
      /\ \A n \in 1..Len(g) : h[n] = g[n]
      /\ \A n \in 1..Len(p) : h[Len(g) + n] = p[n]
  BY <1>2, <1>5, <1>7
<1> HIDE DEF s
<1>10. \A n \in (Len(g) + 1)..(Len(g) + Len(p)) : h[n] = o[s + (n - Len(g))] /\ s + (n - Len(g)) \in 1..N
  <2> SUFFICES ASSUME NEW n \in (Len(g) + 1)..(Len(g) + Len(p))
               PROVE  h[n] = o[s + (n - Len(g))] /\ s + (n - Len(g)) \in 1..N
    OBVIOUS
  <2>1. PICK m \in 1..Len(p) : m = n - Len(g)
    <3>1. Len(g) \in Nat /\ Len(p) \in Nat
      BY <1>9
    <3>2. n - Len(g) \in 1..Len(p)
      BY <3>1
    <3> QED BY <3>2
  <2>2. n = Len(g) + m
    BY <1>9, <2>1
  <2> QED BY <1>2, <1>9, <2>1, <2>2
<1>11. Listed \subseteq Listed'
  BY <1>8, <1>9
<1>12. ASSUME NEW i \in Visible, Rank(i) >= s, Rank(i) < s + l PROVE i \in Listed'
  <2>1. PICK k \in 1..N : o[k] = i /\ Rank(i) = k - 1
    BY <1>3, <1>4
  <2>2. k - s \in 1..Len(p)
    BY <1>1, <1>2, <1>12, <2>1
  <2>3. p[k - s] = i
    <3>1. s + (k - s) = k
      BY <1>1
    <3> QED BY <1>2, <2>1, <2>2, <3>1
  <2>4. PICK n \in Nat : n = Len(g) + (k - s) /\ n \in 1..(Len(g) + Len(p))
    <3>1. Len(g) \in Nat /\ Len(p) \in Nat /\ k - s \in 1..Len(p)
      BY <1>9, <2>2
    <3>2. Len(g) + (k - s) \in 1..(Len(g) + Len(p)) /\ Len(g) + (k - s) \in Nat
      BY <3>1
    <3> QED BY <3>2
  <2>5. h[n] = p[k - s] /\ n \in DOMAIN h
    BY <1>9, <2>2, <2>4
  <2> QED BY <1>8, <2>3, <2>5
<1>13. ASSUME NEW i \in Listed' \ Listed PROVE i \in Visible /\ Rank(i) < s + l
  <2>1. PICK n \in DOMAIN h : h[n] = i
    BY <1>8
  <2>2. n \in (Len(g) + 1)..(Len(g) + Len(p))
    BY <1>8, <1>9, <1>13, <2>1
  <2>3. PICK k \in 1..N : k = s + (n - Len(g)) /\ h[n] = o[k]
    BY <1>10, <2>2
  <2>4. Len(p) <= l
    BY <1>1, <1>2
  <2> QED BY <1>1, <1>3, <1>9, <2>1, <2>2, <2>3, <2>4
<1>14. ASSUME \A i \in Listed : \E k \in 1..N : i = o[k] /\ k <= s,
              \A m, n \in DOMAIN g : m < n => Before(g[m], g[n]),
              NEW m \in DOMAIN h, NEW n \in DOMAIN h, m < n
       PROVE  Before(h[m], h[n])
  <2>1. CASE n <= Len(g)
    <3>1. m \in DOMAIN g /\ n \in DOMAIN g /\ h[m] = g[m] /\ h[n] = g[n]
      BY <1>9, <1>14, <2>1
    <3> QED BY <1>14, <3>1
  <2>2. CASE ~(n <= Len(g))
    <3>1. n \in (Len(g) + 1)..(Len(g) + Len(p))
      BY <1>9, <2>2
    <3>2. PICK k \in 1..N : k = s + (n - Len(g)) /\ h[n] = o[k]
      BY <1>10, <3>1
    <3>3. PICK j \in 1..N : j < k /\ h[m] = o[j]
      <4>1. CASE m <= Len(g)
        <5>1. h[m] \in Listed
          BY <1>8, <1>9, <4>1
        <5>2. PICK j \in 1..N : h[m] = o[j] /\ j <= s
          BY <1>14, <5>1
        <5>3. j < k
          BY <1>1, <1>9, <3>1, <3>2, <5>2
        <5> QED BY <5>2, <5>3
      <4>2. CASE ~(m <= Len(g))
        <5>1. m \in (Len(g) + 1)..(Len(g) + Len(p))
          BY <1>9, <4>2
        <5>2. PICK j \in 1..N : j = s + (m - Len(g)) /\ h[m] = o[j]
          BY <1>10, <5>1
        <5>3. j < k
          BY <1>1, <1>9, <1>14, <3>1, <3>2, <5>1, <5>2
        <5> QED BY <5>2, <5>3
      <4> QED BY <4>1, <4>2
    <3> QED BY <1>6, <3>2, <3>3
  <2> QED BY <2>1, <2>2
<1> QED BY <1>11, <1>12, <1>13, <1>14 DEF N, g, h, l, s

LEMMA WalkFindMany ==
    ASSUME TypeOK, Walked, FindMany
    PROVE  /\ \E o \in Orders(Visible) : walk'.got = walk.got \o Page(o)
           /\ walk'.page = walk.page + 1 /\ walk'.limit = walk.limit /\ walk'.first = walk.first
           /\ walk'.quiet = walk.quiet /\ walk'.torn = walk.torn
           /\ walk.phase = "page" /\ walk'.phase \in {"count", "over"}
           /\ walk'.phase = "over" => walk.page >= TotalPages(walk.total, walk.limit)
           /\ Skip' = Skip + walk.limit
           /\ UNCHANGED table
<1>1. PICK o \in Orders(Visible) :
        walk' = [walk EXCEPT !.got = @ \o Page(o),
                             !.phase = IF walk.page >= TotalPages(walk.total, walk.limit) THEN "over" ELSE "count",
                             !.page = @ + 1]
  BY DEF FindMany
<1>2. PICK h \in {"count", "over"} :
         h = IF walk.page >= TotalPages(walk.total, walk.limit) THEN "over" ELSE "count"
  OBVIOUS
<1> DEFINE g == walk.got \o Page(o)
<1> HIDE DEF g
<1>5. walk' = [walk EXCEPT !.got = g, !.phase = h, !.page = walk.page + 1]
  BY <1>1, <1>2, Zenon DEF g
<1>3. /\ walk'.got = g /\ walk'.phase = h
      /\ walk'.page = walk.page + 1 /\ walk'.limit = walk.limit /\ walk'.first = walk.first
      /\ walk'.quiet = walk.quiet /\ walk'.torn = walk.torn
  BY <1>5 DEF TypeOK, Walk
<1>4. Skip' = Skip + walk.limit
  <2>1. walk.page \in Nat \ {0} /\ walk.limit \in Nat \ {0}
    BY WalkFields DEF TypeOK, Walked
  <2> QED BY <1>3, <2>1, PagesCover, WalkFields DEF Skip, TypeOK
<1> QED BY <1>2, <1>3, <1>4 DEF FindMany, g

LEMMA WalkCount ==
    ASSUME TypeOK, Count
    PROVE  /\ walk'.got = walk.got /\ walk'.page = walk.page /\ walk'.limit = walk.limit
           /\ walk'.quiet = walk.quiet /\ walk'.torn = FALSE
           /\ walk'.total = Cardinality(Visible)
           /\ walk'.first = IF walk.phase = "idle" THEN Visible ELSE walk.first
           /\ walk.phase \in {"idle", "count"} /\ walk'.phase = "page"
           /\ UNCHANGED table
<1>1. PICK f : /\ walk' = [walk EXCEPT !.phase = "page", !.total = Cardinality(Visible), !.torn = FALSE, !.first = f]
               /\ f = IF walk.phase = "idle" THEN Visible ELSE walk.first
  BY DEF Count
<1> QED BY <1>1 DEF Count, TypeOK, Walk

LEMMA WalkInsert ==
    ASSUME TypeOK, NEW r \in Requests, Insert(r)
    PROVE  /\ walk'.got = walk.got /\ walk'.page = walk.page /\ walk'.limit = walk.limit
           /\ walk'.total = walk.total /\ walk'.first = walk.first /\ walk'.phase = walk.phase
           /\ walk'.quiet => walk.quiet /\ walk.phase = "idle"
           /\ walk'.torn <=> walk.torn \/ walk.phase = "page"
<1>1. PICK q, t \in BOOLEAN : /\ walk' = [walk EXCEPT !.quiet = q, !.torn = t]
                              /\ q => walk.quiet /\ walk.phase = "idle"
                              /\ t <=> walk.torn \/ walk.phase = "page"
  <2>1. walk.quiet \in BOOLEAN /\ walk.torn \in BOOLEAN
    BY WalkFields DEF TypeOK
  <2> QED BY <2>1 DEF Insert
<1> QED BY <1>1 DEF TypeOK, Walk

\* The three kinds of steps a walk knows.
LEMMA WalkSteps ==
    [Next]_vars => Count \/ FindMany \/ (\E r \in Requests : Insert(r)) \/ UNCHANGED walk
BY DEF Next, Handle, Create, SendPatch, Patch, SendToggle, Flip, Fail, Pass, Finished, vars

LEMMA WalkedInit == Init => Walked
<1> SUFFICES ASSUME Init PROVE Walked
  OBVIOUS
<1>1. /\ walk.page = 1 /\ walk.phase = "idle" /\ walk.got = <<>> /\ walk.first = {} /\ walk.torn = FALSE
  BY DEF Init
<1> QED BY <1>1 DEF Walked

LEMMA WalkedNext == ASSUME TypeOK, Busy, Placed, Walked, [Next]_vars PROVE Walked'
<1>1. walk.first \subseteq Visible /\ Visible \subseteq Visible'
  BY RowsStay DEF Walked
<1>2. walk.page \in Nat \ {0}
  BY DEF Walked
<1>3. CASE Count
  <2>1. Visible' = Visible
    BY <1>3, WalkCount DEF Visible
  <2> QED BY <1>1, <1>2, <1>3, <2>1, WalkCount DEF Walked
<1>4. CASE FindMany
  BY <1>1, <1>2, <1>4, WalkFindMany DEF Walked
<1>5. ASSUME NEW r \in Requests, Insert(r) PROVE Walked'
  BY <1>1, <1>2, <1>5, WalkInsert DEF Walked
<1>6. CASE UNCHANGED walk /\ ~\E r \in Requests : Insert(r)
  <2>1. Visible' = Visible
    BY <1>6, RowsStay
  <2> QED BY <1>6, <2>1 DEF Walked
<1> QED BY <1>3, <1>4, <1>5, <1>6, WalkSteps

-----------------------------------------------------------------------------
\* A row of the start that is not listed yet lies on a page to come: rows that
\* come push it back, never forward.  The last page reaches the end of the table,
\* unless a row came after it was counted.
Behind ==
    /\ walk.phase \in {"count", "page"} => \A i \in walk.first : i \in Listed \/ Rank(i) >= Skip
    /\ walk.phase = "over" /\ ~walk.torn => walk.first \subseteq Listed

LEMMA BehindNext == ASSUME TypeOK, Busy, Placed, Walked, Behind, [Next]_vars PROVE Behind'
<1>1. walk.first \subseteq Visible
  BY DEF Walked
<1>2. walk.page \in Nat \ {0} /\ walk.limit \in Nat \ {0} /\ Skip \in Nat
  <2>1. walk.page \in Nat \ {0} /\ walk.limit \in Nat \ {0}
    BY WalkFields DEF TypeOK, Walked
  <2> QED BY <2>1, PagesCover DEF Skip
<1>3. CASE Count
  <2>1. Skip' = Skip /\ Listed' = Listed /\ walk'.phase = "page"
    BY <1>3, WalkCount DEF Skip, Listed
  <2>2. ASSUME NEW i \in walk'.first PROVE i \in Listed \/ Rank(i)' >= Skip
    <3>1. CASE walk.phase = "idle"
      <4>1. i \in Visible
        BY <1>3, <2>2, <3>1, WalkCount
      <4>2. Skip = 0
        BY <1>2, <3>1 DEF Walked, Skip
      <4> QED BY <4>1, <4>2, RankGrows
    <3>2. CASE walk.phase # "idle"
      <4>1. i \in walk.first /\ walk.phase = "count"
        BY <1>3, <2>2, <3>2, WalkCount
      <4>2. i \in Listed \/ Rank(i) >= Skip
        BY <4>1 DEF Behind
      <4> QED BY <1>1, <1>2, <4>1, <4>2, RankGrows
    <3> QED BY <3>1, <3>2
  <2> QED BY <2>1, <2>2 DEF Behind
<1>4. CASE FindMany
  <2>1. PICK o \in Orders(Visible) : walk'.got = walk.got \o Page(o)
    BY <1>4, WalkFindMany
  <2>2. /\ walk'.first = walk.first /\ walk'.torn = walk.torn /\ walk.phase = "page"
        /\ walk'.phase = "over" => walk.page >= TotalPages(walk.total, walk.limit)
        /\ walk'.phase \in {"count", "over"}
        /\ Skip' = Skip + walk.limit /\ Visible' = Visible
    BY <1>4, WalkFindMany DEF Visible
  <2>3. ASSUME NEW i \in walk.first PROVE i \in Listed' \/ Rank(i) >= Skip'
    <3>1. i \in Visible /\ (i \in Listed \/ Rank(i) >= Skip)
      BY <1>1, <2>2 DEF Behind
    <3>2. Listed \subseteq Listed' /\ (Rank(i) >= Skip /\ Rank(i) < Skip + walk.limit => i \in Listed')
      BY <2>1, <3>1, PageLists
    <3>3. Rank(i) \in Nat
      BY <3>1, RankGrows
    <3> QED BY <1>2, <2>2, <3>1, <3>2, <3>3
  <2>4. ASSUME walk'.phase = "over", ~walk.torn, NEW i \in walk.first PROVE i \in Listed'
    <3>1. Cardinality(Visible) \in Nat /\ walk.total = Cardinality(Visible)
      BY <2>2, <2>4, VisibleFinite DEF Walked
    <3>2. walk.page * walk.limit >= Cardinality(Visible) /\ Skip' = walk.page * walk.limit
      <4>1. Skip' = walk.page * walk.limit
        BY <1>2, <2>2, PagesCover DEF Skip
      <4> QED BY <1>2, <2>2, <2>4, <3>1, <4>1, PagesCover
    <3>3. PICK k \in 1..Cardinality(Visible) : o[k] = i /\ Rank(i) = k - 1
      BY <1>1, <2>4, RankInOrder
    <3>4. ~(Rank(i) >= Skip')
      <4>1. walk.page * walk.limit \in Nat
        BY <1>2
      <4> QED BY <3>1, <3>2, <3>3, <4>1
    <3> QED BY <2>3, <2>4, <3>4
  <2>5. \A i \in walk.first : Rank(i)' = Rank(i)
    BY <1>1, <2>2, RankGrows
  <2> QED BY <2>2, <2>3, <2>4, <2>5 DEF Behind
<1>5. ASSUME /\ walk'.first = walk.first /\ walk'.phase = walk.phase /\ walk'.got = walk.got
             /\ walk'.page = walk.page /\ walk'.limit = walk.limit
             /\ walk'.phase = "over" => walk'.torn = walk.torn
      PROVE  Behind'
  <2>1. Skip' = Skip /\ Listed' = Listed
    BY <1>5 DEF Skip, Listed
  <2>2. \A i \in walk.first : Rank(i) \in Nat /\ Rank(i)' \in Nat /\ Rank(i)' >= Rank(i)
    BY <1>1, RankGrows
  <2>3. \A i \in walk.first : Rank(i) >= Skip => Rank(i)' >= Skip
    BY <1>2, <2>2
  <2> QED BY <1>5, <2>1, <2>3 DEF Behind
<1>6. ASSUME NEW r \in Requests, Insert(r) PROVE Behind'
  <2>1. walk'.phase = "over" => walk'.torn = walk.torn
    <3>1. walk.torn \in BOOLEAN /\ walk'.torn \in BOOLEAN
      BY <1>6, WalkFields DEF TypeOK, Insert, Walk
    <3> QED BY <1>6, <3>1, WalkInsert
  <2> QED BY <1>5, <1>6, <2>1, WalkInsert
<1> QED BY <1>3, <1>4, <1>5, <1>6, WalkSteps

\* While no row comes, the walk holds the rows of the pages it asked for, in order.
Sorted == \A m, n \in DOMAIN walk.got : m < n => Before(walk.got[m], walk.got[n])
Quiet ==
    walk.quiet =>
        /\ ~walk.torn
        /\ walk.phase # "idle" => Visible = walk.first
        /\ Listed \subseteq Visible
        /\ \A i \in Listed : Rank(i) < Skip
        /\ Sorted

LEMMA QuietNext == ASSUME TypeOK, Busy, Placed, Walked, Quiet, [Next]_vars PROVE Quiet'
<1> SUFFICES ASSUME walk'.quiet
             PROVE  /\ ~walk'.torn
                    /\ walk'.phase # "idle" => Visible' = walk'.first
                    /\ Listed' \subseteq Visible'
                    /\ \A i \in Listed' : Rank(i)' < Skip'
                    /\ Sorted'
  BY DEF Quiet
<1>1. walk.page \in Nat \ {0} /\ walk.limit \in Nat \ {0} /\ Skip \in Nat
  <2>1. walk.page \in Nat \ {0} /\ walk.limit \in Nat \ {0}
    BY WalkFields DEF TypeOK, Walked
  <2> QED BY <2>1, PagesCover DEF Skip
<1>2. \A n \in DOMAIN walk.got : walk.got[n] \in Listed
  BY DEF Listed
<1>3. CASE walk.quiet /\ UNCHANGED <<walk, table>>
  <2>1. Visible' = Visible /\ Listed' = Listed /\ Skip' = Skip
    BY <1>3 DEF Visible, Listed, Skip
  <2>2. \A i \in Listed : Rank(i)' = Rank(i)
    BY <1>3, <2>1, RankGrows DEF Quiet
  <2>3. Sorted' <=> Sorted
    BY <1>3 DEF Sorted, Before
  <2> QED BY <1>3, <2>1, <2>2, <2>3 DEF Quiet
<1>4. ASSUME walk.quiet, walk'.got = walk.got, walk'.page = walk.page, walk'.limit = walk.limit,
             Visible' = Visible
      PROVE  /\ Listed' \subseteq Visible'
             /\ \A i \in Listed' : Rank(i)' < Skip'
             /\ Sorted'
  <2>1. Listed' = Listed /\ Skip' = Skip
    BY <1>4 DEF Listed, Skip
  <2>2. \A i \in Listed : i \in Visible /\ Rank(i) < Skip /\ Rank(i)' = Rank(i)
    BY <1>4, RankGrows DEF Quiet
  <2>3. ASSUME NEW m \in DOMAIN walk.got, NEW n \in DOMAIN walk.got, m < n
        PROVE  Before(walk.got[m], walk.got[n])'
    <3>1. walk.got[m] \in Visible /\ walk.got[n] \in Visible /\ Before(walk.got[m], walk.got[n])
      BY <1>2, <1>4, <2>2, <2>3 DEF Quiet, Sorted
    <3>2. table'[walk.got[m]].createdAt = table[walk.got[m]].createdAt
          /\ table'[walk.got[n]].createdAt = table[walk.got[n]].createdAt
      BY <3>1, RowsStay
    <3> QED BY <1>4, <3>1, <3>2 DEF Before
  <2>4. Sorted'
    BY <1>4, <2>3 DEF Sorted
  <2> QED BY <1>4, <2>1, <2>2, <2>4
<1>5. CASE Count
  <2>1. Visible' = Visible
    BY <1>5, WalkCount DEF Visible
  <2>2. walk.quiet /\ walk'.torn = FALSE /\ walk'.first = Visible
    BY <1>5, WalkCount DEF Quiet
  <2> QED BY <1>4, <1>5, <2>1, <2>2, WalkCount
<1>6. CASE FindMany
  <2>1. PICK o \in Orders(Visible) : walk'.got = walk.got \o Page(o)
    BY <1>6, WalkFindMany
  <2>2. /\ walk.quiet /\ walk.phase = "page" /\ ~walk.torn /\ walk'.torn = walk.torn /\ walk'.first = walk.first
        /\ Visible' = Visible /\ Skip' = Skip + walk.limit /\ UNCHANGED table
    BY <1>6, WalkFindMany DEF Visible, Quiet
  <2>3. \A i \in Listed : \E k \in 1..Cardinality(Visible) : i = o[k] /\ k <= Skip
    <3> SUFFICES ASSUME NEW i \in Listed PROVE \E k \in 1..Cardinality(Visible) : i = o[k] /\ k <= Skip
      OBVIOUS
    <3>1. i \in Visible /\ Rank(i) < Skip
      BY <2>2 DEF Quiet
    <3>2. PICK k \in 1..Cardinality(Visible) : o[k] = i /\ Rank(i) = k - 1
      BY <3>1, RankInOrder
    <3> QED BY <1>1, <3>1, <3>2
  <2>4. \A m, n \in DOMAIN walk'.got : m < n => Before(walk'.got[m], walk'.got[n])
    BY <2>1, <2>2, <2>3, PageLists DEF Quiet, Sorted
  <2>5. ASSUME NEW i \in Listed' PROVE i \in Visible /\ Rank(i)' < Skip'
    <3>1. i \in Visible /\ Rank(i) < Skip + walk.limit
      <4>1. CASE i \in Listed
        <5>1. i \in Visible /\ Rank(i) < Skip
          BY <2>2, <4>1 DEF Quiet
        <5>2. Rank(i) \in Nat
          BY <5>1, RankGrows
        <5> QED BY <1>1, <5>1, <5>2
      <4>2. CASE i \notin Listed
        BY <2>1, <2>5, <4>2, PageLists
      <4> QED BY <4>1, <4>2
    <3> QED BY <2>2, <3>1, RankGrows
  <2>6. Sorted'
    BY <2>2, <2>4 DEF Sorted, Before
  <2> QED BY <2>2, <2>5, <2>6 DEF Quiet
<1>7. ASSUME NEW r \in Requests, Insert(r)
      PROVE  /\ ~walk'.torn
             /\ walk'.phase # "idle" => Visible' = walk'.first
             /\ Listed' \subseteq Visible'
             /\ \A i \in Listed' : Rank(i)' < Skip'
             /\ Sorted'
  <2>1. walk.phase = "idle" /\ walk'.phase = "idle" /\ ~walk'.torn /\ walk'.got = <<>>
    BY <1>7, WalkInsert DEF Walked
  <2>2. DOMAIN walk'.got = {}
    BY <2>1
  <2> QED BY <2>1, <2>2 DEF Listed, Sorted
<1>8. CASE UNCHANGED walk /\ ~\E r \in Requests : Insert(r)
  <2>1. Visible' = Visible /\ walk.quiet
    BY <1>8, RowsStay
  <2> QED BY <1>4, <1>8, <2>1 DEF Quiet
<1> QED BY <1>5, <1>6, <1>7, <1>8, WalkSteps

-----------------------------------------------------------------------------
Inductive == /\ TypeOK /\ Busy /\ Placed
             /\ Recorded /\ Current /\ TogglesAddUp /\ PatchesStand
             /\ Walked /\ Behind /\ Quiet

LEMMA InductiveInvariant == Spec => []Inductive
<1>1. Init => Inductive
  <2> SUFFICES ASSUME Init PROVE Inductive
    OBVIOUS
  <2>1. TypeOK /\ Busy /\ Placed /\ Walked
    BY BusyInit, PlacedInit, WalkedInit
  <2>2. Recorded /\ Current
    BY DEF Init, Recorded, Current
  <2>3. \A i \in Visible : table[i] = NewRow(0, TRUE)
    BY DEF Init, Visible
  <2>4. DOMAIN written = {}
    BY DEF Init
  <2>5. TogglesAddUp
    <3> SUFFICES ASSUME NEW i \in Visible PROVE table[i].active = (Cardinality(Writes(i, "toggle")) % 2 = 0)
      BY DEF TogglesAddUp
    <3>1. Writes(i, "toggle") = {}
      BY <2>4 DEF Writes
    <3>2. Cardinality(Writes(i, "toggle")) = 0
      BY <3>1, FS_EmptySet
    <3>3. table[i].active = TRUE
      BY <2>3 DEF NewRow
    <3>4. (Cardinality(Writes(i, "toggle")) % 2 = 0) = TRUE
      BY <3>2
    <3> QED BY <3>3, <3>4
  <2>6. PatchesStand
    <3>1. \A i \in Visible, f \in Fields : table[i].by[f] = Null
      BY <2>3 DEF NewRow
    <3>2. \A i, f : Naming(i, f) = {}
      BY <2>4 DEF Naming, Writes
    <3> QED BY <3>1, <3>2 DEF PatchesStand
  <2>7. walk.phase = "idle" /\ walk.got = <<>>
    BY DEF Init
  <2>8. DOMAIN walk.got = {}
    BY <2>7
  <2>9. Behind /\ Quiet
    BY <2>1, <2>7, <2>8 DEF Behind, Quiet, Walked, Listed, Sorted
  <2> QED BY <2>1, <2>2, <2>5, <2>6, <2>9 DEF Inductive
<1>2. Inductive /\ [Next]_vars => Inductive'
  BY TypesNext, PlacedNext, RecordedNext, CurrentNext, TogglesNext, PatchesNext, WalkedNext, BehindNext, QuietNext
     DEF Inductive
<1> QED BY <1>1, <1>2, PTL DEF Spec

\* Every variable keeps its shape: a row has all its columns, whatever handlers insert
\* and write between each other's reads and writes.
THEOREM TypeCorrect == Spec => []TypeOK
<1>1. Inductive => TypeOK
  BY DEF Inductive
<1> QED BY <1>1, InductiveInvariant, PTL

\* A row is inactive after an odd number of toggles, unless two stood between their
\* read of it and their write at once.
THEOREM TogglesCount == Spec => []TogglesAddUp
<1>1. Inductive => TogglesAddUp
  BY DEF Inductive
<1> QED BY <1>1, InductiveInvariant, PTL

\* A column holds what the last patch that named it wrote.
THEOREM LastPatchStands == Spec => []PatchesStand
<1>1. Inductive => PatchesStand
  BY DEF Inductive
<1> QED BY <1>1, InductiveInvariant, PTL

\* A walk misses a row that was there at its start only if one came between the
\* count and the rows of its last page.
THEOREM TornPageAlone == Spec => []MissedOnlyByTornPage
<1>1. Inductive => MissedOnlyByTornPage
  BY DEF Inductive, Behind, MissedOnlyByTornPage
<1> QED BY <1>1, InductiveInvariant, PTL

\* A walk during which no row comes returns the table, each row once and in one order.
THEOREM QuietWalk == Spec => []QuietWalkIsTheTable
<1>1. Inductive => QuietWalkIsTheTable
  BY DEF Inductive, Behind, Quiet, Sorted, QuietWalkIsTheTable
<1> QED BY <1>1, InductiveInvariant, PTL

-----------------------------------------------------------------------------
(* The SLA calculator. *)

\* Multiples that a length falls short of or reaches.
LEMMA DivMod ==
    ASSUME NEW n \in Nat, NEW k \in Nat \ {0}
    PROVE  \E q \in Nat, r \in Nat : q = n \div k /\ r = n % k /\ r < k /\ n = q * k + r
<1>1. PICK q \in Nat : q = n \div k /\ q * k <= n /\ n < q * k + k
  OBVIOUS
<1>2. PICK r \in 0..(k - 1) : n = k * q + r
  <2>1. n - q * k \in 0..(k - 1) /\ q * k = k * q
    BY <1>1
  <2>2. n = k * q + (n - q * k)
    BY <2>1
  <2> QED BY <2>1, <2>2
<1>3. n % k = r
  BY <1>2
<1>4. n = q * k + r /\ r \in Nat /\ r < k
  BY <1>2
<1> HIDE <1>2
<1> QED BY <1>1, <1>3, <1>4, Zenon

LEMMA DivUnique ==
    ASSUME NEW n \in Nat, NEW k \in Nat \ {0}, NEW q \in Nat, q * k <= n, n < q * k + k
    PROVE  n \div k = q
<1> DEFINE d == n \div k
<1>1. d \in Nat /\ d * k <= n /\ n < d * k + k
  OBVIOUS
<1> HIDE DEF d
<1>2. ~(d < q)
  <2> SUFFICES ASSUME d < q PROVE FALSE
    OBVIOUS
  <2>1. PICK j \in Nat : q = d + 1 + j
    <3>1. q - d - 1 \in Nat /\ q = d + 1 + (q - d - 1)
      BY <1>1
    <3> QED BY <3>1
  <2>2. q * k = d * k + k + j * k /\ j * k \in Nat
    BY <1>1, <2>1
  <2> QED BY <1>1, <2>2
<1>3. ~(q < d)
  <2> SUFFICES ASSUME q < d PROVE FALSE
    OBVIOUS
  <2>1. PICK j \in Nat : d = q + 1 + j
    <3>1. d - q - 1 \in Nat /\ d = q + 1 + (d - q - 1)
      BY <1>1
    <3> QED BY <3>1
  <2>2. d * k = q * k + k + j * k /\ j * k \in Nat
    BY <1>1, <2>1
  <2> QED BY <1>1, <2>2
<1> QED BY <1>1, <1>2, <1>3 DEF d

\* A multiple is reached as soon as its multiplier is.
LEMMA DivReaches ==
    ASSUME NEW n \in Nat, NEW k \in Nat \ {0}, NEW q \in Nat
    PROVE  q <= n \div k <=> q * k <= n
<1> DEFINE d == n \div k
<1>1. d \in Nat /\ d * k <= n /\ n < d * k + k
  OBVIOUS
<1> HIDE DEF d
<1>2. ASSUME q <= d PROVE q * k <= n
  <2>1. PICK j \in Nat : d = q + j
    <3>1. d - q \in Nat /\ d = q + (d - q)
      BY <1>1, <1>2
    <3> QED BY <3>1
  <2>2. d * k = q * k + j * k /\ j * k \in Nat
    BY <2>1
  <2> QED BY <1>1, <2>2
<1>3. ASSUME d < q PROVE ~(q * k <= n)
  <2>1. PICK j \in Nat : q = d + 1 + j
    <3>1. q - d - 1 \in Nat /\ q = d + 1 + (q - d - 1)
      BY <1>1, <1>3
    <3> QED BY <3>1
  <2>2. q * k = d * k + k + j * k /\ j * k \in Nat
    BY <1>1, <2>1
  <2> QED BY <1>1, <2>2
<1> QED BY <1>1, <1>2, <1>3 DEF d

-----------------------------------------------------------------------------
HourTicks == Minutes * Tick

LEMMA Units == /\ HourTicks \in Nat \ {0} /\ DayTicks \in Nat \ {0} /\ DayTicks = Hours * HourTicks
               /\ Tick \in Nat \ {0} /\ Minutes \in Nat \ {0} /\ Hours \in Nat \ {0} /\ Days \in Nat \ {0}
               /\ Shift \in Nat
<1>1. /\ Tick \in Nat \ {0} /\ Minutes \in Nat \ {0} /\ Hours \in Nat \ {0} /\ Days \in Nat \ {0}
      /\ Shift \in Nat
  BY UnitAssumption
<1>2. \A a, b \in Nat \ {0} : a * b \in Nat \ {0}
  OBVIOUS
<1>3. \A a, b, d \in Nat \ {0} : a * b * d = a * (b * d)
  OBVIOUS
<1>4. HourTicks \in Nat \ {0} /\ DayTicks = Hours * HourTicks
  BY <1>1, <1>2, <1>3 DEF HourTicks, DayTicks
<1> QED BY <1>1, <1>2, <1>4

\* The day and the hour of a tick, as the ticks they begin and end at.
LEMMA DayAndHour ==
    ASSUME NEW t \in Nat
    PROVE  /\ Day(t) \in Nat /\ HourOfDay(t) \in 0..(Hours - 1)
           /\ Day(t) * DayTicks + HourOfDay(t) * HourTicks <= t + Shift
           /\ t + Shift < Day(t) * DayTicks + HourOfDay(t) * HourTicks + HourTicks
<1>1. PICK L \in Nat : L = t + Shift
  BY Units
<1>2. PICK d \in Nat, r \in Nat : d = L \div DayTicks /\ r = L % DayTicks /\ r < DayTicks /\ L = d * DayTicks + r
  BY <1>1, DivMod, Units
<1>3. PICK h \in Nat, m \in Nat : h = r \div HourTicks /\ m < HourTicks /\ r = h * HourTicks + m
  <2>1. \E h \in Nat, m \in Nat : h = r \div HourTicks /\ m = r % HourTicks /\ m < HourTicks /\ r = h * HourTicks + m
    BY DivMod, Units
  <2> QED BY <2>1
<1>4. Day(t) = d /\ HourOfDay(t) = h
  BY <1>1, <1>2, <1>3 DEF Day, HourOfDay, Local, HourTicks
<1>5. HourOfDay(t) < Hours
  <2>1. Hours <= h <=> Hours * HourTicks <= r
    BY <1>2, <1>3, DivReaches, Units
  <2> QED BY <1>2, <1>4, <2>1, Units
<1>6. d * DayTicks \in Nat /\ h * HourTicks \in Nat
  BY Units
<1>7. d * DayTicks + h * HourTicks <= L /\ L < d * DayTicks + h * HourTicks + HourTicks
  <2> DEFINE x == d * DayTicks
             y == h * HourTicks
  <2>1. x \in Nat /\ y \in Nat /\ L = x + r /\ r = y + m /\ m < HourTicks /\ L \in Nat
    BY <1>2, <1>3, <1>6
  <2> HIDE DEF x, y
  <2>2. x + y <= L /\ L < x + y + HourTicks
    BY <2>1, Units
  <2> QED BY <2>2 DEF x, y
<1>8. t + Shift = L /\ h < Hours
  BY <1>1, <1>4, <1>5
<1>9. h \in 0..(Hours - 1)
  BY <1>8, Units
<1> QED BY <1>4, <1>7, <1>8, <1>9

LEMMA DayIs ==
    ASSUME NEW t \in Nat, NEW d \in Nat, d * DayTicks <= t + Shift, t + Shift < d * DayTicks + DayTicks
    PROVE  d = Day(t)
<1>1. PICK L \in Nat : L = t + Shift
  BY Units
<1>2. L \div DayTicks = d
  BY <1>1, DivUnique, Units
<1> QED BY <1>1, <1>2 DEF Day, Local

LEMMA HourReaches ==
    ASSUME NEW t \in Nat, NEW k \in Nat
    PROVE  Day(t) * DayTicks + k * HourTicks <= t + Shift <=> k <= HourOfDay(t)
<1>1. PICK x \in Nat, h \in Nat, y \in Nat, L \in Nat :
         /\ x = Day(t) * DayTicks /\ h = HourOfDay(t) /\ y = h * HourTicks /\ L = t + Shift
         /\ x + y <= L /\ L < x + y + HourTicks
  <2>1. Day(t) * DayTicks \in Nat /\ HourOfDay(t) \in Nat /\ t + Shift \in Nat
    BY DayAndHour, Units
  <2>2. HourOfDay(t) * HourTicks \in Nat
    BY <2>1, Units
  <2> QED BY <2>1, <2>2, DayAndHour
<1>2. PICK r \in Nat : r = L - x /\ L = x + r
  <2>1. L - x \in Nat /\ L = x + (L - x)
    BY <1>1
  <2> QED BY <2>1
<1>3. y <= r /\ r < y + HourTicks
  BY <1>1, <1>2, Units
<1>4. r \div HourTicks = h
  BY <1>1, <1>3, DivUnique, Units
<1>5. k * HourTicks \in Nat
  BY Units
<1>6. k <= h <=> k * HourTicks <= r
  BY <1>4, DivReaches, Units
<1> DEFINE z == k * HourTicks
<1>7. z \in Nat /\ (k <= h <=> z <= r)
  BY <1>5, <1>6
<1> HIDE DEF z
<1>8. x + z <= L <=> k <= h
  BY <1>2, <1>7
<1> QED BY <1>1, <1>8 DEF z

\* A calendar of the model.
LEMMA CalendarHours ==
    ASSUME NEW c \in Calendars
    PROVE  /\ c.startHour \in 0..Hours /\ c.endHour \in 0..Hours /\ c.midnight \in {0, Hours}
           /\ \A d \in Nat : Opening(d, c) = d * DayTicks + c.startHour * HourTicks - Shift
           /\ \A d \in Nat : Closing(d, c) = d * DayTicks + c.endHour * HourTicks - Shift
<1>1. c.startHour \in 0..Hours /\ c.endHour \in 0..Hours /\ c.midnight \in {0, Hours}
  BY InputAssumption
<1>2. \A a \in Nat : a * Minutes * Tick = a * HourTicks
  <2>1. \A a \in Nat, b, e \in Nat \ {0} : a * b * e = a * (b * e)
    OBVIOUS
  <2> QED BY <2>1, Units DEF HourTicks
<1>3. c.startHour \in Nat /\ c.endHour \in Nat
  BY <1>1, Units
<1>4. c.startHour * Minutes * Tick = c.startHour * HourTicks /\ c.endHour * Minutes * Tick = c.endHour * HourTicks
  BY <1>2, <1>3
<1> QED BY <1>1, <1>4, Zenon DEF Opening, Closing

\* isBusinessMinute is right: it holds at a tick exactly if that lies in the opening times
\* of some working day, less the hour the build calls 24.
THEOREM OpenAt ==
    ASSUME NEW t \in Nat, NEW c \in Calendars, NEW to \in Nat, t < to
    PROVE  IsBusinessMinute(t, c) <=>
             \E d \in 0..((to + Shift) \div DayTicks) :
                /\ d % Days \notin Weekend /\ d \notin c.holidays
                /\ t \in (Opening(d, c)..(Closing(d, c) - 1)) \ Unserved(d, c)
<1>1. PICK L \in Nat, day \in Nat, h \in Nat, x \in Nat :
         /\ L = t + Shift /\ day = Day(t) /\ h = HourOfDay(t) /\ x = day * DayTicks /\ h < Hours
         /\ x <= L
  <2>1. t + Shift \in Nat /\ Day(t) \in Nat /\ HourOfDay(t) \in Nat /\ HourOfDay(t) < Hours
    BY DayAndHour, Units
  <2>2. Day(t) * DayTicks \in Nat /\ HourOfDay(t) * HourTicks \in Nat
    BY <2>1, Units
  <2>3. Day(t) * DayTicks + HourOfDay(t) * HourTicks <= t + Shift
    BY DayAndHour
  <2> DEFINE a == Day(t) * DayTicks
             b == HourOfDay(t) * HourTicks
  <2>4. a \in Nat /\ b \in Nat /\ a + b <= t + Shift
    BY <2>2, <2>3
  <2> HIDE DEF a, b
  <2>5. a <= t + Shift
    BY <2>1, <2>4
  <2> QED BY <2>1, <2>2, <2>5 DEF a
<1>2. /\ c.startHour \in Nat /\ c.endHour \in Nat /\ c.endHour <= Hours /\ c.midnight \in {0, Hours}
      /\ c.startHour <= Hours
  BY CalendarHours, Units
<1>3. /\ c.startHour * HourTicks \in Nat /\ c.endHour * HourTicks \in Nat
      /\ c.endHour * HourTicks <= DayTicks
  <2>1. \A a, b, k \in Nat : a <= b => a * k <= b * k
    <3> SUFFICES ASSUME NEW a \in Nat, NEW b \in Nat, NEW k \in Nat, a <= b PROVE a * k <= b * k
      OBVIOUS
    <3>1. PICK e \in Nat : b = a + e
      <4>1. b - a \in Nat /\ b = a + (b - a)
        OBVIOUS
      <4> QED BY <4>1
    <3>2. b * k = a * k + e * k /\ e * k \in Nat /\ a * k \in Nat
      BY <3>1
    <3> QED BY <3>2
  <2>2. c.endHour * HourTicks <= Hours * HourTicks
    BY <1>2, <2>1, Units
  <2> QED BY <1>2, <2>2, Units
<1>4. ASSUME NEW d \in Nat
      PROVE  t \in (Opening(d, c)..(Closing(d, c) - 1)) \ Unserved(d, c) <=>
               /\ d = day /\ c.startHour <= h /\ h < c.endHour
               /\ c.midnight # 0 => 1 <= h
  <2> DEFINE y == d * DayTicks
             s == c.startHour * HourTicks
             e == c.endHour * HourTicks
  <2>1. y \in Nat /\ s \in Nat /\ e \in Nat /\ e <= DayTicks
    BY <1>3, Units
  <2>2. Opening(d, c) = y + s - Shift /\ Closing(d, c) = y + e - Shift
    BY CalendarHours
  <2>3. Unserved(d, c) = IF c.midnight = 0 THEN {} ELSE (y - Shift)..(y + HourTicks - Shift - 1)
    BY DEF Unserved, HourTicks
  <2>4. d = day => /\ (c.startHour <= h <=> y + s <= L) /\ (c.endHour <= h <=> y + e <= L)
                   /\ (1 <= h <=> y + HourTicks <= L)
    <3>1. /\ day * DayTicks + c.startHour * HourTicks <= L <=> c.startHour <= h
          /\ day * DayTicks + c.endHour * HourTicks <= L <=> c.endHour <= h
          /\ day * DayTicks + 1 * HourTicks <= L <=> 1 <= h
      BY <1>1, <1>2, HourReaches
    <3>2. 1 * HourTicks = HourTicks
      BY Units
    <3> QED BY <3>1, <3>2
  <2>5. y <= L /\ L < y + DayTicks => d = day
    BY <1>1, DayIs
  <2>6. d = day => y <= L
    BY <1>1
  <2> HIDE DEF y, s, e
  <2>7. t \in (Opening(d, c)..(Closing(d, c) - 1)) <=> y + s <= L /\ L < y + e
    BY <1>1, <2>1, <2>2, Units
  <2>8. t \notin Unserved(d, c) <=> (c.midnight # 0 => L < y \/ y + HourTicks <= L)
    BY <1>1, <2>1, <2>3, Units
  <2>9. CASE d = day
    BY <1>1, <1>2, <2>1, <2>4, <2>6, <2>7, <2>8, <2>9, Units
  <2>10. CASE d # day
    <3>1. ~(y + s <= L /\ L < y + e)
      BY <1>1, <2>1, <2>5, <2>10, Units
    <3> QED BY <2>7, <2>10, <3>1
  <2> QED BY <2>9, <2>10
<1>5. IsBusinessMinute(t, c) <=> /\ day % Days \notin Weekend /\ day \notin c.holidays
                                 /\ c.startHour <= h /\ h < c.endHour
                                 /\ c.midnight # 0 => 1 <= h
  BY <1>1, <1>2, Units DEF IsBusinessMinute, Weekday, Hour
<1>6. day \in 0..((to + Shift) \div DayTicks)
  <2>1. PICK n \in Nat : n = to + Shift /\ x <= n
    BY <1>1, Units
  <2>2. day <= n \div DayTicks
    BY <1>1, <2>1, DivReaches, Units
  <2> QED BY <1>1, <2>1, <2>2, Units
<1>7. \A d \in 0..((to + Shift) \div DayTicks) : d \in Nat
  OBVIOUS
<1> QED BY <1>4, <1>5, <1>6, <1>7

-----------------------------------------------------------------------------
\* All ticks of a minute lie in the same hour of the same day.
LEMMA SameHour ==
    ASSUME NEW t \in Nat, NEW u \in Nat, (t + Shift) \div Tick = (u + Shift) \div Tick
    PROVE  Day(t) = Day(u) /\ HourOfDay(t) <= HourOfDay(u)
<1>1. ASSUME NEW n \in Nat PROVE n * Tick <= t + Shift <=> n * Tick <= u + Shift
  <2>1. n <= (t + Shift) \div Tick <=> n * Tick <= t + Shift
    <3>1. t + Shift \in Nat
      BY Units
    <3> QED BY <3>1, DivReaches, Units
  <2>2. n <= (u + Shift) \div Tick <=> n * Tick <= u + Shift
    <3>1. u + Shift \in Nat
      BY Units
    <3> QED BY <3>1, DivReaches, Units
  <2> QED BY <2>1, <2>2
<1>2. \A d, k \in Nat : \E n \in Nat : d * DayTicks + k * HourTicks = n * Tick
  <2> SUFFICES ASSUME NEW d \in Nat, NEW k \in Nat
               PROVE  \E n \in Nat : d * DayTicks + k * HourTicks = n * Tick
    OBVIOUS
  <2>1. \A a, b \in Nat \ {0} : \A e, f \in Nat : /\ e * (a * b) = (e * a) * b /\ e * a \in Nat
                                                   /\ (e + f) * b = e * b + f * b
    OBVIOUS
  <2>2. k * HourTicks = (k * Minutes) * Tick /\ k * Minutes \in Nat
    BY <2>1, Units DEF HourTicks
  <2>3. d * DayTicks = (d * Hours) * HourTicks /\ d * Hours \in Nat
    BY <2>1, Units
  <2>4. (d * Hours) * HourTicks = ((d * Hours) * Minutes) * Tick /\ (d * Hours) * Minutes \in Nat
    BY <2>1, <2>3, Units DEF HourTicks
  <2> DEFINE a == (d * Hours) * Minutes
             b == k * Minutes
  <2>5. a \in Nat /\ b \in Nat /\ d * DayTicks = a * Tick /\ k * HourTicks = b * Tick
    BY <2>2, <2>3, <2>4
  <2> HIDE DEF a, b
  <2>6. (a + b) * Tick = a * Tick + b * Tick /\ a + b \in Nat
    BY <2>1, <2>5, Units
  <2> QED BY <2>5, <2>6
<1>3. \A d, k \in Nat : d * DayTicks + k * HourTicks <= t + Shift <=> d * DayTicks + k * HourTicks <= u + Shift
  <2> SUFFICES ASSUME NEW d \in Nat, NEW k \in Nat
               PROVE  d * DayTicks + k * HourTicks <= t + Shift <=> d * DayTicks + k * HourTicks <= u + Shift
    OBVIOUS
  <2>1. PICK n \in Nat : d * DayTicks + k * HourTicks = n * Tick
    BY <1>2
  <2> QED BY <1>1, <2>1, Zenon
<1>4. PICK d \in Nat, h \in Nat : d = Day(t) /\ h = HourOfDay(t)
  <2>1. Day(t) \in Nat /\ HourOfDay(t) \in Nat
    BY DayAndHour, Units
  <2> QED BY <2>1
<1>5. d = Day(u)
  <2>1. /\ 0 <= HourOfDay(t)
        /\ ~(Hours <= HourOfDay(t))
    BY DayAndHour, Units
  <2>2. /\ d * DayTicks + 0 * HourTicks <= t + Shift
        /\ ~(d * DayTicks + Hours * HourTicks <= t + Shift)
    BY <1>4, <2>1, HourReaches, Units
  <2>3. /\ d * DayTicks + 0 * HourTicks <= u + Shift
        /\ ~(d * DayTicks + Hours * HourTicks <= u + Shift)
    BY <1>3, <2>2, Units
  <2> DEFINE x == d * DayTicks
  <2>4. 0 * HourTicks = 0 /\ Hours * HourTicks = DayTicks /\ x \in Nat
    BY Units
  <2>5. x + 0 <= u + Shift /\ ~(x + DayTicks <= u + Shift)
    BY <2>3, <2>4
  <2> HIDE DEF x
  <2>6. x <= u + Shift /\ u + Shift < x + DayTicks
    BY <2>4, <2>5, Units
  <2> QED BY <2>6, DayIs DEF x
<1>6. d * DayTicks + h * HourTicks <= t + Shift
  BY <1>4, DayAndHour
<1>7. d * DayTicks + h * HourTicks <= u + Shift
  BY <1>3, <1>6
<1>8. h <= HourOfDay(u)
  BY <1>5, <1>7, HourReaches
<1> QED BY <1>4, <1>5, <1>8

LEMMA SameMinute ==
    ASSUME NEW t \in Nat, NEW u \in Nat, (t + Shift) \div Tick = (u + Shift) \div Tick, NEW c
    PROVE  IsBusinessMinute(t, c) <=> IsBusinessMinute(u, c)
<1>1. Day(t) = Day(u) /\ HourOfDay(t) = HourOfDay(u)
  <2>1. HourOfDay(t) \in Nat /\ HourOfDay(u) \in Nat
    BY DayAndHour, Units
  <2> QED BY <2>1, SameHour
<1> QED BY <1>1, Zenon DEF IsBusinessMinute, Weekday, Hour

-----------------------------------------------------------------------------
IsOpen(t) == IsBusinessMinute(t, calendar)

LEMMA OpenTicksAre ==
    ASSUME calendar \in Calendars, NEW a \in Nat, NEW b \in Nat
    PROVE  OpenTicks(calendar, a, b) = {t \in a..(b - 1) : IsOpen(t)}
<1>1. ASSUME NEW t \in a..(b - 1)
      PROVE  IsOpen(t) <=> \E d \in 0..((b + Shift) \div DayTicks) :
                              /\ d % Days \notin Weekend /\ d \notin calendar.holidays
                              /\ t \in (Opening(d, calendar)..(Closing(d, calendar) - 1)) \ Unserved(d, calendar)
  <2>1. t \in Nat /\ t < b
    OBVIOUS
  <2> QED BY <2>1, OpenAt DEF IsOpen
<1> QED BY <1>1 DEF OpenTicks

\* Opening time adds up, and is at most the time that passes.
LEMMA OpenCounts ==
    ASSUME calendar \in Calendars, NEW a \in Nat, NEW b \in Nat, a <= b
    PROVE  /\ Open(a, b) \in Nat /\ Open(a, b) <= b - a
           /\ \A e \in Nat : b <= e => Open(a, e) = Open(a, b) + Open(b, e)
           /\ (\A t \in a..(b - 1) : IsOpen(t)) => Open(a, b) = b - a
           /\ (\A t \in a..(b - 1) : ~IsOpen(t)) => Open(a, b) = 0
<1> DEFINE S(x, y) == {t \in x..(y - 1) : IsOpen(t)}
<1>1. \A x, y \in Nat : Open(x, y) = Cardinality(S(x, y))
  BY OpenTicksAre DEF Open
<1>2. \A x, y \in Nat : IsFiniteSet(x..(y - 1)) /\ Cardinality(x..(y - 1)) = IF x <= y THEN y - x ELSE 0
  <2> SUFFICES ASSUME NEW x \in Nat, NEW y \in Nat
               PROVE  IsFiniteSet(x..(y - 1)) /\ Cardinality(x..(y - 1)) = IF x <= y THEN y - x ELSE 0
    OBVIOUS
  <2>1. x \in Int /\ y - 1 \in Int
    OBVIOUS
  <2>2. IsFiniteSet(x..(y - 1)) /\ Cardinality(x..(y - 1)) = IF x > y - 1 THEN 0 ELSE (y - 1) - x + 1
    BY <2>1, FS_Interval
  <2> QED BY <2>2
<1>3. \A x, y \in Nat : S(x, y) \in SUBSET (x..(y - 1)) /\ IsFiniteSet(S(x, y)) /\ Cardinality(S(x, y)) \in Nat
  <2> SUFFICES ASSUME NEW x \in Nat, NEW y \in Nat
               PROVE  S(x, y) \in SUBSET (x..(y - 1)) /\ IsFiniteSet(S(x, y)) /\ Cardinality(S(x, y)) \in Nat
    OBVIOUS
  <2>1. S(x, y) \in SUBSET (x..(y - 1))
    OBVIOUS
  <2> HIDE DEF S
  <2>2. IsFiniteSet(S(x, y))
    BY <1>2, <2>1, FS_Subset
  <2> QED BY <2>1, <2>2, FS_CardinalityType
<1>4. Open(a, b) \in Nat /\ Open(a, b) <= b - a
  <2>1. Cardinality(S(a, b)) <= Cardinality(a..(b - 1))
    BY <1>2, <1>3, FS_Subset
  <2> QED BY <1>1, <1>2, <1>3, <2>1
<1>5. ASSUME NEW e \in Nat, b <= e PROVE Open(a, e) = Open(a, b) + Open(b, e)
  <2>1. S(a, e) = S(a, b) \cup S(b, e) /\ S(a, b) \cap S(b, e) = {}
    BY <1>5
  <2>2. Cardinality(S(a, e)) = Cardinality(S(a, b)) + Cardinality(S(b, e)) - Cardinality({})
    BY <1>3, <2>1, FS_Union
  <2>3. Cardinality({}) = 0
    BY FS_EmptySet
  <2> HIDE DEF S
  <2>4. /\ Open(a, e) = Cardinality(S(a, e)) /\ Open(a, b) = Cardinality(S(a, b)) /\ Open(b, e) = Cardinality(S(b, e))
        /\ Cardinality(S(a, b)) \in Nat /\ Cardinality(S(b, e)) \in Nat
    BY <1>1, <1>3, <1>5
  <2> QED BY <2>2, <2>3, <2>4
<1>6. (\A t \in a..(b - 1) : IsOpen(t)) => Open(a, b) = b - a
  <2> SUFFICES ASSUME \A t \in a..(b - 1) : IsOpen(t) PROVE Open(a, b) = b - a
    OBVIOUS
  <2>1. S(a, b) = a..(b - 1)
    OBVIOUS
  <2> QED BY <1>1, <1>2, <2>1
<1>7. (\A t \in a..(b - 1) : ~IsOpen(t)) => Open(a, b) = 0
  <2> SUFFICES ASSUME \A t \in a..(b - 1) : ~IsOpen(t) PROVE Open(a, b) = 0
    OBVIOUS
  <2>1. S(a, b) = {}
    OBVIOUS
  <2> QED BY <1>1, <2>1, FS_EmptySet
<1> QED BY <1>4, <1>5, <1>6, <1>7

\* The ticks left of the minute the ticket was created in, and how many of them the
\* business is open if the walk stands at t.
Rest == Tick - ((start + Shift) % Tick)
Left(t) == IF IsOpen(t) THEN Rest ELSE 0
Sample(t) == IF IsOpen(t) THEN Tick ELSE 0

LEMMA RestType ==
    ASSUME start \in Nat
    PROVE  /\ Rest \in 1..Tick
           /\ \A t : Left(t) \in 0..Rest /\ Sample(t) \in {0, Tick}
           /\ \E q \in Nat, f \in Nat : Rest = Tick - f /\ f < Tick /\ start + Shift = q * Tick + f
<1>1. start + Shift \in Nat
  BY Units
<1>2. PICK q \in Nat, f \in Nat : f = (start + Shift) % Tick /\ f < Tick /\ start + Shift = q * Tick + f
  <2>1. \E q \in Nat, f \in Nat : q = (start + Shift) \div Tick /\ f = (start + Shift) % Tick /\ f < Tick
                                /\ start + Shift = q * Tick + f
    BY <1>1, DivMod, Units
  <2> QED BY <2>1
<1>3. Rest = Tick - f
  BY <1>2 DEF Rest
<1>4. Rest \in 1..Tick
  BY <1>2, <1>3, Units
<1>5. \A t : Left(t) \in 0..Rest /\ Sample(t) \in {0, Tick}
  BY <1>4, Units DEF Left, Sample
<1> QED BY <1>2, <1>3, <1>4, <1>5

\* What a turn of a loop walks over: the rest of a minute and the beginning of the next.
LEMMA TurnCounts ==
    ASSUME calendar \in Calendars, start \in Nat, NEW k \in Nat, NEW u \in Nat, u = start + k * Tick
    PROVE  Open(u, u + Rest) = Left(u) /\ Open(u, u + Tick) + Left(u + Tick) = Left(u) + Sample(u + Tick)
<1>1. PICK q \in Nat, f \in Nat : Rest = Tick - f /\ f < Tick /\ start + Shift = q * Tick + f
  BY RestType
<1>2. Rest = Tick - f /\ Rest \in 1..Tick
  BY <1>1, RestType
<1> DEFINE m == q + k
           x == m * Tick
<1>3. /\ m \in Nat /\ x \in Nat /\ (m + 1) * Tick = x + Tick
      /\ u + Shift = x + f
  <2>1. m \in Nat /\ m * Tick = q * Tick + k * Tick /\ (m + 1) * Tick = m * Tick + Tick
        /\ q * Tick \in Nat /\ k * Tick \in Nat /\ m * Tick \in Nat
    BY Units
  <2> DEFINE a == q * Tick
             b == k * Tick
  <2>2. a \in Nat /\ b \in Nat /\ x = a + b /\ start + Shift = a + f /\ u = start + b
    BY <1>1, <2>1
  <2>3. u + Shift = x + f
    <3> HIDE DEF a, b, x
    <3> QED BY <2>2, Units
  <2> QED BY <2>1, <2>3
<1>4. \A n \in Nat : x <= n /\ n < x + Tick => n \div Tick = m
  BY <1>3, DivUnique, Units
<1>5. \A n \in Nat : x + Tick <= n /\ n < x + Tick + Tick => n \div Tick = m + 1
  <2>1. m + 1 \in Nat
    BY <1>3
  <2> DEFINE y == (m + 1) * Tick
  <2>2. \A n \in Nat : y <= n /\ n < y + Tick => n \div Tick = m + 1
    BY <2>1, DivUnique, Units
  <2>3. y = x + Tick
    BY <1>3
  <2> HIDE DEF x, y
  <2> QED BY <2>2, <2>3
<1> HIDE DEF m, x
<1>6. \A t \in u..(u + Rest - 1) : IsOpen(t) <=> IsOpen(u)
  <2> SUFFICES ASSUME NEW t \in u..(u + Rest - 1) PROVE IsOpen(t) <=> IsOpen(u)
    OBVIOUS
  <2>1. /\ t \in Nat /\ t + Shift \in Nat /\ u + Shift \in Nat
        /\ x <= t + Shift /\ t + Shift < x + Tick /\ x <= u + Shift /\ u + Shift < x + Tick
    BY <1>1, <1>2, <1>3, Units
  <2>2. (t + Shift) \div Tick = (u + Shift) \div Tick
    BY <1>4, <2>1
  <2> QED BY <2>1, <2>2, SameMinute DEF IsOpen
<1>7. \A t \in (u + Rest)..(u + Tick - 1) : IsOpen(t) <=> IsOpen(u + Tick)
  <2> SUFFICES ASSUME NEW t \in (u + Rest)..(u + Tick - 1) PROVE IsOpen(t) <=> IsOpen(u + Tick)
    OBVIOUS
  <2>1. /\ t \in Nat /\ t + Shift \in Nat /\ u + Tick + Shift \in Nat /\ u + Tick \in Nat
        /\ x + Tick <= t + Shift /\ t + Shift < x + Tick + Tick
        /\ x + Tick <= u + Tick + Shift /\ u + Tick + Shift < x + Tick + Tick
    BY <1>1, <1>2, <1>3, Units
  <2>2. (t + Shift) \div Tick = (u + Tick + Shift) \div Tick
    BY <1>5, <2>1
  <2> QED BY <2>1, <2>2, SameMinute DEF IsOpen
<1>8. PICK v \in Nat, w \in Nat : v = u + Rest /\ w = u + Tick /\ u <= v /\ v <= w
  <2>1. u + Rest \in Nat /\ u + Tick \in Nat /\ u <= u + Rest /\ u + Rest <= u + Tick
    BY <1>2, Units
  <2> QED BY <2>1
<1>9. Open(u, v) = Left(u)
  <2>1. /\ (\A t \in u..(v - 1) : IsOpen(t)) => Open(u, v) = v - u
        /\ (\A t \in u..(v - 1) : ~IsOpen(t)) => Open(u, v) = 0
    BY <1>8, OpenCounts
  <2> QED BY <1>2, <1>6, <1>8, <2>1, Units DEF Left
<1>10. Open(v, w) = IF IsOpen(w) THEN Tick - Rest ELSE 0
  <2>1. /\ (\A t \in v..(w - 1) : IsOpen(t)) => Open(v, w) = w - v
        /\ (\A t \in v..(w - 1) : ~IsOpen(t)) => Open(v, w) = 0
    BY <1>8, OpenCounts
  <2> QED BY <1>2, <1>7, <1>8, <2>1, Units
<1>11. Open(u, w) = Open(u, v) + Open(v, w)
  BY <1>8, OpenCounts
<1> QED BY <1>2, <1>8, <1>9, <1>10, <1>11, Units DEF Left, Sample

-----------------------------------------------------------------------------
LEMMA SlaInputs == SlaTypeOK => /\ start \in Nat /\ slaHours \in Nat /\ calendar \in Calendars
                                /\ Total \in Nat /\ slaHours * Minutes \in Nat
<1> SUFFICES ASSUME SlaTypeOK
             PROVE  /\ start \in Nat /\ slaHours \in Nat /\ calendar \in Calendars
                    /\ Total \in Nat /\ slaHours * Minutes \in Nat
  OBVIOUS
<1>1. start \in Nat /\ slaHours \in Nat /\ calendar \in Calendars
  BY InputAssumption DEF SlaTypeOK
<1>2. \A a, b \in Nat : a * b \in Nat
  OBVIOUS
<1>3. slaHours * Minutes \in Nat
  BY <1>1, <1>2, Units
<1>4. Total \in Nat
  <2>1. (slaHours * Minutes) * Tick \in Nat
    BY <1>2, <1>3, Units
  <2> QED BY <2>1 DEF Total
<1> QED BY <1>1, <1>3, <1>4

LEMMA SlaTypeInit == SlaInit => SlaTypeOK
<1> SUFFICES ASSUME SlaInit PROVE SlaTypeOK
  OBVIOUS
<1>1. start \in Nat /\ slaHours \in Nat
  BY InputAssumption DEF SlaInit
<1>2. slaHours * Minutes \in Nat
  <2>1. \A a, b \in Nat : a * b \in Nat
    OBVIOUS
  <2> QED BY <1>1, <2>1, Units
<1> QED BY <1>1, <1>2 DEF SlaInit, SlaTypeOK

LEMMA SlaTypeNext == SlaTypeOK /\ [SlaNext]_SlaVars => SlaTypeOK'
<1> SUFFICES ASSUME SlaTypeOK, [SlaNext]_SlaVars PROVE SlaTypeOK'
  OBVIOUS
<1> USE DEF SlaTypeOK, input, result
<1>1. CASE AddMinute
  BY <1>1, Units DEF AddMinute
<1>2. CASE AddReturns
  BY <1>2 DEF AddReturns
<1>3. CASE SlaStatus
  <2>1. PICK d \in Delays, p \in Pauses : now' = deadline + d /\ pause' = p
    BY <1>3 DEF SlaStatus
  <2>2. d \in Int /\ p.after \in Nat /\ p.length \in Nat /\ start \in Nat
    BY InputAssumption
  <2> QED BY <1>3, <2>1, <2>2 DEF SlaStatus
<1>4. CASE MeasureMinute
  BY <1>4, Units DEF MeasureMinute
<1>5. CASE Compare
  <2>1. effective' \in Nat
    BY <1>5 DEF Compare, LessPause
  <2>2. status' \in {"OK", "AT_RISK", "BREACHED"}
    BY <1>5 DEF Compare, StatusOf
  <2> QED BY <1>5, <2>1, <2>2 DEF Compare
<1>6. CASE UNCHANGED SlaVars
  BY <1>6 DEF SlaVars
<1> QED BY <1>1, <1>2, <1>3, <1>4, <1>5, <1>6 DEF SlaNext

\* Both loops step in whole minutes from the creation, and count the minutes that are
\* open where they arrive.  What they have counted is off from the open time behind them
\* by the minute of the creation alone: its rest counts if the walk stands in an open
\* minute, instead of if the creation did.
OnGrid(t) == \E k \in Nat : t = start + k * Tick
Counted(t, n) == OnGrid(t) /\ Open(start, t) + Left(t) = n + Left(start)

Adding ==
    stage = "add" => /\ Counted(cursor, Total - remaining * Tick)
                     /\ remaining = 0 /\ slaHours > 0 => IsOpen(cursor)
Added ==
    stage # "add" => /\ Counted(deadline, Total)
                     /\ slaHours > 0 => IsOpen(deadline)
Measuring ==
    stage \in {"measure", "done"} =>
        /\ Counted(cursor, seconds)
        /\ cursor = start \/ cursor < now + Tick
        /\ PausedTo <= now
Measured ==
    stage = "done" => /\ cursor >= now
                      /\ effective = LessPause(seconds, pause.length)
                      /\ status = StatusOf(effective)

LEMMA CountedStart == ASSUME SlaTypeOK PROVE Counted(start, 0)
<1>1. start \in Nat
  BY SlaInputs
<1>2. OnGrid(start)
  <2>1. start = start + 0 * Tick
    BY <1>1, Units
  <2> QED BY <2>1 DEF OnGrid
<1>3. Open(start, start) = 0
  <2>1. Open(start, start) \in Nat /\ Open(start, start) <= start - start
    <3>1. start <= start /\ calendar \in Calendars
      BY <1>1, SlaInputs
    <3> QED BY <1>1, <3>1, OpenCounts
  <2> QED BY <1>1, <2>1
<1>4. Left(start) \in Nat
  BY <1>1, RestType
<1> QED BY <1>2, <1>3, <1>4 DEF Counted

LEMMA CountedTurn ==
    ASSUME SlaTypeOK, NEW t \in Nat, NEW n \in Int, Counted(t, n)
    PROVE  Counted(t + Tick, n + Sample(t + Tick)) /\ start <= t
<1>1. start \in Nat /\ calendar \in Calendars
  BY SlaInputs
<1>2. PICK k \in Nat : t = start + k * Tick
  BY DEF Counted, OnGrid
<1>3. PICK u \in Nat : u = t + Tick /\ t <= u
  BY Units
<1>4. k * Tick \in Nat /\ (k + 1) * Tick = k * Tick + Tick
  BY Units
<1>5. OnGrid(u) /\ start <= t
  <2> DEFINE x == k * Tick
             y == (k + 1) * Tick
  <2>1. t = start + x /\ x \in Nat /\ y = x + Tick
    BY <1>2, <1>4
  <2>2. u = start + y /\ start <= t
    <3> HIDE DEF x, y
    <3> QED BY <1>1, <1>3, <2>1, Units
  <2> QED BY <2>2 DEF OnGrid
<1>6. Open(t, u) + Left(u) = Left(t) + Sample(u)
  BY <1>1, <1>2, <1>3, TurnCounts
<1>7. Open(start, u) = Open(start, t) + Open(t, u) /\ Open(start, t) \in Nat
  BY <1>1, <1>3, <1>5, OpenCounts
<1>8. Open(t, u) \in Nat
  BY <1>1, <1>3, OpenCounts
<1>9. Left(t) \in Nat /\ Left(u) \in Nat /\ Left(start) \in Nat /\ Sample(u) \in Nat
  BY <1>1, RestType, Units
<1>10. Open(start, t) + Left(t) = n + Left(start)
  BY DEF Counted
<1>11. Open(start, u) + Left(u) = n + Sample(u) + Left(start)
  BY <1>6, <1>7, <1>8, <1>9, <1>10
<1> QED BY <1>3, <1>5, <1>11 DEF Counted

SlaInductive == SlaTypeOK /\ Adding /\ Added /\ Measuring /\ Measured

LEMMA SlaInductiveInit == SlaInit => SlaInductive
<1> SUFFICES ASSUME SlaInit PROVE SlaInductive
  OBVIOUS
<1>1. SlaTypeOK
  BY SlaTypeInit
<1>2. Counted(start, 0) /\ slaHours \in Nat /\ Total \in Nat
  BY <1>1, CountedStart, SlaInputs
<1>3. cursor = start /\ remaining = slaHours * Minutes /\ stage = "add"
  BY DEF SlaInit
<1>4. Total - remaining * Tick = 0
  BY <1>2, <1>3 DEF Total
<1>5. slaHours > 0 => remaining # 0
  <2>1. \A a, b \in Nat \ {0} : a * b # 0
    OBVIOUS
  <2> QED BY <1>2, <1>3, <2>1, Units
<1>6. Counted(cursor, Total - remaining * Tick)
  BY <1>2, <1>3, <1>4
<1>7. Adding
  BY <1>5, <1>6 DEF Adding
<1> QED BY <1>1, <1>3, <1>7 DEF SlaInductive, Added, Measuring, Measured

LEMMA SlaInductiveNext == SlaInductive /\ [SlaNext]_SlaVars => SlaInductive'
<1> SUFFICES ASSUME SlaInductive, [SlaNext]_SlaVars PROVE SlaInductive'
  OBVIOUS
<1>1. SlaTypeOK /\ SlaTypeOK' /\ Adding /\ Added /\ Measuring /\ Measured
  BY SlaTypeNext DEF SlaInductive
<1>2. start \in Nat /\ slaHours \in Nat /\ Total \in Nat /\ cursor \in Nat /\ remaining \in Nat /\ seconds \in Nat
      /\ deadline \in Nat /\ now \in Int
  BY <1>1, SlaInputs DEF SlaTypeOK
<1>3. UNCHANGED <<calendar, start, slaHours>> /\ Total' = Total
  BY DEF SlaNext, AddMinute, AddReturns, SlaStatus, MeasureMinute, Compare, SlaVars, input, Total
<1>5. CASE AddMinute
  <2>1. stage = "add" /\ stage' = "add" /\ cursor' = cursor + Tick /\ remaining > 0
        /\ remaining' = IF IsOpen(cursor + Tick) THEN remaining - 1 ELSE remaining
    BY <1>5 DEF AddMinute, IsOpen
  <2>2. remaining * Tick \in Nat /\ (remaining - 1) * Tick = remaining * Tick - Tick
    <3>1. PICK m \in Nat : remaining = m + 1 /\ remaining - 1 = m
      <4>1. remaining - 1 \in Nat /\ remaining = (remaining - 1) + 1
        BY <1>2, <2>1
      <4> QED BY <4>1
    <3>2. (m + 1) * Tick = m * Tick + Tick /\ m * Tick \in Nat
      BY Units
    <3> DEFINE x == m * Tick
               y == (m + 1) * Tick
    <3>3. y = x + Tick /\ x \in Nat
      BY <3>2
    <3>4. remaining * Tick = y /\ (remaining - 1) * Tick = x
      BY <3>1
    <3> HIDE DEF x, y
    <3> QED BY <3>3, <3>4, Units
  <2>3. Total - remaining' * Tick = Total - remaining * Tick + Sample(cursor + Tick)
    <3> DEFINE x == remaining * Tick
               y == (remaining - 1) * Tick
    <3>1. x \in Nat /\ y = x - Tick /\ remaining' * Tick = IF IsOpen(cursor + Tick) THEN y ELSE x
      BY <2>1, <2>2
    <3> HIDE DEF x, y
    <3>2. Total - remaining' * Tick = Total - x + Sample(cursor + Tick)
      BY <1>2, <3>1, Units DEF Sample
    <3> QED BY <3>2 DEF x
  <2>4. Counted(cursor, Total - remaining * Tick) /\ Total - remaining * Tick \in Int
    BY <1>1, <1>2, <2>1, <2>2 DEF Adding
  <2>5. Counted(cursor + Tick, Total - remaining' * Tick)
    BY <1>1, <1>2, <2>3, <2>4, CountedTurn
  <2>6. Counted(cursor, Total - remaining * Tick)'
    BY <1>3, <2>1, <2>5 DEF Counted, OnGrid, Open, Left, Rest, IsOpen
  <2>7. remaining' = 0 => IsOpen(cursor)'
    BY <1>2, <1>3, <2>1 DEF IsOpen
  <2> QED BY <1>1, <2>1, <2>6, <2>7 DEF SlaInductive, Adding, Added, Measuring, Measured
<1>6. CASE AddReturns
  <2>1. stage = "add" /\ stage' = "wait" /\ remaining = 0 /\ deadline' = cursor
    BY <1>2, <1>6 DEF AddReturns
  <2>2. Counted(cursor, Total) /\ (slaHours > 0 => IsOpen(cursor))
    <3>1. Total - remaining * Tick = Total
      BY <1>2, <2>1, Units
    <3> QED BY <1>1, <2>1, <3>1 DEF Adding
  <2>3. Counted(deadline, Total)' /\ (slaHours' > 0 => IsOpen(deadline)')
    BY <1>3, <2>1, <2>2 DEF Counted, OnGrid, Open, Left, Rest, IsOpen
  <2> QED BY <1>1, <2>1, <2>3 DEF SlaInductive, Adding, Added, Measuring, Measured
<1>7. ASSUME stage # "add", UNCHANGED deadline PROVE Counted(deadline, Total)' /\ (slaHours' > 0 => IsOpen(deadline)')
  <2>1. Counted(deadline, Total) /\ (slaHours > 0 => IsOpen(deadline))
    BY <1>1, <1>7 DEF Added
  <2> QED BY <1>3, <1>7, <2>1 DEF Counted, OnGrid, Open, Left, Rest, IsOpen
<1>8. CASE SlaStatus
  <2>1. /\ stage = "wait" /\ stage' = "measure" /\ cursor' = start /\ seconds' = 0 /\ UNCHANGED deadline
        /\ PausedTo' <= now'
    <3>1. PICK d \in Delays, p \in Pauses :
             deadline + d >= start + p.after + p.length /\ now' = deadline + d /\ pause' = p
      BY <1>8 DEF SlaStatus
    <3>2. d \in Int /\ p.after \in Nat /\ p.length \in Nat
      BY InputAssumption
    <3>3. PausedTo' <= now'
      BY <1>2, <1>3, <3>1, <3>2 DEF PausedTo, PausedFrom
    <3> QED BY <1>8, <3>3 DEF SlaStatus
  <2>2. Counted(cursor, seconds)'
    <3>1. Counted(start, 0)
      BY <1>1, CountedStart
    <3> QED BY <1>3, <2>1, <3>1 DEF Counted, OnGrid, Open, Left, Rest, IsOpen
  <2>3. Measuring'
    BY <1>3, <2>1, <2>2 DEF Measuring
  <2> QED BY <1>1, <1>7, <2>1, <2>3 DEF SlaInductive, Adding, Added, Measured
<1>9. CASE MeasureMinute
  <2>1. /\ stage = "measure" /\ stage' = "measure" /\ cursor' = cursor + Tick /\ cursor < now
        /\ UNCHANGED <<deadline, now, pause>>
        /\ seconds' = IF IsOpen(cursor + Tick) THEN seconds + Tick ELSE seconds
    BY <1>9 DEF MeasureMinute, IsOpen, result
  <2>2. Counted(cursor, seconds) /\ PausedTo <= now
    BY <1>1, <2>1 DEF Measuring
  <2>3. seconds + Sample(cursor + Tick) = seconds'
    BY <1>2, <2>1, Units DEF Sample
  <2>4. Counted(cursor + Tick, seconds')
    <3>1. Counted(cursor + Tick, seconds + Sample(cursor + Tick))
      BY <1>1, <1>2, <2>2, CountedTurn
    <3> QED BY <2>3, <3>1
  <2>5. Counted(cursor, seconds)'
    BY <1>3, <2>1, <2>4 DEF Counted, OnGrid, Open, Left, Rest, IsOpen
  <2>6. cursor' < now' + Tick
    BY <1>2, <2>1, Units
  <2>7. Measuring'
    BY <1>3, <2>1, <2>2, <2>5, <2>6 DEF Measuring, PausedTo, PausedFrom
  <2> QED BY <1>1, <1>7, <2>1, <2>7 DEF SlaInductive, Adding, Added, Measured
<1>10. CASE Compare
  <2>1. /\ stage = "measure" /\ stage' = "done" /\ cursor >= now
        /\ UNCHANGED <<cursor, seconds, deadline, now, pause>>
        /\ effective' = LessPause(seconds, pause.length) /\ status' = StatusOf(effective')
    BY <1>10 DEF Compare
  <2>2. Counted(cursor, seconds) /\ PausedTo <= now /\ (cursor = start \/ cursor < now + Tick)
    BY <1>1, <2>1 DEF Measuring
  <2>3. Counted(cursor, seconds)'
    BY <1>3, <2>1, <2>2 DEF Counted, OnGrid, Open, Left, Rest, IsOpen
  <2>4. Measuring'
    BY <1>3, <2>1, <2>2, <2>3 DEF Measuring, PausedTo, PausedFrom
  <2>5. Measured'
    BY <1>3, <2>1 DEF Measured, StatusOf
  <2> QED BY <1>1, <1>7, <2>1, <2>4, <2>5 DEF SlaInductive, Adding, Added
<1>11. CASE UNCHANGED SlaVars
  BY <1>1, <1>11 DEF SlaVars, input, result, SlaInductive, Adding, Added, Measuring, Measured, Counted, OnGrid, Open,
     Left, Rest, IsOpen, PausedTo, PausedFrom, Total, StatusOf
<1> QED BY <1>5, <1>6, <1>8, <1>9, <1>10, <1>11 DEF SlaNext

LEMMA OpenAdds ==
    ASSUME calendar \in Calendars, NEW a \in Nat, NEW b \in Nat, NEW e \in Nat, a <= b, b <= e
    PROVE  Open(a, e) = Open(a, b) + Open(b, e)
BY OpenCounts

LEMMA SlaInductiveInvariant == SlaSpec => []SlaInductive
<1>1. SlaInit => SlaInductive
  BY SlaInductiveInit
<1>2. SlaInductive /\ [SlaNext]_SlaVars => SlaInductive'
  BY SlaInductiveNext
<1> QED BY <1>1, <1>2, PTL DEF SlaSpec

\* Every variable of the calculator keeps its shape, for any units, calendars and inputs.
THEOREM SlaTypeCorrect == SlaSpec => []SlaTypeOK
<1>1. SlaInductive => SlaTypeOK
  BY DEF SlaInductive
<1> QED BY <1>1, SlaInductiveInvariant, PTL

-----------------------------------------------------------------------------
LEMMA GridAfter == ASSUME SlaTypeOK, NEW t \in Nat, OnGrid(t) PROVE start <= t
<1>1. PICK k \in Nat : t = start + k * Tick
  BY DEF OnGrid
<1>2. k * Tick \in Nat
  BY Units
<1> DEFINE x == k * Tick
<1>3. x \in Nat /\ t = start + x
  BY <1>1, <1>2
<1> HIDE DEF x
<1> QED BY <1>3, SlaInputs

\* What the loops count is what is open behind them, but for the minute of the creation.
LEMMA CountedIs ==
    ASSUME SlaTypeOK, NEW t \in Nat, NEW n \in Int, Counted(t, n)
    PROVE  /\ start <= t /\ Open(start, t) \in Nat
           /\ Open(start, t) + Left(t) = n + Left(start)
           /\ Left(t) \in 0..Rest /\ Left(start) \in 0..Rest /\ Rest \in 1..Tick
<1>1. start \in Nat /\ calendar \in Calendars
  BY SlaInputs
<1>2. start <= t
  BY GridAfter DEF Counted
<1>3. Open(start, t) \in Nat
  BY <1>1, <1>2, OpenCounts
<1> QED BY <1>1, <1>2, <1>3, RestType DEF Counted

\* Of two walks from one creation the one behind is a minute behind or more, and has the
\* open rest of its minute still before it.
LEMMA WalkBehind ==
    ASSUME SlaTypeOK, NEW t \in Nat, NEW u \in Nat, OnGrid(t), OnGrid(u), t < u
    PROVE  t + Tick <= u /\ Open(t, u) >= Left(t)
<1>1. start \in Nat /\ calendar \in Calendars
  BY SlaInputs
<1>2. PICK k \in Nat : t = start + k * Tick
  BY DEF OnGrid
<1>3. PICK l \in Nat : u = start + l * Tick
  BY DEF OnGrid
<1>4. k < l
  <2> SUFFICES ASSUME l <= k PROVE FALSE
    OBVIOUS
  <2>1. PICK j \in Nat : k = l + j
    <3>1. k - l \in Nat /\ k = l + (k - l)
      OBVIOUS
    <3> QED BY <3>1
  <2>2. k * Tick = l * Tick + j * Tick /\ l * Tick \in Nat /\ j * Tick \in Nat
    BY <2>1, Units
  <2> DEFINE x == k * Tick
             y == l * Tick
             z == j * Tick
  <2>3. x = y + z /\ y \in Nat /\ z \in Nat /\ t = start + x /\ u = start + y
    BY <1>2, <1>3, <2>2
  <2> HIDE DEF x, y, z
  <2> QED BY <1>1, <2>3
<1>5. t + Tick <= u
  <2>1. PICK j \in Nat : l = k + 1 + j
    <3>1. l - k - 1 \in Nat /\ l = k + 1 + (l - k - 1)
      BY <1>4
    <3> QED BY <3>1
  <2>2. l * Tick = k * Tick + Tick + j * Tick /\ k * Tick \in Nat /\ j * Tick \in Nat
    BY <2>1, Units
  <2> DEFINE x == k * Tick
             y == l * Tick
             z == j * Tick
  <2>3. y = x + Tick + z /\ x \in Nat /\ z \in Nat /\ t = start + x /\ u = start + y
    BY <1>2, <1>3, <2>2
  <2> HIDE DEF x, y, z
  <2> QED BY <1>1, <2>3, Units
<1>6. PICK v \in Nat : v = t + Rest /\ t <= v /\ v <= u
  <2>1. Rest \in 1..Tick
    BY <1>1, RestType
  <2>2. t + Rest \in Nat /\ t <= t + Rest /\ t + Rest <= u
    BY <1>5, <2>1, Units
  <2> QED BY <2>2
<1>7. Open(t, v) = Left(t)
  BY <1>1, <1>2, <1>6, TurnCounts
<1>8. Open(t, u) = Open(t, v) + Open(v, u) /\ Open(v, u) \in Nat /\ Open(t, v) \in Nat
  BY <1>1, <1>6, OpenCounts
<1> QED BY <1>5, <1>7, <1>8

\* addBusinessHours: wherever the ticket is created, and whatever nights, weekends and
\* holidays lie in between, the business is open at the deadline, and has been since the
\* creation for the total, or up to a minute less.
THEOREM DeadlineFallsInOpenTime == SlaSpec => []DeadlineInOpenTime
<1>1. SlaInductive => DeadlineInOpenTime
  <2> SUFFICES ASSUME SlaInductive, stage # "add", slaHours > 0
               PROVE  /\ Open(deadline, deadline + 1) = 1
                      /\ Open(start, deadline) \in (Total - Tick)..Total
    BY DEF DeadlineInOpenTime
  <2>1. SlaTypeOK /\ Counted(deadline, Total) /\ IsOpen(deadline)
    BY DEF SlaInductive, Added
  <2>2. deadline \in Nat /\ calendar \in Calendars /\ Total \in Nat
    BY <2>1, SlaInputs DEF SlaTypeOK
  <2>3. Open(deadline, deadline + 1) = 1
    <3>1. PICK e \in Nat : e = deadline + 1
      BY <2>2
    <3>2. \A t \in deadline..(e - 1) : IsOpen(t)
      <4>1. \A t \in deadline..(e - 1) : t = deadline
        BY <2>2, <3>1
      <4> QED BY <2>1, <4>1
    <3>3. Open(deadline, e) = e - deadline
      <4>1. deadline <= e
        BY <2>2, <3>1
      <4>2. (\A t \in deadline..(e - 1) : IsOpen(t)) => Open(deadline, e) = e - deadline
        BY <2>2, <4>1, OpenCounts
      <4> QED BY <3>2, <4>2
    <3> QED BY <2>2, <3>1, <3>3
  <2>4. /\ Open(start, deadline) \in Nat /\ Open(start, deadline) + Left(deadline) = Total + Left(start)
        /\ Left(start) \in 0..Rest /\ Rest \in 1..Tick
    BY <2>1, <2>2, CountedIs
  <2>5. Left(deadline) = Rest
    BY <2>1 DEF Left
  <2>6. Open(start, deadline) \in (Total - Tick)..Total
    BY <2>2, <2>4, <2>5, Units
  <2> QED BY <2>3, <2>6
<1> QED BY <1>1, SlaInductiveInvariant, PTL

-----------------------------------------------------------------------------
\* addBusinessHours never returns a deadline where the calendar has no business minute: with
\* startHour >= endHour, without working days, or with an open hour the build calls 24.
Shut(c) == \A t \in Nat : ~IsBusinessMinute(t, c)
ShutNeverReturns == slaHours > 0 /\ Shut(calendar) => stage = "add"

LEMMA ShutCalendars ==
    ASSUME NEW c \in Calendars,
           c.startHour >= c.endHour \/ 0..(Days - 1) \subseteq Weekend \/ (c.endHour <= 1 /\ c.midnight # 0)
    PROVE  Shut(c)
<1> SUFFICES ASSUME NEW t \in Nat, IsBusinessMinute(t, c) PROVE FALSE
  BY DEF Shut
<1>1. c.startHour \in Nat /\ c.endHour \in Nat /\ c.midnight \in {0, Hours} /\ c.endHour <= Hours
  BY CalendarHours, Units
<1>2. HourOfDay(t) \in 0..(Hours - 1) /\ Day(t) \in Nat
  BY DayAndHour
<1>3. c.startHour <= Hour(t, c) /\ Hour(t, c) < c.endHour /\ Weekday(t) \notin Weekend
  BY DEF IsBusinessMinute
<1>4. Hour(t, c) \in Nat
  BY <1>1, <1>2, Units DEF Hour
<1>5. CASE c.startHour >= c.endHour
  BY <1>1, <1>3, <1>4, <1>5
<1>6. CASE 0..(Days - 1) \subseteq Weekend
  <2>1. Weekday(t) \in 0..(Days - 1)
    BY <1>2, Units DEF Weekday
  <2> QED BY <1>3, <1>6, <2>1
<1>7. CASE c.endHour <= 1 /\ c.midnight # 0
  <2>1. Hour(t, c) # 0
    BY <1>1, <1>2, <1>7, Units DEF Hour
  <2> QED BY <1>1, <1>3, <1>4, <1>7, <2>1
<1> QED BY <1>5, <1>6, <1>7

THEOREM ShutCalendarsHang == SlaSpec => []ShutNeverReturns
<1>1. SlaInductive => ShutNeverReturns
  <2> SUFFICES ASSUME SlaInductive, slaHours > 0, Shut(calendar), stage # "add" PROVE FALSE
    BY DEF ShutNeverReturns, SlaInductive, SlaTypeOK
  <2>1. IsOpen(deadline) /\ deadline \in Nat
    BY DEF SlaInductive, SlaTypeOK, Added
  <2> QED BY <2>1 DEF Shut, IsOpen
<1> QED BY <1>1, SlaInductiveInvariant, PTL

\* Where the measuring stops: at the first minute of its walk that is not before now.
LEMMA MeasuredIs ==
    ASSUME SlaInductive, stage = "done"
    PROVE  /\ SlaTypeOK /\ now \in Nat /\ cursor \in Nat /\ seconds \in Nat /\ now <= cursor
           /\ Counted(cursor, seconds) /\ (cursor = start \/ cursor < now + Tick)
           /\ PausedFrom \in Nat /\ PausedTo \in Nat /\ pause.length \in Nat
           /\ start <= PausedFrom /\ PausedTo = PausedFrom + pause.length /\ PausedTo <= now
           /\ effective = LessPause(seconds, pause.length) /\ status = StatusOf(effective)
<1>1. SlaTypeOK /\ Measuring /\ Measured
  BY DEF SlaInductive
<1>2. cursor \in Nat /\ seconds \in Nat /\ now \in Int /\ start \in Nat /\ pause.after \in Nat /\ pause.length \in Nat
  BY <1>1, SlaInputs DEF SlaTypeOK
<1>3. PausedFrom \in Nat /\ PausedTo \in Nat /\ start <= PausedFrom /\ PausedTo = PausedFrom + pause.length
  BY <1>2 DEF PausedFrom, PausedTo
<1>4. Counted(cursor, seconds) /\ (cursor = start \/ cursor < now + Tick) /\ PausedTo <= now
  BY <1>1 DEF Measuring
<1>5. cursor >= now /\ effective = LessPause(seconds, pause.length) /\ status = StatusOf(effective)
  BY <1>1 DEF Measured
<1>6. now \in Nat /\ now <= cursor
  BY <1>2, <1>3, <1>4, <1>5
<1> QED BY <1>1, <1>2, <1>3, <1>4, <1>5, <1>6

\* The two functions agree: an unpaused ticket is not breached up to the deadline that
\* addBusinessHours found for it, and is once two minutes of business have passed since.
THEOREM DeadlinesAgree == SlaSpec => []DeadlineAgrees
<1>1. SlaInductive => DeadlineAgrees
  <2> SUFFICES ASSUME SlaInductive, stage = "done", pause.length = 0
               PROVE  /\ now <= deadline => status # "BREACHED"
                      /\ Open(deadline, now) >= 2 * Tick => status = "BREACHED"
    BY DEF DeadlineAgrees
  <2>1. /\ SlaTypeOK /\ now \in Nat /\ cursor \in Nat /\ seconds \in Nat /\ now <= cursor
        /\ Counted(cursor, seconds) /\ (cursor = start \/ cursor < now + Tick)
        /\ effective = LessPause(seconds, 0) /\ status = StatusOf(effective)
    BY MeasuredIs
  <2>2. deadline \in Nat /\ calendar \in Calendars /\ Total \in Nat /\ start \in Nat
    BY <2>1, SlaInputs DEF SlaTypeOK
  <2>3. Counted(deadline, Total)
    BY DEF SlaInductive, Added
  <2>4. effective = seconds
    BY <2>1 DEF LessPause
  <2>5. status = "BREACHED" <=> seconds > Total
    BY <2>1, <2>4 DEF StatusOf
  <2>6. /\ start <= deadline /\ Open(start, deadline) \in Nat
        /\ Open(start, deadline) + Left(deadline) = Total + Left(start)
        /\ Left(deadline) \in 0..Rest /\ Left(start) \in 0..Rest /\ Rest \in 1..Tick
    BY <2>1, <2>2, <2>3, CountedIs
  <2>7. /\ Open(start, cursor) \in Nat /\ Open(start, cursor) + Left(cursor) = seconds + Left(start)
        /\ start <= cursor /\ Left(cursor) \in 0..Rest
    BY <2>1, CountedIs
  <2>8. OnGrid(cursor) /\ OnGrid(deadline)
    BY <2>1, <2>3 DEF Counted
  <2>9. ASSUME now <= deadline PROVE seconds <= Total
    <3>1. cursor <= deadline
      <4> SUFFICES ASSUME deadline < cursor PROVE FALSE
        BY <2>1, <2>2
      <4>1. deadline + Tick <= cursor
        BY <2>1, <2>2, <2>8, WalkBehind
      <4> QED BY <2>1, <2>2, <2>6, <2>9, <4>1, Units
    <3>2. CASE cursor = deadline
      BY <2>1, <2>2, <2>6, <2>7, <3>2
    <3>3. CASE cursor < deadline
      <4>1. Open(cursor, deadline) >= Left(cursor)
        BY <2>1, <2>2, <2>8, <3>3, WalkBehind
      <4>2. Open(start, deadline) = Open(start, cursor) + Open(cursor, deadline)
        BY <2>1, <2>2, <2>7, <3>3, OpenAdds
      <4>3. Open(cursor, deadline) \in Nat
        <5>1. cursor <= deadline
          BY <3>1
        <5> QED BY <2>1, <2>2, <5>1, OpenCounts
      <4> QED BY <2>1, <2>2, <2>6, <2>7, <4>1, <4>2, <4>3
    <3> QED BY <2>1, <2>2, <3>1, <3>2, <3>3
  <2>10. ASSUME Open(deadline, now) >= 2 * Tick PROVE seconds > Total
    <3>1. deadline < now
      <4> SUFFICES ASSUME now <= deadline PROVE FALSE
        BY <2>1, <2>2
      <4>1. {t \in deadline..(now - 1) : IsOpen(t)} = {}
        BY <2>1, <2>2
      <4>2. Open(deadline, now) = Cardinality({})
        BY <2>1, <2>2, <4>1, OpenTicksAre DEF Open
      <4>3. Open(deadline, now) = 0
        BY <4>2, FS_EmptySet
      <4> QED BY <2>10, <4>3, Units
    <3>2. deadline <= now /\ deadline <= cursor
      BY <2>1, <2>2, <3>1
    <3>3. /\ Open(start, cursor) = Open(start, deadline) + Open(deadline, cursor)
          /\ Open(deadline, cursor) = Open(deadline, now) + Open(now, cursor)
      BY <2>1, <2>2, <2>6, <3>2, OpenAdds
    <3>4. Open(now, cursor) \in Nat
      BY <2>1, <2>2, OpenCounts
    <3>5. Open(deadline, now) \in Nat
      BY <2>1, <2>2, <3>2, OpenCounts
    <3> QED BY <2>1, <2>2, <2>6, <2>7, <2>10, <3>3, <3>4, <3>5, Units
  <2>11. now <= deadline => status # "BREACHED"
    BY <2>1, <2>2, <2>5, <2>9
  <2>12. Open(deadline, now) >= 2 * Tick => status = "BREACHED"
    BY <2>5, <2>10
  <2> QED BY <2>11, <2>12
<1> QED BY <1>1, SlaInductiveInvariant, PTL

\* Time paused is never counted as worked, to two minutes, wherever the pause lies; and a
\* pause inside the opening times is taken off as long as it was.
THEOREM PausesNeverCharged == SlaSpec => []PauseNeverCharged
<1>1. SlaInductive => PauseNeverCharged
  <2> SUFFICES ASSUME SlaInductive, stage = "done"
               PROVE  /\ effective < OpenUnpaused + 2 * Tick
                      /\ Open(PausedFrom, PausedTo) = pause.length => Abs(effective - OpenUnpaused) < 2 * Tick
    BY DEF PauseNeverCharged
  <2>1. /\ SlaTypeOK /\ now \in Nat /\ cursor \in Nat /\ seconds \in Nat /\ now <= cursor
        /\ Counted(cursor, seconds) /\ (cursor = start \/ cursor < now + Tick)
        /\ effective = LessPause(seconds, pause.length) /\ pause.length \in Nat
    BY MeasuredIs
  <2>2. PICK a \in Nat, b \in Nat : /\ a = PausedFrom /\ b = PausedTo /\ start <= a /\ b = a + pause.length
                                    /\ b <= now
    BY MeasuredIs
  <2>3. calendar \in Calendars /\ start \in Nat
    BY <2>1, SlaInputs
  <2>4. /\ Open(start, cursor) \in Nat /\ Open(start, cursor) + Left(cursor) = seconds + Left(start)
        /\ start <= cursor /\ Left(cursor) \in 0..Tick /\ Left(start) \in 0..Tick
    <3>1. /\ Open(start, cursor) \in Nat /\ Open(start, cursor) + Left(cursor) = seconds + Left(start)
          /\ start <= cursor /\ Left(cursor) \in 0..Rest /\ Left(start) \in 0..Rest /\ Rest \in 1..Tick
      BY <2>1, CountedIs
    <3> QED BY <3>1, Units
  <2>5. a <= b /\ start <= now /\ a <= now
    BY <2>1, <2>2, <2>3
  <2>6. /\ Open(a, b) \in Nat /\ Open(a, b) <= pause.length
        /\ Open(start, now) \in Nat /\ Open(a, b) <= Open(start, now)
    <3>1. Open(a, b) \in Nat /\ Open(a, b) <= b - a
      BY <2>3, <2>5, OpenCounts
    <3>2. Open(start, now) = Open(start, a) + Open(a, now) /\ Open(a, now) = Open(a, b) + Open(b, now)
      BY <2>1, <2>2, <2>3, <2>5, OpenAdds
    <3>3. Open(start, a) \in Nat /\ Open(b, now) \in Nat
      BY <2>1, <2>2, <2>3, OpenCounts
    <3>4. Open(start, now) \in Nat
      BY <2>1, <2>3, <2>5, OpenCounts
    <3> QED BY <2>1, <2>2, <3>1, <3>2, <3>3, <3>4
  <2>7. Open(start, cursor) = Open(start, now) + Open(now, cursor)
    BY <2>1, <2>3, <2>5, OpenAdds
  <2>8. Open(now, cursor) \in 0..(Tick - 1)
    <3>1. Open(now, cursor) \in Nat /\ Open(now, cursor) <= cursor - now
      BY <2>1, <2>3, OpenCounts
    <3>2. cursor - now <= Tick - 1
      BY <2>1, <2>3, <2>5, Units
    <3> QED BY <2>1, <3>1, <3>2, Units
  <2>9. OpenUnpaused = Open(start, now) - Open(a, b)
    BY <2>2 DEF OpenUnpaused
  <2>10. effective = IF seconds > pause.length THEN seconds - pause.length ELSE 0
    BY <2>1 DEF LessPause
  <2>11. effective < OpenUnpaused + 2 * Tick
    BY <2>1, <2>4, <2>6, <2>7, <2>8, <2>9, <2>10, Units
  <2>12. ASSUME Open(a, b) = pause.length PROVE Abs(effective - OpenUnpaused) < 2 * Tick
    <3>1. OpenUnpaused - effective < 2 * Tick
      BY <2>1, <2>4, <2>6, <2>7, <2>8, <2>9, <2>10, <2>12, Units
    <3>2. effective \in Int /\ OpenUnpaused \in Int
      BY <2>1, <2>6, <2>9, <2>10
    <3> QED BY <2>11, <3>1, <3>2, Units DEF Abs
  <2> QED BY <2>2, <2>11, <2>12
<1> QED BY <1>1, SlaInductiveInvariant, PTL
=============================================================================
