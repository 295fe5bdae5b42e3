----------------------------- MODULE SessionsProofs -----------------------------
(***************************************************************************)
(* Proofs about Sessions for any finite set of requests and any limit.      *)
(***************************************************************************)
EXTENDS Sessions, FiniteSetTheorems, WellFoundedInduction, TLAPS

\* What a handler's phase says of its session and of those it acts on, and that
\* createdAt orders the rows.
Placed ==
    /\ \A r \in Requests :
        /\ pc[r] = "idle" => session[r] = Null
        /\ pc[r] \in {"list", "evict"} => session[r] # Null /\ ~session[r].visible /\ args[r].op = "login"
        /\ pc[r] \in {"find", "rotate", "authenticate", "revoke"} =>
              session[r] = Null /\ args[r].own \in Requests /\ Exists(args[r].own) /\ args[r].op # "login"
        /\ pc[r] \in {"find", "rotate"} => args[r].op = "refresh"
        /\ pc[r] \in {"authenticate", "revoke"} /\ args[r].op = "revoke" =>
              args[r].target \in Requests /\ Exists(args[r].target)
        /\ pc[r] = "evict" => \A s \in found[r] : s = r \/ Exists(s)
    /\ \A s \in Requests : session[s] # Null => session[s].born < births
    /\ \A s, t \in Requests : session[s] # Null /\ session[t] # Null /\ session[s].born = session[t].born => s = t

IInv == TypeOK /\ Placed

\* A row stays itself: it may be committed, revoked or expire.
Kept(s) == /\ session'[s] \in Row
           /\ session'[s].from = session[s].from /\ session'[s].born = session[s].born
           /\ session[s].visible => session'[s].visible
           /\ session[s].revoked => session'[s].revoked

\* An UPDATE of revokedAt changes nothing else.
LEMMA RevokedRow ==
    ASSUME NEW rw \in Row
    PROVE  LET new == [rw EXCEPT !.revoked = TRUE]
           IN  /\ new \in Row /\ new.from = rw.from /\ new.expired = rw.expired
               /\ new.visible = rw.visible /\ new.born = rw.born /\ new.revoked
<1>1. PICK b \in BOOLEAN : b = TRUE
  OBVIOUS
<1>2. LET new == [rw EXCEPT !.revoked = b]
      IN  /\ new \in Row /\ new.from = rw.from /\ new.expired = rw.expired
          /\ new.visible = rw.visible /\ new.born = rw.born /\ new.revoked = b
  BY DEF Row
<1> QED BY <1>1, <1>2, Zenon

LEMMA RevokedTable ==
    ASSUME TypeOK, NEW S, \A s \in S : session[s] # Null
    PROVE  /\ Revoke(S) \in [Requests -> Row \cup {Null}]
           /\ \A s \in Requests :
                /\ Revoke(S)[s] = Null <=> session[s] = Null
                /\ s \notin S => Revoke(S)[s] = session[s]
                /\ session[s] # Null =>
                     /\ Revoke(S)[s] \in Row /\ Revoke(S)[s].from = session[s].from
                     /\ Revoke(S)[s].visible = session[s].visible /\ Revoke(S)[s].born = session[s].born
                     /\ session[s].revoked => Revoke(S)[s].revoked
                     /\ s \in S => Revoke(S)[s].revoked
<1>1. ASSUME NEW s \in Requests
      PROVE  /\ Revoke(S)[s] \in Row \cup {Null}
             /\ Revoke(S)[s] = Null <=> session[s] = Null
             /\ s \notin S => Revoke(S)[s] = session[s]
             /\ session[s] # Null =>
                  /\ Revoke(S)[s] \in Row /\ Revoke(S)[s].from = session[s].from
                  /\ Revoke(S)[s].visible = session[s].visible /\ Revoke(S)[s].born = session[s].born
                  /\ session[s].revoked => Revoke(S)[s].revoked
                  /\ s \in S => Revoke(S)[s].revoked
  <2>1. session[s] \in Row \cup {Null}
    BY DEF TypeOK
  <2>2. CASE s \in S
    <3>1. Revoke(S)[s] = [session[s] EXCEPT !.revoked = TRUE] /\ session[s] # Null /\ session[s] \in Row
      BY <2>1, <2>2 DEF Revoke
    <3> QED BY <2>2, <3>1, RevokedRow, NullAssumption, Zenon
  <2>3. CASE s \notin S
    <3>1. Revoke(S)[s] = session[s]
      BY <2>3 DEF Revoke
    <3> QED BY <2>1, <2>3, <3>1, Zenon
  <2> QED BY <2>2, <2>3
<1>2. Revoke(S) = [s \in Requests |-> Revoke(S)[s]]
  BY DEF Revoke
<1> QED BY <1>1, <1>2

\* What Placed says of one handler.
At(r) ==
    /\ pc[r] = "idle" => session[r] = Null
    /\ pc[r] \in {"list", "evict"} => session[r] # Null /\ ~session[r].visible /\ args[r].op = "login"
    /\ pc[r] \in {"find", "rotate", "authenticate", "revoke"} =>
          session[r] = Null /\ args[r].own \in Requests /\ Exists(args[r].own) /\ args[r].op # "login"
    /\ pc[r] \in {"find", "rotate"} => args[r].op = "refresh"
    /\ pc[r] \in {"authenticate", "revoke"} /\ args[r].op = "revoke" =>
          args[r].target \in Requests /\ Exists(args[r].target)
    /\ pc[r] = "evict" => \A s \in found[r] : s = r \/ Exists(s)

\* A step of r that inserts or removes no row but r's own leaves the others placed.
LEMMA PlacedStep ==
    ASSUME IInv, NEW r \in Requests, session' \in [Requests -> Row \cup {Null}],
           \A s \in Requests \ {r} : /\ session[s] # Null => Kept(s) /\ session'[s].visible = session[s].visible
                                     /\ session[s] = Null => session'[s] = Null
                                     /\ pc'[s] = pc[s] /\ args'[s] = args[s] /\ found'[s] = found[s],
           \/ births' = births /\ (session'[r] # Null => session[r] # Null /\ Kept(r))
           \/ births' = births + 1 /\ session'[r] \in Row /\ session'[r].born = births,
           Exists(r) => Kept(r),
           At(r)'
    PROVE  Placed'
<1>1. /\ \A s \in Requests : session[s] \in Row \cup {Null} /\ session'[s] \in Row \cup {Null}
      /\ \A s \in Requests : session[s] # Null => session[s].born < births
      /\ births \in Nat /\ \A s \in Requests : At(s)
      /\ \A s, t \in Requests : session[s] # Null /\ session[t] # Null /\ session[s].born = session[t].born => s = t
  BY DEF IInv, Placed, At, TypeOK
<1>2. Null \notin Row /\ \A rw \in Row : rw.born \in Nat
  BY NullAssumption DEF Row
<1>3. ASSUME NEW s \in Requests, Exists(s) PROVE Exists(s)'
  <2>1. Kept(s)
    BY <1>3 DEF Exists
  <2> QED BY <1>2, <1>3, <2>1 DEF Exists, Kept
<1>4. ASSUME NEW s \in Requests, s # r PROVE At(s)'
  <2>1. pc'[s] = pc[s] /\ args'[s] = args[s] /\ found'[s] = found[s] /\ At(s)
    BY <1>1, <1>4
  <2>2. /\ session[s] = Null => session'[s] = Null
        /\ session[s] # Null => session'[s] # Null /\ session'[s].visible = session[s].visible
    BY <1>2, <1>4 DEF Kept
  <2>3. pc[s] = "evict" => \A q \in found[s] : q \in Requests /\ (q = s \/ Exists(q)')
    <3>1. found[s] \subseteq Requests
      BY DEF IInv, TypeOK
    <3> QED BY <1>3, <2>1, <3>1 DEF At
  <2>4. pc[s] \in {"find", "rotate", "authenticate", "revoke"} => Exists(args[s].own)'
    BY <1>3, <2>1 DEF At
  <2>5. pc[s] \in {"authenticate", "revoke"} /\ args[s].op = "revoke" => Exists(args[s].target)'
    BY <1>3, <2>1 DEF At
  <2> QED BY <2>1, <2>2, <2>3, <2>4, <2>5 DEF At, Exists
<1>5. ASSUME NEW s \in Requests, session'[s] # Null
      PROVE  /\ session'[s].born < births' /\ session'[s].born \in Nat
             /\ \/ session[s] # Null /\ session'[s].born = session[s].born
                \/ s = r /\ session'[s].born = births
  BY <1>1, <1>2, <1>5 DEF Kept
<1>6. ASSUME NEW s \in Requests, NEW t \in Requests, session'[s] # Null, session'[t] # Null,
             session'[s].born = session'[t].born
      PROVE  s = t
  BY <1>1, <1>2, <1>5, <1>6
<1> QED BY <1>4, <1>5, <1>6 DEF Placed, At

LEMMA InitPlaced == Init => IInv
<1>1. ASSUME Init PROVE NoArgs \in Args
  BY DEF NoArgs, Args, Ops
<1>2. ASSUME Init PROVE IInv
  BY <1>1, <1>2 DEF Init, IInv, TypeOK, Placed, Phases
<1> QED BY <1>2

\* A row just inserted.
LEMMA InsertedRow ==
    ASSUME births \in Nat, NEW parent \in Requests \cup {Null}, NEW visible \in BOOLEAN
    PROVE  /\ Inserted(parent, visible) \in Row /\ Inserted(parent, visible).born = births
           /\ Inserted(parent, visible).from = parent /\ Inserted(parent, visible).visible = visible
           /\ Inserted(parent, visible).revoked = FALSE
<1>1. PICK b \in BOOLEAN : b = FALSE
  OBVIOUS
<1>2. LET new == [from |-> parent, revoked |-> b, expired |-> b, visible |-> visible, born |-> births]
      IN  new \in Row /\ new.born = births /\ new.from = parent /\ new.visible = visible /\ new.revoked = b
  BY DEF Row
<1> QED BY <1>1, <1>2, Zenon DEF Inserted

\* A handler that moves on without writing.
LEMMA QuietStep ==
    ASSUME IInv, NEW r \in Requests, NEW phase \in Phases, Goto(r, phase),
           UNCHANGED <<session, births, args, found, patient>>, At(r)'
    PROVE  IInv'
<1>1. TypeOK' /\ \A s \in Requests \ {r} : pc'[s] = pc[s]
  BY DEF IInv, TypeOK, Goto
<1>2. \A s \in Requests : session[s] # Null => Kept(s)
  BY DEF IInv, TypeOK, Kept
<1>3. Placed'
  BY <1>1, <1>2, PlacedStep DEF TypeOK, Exists
<1> QED BY <1>1, <1>3 DEF IInv

\* A handler, or the worker, that revokes rows.
LEMMA RevokeStep ==
    ASSUME IInv, NEW S \in SUBSET Requests, \A s \in S : Exists(s), session' = Revoke(S),
           UNCHANGED <<births, args, found, patient>>, NEW r \in Requests,
           UNCHANGED pc \/ Goto(r, "done")
    PROVE  IInv'
<1>1. \A s \in S : session[s] # Null
  BY DEF Exists
<1>2. TypeOK' /\ \A s \in Requests \ {r} : pc'[s] = pc[s]
  BY <1>1, RevokedTable DEF IInv, TypeOK, Goto, Phases
<1>3. \A s \in Requests : /\ session[s] # Null => Kept(s) /\ session'[s].visible = session[s].visible
                          /\ session[s] = Null <=> session'[s] = Null
  BY <1>1, RevokedTable DEF Kept, IInv
<1>4. At(r)'
  <2>1. CASE pc'[r] = "done"
    BY <2>1 DEF At
  <2>2. CASE pc' = pc
    <3>1. ASSUME NEW s \in Requests, Exists(s) PROVE Exists(s)'
      BY <1>3, <3>1 DEF Exists
    <3>2. At(r) /\ found[r] \subseteq Requests
      BY DEF IInv, Placed, At, TypeOK
    <3>3. pc[r] \in {"find", "rotate", "authenticate", "revoke"} => Exists(args[r].own)'
      BY <3>1, <3>2 DEF At
    <3>4. pc[r] \in {"authenticate", "revoke"} /\ args[r].op = "revoke" => Exists(args[r].target)'
      BY <3>1, <3>2 DEF At
    <3>5. pc[r] = "evict" => \A s \in found[r] : s = r \/ Exists(s)'
      BY <3>1, <3>2 DEF At
    <3> QED BY <1>3, <2>2, <3>2, <3>3, <3>4, <3>5 DEF At, Exists
  <2>3. Goto(r, "done") => pc'[r] = "done"
    BY DEF Goto, IInv, TypeOK
  <2> QED BY <2>1, <2>2, <2>3
<1>5. Placed'
  BY <1>2, <1>3, <1>4, PlacedStep DEF TypeOK, Exists
<1> QED BY <1>2, <1>5 DEF IInv

\* Sending a request writes no row, a login's insert aside.
LEMMA SendStep ==
    ASSUME IInv, NEW r \in Requests, NEW op \in Ops \ {"login"}, NEW own \in Requests,
           NEW target \in Requests \cup {Null}, NEW phase \in {"find", "authenticate"},
           Send(r, op, own, target, phase), Exists(own),
           op = "revoke" => target \in Requests /\ Exists(target),
           phase = "find" => op = "refresh",
           UNCHANGED <<session, births, found, patient>>
    PROVE  IInv'
<1>1. /\ args' = [args EXCEPT ![r] = [op |-> op, own |-> own, target |-> target]]
      /\ pc' = [pc EXCEPT ![r] = phase] /\ pc[r] = "idle"
  BY DEF Send
<1>2. [op |-> op, own |-> own, target |-> target] \in Args
  BY DEF Args
<1>3. TypeOK'
  BY <1>1, <1>2 DEF IInv, TypeOK, Phases
<1>4. \A s \in Requests \ {r} : pc'[s] = pc[s] /\ args'[s] = args[s]
  BY <1>1 DEF IInv, TypeOK
<1>5. \A s \in Requests : session[s] # Null => Kept(s)
  BY DEF IInv, TypeOK, Kept
<1>6. pc'[r] = phase /\ args'[r].op = op /\ args'[r].own = own /\ args'[r].target = target /\ session'[r] = Null
  BY <1>1 DEF IInv, TypeOK, Placed
<1>7. At(r)'
  BY <1>6 DEF At, Exists
<1>8. Placed'
  BY <1>3, <1>4, <1>5, <1>7, PlacedStep DEF TypeOK, Exists
<1> QED BY <1>3, <1>8 DEF IInv

LEMMA PlacedInductive == IInv /\ [Next]_vars => IInv'
<1> SUFFICES ASSUME IInv, [Next]_vars PROVE IInv'
  OBVIOUS
<1>0. /\ TypeOK /\ births \in Nat /\ Null \notin Row /\ Null \notin Requests
      /\ \A s \in Requests : At(s) /\ session[s] \in Row \cup {Null}
  BY NullAssumption DEF IInv, Placed, At, TypeOK
<1>1. ASSUME NEW r \in Requests, Login(r) PROVE IInv'
  <2> DEFINE new == Inserted(Null, FALSE)
  <2>1. /\ pc[r] = "idle" /\ pc' = [pc EXCEPT ![r] = "list"] /\ births' = births + 1
        /\ args' = [args EXCEPT ![r] = [op |-> "login", own |-> Null, target |-> Null]]
        /\ session' = [session EXCEPT ![r] = new] /\ found' = found /\ patient' = patient
    BY <1>1 DEF Login, Send
  <2>2. new \in Row /\ new.born = births /\ new.visible = FALSE
    BY <1>0, InsertedRow, Zenon
  <2> HIDE DEF new
  <2>3. [op |-> "login", own |-> Null, target |-> Null] \in Args
    BY DEF Args, Ops
  <2>4. TypeOK'
    BY <2>1, <2>2, <2>3 DEF IInv, TypeOK, Phases
  <2>5. /\ pc'[r] = "list" /\ args'[r].op = "login" /\ session'[r] = new /\ session[r] = Null
        /\ \A s \in Requests \ {r} : /\ pc'[s] = pc[s] /\ args'[s] = args[s] /\ session'[s] = session[s]
                                     /\ session[s] # Null => Kept(s)
    BY <1>0, <2>1 DEF TypeOK, Kept, At
  <2>6. At(r)'
    BY <1>0, <2>2, <2>5 DEF At
  <2>7. Placed'
    BY <2>1, <2>2, <2>4, <2>5, <2>6, PlacedStep DEF TypeOK, Exists
  <2> QED BY <2>4, <2>7 DEF IInv
<1>2. ASSUME NEW r \in Requests, ListSessions(r) PROVE IInv'
  <2>1. TypeOK'
    BY <1>2 DEF ListSessions, Goto, IInv, TypeOK, Phases, Unrevoked
  <2>2. /\ pc[r] = "list" /\ pc'[r] = "evict" /\ found'[r] = Unrevoked \cup {r}
        /\ session' = session /\ births' = births /\ args' = args
        /\ \A s \in Requests \ {r} : pc'[s] = pc[s] /\ found'[s] = found[s]
    BY <1>2 DEF ListSessions, Goto, IInv, TypeOK
  <2>3. \A s \in Requests : session[s] # Null => Kept(s)
    BY <1>0, <2>2 DEF Kept
  <2>4. At(r)'
    BY <1>0, <2>2 DEF At, Unrevoked, Exists
  <2>5. Placed'
    BY <2>1, <2>2, <2>3, <2>4, PlacedStep DEF TypeOK, Exists
  <2> QED BY <2>1, <2>5 DEF IInv
<1>3. ASSUME NEW r \in Requests, LoginCommit(r) PROVE IInv'
  <2> DEFINE S == Overflow(found[r])
             rw == Revoke(S)[r]
  <2>1. S \subseteq Requests /\ \A s \in S : session[s] # Null
    BY <1>0, <1>3 DEF LoginCommit, Overflow, TypeOK, At, Exists
  <2>2. /\ Revoke(S) \in [Requests -> Row \cup {Null}] /\ rw \in Row /\ rw.born = session[r].born
        /\ rw.from = session[r].from /\ (session[r].revoked => rw.revoked) /\ session[r] # Null
    BY <1>0, <1>3, <2>1, RevokedTable DEF LoginCommit, At
  <2>3. PICK b \in BOOLEAN : b = TRUE
    OBVIOUS
  <2>4. session' = [Revoke(S) EXCEPT ![r] = [rw EXCEPT !.visible = b]]
    BY <1>3, <2>2, <2>3 DEF LoginCommit
  <2>5. /\ [rw EXCEPT !.visible = b] \in Row /\ [rw EXCEPT !.visible = b].born = rw.born
        /\ [rw EXCEPT !.visible = b].from = rw.from /\ [rw EXCEPT !.visible = b].revoked = rw.revoked
        /\ [rw EXCEPT !.visible = b].visible = b
    BY <2>2 DEF Row
  <2>6. session'[r] \in Row /\ Kept(r)
    <3>1. session'[r] = [rw EXCEPT !.visible = b]
      BY <2>2, <2>4
    <3> QED BY <2>2, <2>3, <2>5, <3>1, Zenon DEF Kept
  <2>7. \A s \in Requests \ {r} : session'[s] = Revoke(S)[s]
    BY <2>2, <2>4
  <2> HIDE DEF rw, S
  <2>8. \A s \in Requests \ {r} : /\ session[s] # Null => Kept(s) /\ session'[s].visible = session[s].visible
                                  /\ session[s] = Null => session'[s] = Null
    BY <1>0, <2>1, <2>7, RevokedTable DEF Kept
  <2>9. /\ pc'[r] = "done" /\ births' = births /\ args' = args /\ found' = found /\ patient' = patient
        /\ pc' \in [Requests -> Phases] /\ \A s \in Requests \ {r} : pc'[s] = pc[s]
    BY <1>0, <1>3 DEF LoginCommit, Goto, TypeOK, Phases
  <2>10. session' \in [Requests -> Row \cup {Null}]
    BY <2>2, <2>4, <2>5
  <2>11. TypeOK'
    BY <2>9, <2>10, <1>0 DEF TypeOK
  <2>12. At(r)'
    BY <2>9 DEF At
  <2>13. Placed'
    BY <2>2, <2>6, <2>8, <2>9, <2>10, <2>12, PlacedStep
  <2> QED BY <2>11, <2>13 DEF IInv
<1>4. ASSUME NEW r \in Requests, Refresh(r) PROVE IInv'
  <2>1. PICK s \in Requests : Exists(s) /\ Send(r, "refresh", s, s, "find")
    BY <1>4 DEF Refresh
  <2> QED BY <1>4, <2>1, SendStep DEF Refresh, Ops
<1>5. ASSUME NEW r \in Requests, FindSession(r) PROVE IInv'
  <2>1. PICK phase \in {"rotate", "done"} : Goto(r, phase) /\ pc[r] = "find"
    BY <1>5 DEF FindSession
  <2>2. At(r)'
    BY <1>0, <1>5, <2>1 DEF FindSession, Goto, At, Exists, TypeOK
  <2> QED BY <1>5, <2>1, <2>2, QuietStep DEF FindSession, Phases
<1>6. ASSUME NEW r \in Requests, Rotate(r) PROVE IInv'
  <2> DEFINE S == {args[r].own}
             new == Inserted(args[r].own, TRUE)
  <2>1. /\ S \subseteq Requests /\ \A s \in S : session[s] # Null
        /\ session[r] = Null /\ args[r].own \in Requests
    BY <1>0, <1>6 DEF Rotate, At, Exists
  <2>2. Revoke(S) \in [Requests -> Row \cup {Null}]
    BY <1>0, <2>1, RevokedTable
  <2>3. new \in Row /\ new.born = births
    BY <1>0, <2>1, InsertedRow, Zenon
  <2> HIDE DEF S, new
  <2>4. session' = [Revoke(S) EXCEPT ![r] = new] /\ births' = births + 1
    BY <1>6 DEF Rotate, S, new
  <2>5. session'[r] = new /\ \A s \in Requests \ {r} : session'[s] = Revoke(S)[s]
    BY <2>2, <2>4
  <2>6. \A s \in Requests \ {r} : /\ session[s] # Null => Kept(s) /\ session'[s].visible = session[s].visible
                                  /\ session[s] = Null => session'[s] = Null
    BY <1>0, <2>1, <2>5, RevokedTable DEF Kept
  <2>7. /\ pc'[r] = "done" /\ args' = args /\ found' = found /\ patient' = patient
        /\ pc' \in [Requests -> Phases] /\ \A s \in Requests \ {r} : pc'[s] = pc[s]
    BY <1>0, <1>6 DEF Rotate, Goto, TypeOK, Phases
  <2>8. session' \in [Requests -> Row \cup {Null}] /\ TypeOK'
    <3>1. session' \in [Requests -> Row \cup {Null}]
      BY <2>2, <2>3, <2>4
    <3>2. births' \in Nat
      BY <1>0, <2>4
    <3> QED BY <1>0, <2>7, <3>1, <3>2 DEF TypeOK
  <2>9. At(r)'
    BY <2>7 DEF At
  <2>10. Placed'
    BY <2>1, <2>3, <2>4, <2>5, <2>6, <2>7, <2>8, <2>9, PlacedStep DEF Exists
  <2> QED BY <2>8, <2>10 DEF IInv
<1>7. ASSUME NEW r \in Requests, SendRevoke(r) PROVE IInv'
  <2>1. PICK s \in Requests, t \in Requests : Exists(s) /\ Exists(t) /\ Send(r, "revoke", s, t, "authenticate")
    BY <1>7 DEF SendRevoke
  <2> QED BY <1>7, <2>1, SendStep DEF SendRevoke, Ops
<1>8. ASSUME NEW r \in Requests, SendRevokeOthers(r) PROVE IInv'
  <2>1. PICK s \in Requests : Exists(s) /\ Send(r, "revokeOthers", s, Null, "authenticate")
    BY <1>8 DEF SendRevokeOthers
  <2> QED BY <1>8, <2>1, SendStep DEF SendRevokeOthers, Ops
<1>9. ASSUME NEW r \in Requests, Authenticate(r) PROVE IInv'
  <2>1. PICK phase \in {"revoke", "done"} : Goto(r, phase) /\ pc[r] = "authenticate"
    BY <1>9 DEF Authenticate
  <2>2. At(r)'
    BY <1>0, <1>9, <2>1 DEF Authenticate, Goto, At, Exists, TypeOK
  <2> QED BY <1>9, <2>1, <2>2, QuietStep DEF Authenticate, Phases
<1>10. ASSUME NEW r \in Requests, RevokeTarget(r) PROVE IInv'
  <2>1. {args[r].target} \subseteq Requests /\ \A s \in {args[r].target} : Exists(s)
    BY <1>0, <1>10 DEF RevokeTarget, At
  <2> QED BY <1>10, <2>1, RevokeStep DEF RevokeTarget
<1>11. ASSUME NEW r \in Requests, RevokeOthers(r) PROVE IInv'
  <2>1. Unrevoked \ {args[r].own} \subseteq Requests /\ \A s \in Unrevoked \ {args[r].own} : Exists(s)
    BY DEF Unrevoked
  <2> QED BY <1>11, <2>1, RevokeStep DEF RevokeOthers
<1>12. ASSUME NEW r \in Requests, Fail(r) PROVE IInv'
  <2>1. /\ pc'[r] = "done" /\ births' = births /\ args' = args /\ found' = found /\ patient' = patient
        /\ pc' \in [Requests -> Phases] /\ \A s \in Requests \ {r} : pc'[s] = pc[s]
    BY <1>0, <1>12 DEF Fail, Goto, TypeOK, Phases
  <2>2. At(r)'
    BY <2>1 DEF At
  <2>3. /\ session' = [session EXCEPT ![r] = Null] /\ ~Exists(r)
        \/ session' = session
    BY <1>0, <1>12 DEF Fail, At, Exists
  <2>4. /\ session' \in [Requests -> Row \cup {Null}]
        /\ \A s \in Requests \ {r} : session'[s] = session[s]
        /\ session'[r] = session[r] \/ (session'[r] = Null /\ ~Exists(r))
    BY <1>0, <2>3 DEF TypeOK
  <2>5. \A s \in Requests : session'[s] = session[s] /\ session[s] # Null => Kept(s)
    BY <1>0 DEF Kept
  <2>6. Placed'
    BY <2>1, <2>2, <2>4, <2>5, PlacedStep DEF Exists
  <2>7. TypeOK'
    BY <1>0, <2>1, <2>4 DEF TypeOK
  <2> QED BY <2>6, <2>7 DEF IInv
<1>13. ASSUME NEW r \in Requests, Expire(r) PROVE IInv'
  <2>1. PICK b \in BOOLEAN : b = TRUE
    OBVIOUS
  <2>2. session[r] \in Row
    BY <1>0, <1>13 DEF Expire, Exists
  <2>3. session' = [session EXCEPT ![r] = [session[r] EXCEPT !.expired = b]]
    BY <1>0, <1>13, <2>1 DEF Expire, TypeOK
  <2>4. LET new == [session[r] EXCEPT !.expired = b]
        IN  /\ new \in Row /\ new.from = session[r].from /\ new.born = session[r].born
            /\ new.visible = session[r].visible /\ new.revoked = session[r].revoked
    BY <2>2 DEF Row
  <2>5. TypeOK'
    BY <1>0, <1>13, <2>3, <2>4 DEF Expire, TypeOK
  <2>6. /\ session'[r] = [session[r] EXCEPT !.expired = b]
        /\ \A s \in Requests \ {r} : session'[s] = session[s]
    BY <1>0, <2>3 DEF TypeOK
  <2>7. \A s \in Requests : /\ session[s] # Null => Kept(s) /\ session'[s].visible = session[s].visible
                            /\ session[s] = Null <=> session'[s] = Null
    BY <1>0, <2>2, <2>4, <2>6 DEF Kept
  <2>8. /\ UNCHANGED <<births, pc, args, found, patient>>
    BY <1>13 DEF Expire
  <2>9. \A s \in Requests : Exists(s) <=> Exists(s)'
    BY <2>7 DEF Exists
  <2>10. At(r)'
    <3>1. At(r) /\ found[r] \subseteq Requests
      BY <1>0 DEF TypeOK
    <3> QED BY <2>7, <2>8, <2>9, <3>1 DEF At
  <2>11. Placed'
    BY <2>5, <2>7, <2>8, <2>10, PlacedStep DEF TypeOK, Exists
  <2> QED BY <2>5, <2>11 DEF IInv
<1>14. CASE Cleanup
  <2>1. PICK r \in Requests : r \in Unrevoked
    BY <1>14 DEF Cleanup, Unrevoked
  <2> DEFINE S == {s \in Unrevoked : session[s].expired}
  <2>2. S \subseteq Requests /\ \A s \in S : Exists(s)
    BY DEF Unrevoked
  <2> HIDE DEF S
  <2>3. session' = Revoke(S) /\ UNCHANGED <<births, pc, args, found, patient>>
    BY <1>14 DEF Cleanup, S
  <2> QED BY <2>2, <2>3, RevokeStep
<1>15. CASE UNCHANGED vars
  BY <1>15 DEF vars, IInv, TypeOK, Placed, Exists
<1> QED BY <1>1, <1>2, <1>3, <1>4, <1>5, <1>6, <1>7, <1>8, <1>9, <1>10, <1>11, <1>12, <1>13, <1>14, <1>15
        DEF Next, Handle, Finished

\* Every variable keeps its shape, for any requests and any limit.
THEOREM TypeCorrect == Spec => []TypeOK
<1>1. Spec => []IInv
  BY InitPlaced, PlacedInductive, PTL DEF Spec
<1>2. IInv => TypeOK
  BY DEF IInv
<1> QED BY <1>1, <1>2, PTL
-----------------------------------------------------------------------------
\* What login keeps of the sessions it read: at most Max, since the oldest of what
\* is kept has fewer than Max younger ones.
LEMMA KeepsMax ==
    ASSUME NEW S, IsFiniteSet(S), \A s \in S : session[s].born \in Nat,
           \A s, t \in S : session[s].born = session[t].born => s = t
    PROVE  IsFiniteSet(S \ Overflow(S)) /\ Cardinality(S \ Overflow(S)) <= Max
<1> DEFINE K == S \ Overflow(S)
<1>1. K \subseteq S /\ IsFiniteSet(K) /\ Cardinality(K) \in Nat
  BY FS_Subset, FS_CardinalityType
<1>2. CASE K = {}
  BY <1>1, <1>2, FS_EmptySet, MaxAssumption
<1>3. CASE K # {}
  <2> DEFINE B == {session[s].born : s \in K}
  <2>1. B \subseteq Nat /\ B # {}
    BY <1>1, <1>3
  <2>2. PICK n \in B : \A k \in B : ~ (<<k, n>> \in OpToRel(<, Nat))
    <3> HIDE DEF B
    <3> QED BY <2>1, WFMin, NatLessThanWellFounded, Zenon
  <2>3. PICK m \in K : session[m].born = n
    OBVIOUS
  <2>4. \A s \in K \ {m} : session[s].born > session[m].born
    <3> SUFFICES ASSUME NEW s \in K \ {m} PROVE session[s].born > session[m].born
      OBVIOUS
    <3>1. session[s].born \in B /\ session[s].born \in Nat /\ n \in Nat
      BY <1>1, <2>1
    <3>2. ~(session[s].born < n)
      BY <2>2, <3>1 DEF OpToRel
    <3>3. session[s].born # n
      BY <1>1, <2>3
    <3> QED BY <2>3, <3>1, <3>2, <3>3
  <2> DEFINE Y == {t \in S : Younger(t, m)}
  <2>5. K \ {m} \subseteq Y /\ Y \subseteq S
    BY <1>1, <2>4 DEF Younger
  <2>6. Cardinality(Y) < Max /\ Cardinality(Y) \in Nat
    <3>1. IsFiniteSet(Y) /\ Cardinality(Y) \in Nat
      BY <2>5, FS_Subset, FS_CardinalityType
    <3>2. ~(Cardinality(Y) >= Max)
      BY <2>3 DEF Overflow
    <3> QED BY <3>1, <3>2, MaxAssumption
  <2>7. Cardinality(K \ {m}) <= Cardinality(Y)
    <3>1. IsFiniteSet(Y)
      BY <2>5, FS_Subset
    <3> HIDE DEF Y, K
    <3> QED BY <2>5, <3>1, FS_Subset
  <2>8. Cardinality(K \ {m}) = Cardinality(K) - 1
    <3> HIDE DEF K
    <3> QED BY <1>1, FS_RemoveElement
  <2> HIDE DEF K, Y
  <2>9. Cardinality(K) <= Max
    BY <1>1, <2>6, <2>7, <2>8, MaxAssumption
  <2> QED BY <1>1, <2>9 DEF K
<1> QED BY <1>2, <1>3

\* A login's row becomes visible by its own commit only.
LEMMA WhoCommits ==
    ASSUME IInv, [Next]_vars, NEW r \in Requests, pc[r] = "evict", Exists(r)'
    PROVE  LoginCommit(r)
<1>0. TypeOK /\ session[r] \in Row /\ ~session[r].visible /\ session'[r] # Null /\ session'[r].visible
  BY DEF IInv, Placed, TypeOK, Exists
<1>1. session'[r] # session[r]
  BY <1>0, Zenon
<1>2. ASSUME NEW S, \A s \in S : Exists(s), session'[r] = Revoke(S)[r] PROVE FALSE
  <2>1. r \notin S
    BY <1>0, <1>2 DEF Exists
  <2> QED BY <1>0, <1>1, <1>2, <2>1, RevokedTable DEF Exists
<1>3. ASSUME NEW q \in Requests, Login(q) \/ ListSessions(q) \/ Refresh(q) \/ FindSession(q) \/ SendRevoke(q)
                                 \/ SendRevokeOthers(q) \/ Authenticate(q) \/ Fail(q)
      PROVE  FALSE
  <2>1. session' = session \/ session' = [session EXCEPT ![q] = Null]
        \/ (pc[q] = "idle" /\ session' = [session EXCEPT ![q] = Inserted(Null, FALSE)])
    BY <1>3 DEF Login, Send, ListSessions, Refresh, FindSession, SendRevoke, SendRevokeOthers, Authenticate, Fail
  <2> QED BY <1>0, <1>1, <2>1 DEF TypeOK
<1>4. ASSUME NEW q \in Requests, LoginCommit(q), q # r PROVE FALSE
  <2>1. \A s \in Overflow(found[q]) : session[s] # Null /\ (s = q \/ Exists(s))
    BY <1>4 DEF LoginCommit, Overflow, IInv, Placed, Exists
  <2>2. Revoke(Overflow(found[q])) \in [Requests -> Row \cup {Null}]
    BY <1>0, <2>1, RevokedTable
  <2>3. session'[r] = Revoke(Overflow(found[q]))[r]
    BY <1>4, <2>2 DEF LoginCommit
  <2>4. r \notin Overflow(found[q])
    BY <1>0, <1>4, <2>1 DEF Exists
  <2> QED BY <1>0, <1>1, <2>1, <2>3, <2>4, RevokedTable
<1>5. ASSUME NEW q \in Requests, Rotate(q) PROVE FALSE
  <2>1. q # r /\ \A s \in {args[q].own} : Exists(s) /\ session[s] # Null
    BY <1>5 DEF Rotate, IInv, Placed, Exists
  <2>2. Revoke({args[q].own}) \in [Requests -> Row \cup {Null}]
    BY <1>0, <2>1, RevokedTable
  <2>3. session'[r] = Revoke({args[q].own})[r]
    BY <1>5, <2>1, <2>2 DEF Rotate
  <2> QED BY <1>2, <2>1, <2>3
<1>6. ASSUME NEW q \in Requests, RevokeTarget(q) PROVE FALSE
  <2>1. \A s \in {args[q].target} : Exists(s)
    BY <1>6 DEF RevokeTarget, IInv, Placed
  <2> QED BY <1>2, <1>6, <2>1 DEF RevokeTarget
<1>7. ASSUME NEW q \in Requests, RevokeOthers(q) PROVE FALSE
  BY <1>2, <1>7 DEF RevokeOthers, Unrevoked
<1>8. ASSUME Cleanup PROVE FALSE
  BY <1>2, <1>8 DEF Cleanup, Unrevoked
<1>9. ASSUME NEW q \in Requests, Expire(q) PROVE FALSE
  <2>1. q # r /\ session' = [session EXCEPT ![q].expired = TRUE]
    BY <1>0, <1>9 DEF Expire, Exists
  <2> QED BY <1>0, <1>1, <2>1 DEF TypeOK
<1>10. CASE UNCHANGED vars
  BY <1>1, <1>10 DEF vars
<1> QED BY <1>3, <1>4, <1>5, <1>6, <1>7, <1>8, <1>9, <1>10 DEF Next, Handle, Finished

\* A login evicts the oldest of the sessions it read, and exactly the excess, for
\* any number of sessions and any limit.
THEOREM EvictionTakesOldest == Spec => EvictsOldest
<1>1. ASSUME IInv, [Next]_vars, NEW r \in Requests, pc[r] = "evict", Exists(r)'
      PROVE  /\ Cardinality({s \in found[r] : ~session'[s].revoked}) <= Max
             /\ \A s \in Requests : session[s] # Null /\ session'[s].revoked /\ ~session[s].revoked =>
                   Cardinality({t \in Requests : session[t] # Null /\ Younger(t, s)}) >= Max
  <2> DEFINE F == found[r]
             S == Overflow(F)
             K == {s \in F : ~session'[s].revoked}
  <2>1. LoginCommit(r) /\ TypeOK /\ F \subseteq Requests /\ S \subseteq F
    BY <1>1, WhoCommits DEF IInv, TypeOK, Overflow
  <2>2. IsFiniteSet(F)
    BY <2>1, RequestsAssumption, FS_Subset
  <2>3. \A s \in F : session[s] # Null /\ session[s] \in Row /\ session[s].born \in Nat
    BY <1>1, <2>1 DEF IInv, Placed, Exists, TypeOK, Row
  <2>4. \A s, t \in F : session[s].born = session[t].born => s = t
    BY <1>1, <2>1, <2>3 DEF IInv, Placed
  <2>5. session[r] # Null /\ session[r] \in Row
    BY <1>1, <2>1 DEF IInv, Placed, TypeOK
  <2> HIDE DEF F, S
  <2>6. /\ session' = [Revoke(S) EXCEPT ![r].visible = TRUE]
        /\ Revoke(S) \in [Requests -> Row \cup {Null}] /\ Revoke(S)[r] \in Row
        /\ \A s \in S : session[s] # Null
    BY <2>1, <2>3, <2>5, RevokedTable DEF LoginCommit, F, S
  <2>7. \A s \in Requests : session[s] # Null => session'[s].revoked = Revoke(S)[s].revoked
    BY <2>6 DEF Row
  <2>8. K \subseteq F \ S
    BY <2>1, <2>3, <2>6, <2>7, RevokedTable
  <2>9. Cardinality(K) <= Max
    <3>1. IsFiniteSet(F \ S) /\ Cardinality(F \ S) <= Max
      BY <2>2, <2>3, <2>4, KeepsMax DEF S
    <3>2. Cardinality(K) <= Cardinality(F \ S) /\ Cardinality(K) \in Nat /\ Cardinality(F \ S) \in Nat
      BY <2>8, <3>1, FS_Subset, FS_CardinalityType
    <3> QED BY <3>1, <3>2, MaxAssumption
  <2>10. ASSUME NEW s \in Requests, session[s] # Null, session'[s].revoked, ~session[s].revoked
         PROVE  Cardinality({t \in Requests : session[t] # Null /\ Younger(t, s)}) >= Max
    <3>1. s \in S
      <4>1. s \notin S => Revoke(S)[s] = session[s]
        BY <2>1, <2>6, RevokedTable
      <4>2. Revoke(S)[s].revoked
        BY <2>7, <2>10, Zenon
      <4> QED BY <2>10, <4>1, <4>2, Zenon
    <3> DEFINE A == {t \in F : Younger(t, s)}
               Z == {t \in Requests : session[t] # Null /\ Younger(t, s)}
    <3>2. Cardinality(A) >= Max
      BY <3>1 DEF S, Overflow
    <3>3. A \subseteq Z /\ Z \subseteq Requests
      BY <2>1, <2>3
    <3> HIDE DEF A
    <3>4. Cardinality(A) <= Cardinality(Z) /\ Cardinality(A) \in Nat /\ Cardinality(Z) \in Nat
      BY <3>3, RequestsAssumption, FS_Subset, FS_CardinalityType
    <3> QED BY <3>2, <3>4, MaxAssumption
  <2> QED BY <2>9, <2>10 DEF F
<1>2. IInv /\ [Next]_vars =>
        [\A r \in Requests : pc[r] = "evict" /\ Exists(r)' =>
          /\ Cardinality({s \in found[r] : ~session'[s].revoked}) <= Max
          /\ \A s \in Requests : session[s] # Null /\ session'[s].revoked /\ ~session[s].revoked =>
                Cardinality({t \in Requests : session[t] # Null /\ Younger(t, s)}) >= Max]_vars
  BY <1>1
<1>3. Spec => []IInv
  BY InitPlaced, PlacedInductive, PTL DEF Spec
<1> QED BY <1>2, <1>3, PTL DEF Spec, EvictsOldest
-----------------------------------------------------------------------------
\* Where the rows of the next state come from: they were there, or a login or a
\* rotation inserts them.
LEMMA WhoIsBorn ==
    ASSUME IInv, [Next]_vars, NEW s \in Requests
    PROVE  /\ session'[s] # Null => \/ session[s] # Null /\ Kept(s)
                                    \/ session'[s].from = Null
                                    \/ Rotate(s) /\ session[s] = Null /\ session'[s].from = args[s].own
           /\ Exists(s) => session[s] # Null /\ Kept(s) /\ Exists(s)'
<1> DEFINE Goal == /\ session'[s] # Null => \/ session[s] # Null /\ Kept(s)
                                            \/ session'[s].from = Null
                                            \/ Rotate(s) /\ session[s] = Null /\ session'[s].from = args[s].own
                   /\ Exists(s) => session[s] # Null /\ Kept(s)
<1>0. /\ TypeOK /\ Null \notin Row /\ Null \notin Requests /\ births \in Nat
      /\ session[s] \in Row \cup {Null} /\ \A r \in Requests : At(r)
  BY NullAssumption DEF IInv, Placed, At, TypeOK
<1>1. CASE session'[s] = session[s]
  BY <1>0, <1>1 DEF Kept, Exists
<1>2. ASSUME NEW S, \A q \in S : session[q] # Null, session'[s] = Revoke(S)[s] PROVE Goal
  BY <1>0, <1>2, RevokedTable DEF Kept, Exists
<1>3. ASSUME NEW r \in Requests, ListSessions(r) \/ Refresh(r) \/ FindSession(r) \/ SendRevoke(r)
                                 \/ SendRevokeOthers(r) \/ Authenticate(r)
      PROVE  session' = session
  BY <1>3 DEF ListSessions, Refresh, FindSession, SendRevoke, SendRevokeOthers, Authenticate
<1>4. ASSUME NEW r \in Requests, Login(r) PROVE Goal
  <2>1. Inserted(Null, FALSE).from = Null /\ session' = [session EXCEPT ![r] = Inserted(Null, FALSE)] /\ session[r] = Null
    BY <1>0, <1>4, InsertedRow, Zenon DEF Login, Send, At
  <2> QED BY <1>0, <1>1, <2>1 DEF TypeOK, Exists
<1>5. ASSUME NEW r \in Requests, Rotate(r) PROVE Goal
  <2> DEFINE new == Inserted(args[r].own, TRUE)
             S == {args[r].own}
  <2>1. new.from = args[r].own /\ session[r] = Null /\ \A q \in S : session[q] # Null
    BY <1>0, <1>5, InsertedRow DEF Rotate, At, Exists
  <2> HIDE DEF new, S
  <2>2. session' = [Revoke(S) EXCEPT ![r] = new] /\ Revoke(S) \in [Requests -> Row \cup {Null}]
    BY <1>0, <1>5, <2>1, RevokedTable DEF Rotate, new, S
  <2>3. s = r => session'[s] = new
    BY <2>2
  <2>4. s # r => session'[s] = Revoke(S)[s]
    BY <2>2
  <2> QED BY <1>2, <1>5, <2>1, <2>3, <2>4 DEF Exists
<1>6. ASSUME NEW r \in Requests, LoginCommit(r) PROVE Goal
  <2> DEFINE S == Overflow(found[r])
             rw == Revoke(S)[r]
  <2>1. \A q \in S : session[q] # Null
    BY <1>0, <1>6 DEF LoginCommit, Overflow, At, Exists
  <2>2. Revoke(S) \in [Requests -> Row \cup {Null}] /\ session[r] # Null /\ rw \in Row
        /\ rw.from = session[r].from /\ rw.born = session[r].born /\ (session[r].revoked => rw.revoked)
    BY <1>0, <1>6, <2>1, RevokedTable DEF LoginCommit, At
  <2>3. PICK b \in BOOLEAN : b = TRUE
    OBVIOUS
  <2>4. session' = [Revoke(S) EXCEPT ![r] = [rw EXCEPT !.visible = b]]
    BY <1>6, <2>2, <2>3 DEF LoginCommit
  <2> HIDE DEF rw, S
  <2>5. s # r => session'[s] = Revoke(S)[s]
    BY <2>2, <2>4
  <2>6. CASE s = r
    <3>1. session'[s] = [rw EXCEPT !.visible = b]
      BY <2>2, <2>4, <2>6
    <3>2. /\ [rw EXCEPT !.visible = b] \in Row /\ [rw EXCEPT !.visible = b].born = rw.born
          /\ [rw EXCEPT !.visible = b].from = rw.from /\ [rw EXCEPT !.visible = b].revoked = rw.revoked
          /\ [rw EXCEPT !.visible = b].visible = b
      BY <2>2 DEF Row
    <3> QED BY <2>2, <2>3, <2>6, <3>1, <3>2, Zenon DEF Kept
  <2> QED BY <1>2, <2>1, <2>5, <2>6
<1>7. ASSUME NEW r \in Requests, RevokeTarget(r) PROVE Goal
  <2>1. \A q \in {args[r].target} : session[q] # Null
    BY <1>0, <1>7 DEF RevokeTarget, At, Exists
  <2> QED BY <1>2, <1>7, <2>1 DEF RevokeTarget
<1>8. ASSUME NEW r \in Requests, RevokeOthers(r) PROVE Goal
  BY <1>2, <1>8 DEF RevokeOthers, Unrevoked, Exists
<1>9. ASSUME NEW r \in Requests, Fail(r) PROVE Goal
  <2>1. session' = session \/ (session' = [session EXCEPT ![r] = Null] /\ ~Exists(r))
    BY <1>0, <1>9 DEF Fail, At, Exists
  <2>2. session'[s] = session[s] \/ (session'[s] = Null /\ ~Exists(s))
    BY <1>0, <2>1 DEF TypeOK
  <2> QED BY <1>1, <2>2
<1>10. ASSUME NEW r \in Requests, Expire(r) PROVE Goal
  <2>1. PICK b \in BOOLEAN : b = TRUE
    OBVIOUS
  <2>2. session[r] \in Row
    BY <1>0, <1>10 DEF Expire, Exists, TypeOK
  <2>3. session' = [session EXCEPT ![r] = [session[r] EXCEPT !.expired = b]]
    BY <1>0, <1>10, <2>1 DEF Expire, TypeOK
  <2>4. LET new == [session[r] EXCEPT !.expired = b]
        IN  /\ new \in Row /\ new.from = session[r].from /\ new.born = session[r].born
            /\ new.visible = session[r].visible /\ new.revoked = session[r].revoked
    BY <2>2 DEF Row
  <2> QED BY <1>0, <1>1, <2>2, <2>3, <2>4 DEF TypeOK, Kept
<1>11. ASSUME Cleanup PROVE Goal
  BY <1>2, <1>11 DEF Cleanup, Unrevoked, Exists
<1>12. CASE UNCHANGED vars
  BY <1>1, <1>12 DEF vars
<1> HIDE DEF Goal
<1>13. Goal
  BY <1>1, <1>3, <1>4, <1>5, <1>6, <1>7, <1>8, <1>9, <1>10, <1>11, <1>12 DEF Next, Handle, Finished, vars, Goal
<1>14. Exists(s) => Exists(s)'
  <2>1. ASSUME Exists(s) PROVE session'[s] # Null /\ session'[s].visible
    BY <1>0, <1>13, <2>1 DEF Goal, Kept, Exists
  <2> QED BY <2>1 DEF Exists
<1> QED BY <1>13, <1>14 DEF Goal

\* A request is under way in a session.
Busy(r) == pc[r] \notin {"idle", "done"} /\ args[r].op # "login"

\* Handlers move one at a time; only FindSession leads to a rotation, only a request
\* that may be sent becomes busy.
LEMMA WhoMoves ==
    ASSUME TypeOK, [Next]_vars, NEW r \in Requests
    PROVE  /\ patient' = patient
           /\ pc'[r] = "rotate" => (pc[r] = "rotate" /\ args'[r] = args[r]) \/ FindSession(r)
           /\ Busy(r)' => \/ Busy(r) /\ args'[r] = args[r]
                          \/ /\ \A q \in Requests \ {r} : pc'[q] = pc[q] /\ args'[q] = args[q]
                             /\ patient => \A q \in Requests : ~Busy(q)
<1> DEFINE Stays == pc'[r] = pc[r] /\ args'[r] = args[r]
<1>1. ASSUME NEW q \in Requests, NEW op, NEW own, NEW target, NEW phase, Send(q, op, own, target, phase),
             phase # "rotate"
      PROVE  /\ pc'[r] = "rotate" => pc[r] = "rotate" /\ args'[r] = args[r]
             /\ Busy(r)' => \/ Busy(r) /\ args'[r] = args[r]
                            \/ /\ \A p \in Requests \ {r} : pc'[p] = pc[p] /\ args'[p] = args[p]
                               /\ patient => \A p \in Requests : ~Busy(p)
  <2>1. /\ \A p \in Requests \ {q} : pc'[p] = pc[p] /\ args'[p] = args[p]
        /\ pc'[q] = phase /\ args'[q].op = op
        /\ patient /\ op # "login" => \A p \in Requests : ~Busy(p)
    BY <1>1 DEF Send, MaySend, TypeOK, Busy
  <2> QED BY <1>1, <2>1 DEF Busy
<1>2. ASSUME NEW q \in Requests, pc[q] \notin {"idle", "done"}, args' = args, NEW phase, Goto(q, phase),
             phase = "rotate" => FindSession(q)
      PROVE  /\ pc'[r] = "rotate" => (pc[r] = "rotate" /\ args'[r] = args[r]) \/ FindSession(r)
             /\ Busy(r)' => Busy(r) /\ args'[r] = args[r]
  BY <1>2 DEF Goto, TypeOK, Busy
<1>3. CASE UNCHANGED <<pc, args>>
  BY <1>3 DEF Busy, Next, Handle, Cleanup, Finished, vars, Login, ListSessions, LoginCommit, Refresh, FindSession,
              Rotate, SendRevoke, SendRevokeOthers, Authenticate, RevokeTarget, RevokeOthers, Fail, Expire
<1>4. patient' = patient
  BY DEF Next, Handle, Cleanup, Finished, vars, Login, ListSessions, LoginCommit, Refresh, FindSession,
         Rotate, SendRevoke, SendRevokeOthers, Authenticate, RevokeTarget, RevokeOthers, Fail, Expire
<1>5. ASSUME NEW q \in Requests, Login(q) \/ Refresh(q) \/ SendRevoke(q) \/ SendRevokeOthers(q)
      PROVE  \E op, own, target, phase : Send(q, op, own, target, phase) /\ phase # "rotate"
  <2>1. "list" # "rotate" /\ "find" # "rotate" /\ "authenticate" # "rotate"
    OBVIOUS
  <2> QED BY <1>5, <2>1, Zenon DEF Login, Refresh, SendRevoke, SendRevokeOthers
<1>6. ASSUME NEW q \in Requests, ListSessions(q) \/ LoginCommit(q) \/ FindSession(q) \/ Rotate(q)
                                 \/ Authenticate(q) \/ RevokeTarget(q) \/ RevokeOthers(q) \/ Fail(q)
      PROVE  /\ pc[q] \notin {"idle", "done"} /\ args' = args
             /\ \E phase : Goto(q, phase) /\ (phase = "rotate" => FindSession(q))
  <2>1. pc[q] \notin {"idle", "done"} /\ args' = args
    BY <1>6 DEF ListSessions, LoginCommit, FindSession, Rotate, Authenticate, RevokeTarget, RevokeOthers, Fail
  <2>2. CASE FindSession(q)
    <3>1. Goto(q, "rotate") \/ Goto(q, "done")
      BY <2>2 DEF FindSession
    <3> QED BY <2>1, <2>2, <3>1, Zenon
  <2>3. CASE ~FindSession(q)
    <3>1. Goto(q, "evict") \/ Goto(q, "revoke") \/ Goto(q, "done")
      BY <1>6, <2>3, Zenon DEF ListSessions, LoginCommit, Rotate, Authenticate, RevokeTarget, RevokeOthers, Fail
    <3>2. "evict" # "rotate" /\ "revoke" # "rotate" /\ "done" # "rotate"
      OBVIOUS
    <3> QED BY <2>1, <3>1, <3>2, Zenon
  <2> QED BY <2>2, <2>3
<1>7. \/ UNCHANGED <<pc, args>>
      \/ \E q \in Requests : Login(q) \/ Refresh(q) \/ SendRevoke(q) \/ SendRevokeOthers(q)
      \/ \E q \in Requests : ListSessions(q) \/ LoginCommit(q) \/ FindSession(q) \/ Rotate(q)
                             \/ Authenticate(q) \/ RevokeTarget(q) \/ RevokeOthers(q) \/ Fail(q)
  BY DEF Next, Handle, Cleanup, Finished, vars, Expire
<1> QED BY <1>1, <1>2, <1>3, <1>4, <1>5, <1>6, <1>7

\* With a patient user every row has one successor at most, and one that has it is
\* revoked; who is about to rotate a row is the only one, and it has none yet.
Chained ==
    patient =>
        /\ \A s, t \in Requests :
              session[s] # Null /\ session[t] # Null /\ session[s].from = session[t].from /\ session[s].from # Null => s = t
        /\ \A s \in Requests : session[s] # Null /\ session[s].from # Null =>
              Exists(session[s].from) /\ session[session[s].from].revoked
        /\ \A r \in Requests : pc[r] = "rotate" =>
              \A s \in Requests : session[s] # Null => session[s].from # args[r].own
        /\ \A r, q \in Requests : Busy(r) /\ Busy(q) => r = q

LEMMA ChainedStep == IInv /\ Chained /\ [Next]_vars => Chained'
<1> SUFFICES ASSUME IInv, Chained, [Next]_vars, patient' PROVE Chained'
  BY DEF Chained
<1>0. /\ patient /\ \A r \in Requests : At(r)
      /\ Null \notin Row /\ Null \notin Requests /\ \A s \in Requests : session[s] \in Row \cup {Null}
  BY WhoMoves, NullAssumption DEF IInv, Placed, At, TypeOK, Next, Handle, Cleanup, Finished, vars, Login, ListSessions,
         LoginCommit, Refresh, FindSession, Rotate, SendRevoke, SendRevokeOthers, Authenticate, RevokeTarget,
         RevokeOthers, Fail, Expire
<1>1. \A r, q \in Requests : Busy(r) /\ Busy(q) => r = q
  BY <1>0 DEF Chained
<1>2. \A r \in Requests : pc[r] = "rotate" =>
        /\ Busy(r) /\ args[r].own \in Requests /\ Exists(args[r].own) /\ session[r] = Null
        /\ \A s \in Requests : session[s] # Null => session[s].from # args[r].own
  BY <1>0 DEF Chained, At, Busy
<1>3. ASSUME NEW s \in Requests, session'[s] # Null, session'[s].from # Null
      PROVE  \/ session[s] # Null /\ session'[s].from = session[s].from
             \/ Rotate(s) /\ pc[s] = "rotate" /\ session[s] = Null /\ session'[s].from = args[s].own
  BY <1>3, WhoIsBorn DEF Kept, Rotate
<1>4. ASSUME NEW s \in Requests, NEW t \in Requests, session'[s] # Null, session'[t] # Null,
             session'[s].from = session'[t].from, session'[s].from # Null
      PROVE  s = t
  BY <1>0, <1>1, <1>2, <1>3, <1>4 DEF Chained
<1>5. ASSUME NEW s \in Requests, session'[s] # Null, session'[s].from # Null
      PROVE  Exists(session[s].from)' /\ session'[session'[s].from].revoked
  <2>1. CASE session[s] # Null /\ session'[s].from = session[s].from
    <3>1. PICK p \in Requests : p = session[s].from /\ Exists(p) /\ session[p].revoked
      BY <1>0, <1>5, <2>1 DEF Chained, Row
    <3>2. Kept(p) /\ Exists(p)'
      BY <3>1, WhoIsBorn
    <3> QED BY <2>1, <3>1, <3>2 DEF Kept, Exists
  <2>2. CASE Rotate(s) /\ pc[s] = "rotate" /\ session'[s].from = args[s].own
    <3>1. PICK p \in Requests : p = args[s].own /\ Exists(p) /\ p # s /\ \A q \in {p} : session[q] # Null
      BY <1>2, <2>2 DEF Exists
    <3>2. session'[p] = Revoke({p})[p]
      BY <2>2, <3>1, RevokedTable DEF Rotate, IInv
    <3>3. session'[p].revoked /\ Exists(p)'
      BY <3>1, <3>2, WhoIsBorn, RevokedTable DEF IInv, Exists
    <3> QED BY <2>2, <3>1, <3>3 DEF Exists
  <2> QED BY <1>3, <1>5, <2>1, <2>2
<1>6. ASSUME NEW r \in Requests, pc'[r] = "rotate", NEW s \in Requests, session'[s] # Null
      PROVE  session'[s].from # args'[r].own
  <2>1. CASE pc[r] = "rotate" /\ args'[r] = args[r]
    <3>1. CASE session[s] # Null /\ session'[s].from = session[s].from
      BY <1>2, <2>1, <3>1
    <3>2. CASE session'[s].from = Null
      BY <1>0, <1>2, <2>1, <3>2
    <3>3. CASE Rotate(s) /\ pc[s] = "rotate"
      <4>1. s = r
        BY <1>1, <1>2, <2>1, <3>3
      <4> QED BY <1>6, <3>3, <4>1 DEF Rotate, Goto, IInv, TypeOK
    <3> QED BY <1>3, <1>6, <3>1, <3>2, <3>3
  <2>2. CASE FindSession(r)
    <3>1. session' = session /\ args' = args /\ Live(args[r].own) /\ args[r].own \in Requests
      BY <1>0, <1>6, <2>2 DEF FindSession, Goto, IInv, TypeOK, At
    <3>2. ~session[args[r].own].revoked
      BY <3>1 DEF Live
    <3> QED BY <1>0, <1>6, <3>1, <3>2 DEF Chained
  <2> QED BY <1>6, <2>1, <2>2, WhoMoves DEF IInv
<1>7. ASSUME NEW r \in Requests, NEW q \in Requests, Busy(r)', Busy(q)' PROVE r = q
  BY <1>0, <1>1, <1>7, WhoMoves DEF IInv, Busy
<1> QED BY <1>4, <1>5, <1>6, <1>7 DEF Chained, Busy, Exists

\* In a chain, the ancestors of an unrevoked row are a whole line: whatever is
\* rotated from one of them is one of them.
LEMMA LineIsWhole ==
    ASSUME IInv, Chained, patient, NEW s \in Unrevoked
    PROVE  /\ s \in Ancestors(s)
           /\ \A x \in Ancestors(s) : session[x] # Null /\ session[x].from # Null => session[x].from \in Ancestors(s)
           /\ \A y \in Requests : session[y] # Null /\ session[y].from \in Ancestors(s) => y \in Ancestors(s)
<1> DEFINE Up(S) == \A x \in S : session[x] # Null /\ session[x].from # Null => session[x].from \in S
           A == Ancestors(s)
<1>1. A \in SUBSET Requests /\ s \in Requests /\ Null \notin Requests
  BY NullAssumption DEF Ancestors, Unrevoked
<1>2. s \in A
  BY <1>1 DEF Ancestors
<1>3. Up(A)
  <2>1. \A x \in Requests : session[x] # Null /\ session[x].from # Null => session[x].from \in Requests
    BY NullAssumption DEF IInv, TypeOK, Row
  <2> QED BY <2>1 DEF Ancestors
<1>4. ASSUME NEW S \in SUBSET Requests, s \in S, Up(S) PROVE A \subseteq S
  BY <1>4 DEF Ancestors
<1>5. ASSUME NEW y \in Requests, session[y] # Null, session[y].from \in A, y \notin A PROVE FALSE
  <2> DEFINE x == session[y].from
  <2>1. x \in Requests /\ x # Null /\ session[x].revoked
    BY <1>1, <1>5 DEF Chained
  <2>2. x # s
    BY <2>1 DEF Unrevoked
  <2> HIDE DEF A
  <2>3. Up(A \ {x})
    <3> SUFFICES ASSUME NEW z \in A \ {x}, session[z] # Null, session[z].from # Null
                 PROVE  session[z].from \in A /\ session[z].from # x
      OBVIOUS
    <3>1. session[z].from \in A /\ z \in Requests /\ z # y
      BY <1>1, <1>3, <1>5
    <3> QED BY <1>5, <2>1, <3>1 DEF Chained
  <2> QED BY <1>1, <1>2, <1>4, <1>5, <2>2, <2>3
<1> QED BY <1>1, <1>2, <1>3, <1>5

\* One login keeps one live session, however often its token is rotated and whatever
\* is evicted, expires or fails meanwhile, while its client sends one request at a time.
THEOREM RotationKeepsOne == Spec => []OneSessionPerLine
<1>1. Init => Chained
  BY DEF Init, Chained, Busy
<1>2. IInv /\ Chained => OneSessionPerLine
  <2> SUFFICES ASSUME IInv, Chained, patient, NEW s \in Unrevoked, NEW t \in Unrevoked, SameLine(s, t)
               PROVE  s = t
    BY DEF OneSessionPerLine
  <2> DEFINE A == Ancestors(s)
             B == Ancestors(t)
             Up(S) == \A x \in S : session[x] # Null /\ session[x].from # Null => session[x].from \in S
  <2>1. /\ A \in SUBSET Requests /\ B \in SUBSET Requests /\ A \cap B # {}
        /\ s \in Requests /\ t \in Requests
    BY DEF Ancestors, SameLine, Unrevoked
  <2>2. Up(A) /\ Up(B) /\ s \in A /\ t \in B
    BY LineIsWhole
  <2>3. \A y \in Requests : session[y] # Null /\ session[y].from \in A => y \in A
    BY LineIsWhole
  <2>4. \A S \in SUBSET Requests : t \in S /\ Up(S) => B \subseteq S
    BY DEF Ancestors
  <2>5. \A S \in SUBSET Requests : s \in S /\ Up(S) => A \subseteq S
    BY DEF Ancestors
  <2>6. t \in A
    <3> SUFFICES ASSUME t \notin A PROVE FALSE
      OBVIOUS
    <3> HIDE DEF A, B
    <3>1. Up(B \ A)
      BY <2>1, <2>2, <2>3
    <3> QED BY <2>1, <2>2, <2>4, <3>1
  <2>7. \A y \in Requests : session[y] # Null => session[y].from # t
    BY NullAssumption DEF Chained, Unrevoked
  <2>8. s # t => Up(A \ {t})
    BY <2>1, <2>2, <2>7
  <2> HIDE DEF A, B
  <2> QED BY <2>1, <2>2, <2>5, <2>6, <2>8
<1>3. Spec => [](IInv /\ Chained)
  BY <1>1, InitPlaced, PlacedInductive, ChainedStep, PTL DEF Spec
<1> QED BY <1>2, <1>3, PTL
=============================================================================
