-------------------------------- MODULE Sessions --------------------------------
(***************************************************************************)
(* The sessions of one user: login, refresh, logout and revocation in       *)
(* apps/api/src/modules/auth, and the worker's revocation of what expired.  *)
(*                                                                          *)
(* Transactions run at READ COMMITTED.  login's transaction inserts its     *)
(* session, reads the user's unrevoked sessions and revokes the overflow:   *)
(* the insert shows to nobody before the commit, so what two overlapping    *)
(* logins read misses each other.  refresh reads the session outside its    *)
(* transaction.  Every authenticated handler reads its own session first,   *)
(* and acts after that read.                                                *)
(***************************************************************************)
EXTENDS Integers, FiniteSets

CONSTANTS
    Requests,  \* HTTP requests, finitely many, each sent at most once; one that creates a
               \* session gives the session its id
    Max,       \* SESSION_MAX_PER_USER
    Null

ASSUME RequestsAssumption == IsFiniteSet(Requests)
ASSUME MaxAssumption == Max \in Nat \ {0}

VARIABLES
    session,  \* [Requests -> Session row or Null]
    births,   \* how many rows were inserted, which orders them by createdAt
    pc,       \* per request: where its handler stands
    args,     \* per request: what it does, in which session, to which session
    found,    \* per request: the sessions its handler read
    patient   \* the user's habit: whether a client has one request of a session
              \* under way at a time and another client revokes nothing meanwhile
vars == <<session, births, pc, args, found, patient>>

\* visible once the transaction that inserted the row has committed.
Row  == [from: Requests \cup {Null}, revoked: BOOLEAN, expired: BOOLEAN, visible: BOOLEAN, born: Nat]
ASSUME NullAssumption == Null \notin Requests \cup Row

Phases == {"idle", "list", "evict", "find", "rotate", "authenticate", "revoke", "done"}
Ops  == {"login", "refresh", "revoke", "revokeOthers"}
Args == [op: Ops, own: Requests \cup {Null}, target: Requests \cup {Null}]
NoArgs == [op |-> "login", own |-> Null, target |-> Null]

Init == /\ session = [s \in Requests |-> Null]
        /\ births = 0
        /\ pc = [r \in Requests |-> "idle"]
        /\ args = [r \in Requests |-> NoArgs]
        /\ found = [r \in Requests |-> {}]
        /\ patient \in BOOLEAN
-----------------------------------------------------------------------------
Exists(s) == session[s] # Null /\ session[s].visible
Unrevoked == {s \in Requests : Exists(s) /\ ~session[s].revoked}

\* revokedAt: null, expiresAt: { gt: now }
Live(s) == Exists(s) /\ ~session[s].revoked /\ ~session[s].expired

Younger(t, s) == session[t].born > session[s].born

Inserted(parent, visible) ==
    [from |-> parent, revoked |-> FALSE, expired |-> FALSE, visible |-> visible, born |-> births]

\* updateMany of revokedAt on the rows of S.
Revoke(S) == [s \in Requests |-> IF s \in S THEN [session[s] EXCEPT !.revoked = TRUE] ELSE session[s]]

\* A patient user's clients have one request under way, logins aside.
MaySend(op) ==
    patient /\ op # "login" => \A r \in Requests : pc[r] \in {"idle", "done"} \/ args[r].op = "login"

Send(r, op, own, target, phase) ==
    /\ pc[r] = "idle" /\ MaySend(op)
    /\ args' = [args EXCEPT ![r] = [op |-> op, own |-> own, target |-> target]]
    /\ pc' = [pc EXCEPT ![r] = phase]

Goto(r, phase) == pc' = [pc EXCEPT ![r] = phase]
-----------------------------------------------------------------------------
\* POST /auth/login: the insert, inside the transaction.
Login(r) ==
    /\ Send(r, "login", Null, Null, "list")
    /\ session' = [session EXCEPT ![r] = Inserted(Null, FALSE)]
    /\ births' = births + 1
    /\ UNCHANGED <<found, patient>>

\* findMany, inside the transaction: what has committed and the own insert;
\* expired sessions are not left out.
ListSessions(r) ==
    /\ pc[r] = "list"
    /\ found' = [found EXCEPT ![r] = Unrevoked \cup {r}]
    /\ Goto(r, "evict")
    /\ UNCHANGED <<session, births, args, patient>>

\* The oldest of S, all but Max of them.
OverflowYoungest(S) ==  \* mutated form: ordered by createdAt desc
    {s \in S : Cardinality({t \in S : Younger(s, t)}) >= Max}
Overflow(S) == {s \in S : Cardinality({t \in S : Younger(t, s)}) >= Max}

\* The overflow is revoked by id and the transaction commits.
LoginCommit(r) ==
    /\ pc[r] = "evict"
    /\ session' = [Revoke(Overflow(found[r])) EXCEPT ![r].visible = TRUE]
    /\ Goto(r, "done")
    /\ UNCHANGED <<births, args, found, patient>>
-----------------------------------------------------------------------------
\* POST /auth/refresh with the token of session s.
Refresh(r) ==
    /\ \E s \in Requests : Exists(s) /\ Send(r, "refresh", s, s, "find")
    /\ UNCHANGED <<session, births, found, patient>>

FindSession(r) ==
    /\ pc[r] = "find"
    /\ \/ Live(args[r].own) /\ Goto(r, "rotate")
       \/ ~Live(args[r].own) /\ Goto(r, "done")
    /\ UNCHANGED <<session, births, args, found, patient>>

\* The transaction: revoke the session read before, by id alone, and insert its
\* successor.
RotateKeepingParent(r) ==  \* mutated form: the parent not revoked
    /\ pc[r] = "rotate"
    /\ session' = [session EXCEPT ![r] = Inserted(args[r].own, TRUE)]
    /\ births' = births + 1
    /\ Goto(r, "done")
    /\ UNCHANGED <<args, found, patient>>
Rotate(r) ==
    /\ pc[r] = "rotate"
    /\ session' = [Revoke({args[r].own}) EXCEPT ![r] = Inserted(args[r].own, TRUE)]
    /\ births' = births + 1
    /\ Goto(r, "done")
    /\ UNCHANGED <<args, found, patient>>
-----------------------------------------------------------------------------
\* POST /auth/logout (target = own) and DELETE /auth/sessions/:id.
SendRevoke(r) ==
    /\ \E s, t \in Requests : Exists(s) /\ Exists(t) /\ Send(r, "revoke", s, t, "authenticate")
    /\ UNCHANGED <<session, births, found, patient>>

\* DELETE /auth/sessions
SendRevokeOthers(r) ==
    /\ \E s \in Requests : Exists(s) /\ Send(r, "revokeOthers", s, Null, "authenticate")
    /\ UNCHANGED <<session, births, found, patient>>

\* The preHandler: the session of the access token is read, and is live or not.
Authenticate(r) ==
    /\ pc[r] = "authenticate"
    /\ \/ Live(args[r].own) /\ Goto(r, "revoke")
       \/ ~Live(args[r].own) /\ Goto(r, "done")
    /\ UNCHANGED <<session, births, args, found, patient>>

RevokeTarget(r) ==
    /\ pc[r] = "revoke" /\ args[r].op = "revoke"
    /\ session' = Revoke({args[r].target})
    /\ Goto(r, "done")
    /\ UNCHANGED <<births, args, found, patient>>

RevokeOthers(r) ==
    /\ pc[r] = "revoke" /\ args[r].op = "revokeOthers"
    /\ session' = Revoke(Unrevoked \ {args[r].own})
    /\ Goto(r, "done")
    /\ UNCHANGED <<births, args, found, patient>>

\* An awaited call fails or the instance stops; an open transaction is undone.
Fail(r) ==
    /\ pc[r] \notin {"idle", "done"}
    /\ session' = IF pc[r] \in {"list", "evict"} THEN [session EXCEPT ![r] = Null] ELSE session
    /\ Goto(r, "done")
    /\ UNCHANGED <<births, args, found, patient>>
-----------------------------------------------------------------------------
\* Thirty days pass for session s, and so for every older one.
Expire(s) ==
    /\ Exists(s) /\ ~session[s].expired
    /\ \A t \in Requests : Exists(t) /\ Younger(s, t) => session[t].expired
    /\ session' = [session EXCEPT ![s].expired = TRUE]
    /\ UNCHANGED <<births, pc, args, found, patient>>

\* The worker's cleanup.expired job.
Cleanup ==
    /\ \E s \in Unrevoked : session[s].expired
    /\ session' = Revoke({s \in Unrevoked : session[s].expired})
    /\ UNCHANGED <<births, pc, args, found, patient>>

\* Every request was served, every session has expired and been cleaned up.
Finished ==
    /\ \A r \in Requests : pc[r] = "done" /\ (Exists(r) => session[r].expired /\ session[r].revoked)
    /\ UNCHANGED vars

Handle(r) == \/ Login(r) \/ ListSessions(r) \/ LoginCommit(r)
             \/ Refresh(r) \/ FindSession(r) \/ Rotate(r)
             \/ SendRevoke(r) \/ SendRevokeOthers(r) \/ Authenticate(r)
             \/ RevokeTarget(r) \/ RevokeOthers(r) \/ Fail(r)

Next == Cleanup \/ Finished \/ \E r \in Requests : Handle(r) \/ Expire(r)

Spec == Init /\ [][Next]_vars
-----------------------------------------------------------------------------
\* Every variable keeps its shape.
TypeOK ==
    /\ session \in [Requests -> Row \cup {Null}]
    /\ births \in Nat
    /\ pc \in [Requests -> Phases]
    /\ args \in [Requests -> Args]
    /\ found \in [Requests -> SUBSET Requests]
    /\ patient \in BOOLEAN

\* A login leaves at most Max of the sessions it read and revokes only sessions
\* that Max younger ones have followed, whatever else ran inside its transaction.
EvictsOldest ==
    [][\A r \in Requests : pc[r] = "evict" /\ Exists(r)' =>
          /\ Cardinality({s \in found[r] : ~session'[s].revoked}) <= Max
          /\ \A s \in Requests : session[s] # Null /\ session'[s].revoked /\ ~session[s].revoked =>
                Cardinality({t \in Requests : session[t] # Null /\ Younger(t, s)}) >= Max]_vars

\* s and what it was rotated from: the rows in every set that has s and, with a
\* row, the row that one was rotated from.
Ancestors(s) == {a \in Requests : \A S \in SUBSET Requests :
    s \in S /\ (\A x \in S : session[x] # Null /\ session[x].from # Null => session[x].from \in S) => a \in S}
SameLine(s, t) == Ancestors(s) \cap Ancestors(t) # {}

\* One login is one device: however often its token is rotated, at most one session
\* of the line is unrevoked, as long as its client sends one request at a time.
OneSessionPerLine == patient => \A s, t \in Unrevoked : SameLine(s, t) => s = t

\* docs/security.md:5, refresh tokens are "rotated on use" and sessions "can be
\* revoked": once a session is revoked, by rotation, logout or eviction, no session
\* is born of it (expired ones aside, which the worker revokes).
RevokedHasNoHeir ==
    [][\A s \in Requests : session[s] = Null /\ Exists(s)' /\ session'[s].from # Null =>
          LET parent == session[session'[s].from] IN parent.revoked => parent.expired]_vars
=============================================================================
