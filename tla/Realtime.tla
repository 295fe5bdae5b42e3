-------------------------------- MODULE Realtime --------------------------------
(***************************************************************************)
(* The sockets of one user: the tabs of the web client (lib/socket.ts, the   *)
(* effect of DashboardPage, the token store and the 401 interceptor) and the  *)
(* registry of one socket per user that each instance of the API keeps in     *)
(* memory (apps/api/src/websocket/socket.ts).                                 *)
(*                                                                          *)
(* Either end may see a connection as lost before the other does.  A          *)
(* handshake is checked against the database, during which the tab may go.    *)
(***************************************************************************)
EXTENDS Integers, FiniteSets

CONSTANTS
    Tabs,
    Instances,   \* API processes
    Pool,        \* bound: sockets there are at a time; ids are used again
    MaxEvents,   \* bound: logins, lost connections and restarts together
    Null

Sockets == 1..Pool
ASSUME BoundAssumption == {Pool, MaxEvents} \subseteq Nat

VARIABLES
    token,   \* per tab: accessToken; "bad" once it has expired or its session is revoked
    client,  \* per tab: the state of its socket.io client
    cur,     \* per tab: the connection it dialled or has, or Null
    conn,    \* [Sockets -> connection as the server sees it, or Null]
    active,  \* per instance: activeUsers.get(user.id)
    gauge,   \* per instance: websocketConnections
    events   \* how many events there were (bound only)
vars == <<token, client, cur, conn, active, gauge, events>>

\* cut: the tab is gone and the server has not noticed.  "gone": the server ended it
\* and says so; "lost": it ended it and cannot.
Phases == {"check", "verified", "open", "gone", "lost"}
Conn == [tab : Tabs, at : Instances, phase : Phases, cut : BOOLEAN]
ASSUME NullAssumption == Null \notin Sockets \cup Conn

Init == /\ token = [t \in Tabs |-> "none"] /\ client = [t \in Tabs |-> "off"]
        /\ cur = [t \in Tabs |-> Null] /\ conn = [s \in Sockets |-> Null]
        /\ active = [i \in Instances |-> Null] /\ gauge = [i \in Instances |-> 0]
        /\ events = 0

In(s, phases) == conn[s] # Null /\ conn[s].phase \in phases
Open(i) == {s \in Sockets : In(s, {"open"}) /\ conn[s].at = i}
Moved(c, phase) == [c EXCEPT !.phase = phase]
Ended(c, phase) == IF c.cut THEN Null ELSE Moved(c, phase)  \* by the server
Happens == events < MaxEvents /\ events' = events + 1

\* The client's end of its connection is closed; who is left to notice is the server.
Hangup(t) == conn' = [s \in Sockets |->
    IF s # cur[t] THEN conn[s]
    ELSE IF conn[s].phase \in {"gone", "lost"} THEN Null ELSE [conn[s] EXCEPT !.cut = TRUE]]
Turn(t, state, socket) == client' = [client EXCEPT ![t] = state] /\ cur' = [cur EXCEPT ![t] = socket]
-----------------------------------------------------------------------------
\* LoginPage: setAuth, and the effect calls connectSocket with the token.
Login(t) ==
    /\ token[t] = "none" /\ Happens
    /\ token' = [token EXCEPT ![t] = "good"] /\ Turn(t, "dial", Null)
    /\ UNCHANGED <<conn, active, gauge>>

\* Fifteen minutes pass, or the session is revoked elsewhere.
Spoil(t) ==
    /\ token[t] = "good" /\ token' = [token EXCEPT ![t] = "bad"]
    /\ UNCHANGED <<client, cur, conn, active, gauge, events>>

\* logout of the store, after which the cleanup of the effect disconnects.
SignOutOnly(t) ==  \* mutated form: an effect without cleanup
    /\ token[t] # "none"
    /\ token' = [token EXCEPT ![t] = "none"] /\ Turn(t, "off", Null)
    /\ UNCHANGED <<conn, active, gauge, events>>
SignOut(t) ==
    /\ token[t] # "none"
    /\ token' = [token EXCEPT ![t] = "none"] /\ Turn(t, "off", Null) /\ Hangup(t)
    /\ UNCHANGED <<active, gauge, events>>

\* The button, whatever POST /auth/logout answers; a reload, which forgets the token.
HandleLogout(t) == SignOut(t)

\* The interceptor: a request is answered 401.
Rejected(t) == token[t] = "bad" /\ SignOut(t)

Handshake(t, i) == [tab |-> t, at |-> i, phase |-> "check", cut |-> FALSE]

\* The client connects, or reconnects with reconnectionAttempts Infinity.
Dial(t) ==
    /\ client[t] = "dial"
    /\ \E i \in Instances, s \in {u \in Sockets : conn[u] = Null /\ \A v \in 1..(u - 1) : conn[v] # Null} :
          /\ conn' = [conn EXCEPT ![s] = Handshake(t, i)]
          /\ Turn(t, "wait", s)
    /\ UNCHANGED <<token, active, gauge, events>>

Up(t) ==
    /\ client[t] = "wait" /\ In(cur[t], {"open"})
    /\ Turn(t, "up", cur[t])
    /\ UNCHANGED <<token, conn, active, gauge, events>>

\* connect_error of a refused handshake or "io server disconnect": the client
\* library leaves it to the program to connect again, and the program does not.
GoodbyeRetried(t) ==  \* mutated form: it connects again
    /\ cur[t] # Null /\ In(cur[t], {"gone"})
    /\ Turn(t, "dial", Null) /\ conn' = [conn EXCEPT ![cur[t]] = Null]
    /\ UNCHANGED <<token, active, gauge, events>>
Goodbye(t) ==
    /\ cur[t] # Null /\ In(cur[t], {"gone"})
    /\ Turn(t, "ended", Null) /\ conn' = [conn EXCEPT ![cur[t]] = Null]
    /\ UNCHANGED <<token, active, gauge, events>>

\* The transport is closed under the client: because the server closed it, or before.
LossSeen(t) ==
    /\ cur[t] # Null /\ In(cur[t], {"lost"})
    /\ Turn(t, "dial", Null) /\ conn' = [conn EXCEPT ![cur[t]] = Null]
    /\ UNCHANGED <<token, active, gauge, events>>

Lose(t) ==
    /\ cur[t] # Null /\ Happens
    /\ Turn(t, "dial", Null) /\ Hangup(t)
    /\ UNCHANGED <<token, active, gauge>>
-----------------------------------------------------------------------------
\* io.use: the token and its session are checked.  An older token of a tab that is
\* gone may still be good; a query that is rejected refuses the handshake.
Verify(s) ==
    /\ In(s, {"check"})
    /\ \/ /\ token[conn[s].tab] = "good" \/ conn[s].cut
          /\ conn' = [conn EXCEPT ![s] = Moved(@, "verified")]
       \/ conn' = [conn EXCEPT ![s] = Ended(@, "gone")]
    /\ UNCHANGED <<token, client, cur, active, gauge, events>>

\* The connection handler.  disconnect(true) runs the disconnect handler of the
\* previous socket before it returns.
AdmitBeside(s) ==  \* mutated form: the previous socket is kept
    /\ In(s, {"verified"})
    /\ conn' = [conn EXCEPT ![s] = Moved(@, "open")]
    /\ active' = [active EXCEPT ![conn[s].at] = s]
    /\ gauge' = [gauge EXCEPT ![conn[s].at] = @ + 1]
    /\ UNCHANGED <<token, client, cur, events>>
Admit(s) ==
    /\ In(s, {"verified"})
    /\ LET i == conn[s].at
           previous == active[i]
       IN /\ conn' = [c \in Sockets |->
                IF c = s THEN Moved(conn[c], "open")
                ELSE IF c = previous THEN Ended(conn[c], "gone") ELSE conn[c]]
          /\ active' = [active EXCEPT ![i] = s]
          /\ gauge' = [gauge EXCEPT ![i] = (IF previous = Null THEN @ ELSE @ - 1) + 1]
    /\ UNCHANGED <<token, client, cur, events>>

\* The disconnect handler.
Disconnected(s) ==
    IF ~In(s, {"open"}) THEN UNCHANGED <<active, gauge>> ELSE
    /\ active' = [active EXCEPT ![conn[s].at] = IF @ = s THEN Null ELSE @]
    /\ gauge' = [gauge EXCEPT ![conn[s].at] = @ - 1]

\* A tab that is gone is noticed; a handshake that is still checked is dropped.
Notice(s) ==
    /\ conn[s] # Null /\ conn[s].cut
    /\ Disconnected(s) /\ conn' = [conn EXCEPT ![s] = Null]
    /\ UNCHANGED <<token, client, cur, events>>

\* The server gives a connection up while the tab believes in it.
Drop(s) ==
    /\ In(s, {"open"}) /\ ~conn[s].cut /\ Happens
    /\ Disconnected(s) /\ conn' = [conn EXCEPT ![s] = Moved(@, "lost")]
    /\ UNCHANGED <<token, client, cur>>

\* An instance is killed and starts again.
Restart(i) ==
    /\ Happens
    /\ conn' = [s \in Sockets |->
          IF conn[s] = Null \/ conn[s].at # i THEN conn[s] ELSE Ended(conn[s], "lost")]
    /\ active' = [active EXCEPT ![i] = Null] /\ gauge' = [gauge EXCEPT ![i] = 0]
    /\ UNCHANGED <<token, client, cur>>

Client(t) == Dial(t) \/ Up(t) \/ Goodbye(t) \/ LossSeen(t)
Server(s) == Verify(s) \/ Admit(s) \/ Notice(s)

Next == \/ \E t \in Tabs : \/ Login(t) \/ Spoil(t) \/ HandleLogout(t) \/ Rejected(t)
                        \/ Lose(t) \/ Client(t)
        \/ \E s \in Sockets : Drop(s) \/ Server(s)
        \/ \E i \in Instances : Restart(i)

Spec == Init /\ [][Next]_vars

\* Clients dial again after their back-off and hear what they are told; checks return
\* and pings time out.  Nothing is assumed of users, networks and restarts.
Fairness == /\ \A t \in Tabs : WF_vars(Client(t))
            /\ \A s \in Sockets : WF_vars(Server(s))
FairSpec == Spec /\ Fairness
-----------------------------------------------------------------------------
\* Every variable keeps its shape.
TypeOK ==
    /\ token \in [Tabs -> {"none", "good", "bad"}]
    /\ client \in [Tabs -> {"off", "dial", "wait", "up", "ended"}]
    /\ cur \in [Tabs -> Sockets \cup {Null}] /\ conn \in [Sockets -> Conn \cup {Null}]
    /\ active \in [Instances -> Sockets \cup {Null}] /\ gauge \in [Instances -> Nat]
    /\ events \in 0..MaxEvents

\* docs/security.md:52, one connection per user, as far as an instance can tell: its
\* open sockets of the user are the registered one, and its gauge counts them,
\* however late handshakes return and in whatever order the two ends notice.
RegistryAgrees ==
    \A i \in Instances : /\ Open(i) = {active[i]} \ {Null}
                         /\ gauge[i] = Cardinality(Open(i))

\* A tab that has logged out, by itself or by a 401, ends up without an open socket,
\* also when it left during the handshake.
LogoutCloses ==
    \A t \in Tabs : token[t] = "none" ~>
        token[t] # "none" \/ \A s \in Sockets : In(s, {"open"}) => conn[s].tab # t

\* Tabs settle: once nothing more happens, each is connected, off, or ended for good.
\* No tab is left dialling, and tabs on one instance do not replace each other in turn.
Settles == \A t \in Tabs : <>[](client[t] \in {"off", "up", "ended"})
=============================================================================
