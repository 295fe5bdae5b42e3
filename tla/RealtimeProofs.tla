----------------------------- MODULE RealtimeProofs -----------------------------
(***************************************************************************)
(* Proofs about Realtime, for any tabs, instances, sockets and events: the   *)
(* type invariant, that the registry and the gauge of each instance agree     *)
(* with its open sockets, and that a tab has one live connection or none.      *)
(***************************************************************************)
EXTENDS Realtime, FiniteSetTheorems, TLAPS

\* A tab's connection is there, its own, and not given up by it.
Owned == \A t \in Tabs : cur[t] # Null =>
            conn[cur[t]] # Null /\ conn[cur[t]].tab = t /\ ~conn[cur[t]].cut

\* A socket is open exactly where it is registered, and the gauge says if one is.
Registered ==
    \A i \in Instances :
        /\ \A s \in Sockets : In(s, {"open"}) /\ conn[s].at = i <=> active[i] = s
        /\ gauge[i] = IF active[i] = Null THEN 0 ELSE 1

Coherent == TypeOK /\ Owned /\ Registered

LEMMA CoherentInit == Init => Coherent
BY BoundAssumption, NullAssumption DEF Init, Coherent, TypeOK, Owned, Registered, In

LEMMA NullIsNoConn == Null \notin Conn /\ Null \notin Sockets
BY NullAssumption

LEMMA PhaseSet ==
    ASSUME NEW c \in Conn, NEW p \in Phases, NEW d, d = Moved(c, p)
    PROVE  d \in Conn /\ d # Null /\ d.tab = c.tab /\ d.at = c.at /\ d.phase = p /\ d.cut = c.cut
<1>1. d \in Conn /\ d.tab = c.tab /\ d.at = c.at /\ d.phase = p /\ d.cut = c.cut
  BY DEF Moved, Conn
<1> QED BY <1>1, NullIsNoConn

LEMMA CutSet ==
    ASSUME NEW c \in Conn, NEW d, d = [c EXCEPT !.cut = TRUE]
    PROVE  d \in Conn /\ d # Null /\ d.tab = c.tab /\ d.at = c.at /\ d.phase = c.phase /\ d.cut
<1>1. d \in Conn /\ d.tab = c.tab /\ d.at = c.at /\ d.phase = c.phase /\ d.cut
  BY DEF Conn
<1> QED BY <1>1, NullIsNoConn

LEMMA HandshakeIsConn ==
    ASSUME NEW t \in Tabs, NEW i \in Instances, NEW d, d = Handshake(t, i)
    PROVE  d \in Conn /\ d # Null /\ d.tab = t /\ d.phase = "check" /\ ~d.cut
<1>1. d \in Conn /\ d.tab = t /\ d.phase = "check" /\ ~d.cut
  BY DEF Handshake, Conn, Phases
<1> QED BY <1>1, NullIsNoConn

\* What becomes of the other connections when a tab hangs up, and of its own.
LEMMA HangupChanges ==
    ASSUME Coherent, NEW t \in Tabs, Hangup(t)
    PROVE  /\ conn' \in [Sockets -> Conn \cup {Null}]
           /\ \A s \in Sockets : s # cur[t] => conn'[s] = conn[s]
           /\ \A s \in Sockets : In(s, {"open"})' <=> In(s, {"open"})
           /\ \A s \in Sockets : In(s, {"open"}) => conn'[s].at = conn[s].at
<1> USE DEF Coherent, TypeOK, Owned
<1>1. \A s \in Sockets : s # cur[t] => conn'[s] = conn[s]
  BY DEF Hangup
<1>2. CASE cur[t] = Null
  BY <1>1, <1>2, NullAssumption DEF Hangup, In
<1>3. CASE cur[t] # Null
  <2> DEFINE s == cur[t]
  <2>1. s \in Sockets /\ conn[s] \in Conn
    BY <1>3
  <2>2. CASE conn[s].phase \in {"gone", "lost"}
    <3>1. conn'[s] = Null
      BY <2>1, <2>2 DEF Hangup
    <3> QED BY <1>1, <2>1, <2>2, <3>1 DEF Hangup, In
  <2>3. CASE conn[s].phase \notin {"gone", "lost"}
    <3>1. conn'[s] = [conn[s] EXCEPT !.cut = TRUE]
      BY <2>1, <2>3 DEF Hangup
    <3>2. conn'[s] \in Conn /\ conn'[s] # Null /\ conn'[s].at = conn[s].at /\ conn'[s].phase = conn[s].phase
      BY <2>1, <3>1, CutSet
    <3> QED BY <1>1, <2>1, <3>2, NullIsNoConn DEF Hangup, In
  <2> QED BY <2>2, <2>3
<1> QED BY <1>1, <1>2, <1>3

\* The disconnect handler takes a socket that was open out of the registry.
LEMMA DisconnectedChanges ==
    ASSUME Coherent, NEW s \in Sockets, conn[s] # Null, Disconnected(s)
    PROVE  \A i \in Instances :
              /\ active'[i] = IF active[i] = s THEN Null ELSE active[i]
              /\ gauge'[i] = IF active'[i] = Null THEN 0 ELSE 1
<1> USE DEF Coherent, TypeOK, Registered
<1>1. conn[s].at \in Instances
  BY DEF Conn
<1>2. CASE In(s, {"open"})
  <2>1. /\ active[conn[s].at] = s /\ gauge[conn[s].at] = 1
        /\ active' = [active EXCEPT ![conn[s].at] = Null]
        /\ gauge' = [gauge EXCEPT ![conn[s].at] = 0]
    BY <1>1, <1>2, NullIsNoConn DEF Disconnected
  <2>2. \A i \in Instances : active[i] = s => i = conn[s].at
    OBVIOUS
  <2> QED BY <1>1, <2>1, <2>2, NullIsNoConn
<1>3. CASE ~In(s, {"open"})
  <2>1. UNCHANGED <<active, gauge>>
    BY <1>3 DEF Disconnected
  <2>2. \A i \in Instances : active[i] # s
    BY <1>3
  <2> QED BY <2>1, <2>2
<1> QED BY <1>2, <1>3

LEMMA ClientStep ==
    ASSUME Coherent, NEW t \in Tabs,
           Login(t) \/ Spoil(t) \/ HandleLogout(t) \/ Rejected(t) \/ Lose(t) \/ Client(t)
    PROVE  Coherent'
<1> USE BoundAssumption, NullIsNoConn DEF Coherent, TypeOK, Owned, Registered, Turn, Happens
<1>1. CASE Login(t)
  BY <1>1 DEF Login, In
<1>2. CASE Spoil(t)
  BY <1>2 DEF Spoil, In
<1>3. CASE SignOut(t)
  BY <1>3, HangupChanges DEF SignOut
<1>4. CASE Lose(t)
  BY <1>4, HangupChanges DEF Lose
<1>5. CASE Dial(t)
  <2>1. PICK i \in Instances, s \in Sockets :
           conn[s] = Null /\ conn' = [conn EXCEPT ![s] = Handshake(t, i)] /\ Turn(t, "wait", s)
    BY <1>5 DEF Dial
  <2>2. /\ conn'[s] \in Conn /\ conn'[s] # Null
        /\ conn'[s].tab = t /\ conn'[s].phase = "check" /\ ~conn'[s].cut
    <3>1. conn'[s] = Handshake(t, i)
      BY <2>1
    <3> QED BY <3>1, HandshakeIsConn
  <2>3. \A u \in Sockets : u # s => conn'[u] = conn[u]
    BY <2>1
  <2>4. conn' \in [Sockets -> Conn \cup {Null}]
    BY <2>1, <2>2
  <2>5. UNCHANGED <<token, active, gauge, events>>
    BY <1>5 DEF Dial
  <2> QED BY <2>1, <2>2, <2>3, <2>4, <2>5 DEF In
<1>6. CASE Up(t)
  BY <1>6 DEF Up, In
<1>7. CASE Goodbye(t) \/ LossSeen(t)
  BY <1>7 DEF Goodbye, LossSeen, In
<1> QED BY <1>1, <1>2, <1>3, <1>4, <1>5, <1>6, <1>7 DEF HandleLogout, Rejected, Client

LEMMA ServerStep ==
    ASSUME Coherent, NEW s \in Sockets, Drop(s) \/ Server(s)
    PROVE  Coherent'
<1> USE NullIsNoConn DEF Coherent, TypeOK, Owned, Registered
<1>t. conn[s] # Null => conn[s] \in Conn /\ conn[s].at \in Instances
  BY DEF Conn
<1>1. CASE Verify(s)
  <2>1. In(s, {"check"}) /\ UNCHANGED <<token, client, cur, active, gauge, events>>
    BY <1>1 DEF Verify
  <2>2. /\ \A u \in Sockets : u # s => conn'[u] = conn[u]
        /\ conn' = [u \in Sockets |-> conn'[u]]
    BY <1>1 DEF Verify
  <2>3. \/ conn'[s] = Null /\ conn[s].cut
        \/ \E p \in {"verified", "gone"} : conn'[s] = Moved(conn[s], p)
    BY <1>1 DEF Verify, Ended, In
  <2>4. \/ conn'[s] = Null /\ conn[s].cut
        \/ /\ conn'[s] \in Conn /\ conn'[s] # Null /\ conn'[s].phase # "open"
           /\ conn'[s].tab = conn[s].tab /\ conn'[s].cut = conn[s].cut
    BY <1>t, <2>1, <2>3, PhaseSet DEF In, Phases
  <2>5. conn' \in [Sockets -> Conn \cup {Null}]
    BY <2>2, <2>4
  <2> QED BY <2>1, <2>2, <2>4, <2>5 DEF In
<1>2. CASE Admit(s)
  <2> DEFINE i == conn[s].at
             previous == active[i]
  <2>1. i \in Instances /\ conn[s].phase = "verified" /\ previous # s
    BY <1>2, <1>t DEF Admit, In
  <2>2. /\ UNCHANGED <<token, client, cur, events>>
        /\ active' = [active EXCEPT ![i] = s] /\ gauge' = [gauge EXCEPT ![i] = 1]
    <3> DEFINE g == (IF previous = Null THEN gauge[i] ELSE gauge[i] - 1) + 1
    <3>1. g = 1
      BY <2>1
    <3>2. /\ UNCHANGED <<token, client, cur, events>>
          /\ active' = [active EXCEPT ![i] = s] /\ gauge' = [gauge EXCEPT ![i] = g]
      BY <1>2 DEF Admit
    <3> HIDE DEF g
    <3> QED BY <3>1, <3>2
  <2>3. /\ conn'[s] \in Conn /\ conn'[s] # Null /\ conn'[s].phase = "open"
        /\ conn'[s].tab = conn[s].tab /\ conn'[s].cut = conn[s].cut /\ conn'[s].at = i
    <3>1. conn'[s] = Moved(conn[s], "open")
      BY <1>2 DEF Admit
    <3> QED BY <1>2, <1>t, <3>1, PhaseSet DEF Admit, In, Phases
  <2>4. \A u \in Sockets : u # s /\ u # previous => conn'[u] = conn[u]
    BY <1>2 DEF Admit
  <2>5. ASSUME previous # Null
        PROVE  /\ previous \in Sockets /\ conn[previous] # Null /\ conn[previous].at = i
               /\ \/ conn'[previous] = Null /\ conn[previous].cut
                  \/ /\ conn'[previous] \in Conn /\ conn'[previous] # Null /\ conn'[previous].phase # "open"
                     /\ conn'[previous].tab = conn[previous].tab /\ conn'[previous].cut = conn[previous].cut
    <3>1. previous \in Sockets /\ conn[previous] \in Conn /\ conn[previous].at = i
      BY <2>1, <2>5 DEF In
    <3>2. \/ conn'[previous] = Null /\ conn[previous].cut
          \/ conn'[previous] = Moved(conn[previous], "gone")
      BY <1>2, <2>1, <3>1 DEF Admit, Ended
    <3> QED BY <3>1, <3>2, PhaseSet DEF Phases
  <2>6. conn' \in [Sockets -> Conn \cup {Null}]
    <3>1. conn' = [u \in Sockets |-> conn'[u]]
      BY <1>2 DEF Admit
    <3> QED BY <2>3, <2>4, <2>5, <3>1
  <2>7. Owned'
    BY <2>2, <2>3, <2>4, <2>5
  <2>8. Registered'
    <3> SUFFICES ASSUME NEW j \in Instances
                 PROVE  /\ \A u \in Sockets : In(u, {"open"})' /\ conn'[u].at = j <=> active'[j] = u
                        /\ gauge'[j] = IF active'[j] = Null THEN 0 ELSE 1
      OBVIOUS
    <3>1. CASE j = i
      BY <2>1, <2>2, <2>3, <2>4, <2>5, <3>1 DEF In
    <3>2. CASE j # i
      BY <2>1, <2>2, <2>3, <2>4, <2>5, <3>2 DEF In
    <3> QED BY <3>1, <3>2
  <2> QED BY <2>1, <2>2, <2>6, <2>7, <2>8
<1>3. CASE Notice(s)
  <2>1. /\ conn[s] # Null /\ conn[s].cut /\ conn' = [conn EXCEPT ![s] = Null] /\ Disconnected(s)
        /\ UNCHANGED <<token, client, cur, events>>
    BY <1>3 DEF Notice
  <2>2. /\ active' \in [Instances -> Sockets \cup {Null}] /\ gauge' \in [Instances -> Nat]
    BY <2>1, <1>t DEF Disconnected, In
  <2> QED BY <2>1, <2>2, DisconnectedChanges DEF In
<1>4. CASE Drop(s)
  <2>1. /\ In(s, {"open"}) /\ Disconnected(s) /\ conn' = [conn EXCEPT ![s] = Moved(@, "lost")]
        /\ UNCHANGED <<token, client, cur>> /\ events' \in 0..MaxEvents
    BY <1>4, BoundAssumption DEF Drop, Happens
  <2>2. /\ active' \in [Instances -> Sockets \cup {Null}] /\ gauge' \in [Instances -> Nat]
    BY <2>1, <1>t DEF Disconnected, In
  <2>3. /\ conn'[s] \in Conn /\ conn'[s] # Null /\ conn'[s].phase # "open"
        /\ conn'[s].tab = conn[s].tab /\ conn'[s].cut = conn[s].cut
    <3>1. conn'[s] = Moved(conn[s], "lost")
      BY <2>1
    <3> QED BY <2>1, <1>t, <3>1, PhaseSet DEF In, Phases
  <2>4. \A u \in Sockets : u # s => conn'[u] = conn[u]
    BY <2>1
  <2>5. conn' \in [Sockets -> Conn \cup {Null}]
    <3>1. conn' = [u \in Sockets |-> conn'[u]]
      BY <2>1
    <3> QED BY <2>3, <2>4, <3>1
  <2>6. \A i \in Instances : /\ active'[i] = IF active[i] = s THEN Null ELSE active[i]
                             /\ gauge'[i] = IF active'[i] = Null THEN 0 ELSE 1
    BY <2>1, DisconnectedChanges DEF In
  <2> QED BY <2>1, <2>2, <2>3, <2>4, <2>5, <2>6 DEF In
<1> QED BY <1>1, <1>2, <1>3, <1>4 DEF Server

LEMMA RestartStep == ASSUME Coherent, NEW i \in Instances, Restart(i) PROVE Coherent'
<1> USE NullIsNoConn DEF Coherent, TypeOK, Owned, Registered
<1>1. /\ UNCHANGED <<token, client, cur>> /\ events' \in 0..MaxEvents
      /\ active' = [active EXCEPT ![i] = Null] /\ gauge' = [gauge EXCEPT ![i] = 0]
  BY BoundAssumption DEF Restart, Happens
<1>2. \A u \in Sockets : conn[u] = Null \/ conn[u].at # i => conn'[u] = conn[u]
  BY DEF Restart
<1>3. ASSUME NEW u \in Sockets, conn[u] # Null, conn[u].at = i
      PROVE  \/ conn'[u] = Null /\ conn[u].cut
             \/ /\ conn'[u] \in Conn /\ conn'[u] # Null /\ conn'[u].phase # "open"
                /\ conn'[u].tab = conn[u].tab /\ conn'[u].cut = conn[u].cut
  <2>1. conn'[u] = IF conn[u].cut THEN Null ELSE Moved(conn[u], "lost")
    BY <1>3 DEF Restart, Ended
  <2> QED BY <1>3, <2>1, PhaseSet DEF Phases
<1>4. conn' \in [Sockets -> Conn \cup {Null}]
  <2>1. conn' = [u \in Sockets |-> conn'[u]]
    BY DEF Restart
  <2> QED BY <1>2, <1>3, <2>1
<1>5. Owned'
  BY <1>1, <1>2, <1>3
<1>6. Registered'
  BY <1>1, <1>2, <1>3 DEF In
<1> QED BY <1>1, <1>4, <1>5, <1>6

LEMMA AlwaysCoherent == Spec => []Coherent
<1>1. Coherent /\ [Next]_vars => Coherent'
  <2>1. ASSUME Coherent, UNCHANGED vars PROVE Coherent'
    BY <2>1 DEF vars, Coherent, TypeOK, Owned, Registered, In
  <2> QED BY <2>1, ClientStep, ServerStep, RestartStep DEF Next
<1> QED BY <1>1, CoherentInit, PTL DEF Spec

\* Every variable keeps its shape; no gauge goes below zero.
THEOREM TypeCorrect == Spec => []TypeOK
BY AlwaysCoherent, PTL DEF Coherent

\* docs/security.md:52: as far as an instance can tell a user has one connection, for
\* any tabs and instances, however late handshakes return.
THEOREM RegistryStaysInAgreement == Spec => []RegistryAgrees
<1>1. Coherent => RegistryAgrees
  <2> SUFFICES ASSUME Coherent, NEW i \in Instances
               PROVE  Open(i) = {active[i]} \ {Null} /\ gauge[i] = Cardinality(Open(i))
    BY DEF RegistryAgrees
  <2>1. Open(i) = {active[i]} \ {Null}
    BY NullIsNoConn DEF Open, Coherent, TypeOK, Registered
  <2>2. CASE active[i] = Null
    <3>1. Open(i) = {}
      BY <2>1, <2>2
    <3> QED BY <2>1, <2>2, <3>1, FS_EmptySet DEF Coherent, Registered
  <2>3. CASE active[i] # Null
    <3>1. Open(i) = {active[i]}
      BY <2>1, <2>3
    <3> QED BY <2>1, <2>3, <3>1, FS_Singleton DEF Coherent, Registered
  <2> QED BY <2>2, <2>3
<1> QED BY <1>1, AlwaysCoherent, PTL
-----------------------------------------------------------------------------
\* A tab has a connection exactly while its client waits or is up, and its client is
\* off exactly while it has no token; what lives at the server and is not given up is
\* the connection its tab has.
Attached == \A t \in Tabs : /\ cur[t] # Null <=> client[t] \in {"wait", "up"}
                            /\ client[t] = "off" <=> token[t] = "none"
Known == \A s \in Sockets : conn[s] # Null /\ ~conn[s].cut => cur[conn[s].tab] = s

LEMMA AttachedStep == Coherent /\ Attached /\ [Next]_vars => Attached'
<1> SUFFICES ASSUME Coherent, Attached, [Next]_vars PROVE Attached'
  OBVIOUS
<1> USE NullIsNoConn DEF Coherent, TypeOK, Attached
<1>1. ASSUME NEW t \in Tabs, NEW state, NEW socket, Turn(t, state, socket), socket \in Sockets \cup {Null},
             socket # Null <=> state \in {"wait", "up"}, state = "off" <=> token'[t] = "none",
             \A u \in Tabs \ {t} : token'[u] = token[u]
      PROVE  Attached'
  BY <1>1 DEF Turn
<1>2. ASSUME NEW t \in Tabs, Login(t) \/ Spoil(t) \/ SignOut(t) \/ Lose(t) \/ Client(t) PROVE Attached'
  <2>1. CASE Login(t)
    BY <1>1, <2>1 DEF Login
  <2>2. CASE Spoil(t)
    BY <2>2 DEF Spoil
  <2>3. CASE SignOut(t)
    BY <1>1, <2>3 DEF SignOut
  <2>4. CASE Lose(t)
    BY <1>1, <2>4 DEF Lose
  <2>5. CASE Dial(t)
    BY <1>1, <2>5 DEF Dial
  <2>6. CASE Up(t)
    BY <1>1, <2>6 DEF Up
  <2>7. CASE Goodbye(t)
    BY <1>1, <2>7 DEF Goodbye
  <2>8. CASE LossSeen(t)
    BY <1>1, <2>8 DEF LossSeen
  <2> QED BY <1>2, <2>1, <2>2, <2>3, <2>4, <2>5, <2>6, <2>7, <2>8 DEF Client
<1>3. CASE UNCHANGED <<token, client, cur>>
  BY <1>3
<1> QED BY <1>2, <1>3 DEF Next, HandleLogout, Rejected, Drop, Server, Verify, Admit, Notice, Restart, vars

LEMMA KnownStep == Coherent /\ Attached /\ Known /\ [Next]_vars => Known'
<1> SUFFICES ASSUME Coherent, Attached, Known, [Next]_vars, NEW s \in Sockets, conn'[s] # Null, ~conn'[s].cut
             PROVE  cur'[conn'[s].tab] = s
  BY DEF Known
<1> USE NullIsNoConn DEF Coherent, TypeOK, Owned
<1>1. \A u \in Sockets : conn[u] # Null => conn[u] \in Conn /\ conn[u].tab \in Tabs
  BY DEF Conn
\* Whatever the server does to a connection, it keeps its tab and stays given up.
<1>2. ASSUME UNCHANGED cur, conn[s] # Null, conn'[s].tab = conn[s].tab, conn'[s].cut = conn[s].cut
      PROVE  cur'[conn'[s].tab] = s
  BY <1>2 DEF Known
<1>3. ASSUME conn[s] # Null, NEW p \in Phases, conn'[s] = Moved(conn[s], p)
      PROVE  conn'[s].tab = conn[s].tab /\ conn'[s].cut = conn[s].cut
  BY <1>1, <1>3, PhaseSet
<1>4. ASSUME NEW t \in Tabs, Hangup(t), cur'[t] = Null, \A u \in Tabs \ {t} : cur'[u] = cur[u]
      PROVE  cur'[conn'[s].tab] = s
  <2>1. s # cur[t]
    <3> SUFFICES ASSUME s = cur[t] PROVE FALSE
      OBVIOUS
    <3>1. conn[s] \in Conn /\ conn'[s] = [conn[s] EXCEPT !.cut = TRUE]
      BY <1>4 DEF Hangup
    <3> QED BY <3>1, CutSet
  <2>2. conn'[s] = conn[s] /\ conn[s] # Null
    BY <1>4, <2>1 DEF Hangup
  <2>3. cur[conn[s].tab] = s /\ conn[s].tab # t
    BY <2>1, <2>2 DEF Known
  <2> QED BY <1>1, <1>4, <2>2, <2>3
<1>5. ASSUME NEW t \in Tabs, cur[t] # Null, conn' = [conn EXCEPT ![cur[t]] = Null], Turn(t, client'[t], Null)
      PROVE  cur'[conn'[s].tab] = s
  BY <1>1, <1>5 DEF Known, Turn
<1>6. ASSUME NEW t \in Tabs, Login(t) PROVE cur'[conn'[s].tab] = s
  <2>1. cur[t] = Null
    BY <1>6 DEF Login, Attached
  <2> QED BY <1>1, <1>6, <2>1 DEF Login, Turn, Known
<1>7. ASSUME NEW t \in Tabs, Spoil(t) PROVE cur'[conn'[s].tab] = s
  BY <1>7 DEF Spoil, Known
<1>8. ASSUME NEW t \in Tabs, SignOut(t) PROVE cur'[conn'[s].tab] = s
  BY <1>4, <1>8 DEF SignOut, Turn
<1>9. ASSUME NEW t \in Tabs, Lose(t) PROVE cur'[conn'[s].tab] = s
  BY <1>4, <1>9 DEF Lose, Turn
<1>10. ASSUME NEW t \in Tabs, Dial(t) PROVE cur'[conn'[s].tab] = s
  <2>1. PICK i \in Instances, u \in Sockets :
           conn[u] = Null /\ conn' = [conn EXCEPT ![u] = Handshake(t, i)] /\ Turn(t, "wait", u)
    BY <1>10 DEF Dial
  <2>2. cur[t] = Null
    BY <1>10 DEF Dial, Attached
  <2>3. CASE s = u
    <3>1. conn'[s] = Handshake(t, i)
      BY <2>1, <2>3
    <3>2. conn'[s].tab = t
      BY <3>1, HandshakeIsConn
    <3> QED BY <2>1, <2>3, <3>2 DEF Turn
  <2>4. CASE s # u
    <3>1. conn'[s] = conn[s] /\ conn[s].tab \in Tabs /\ cur[conn[s].tab] = s
      BY <1>1, <2>1, <2>4 DEF Known
    <3> QED BY <2>1, <2>2, <3>1 DEF Turn
  <2> QED BY <2>3, <2>4
<1>11. ASSUME NEW t \in Tabs, Up(t) PROVE cur'[conn'[s].tab] = s
  BY <1>11 DEF Up, Turn, Known
<1>12. ASSUME NEW t \in Tabs, Goodbye(t) \/ LossSeen(t) PROVE cur'[conn'[s].tab] = s
  BY <1>5, <1>12 DEF Goodbye, LossSeen, Turn
<1>13. ASSUME NEW u \in Sockets, Verify(u) PROVE cur'[conn'[s].tab] = s
  <2>1. conn[s] # Null
    BY <1>13 DEF Verify, In
  <2>2. conn'[s] = conn[s] \/ \E p \in Phases : conn'[s] = Moved(conn[s], p)
    BY <1>13, <2>1 DEF Verify, Ended, Phases
  <2> QED BY <1>2, <1>3, <1>13, <2>1, <2>2 DEF Verify
<1>14. ASSUME NEW u \in Sockets, Admit(u) PROVE cur'[conn'[s].tab] = s
  <2>1. conn'[s] = conn[s] \/ conn'[s] = Ended(conn[s], "gone") \/ conn'[s] = Moved(conn[s], "open")
    BY <1>14 DEF Admit
  <2>2. conn[s] # Null
    <3> SUFFICES ASSUME conn[s] = Null PROVE FALSE
      OBVIOUS
    <3>1. s # u /\ conn[u] # Null /\ conn[u].at \in Instances
      BY <1>14 DEF Admit, In, Conn
    <3>2. s # active[conn[u].at]
      BY <3>1 DEF Registered, In
    <3>3. conn'[s] = conn[s]
      BY <1>14, <3>1, <3>2 DEF Admit
    <3> QED BY <3>3
  <2>3. conn'[s] = conn[s] \/ \E p \in Phases : conn'[s] = Moved(conn[s], p)
    BY <2>1 DEF Ended, Phases
  <2> QED BY <1>2, <1>3, <1>14, <2>2, <2>3 DEF Admit
<1>15. ASSUME NEW u \in Sockets, Notice(u) PROVE cur'[conn'[s].tab] = s
  BY <1>15 DEF Notice, Known
<1>16. ASSUME NEW u \in Sockets, Drop(u) PROVE cur'[conn'[s].tab] = s
  <2>1. conn[s] # Null
    BY <1>16 DEF Drop, In
  <2>2. conn'[s] = conn[s] \/ \E p \in Phases : conn'[s] = Moved(conn[s], p)
    BY <1>16, <2>1 DEF Drop, Phases
  <2> QED BY <1>2, <1>3, <1>16, <2>1, <2>2 DEF Drop
<1>17. ASSUME NEW i \in Instances, Restart(i) PROVE cur'[conn'[s].tab] = s
  <2>1. conn[s] # Null
    BY <1>17 DEF Restart
  <2>2. conn'[s] = conn[s] \/ \E p \in Phases : conn'[s] = Moved(conn[s], p)
    BY <1>17, <2>1 DEF Restart, Ended, Phases
  <2> QED BY <1>2, <1>3, <1>17, <2>1, <2>2 DEF Restart
<1>18. CASE UNCHANGED vars
  BY <1>18 DEF vars, Known
<1> QED BY <1>6, <1>7, <1>8, <1>9, <1>10, <1>11, <1>12, <1>13, <1>14, <1>15, <1>16, <1>17, <1>18
        DEF Next, Client, Server, HandleLogout, Rejected

LEMMA AlwaysKnown == Spec => [](Coherent /\ Attached /\ Known)
<1>1. Init => Attached /\ Known
  BY NullAssumption DEF Init, Attached, Known
<1> QED BY <1>1, AttachedStep, KnownStep, AlwaysCoherent, PTL DEF Spec

\* A connection whose tab has logged out, by the button or by a 401, at whatever moment
\* of the handshake, is one the tab has given up: nothing but the server's noticing
\* stands between it and its end, and no later answer of the server revives it.
LoggedOutIsCut == \A s \in Sockets : conn[s] # Null /\ token[conn[s].tab] = "none" => conn[s].cut

THEOREM LogoutGivesUp == Spec => []LoggedOutIsCut
<1>1. Coherent /\ Attached /\ Known => LoggedOutIsCut
  <2> SUFFICES ASSUME Coherent, Attached, Known, NEW s \in Sockets, conn[s] # Null, ~conn[s].cut,
                      token[conn[s].tab] = "none"
               PROVE  FALSE
    BY DEF LoggedOutIsCut, Coherent, TypeOK, Conn
  <2>1. conn[s].tab \in Tabs /\ cur[conn[s].tab] = s
    BY DEF Coherent, TypeOK, Conn, Known
  <2>2. cur[conn[s].tab] = Null
    BY <2>1 DEF Attached
  <2> QED BY <2>1, <2>2, NullIsNoConn
<1> QED BY <1>1, AlwaysKnown, PTL

\* A tab that waits for the server or believes in its socket has exactly one connection
\* that is not given up, and the server knows it: it can be answered, and nobody waits
\* for a connection that is no more.
OneLive == \A t \in Tabs :
    LET live == {s \in Sockets : conn[s] # Null /\ conn[s].tab = t /\ ~conn[s].cut}
    IN  live = IF client[t] \in {"wait", "up"} THEN {cur[t]} ELSE {}

THEOREM TabsAreAnswered == Spec => []OneLive
<1>1. Coherent /\ Attached /\ Known => OneLive
  <2> SUFFICES ASSUME Coherent, Attached, Known, NEW t \in Tabs
               PROVE  {s \in Sockets : conn[s] # Null /\ conn[s].tab = t /\ ~conn[s].cut}
                         = IF client[t] \in {"wait", "up"} THEN {cur[t]} ELSE {}
    BY DEF OneLive
  <2>1. \A s \in Sockets : conn[s] # Null /\ conn[s].tab = t /\ ~conn[s].cut => cur[t] = s
    BY DEF Known
  <2>2. cur[t] # Null => /\ cur[t] \in Sockets /\ conn[cur[t]] # Null
                         /\ conn[cur[t]].tab = t /\ ~conn[cur[t]].cut
    BY DEF Coherent, TypeOK, Owned
  <2>3. cur[t] # Null <=> client[t] \in {"wait", "up"}
    BY DEF Attached
  <2>4. CASE cur[t] = Null
    BY <2>1, <2>3, <2>4, NullIsNoConn
  <2>5. CASE cur[t] # Null
    BY <2>1, <2>2, <2>3, <2>5
  <2> QED BY <2>4, <2>5
<1> QED BY <1>1, AlwaysKnown, PTL
=============================================================================
