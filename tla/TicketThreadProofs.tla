--------------------------- MODULE TicketThreadProofs ---------------------------
(***************************************************************************)
(* Proofs about TicketThread, for any requests, users, files, limits and     *)
(* clock: the type invariant, that rows have their files and files their     *)
(* rows or a client that was told, that answers are true, that what is cut   *)
(* is refused below the multipart limit, and the read receipts.              *)
(***************************************************************************)
EXTENDS TicketThread, SequenceTheorems, TLAPS

\* Where a request stands says what it has: arguments once it is sent, a key once it
\* has stored, and no row and no final answer before it is done.
Stands ==
    \A r \in Requests :
        /\ pc[r] # "idle" => args[r] \in Args
        /\ pc[r] \in {"receive", "open", "write", "record"} => args[r].file \in Files
        /\ pc[r] = "remove" => args[r].row \in Requests
        /\ pc[r] \in {"write", "record"} => key[r] \in Keys
        /\ key[r] # Null => pc[r] \in {"write", "record", "done"}
        /\ pc[r] = "idle" => answer[r] = 0
        /\ pc[r] # "done" => answer[r] \in {0, TimedOut} /\ message[r] = Null /\ attachment[r] = Null

Coherent == TypeOK /\ Stands

LEMMA CoherentInit == Init => Coherent
BY NullAssumption, FileAssumption DEF Init, Coherent, TypeOK, Stands, Phases

LEMMA ReceivedNat == ASSUME NEW f \in Files PROVE Received(f) \in Nat
BY FileAssumption DEF Received

LEMMA KeyOfFile ==
    ASSUME Coherent, NEW r \in Requests, pc[r] = "open" PROVE NewKey(r) \in Keys
BY DEF Coherent, TypeOK, Stands, NewKey, Keys

LEMMA NewMessageType ==
    ASSUME NEW u \in Users PROVE NewMessage(u) \in Message /\ NewMessage(u) # Null
<1>1. NewMessage(u) \in Message
  BY DEF NewMessage, Message
<1>2. Null \notin Message
  BY NullAssumption
<1>3. NewMessage(u) # Null
  BY <1>1, <1>2, Zenon
<1> QED BY <1>1, <1>3

LEMMA MarkedType ==
    ASSUME NEW row \in Message, NEW u \in Users
    PROVE  [row EXCEPT !.readBy = Append(@, u)] \in Message
BY AppendProperties DEF Message

LEMMA RemovedKeeps ==
    ASSUME NEW row \in Attachment
    PROVE  Removed(row) \in Attachment /\ Removed(row).url = row.url /\ Removed(row).size = row.size
BY DEF Removed, Attachment

\* A removal finds its row, which stays but for the mark.
LEMMA RemoveChanges ==
    ASSUME Coherent, NEW r \in Requests, Remove(r)
    PROVE  \A a \in Requests :
              /\ attachment[a] = Null => attachment'[a] = Null
              /\ attachment[a] # Null => /\ attachment'[a] \in Attachment
                                        /\ attachment'[a].url = attachment[a].url
                                        /\ attachment'[a].size = attachment[a].size
<1>1. ASSUME NEW a \in Requests, attachment[a] # Null
      PROVE  /\ attachment[a] \in Attachment
             /\ attachment'[a] = attachment[a] \/ attachment'[a] = Removed(attachment[a])
  BY <1>1 DEF Remove, Coherent, TypeOK
<1>2. ASSUME NEW a \in Requests, attachment[a] = Null PROVE attachment'[a] = Null
  BY <1>2 DEF Remove, Coherent, TypeOK
<1> QED BY <1>1, <1>2, RemovedKeeps

LEMMA CreateChanges ==
    ASSUME Coherent, NEW r \in Requests, CreateAttachment(r)
    PROVE  /\ attachment'[r] \in Attachment /\ attachment'[r] # Null
           /\ attachment'[r].url = key[r] /\ attachment'[r].size = Received(args[r].file)
<1>1. attachment'[r] = [url |-> key[r], size |-> Received(args[r].file), deleted |-> FALSE]
  BY DEF CreateAttachment, Coherent, TypeOK
<1>2. attachment'[r] \in Attachment
  <2>1. key[r] \in Keys /\ args[r].file \in Files
    BY DEF CreateAttachment, Coherent, Stands
  <2>2. Received(args[r].file) \in Nat
    BY <2>1, ReceivedNat
  <2> QED BY <1>1, <2>1, <2>2 DEF Attachment
<1>3. attachment'[r] # Null
  <2>1. Null \notin Attachment
    BY NullAssumption
  <2> QED BY <1>2, <2>1, Zenon
<1>4. attachment'[r].url = key[r] /\ attachment'[r].size = Received(args[r].file)
  BY <1>1
<1> QED BY <1>2, <1>3, <1>4

LEMMA CoherentStep == Coherent /\ [Next]_vars => Coherent'
<1> SUFFICES ASSUME Coherent, [Next]_vars PROVE Coherent'
  OBVIOUS
<1> USE NullAssumption DEF Coherent, TypeOK, Stands, Phases, Goto, Reply, TimedOut, storage, config
<1>1. ASSUME NEW r \in Requests, Chat(r) PROVE Coherent'
  <2>1. CASE SendMessage(r)
    BY <2>1 DEF SendMessage, Send, Args, Ops
  <2>2. CASE CreateMessage(r)
    BY <2>2, NewMessageType DEF CreateMessage, Args
  <2>3. CASE FindUnread(r)
    BY <2>3 DEF FindUnread, Send, Unread, Args, Ops
  <2>4. CASE MarkRead(r)
    <3>1. args[r].user \in Users
      BY <2>4 DEF MarkRead, Args
    <3>2. \A m \in Targets(r) : m \in Requests /\ message[m] \in Message
      BY DEF Targets, Unread
    <3>3. message' \in [Requests -> Message \cup {Null}]
      BY <2>4, <3>1, <3>2, MarkedType DEF MarkRead
    <3>4. \A m \in Requests : message[m] = Null => message'[m] = Null
      BY <2>4 DEF MarkRead, Targets, Unread
    <3> QED BY <2>4, <3>3, <3>4 DEF MarkRead
  <2> QED BY <1>1, <2>1, <2>2, <2>3, <2>4 DEF Chat
<1>2. ASSUME NEW r \in Requests, Upload(r) PROVE Coherent'
  <2>1. CASE SendFile(r)
    BY <2>1 DEF SendFile, Send, Args, Ops
  <2>2. CASE Receive(r)
    BY <2>2 DEF Receive
  <2>3. CASE Open(r)
    BY <2>3, KeyOfFile DEF Open
  <2>4. CASE Exists(r)
    BY <2>4 DEF Exists
  <2>5. CASE WriteFile(r)
    BY <2>5 DEF WriteFile
  <2>6. CASE PutObject(r)
    BY <2>6, KeyOfFile DEF PutObject
  <2>7. CASE CreateAttachment(r)
    <3>1. attachment' \in [Requests -> Attachment \cup {Null}]
      <4>1. attachment'[r] \in Attachment
        BY <2>7, CreateChanges
      <4>2. \A a \in Requests : a # r => attachment'[a] = attachment[a]
        BY <2>7 DEF CreateAttachment
      <4>3. attachment' = [a \in Requests |-> attachment'[a]]
        BY <2>7 DEF CreateAttachment
      <4>4. \A a \in Requests : attachment'[a] \in Attachment \cup {Null}
        BY <4>1, <4>2
      <4> QED BY <4>3, <4>4
    <3> QED BY <2>7, <3>1 DEF CreateAttachment
  <2>8. CASE SendRemove(r)
    BY <2>8 DEF SendRemove, Send, Args, Ops
  <2>9. CASE Remove(r)
    <3>1. attachment' \in [Requests -> Attachment \cup {Null}]
      BY <2>9, RemoveChanges DEF Remove
    <3> QED BY <2>9, <3>1, RemoveChanges DEF Remove
  <2> QED BY <1>2, <2>1, <2>2, <2>3, <2>4, <2>5, <2>6, <2>7, <2>8, <2>9 DEF Upload
<1>3. ASSUME NEW r \in Requests, Fail(r) \/ ClientTimeout(r) PROVE Coherent'
  BY <1>3 DEF Fail, ClientTimeout
<1>4. CASE Pass
  BY <1>4, FileAssumption DEF Pass
<1>5. CASE Finished \/ UNCHANGED vars
  BY <1>5 DEF Finished, vars
<1> QED BY <1>1, <1>2, <1>3, <1>4, <1>5 DEF Next

LEMMA AlwaysCoherent == Spec => []Coherent
BY CoherentInit, CoherentStep, PTL DEF Spec

\* Every variable keeps its shape, for any files, limits and clock.
THEOREM TypeCorrect == Spec => []TypeOK
BY AlwaysCoherent, PTL DEF Coherent
-----------------------------------------------------------------------------
\* What is stored whole stays whole, and an upload records what it stored whole.
Backed == /\ RowsBacked
          /\ \A r \in Requests : pc[r] = "record" => stored[key[r]] = "whole"

LEMMA BackedStep == Coherent /\ Backed /\ [Next]_vars => Backed'
<1> SUFFICES ASSUME Coherent, Backed, [Next]_vars PROVE Backed'
  OBVIOUS
<1> USE NullAssumption DEF Coherent, TypeOK, Stands, Backed, RowsBacked, Phases, Goto, storage
<1>u. \A r \in Requests : attachment[r] # Null => attachment[r].url \in Keys
  BY DEF Attachment
<1>1. ASSUME NEW r \in Requests, Chat(r) PROVE Backed'
  BY <1>1 DEF Chat, SendMessage, CreateMessage, FindUnread, MarkRead, Send
<1>2. ASSUME NEW r \in Requests, Upload(r) PROVE Backed'
  <2>1. CASE SendFile(r) \/ SendRemove(r)
    BY <2>1 DEF SendFile, SendRemove, Send
  <2>2. CASE Receive(r) \/ Exists(r)
    BY <2>2 DEF Receive, Exists
  <2>3. CASE Open(r)
    BY <2>3, <1>u, KeyOfFile DEF Open
  <2>4. CASE WriteFile(r)
    BY <2>4, <1>u DEF WriteFile
  <2>5. CASE PutObject(r)
    BY <2>5, <1>u, KeyOfFile DEF PutObject
  <2>6. CASE CreateAttachment(r)
    BY <2>6 DEF CreateAttachment
  <2>7. CASE Remove(r)
    <3>1. \A a \in Requests : attachment'[a] # Null =>
             attachment[a] # Null /\ attachment'[a].url = attachment[a].url
      BY <2>7, RemoveChanges
    <3>2. /\ UNCHANGED <<stored, key>>
          /\ \A q \in Requests : pc'[q] = "record" => pc[q] = "record"
      BY <2>7 DEF Remove
    <3> QED BY <3>1, <3>2
  <2> QED BY <1>2, <2>1, <2>2, <2>3, <2>4, <2>5, <2>6, <2>7 DEF Upload
<1>3. ASSUME NEW r \in Requests, Fail(r) \/ ClientTimeout(r) PROVE Backed'
  BY <1>3 DEF Fail, ClientTimeout
<1>4. CASE Pass \/ Finished \/ UNCHANGED vars
  BY <1>4 DEF Pass, Finished, vars
<1> QED BY <1>1, <1>2, <1>3, <1>4 DEF Next

\* A row of an attachment has its file, all of it, whatever uploads share a key.
THEOREM RowsStayBacked == Spec => []RowsBacked
<1>1. Init => Backed
  BY DEF Init, Backed, RowsBacked
<1> QED BY <1>1, BackedStep, AlwaysCoherent, PTL DEF Spec, Backed
-----------------------------------------------------------------------------
LEMMA FilesStep == Coherent /\ FilesAccountedFor /\ [Next]_vars => FilesAccountedFor'
<1> SUFFICES ASSUME Coherent, FilesAccountedFor, [Next]_vars PROVE FilesAccountedFor'
  OBVIOUS
<1> USE NullAssumption DEF Coherent, TypeOK, Stands, FilesAccountedFor, Phases, Goto, Reply, TimedOut, storage
<1>1. ASSUME NEW r \in Requests, Chat(r) PROVE FilesAccountedFor'
  BY <1>1 DEF Chat, SendMessage, CreateMessage, FindUnread, MarkRead, Send
<1>2. ASSUME NEW r \in Requests, Upload(r) PROVE FilesAccountedFor'
  <2>1. CASE SendFile(r) \/ SendRemove(r)
    BY <2>1 DEF SendFile, SendRemove, Send
  <2>2. CASE Receive(r) \/ Exists(r)
    BY <2>2 DEF Receive, Exists
  <2>3. CASE Open(r)
    BY <2>3, KeyOfFile DEF Open
  <2>4. CASE WriteFile(r)
    BY <2>4 DEF WriteFile
  <2>5. CASE PutObject(r)
    BY <2>5, KeyOfFile DEF PutObject
  <2>6. CASE CreateAttachment(r)
    <3>1. attachment'[r] # Null /\ attachment'[r].url = key[r]
      BY <2>6, CreateChanges
    <3> QED BY <2>6, <3>1 DEF CreateAttachment
  <2>7. CASE Remove(r)
    <3>1. \A a \in Requests : attachment[a] # Null =>
             attachment'[a] # Null /\ attachment'[a].url = attachment[a].url
      BY <2>7, RemoveChanges
    <3>2. key[r] = Null
      BY <2>7 DEF Remove
    <3> QED BY <2>7, <3>1, <3>2 DEF Remove
  <2> QED BY <1>2, <2>1, <2>2, <2>3, <2>4, <2>5, <2>6, <2>7 DEF Upload
<1>3. ASSUME NEW r \in Requests, Fail(r) \/ ClientTimeout(r) PROVE FilesAccountedFor'
  BY <1>3 DEF Fail, ClientTimeout
<1>4. CASE Pass \/ Finished \/ UNCHANGED vars
  BY <1>4 DEF Pass, Finished, vars
<1> QED BY <1>1, <1>2, <1>3, <1>4 DEF Next

\* A file is a row's, an upload's under way, or one whose client was told of a failure.
THEOREM FilesStayAccountedFor == Spec => []FilesAccountedFor
<1>1. Init => FilesAccountedFor
  BY DEF Init, FilesAccountedFor
<1> QED BY <1>1, FilesStep, AlwaysCoherent, PTL DEF Spec
-----------------------------------------------------------------------------
\* An upload that has been accepted is no longer than the provider was told to take,
\* and what is recorded is what was received.
Measured ==
    \A r \in Requests :
        /\ pc[r] \in {"open", "write", "record"} => Received(args[r].file) <= maxSize
        /\ attachment[r] # Null =>
              /\ args[r].file \in Files /\ Received(args[r].file) <= maxSize
              /\ attachment[r].size = Received(args[r].file)

LEMMA MeasuredStep == Coherent /\ Measured /\ [Next]_vars => Measured'
<1> SUFFICES ASSUME Coherent, Measured, [Next]_vars PROVE Measured'
  OBVIOUS
<1> USE NullAssumption DEF Coherent, TypeOK, Stands, Measured, Phases, Goto, storage, config
<1>1. ASSUME NEW r \in Requests, Chat(r) PROVE Measured'
  BY <1>1 DEF Chat, SendMessage, CreateMessage, FindUnread, MarkRead, Send
<1>2. ASSUME NEW r \in Requests, Upload(r) PROVE Measured'
  <2>1. CASE SendFile(r) \/ SendRemove(r)
    BY <2>1 DEF SendFile, SendRemove, Send
  <2>2. CASE Receive(r)
    BY <2>2 DEF Receive, Acceptable
  <2>3. CASE Open(r) \/ Exists(r) \/ WriteFile(r) \/ PutObject(r)
    BY <2>3 DEF Open, Exists, WriteFile, PutObject
  <2>4. CASE CreateAttachment(r)
    <3>1. attachment'[r].size = Received(args[r].file)
      BY <2>4, CreateChanges
    <3> QED BY <2>4, <3>1 DEF CreateAttachment
  <2>5. CASE Remove(r)
    <3>1. \A a \in Requests : attachment'[a] # Null =>
             attachment[a] # Null /\ attachment'[a].size = attachment[a].size
      BY <2>5, RemoveChanges
    <3>2. /\ UNCHANGED <<args, maxSize>>
          /\ \A q \in Requests : pc'[q] \in {"open", "write", "record"} => pc'[q] = pc[q]
      BY <2>5 DEF Remove
    <3> QED BY <3>1, <3>2
  <2> QED BY <1>2, <2>1, <2>2, <2>3, <2>4, <2>5 DEF Upload
<1>3. ASSUME NEW r \in Requests, Fail(r) \/ ClientTimeout(r) PROVE Measured'
  BY <1>3 DEF Fail, ClientTimeout
<1>4. CASE Pass \/ Finished \/ UNCHANGED vars
  BY <1>4 DEF Pass, Finished, vars
<1> QED BY <1>1, <1>2, <1>3, <1>4 DEF Next

\* Below the limit of the multipart plugin nothing that was cut is recorded.
THEOREM NothingCutBelowLimit == Spec => []WholeBelowLimit
<1>1. Init => Measured
  BY DEF Init, Measured
<1>2. Coherent /\ Measured => WholeBelowLimit
  <2> SUFFICES ASSUME Coherent, Measured, NEW r \in Requests, attachment[r] # Null, maxSize < FileLimit
               PROVE  attachment[r].size = args[r].file.size
    BY DEF WholeBelowLimit
  <2> DEFINE f == args[r].file
  <2>1. f \in Files /\ Received(f) <= maxSize /\ attachment[r].size = Received(f)
    BY DEF Measured
  <2>2. f.size \in Nat /\ FileLimit \in Nat /\ maxSize \in Nat
    BY <2>1, FileAssumption DEF Coherent, TypeOK
  <2> QED BY <2>1, <2>2 DEF Received
<1> QED BY <1>1, <1>2, MeasuredStep, AlwaysCoherent, PTL DEF Spec
-----------------------------------------------------------------------------
LEMMA AnswerStep == Coherent /\ AnswerIsTrue /\ [Next]_vars => AnswerIsTrue'
<1> SUFFICES ASSUME Coherent, AnswerIsTrue, [Next]_vars PROVE AnswerIsTrue'
  OBVIOUS
<1> USE NullAssumption DEF Coherent, TypeOK, Stands, AnswerIsTrue, Phases, Goto, Reply, TimedOut, storage
<1>1. ASSUME NEW r \in Requests, Chat(r) PROVE AnswerIsTrue'
  <2>1. CASE SendMessage(r) \/ FindUnread(r)
    BY <2>1 DEF SendMessage, FindUnread, Send
  <2>2. CASE CreateMessage(r)
    BY <2>2, NewMessageType DEF CreateMessage, Args
  <2>3. CASE MarkRead(r)
    <3>1. \A m \in Requests : message'[m] = Null <=> message[m] = Null
      <4>1. args[r].user \in Users
        BY <2>3 DEF MarkRead, Args
      <4>2. \A m \in Targets(r) : message[m] \in Message /\ message[m] # Null
        BY DEF Targets, Unread
      <4> QED BY <2>3, <4>1, <4>2, MarkedType DEF MarkRead
    <3> QED BY <2>3, <3>1 DEF MarkRead
  <2> QED BY <1>1, <2>1, <2>2, <2>3 DEF Chat
<1>2. ASSUME NEW r \in Requests, Upload(r) PROVE AnswerIsTrue'
  <2>1. CASE SendFile(r) \/ SendRemove(r)
    BY <2>1 DEF SendFile, SendRemove, Send
  <2>2. CASE Receive(r) \/ Exists(r)
    BY <2>2 DEF Receive, Exists
  <2>3. CASE Open(r) \/ WriteFile(r) \/ PutObject(r)
    BY <2>3 DEF Open, WriteFile, PutObject
  <2>4. CASE CreateAttachment(r)
    <3>1. attachment'[r] # Null
      BY <2>4, CreateChanges
    <3> QED BY <2>4, <3>1 DEF CreateAttachment
  <2>5. CASE Remove(r)
    <3>1. \A a \in Requests : attachment'[a] = Null <=> attachment[a] = Null
      BY <2>5, RemoveChanges
    <3> QED BY <2>5, <3>1 DEF Remove
  <2> QED BY <1>2, <2>1, <2>2, <2>3, <2>4, <2>5 DEF Upload
<1>3. ASSUME NEW r \in Requests, Fail(r) \/ ClientTimeout(r) PROVE AnswerIsTrue'
  BY <1>3 DEF Fail, ClientTimeout
<1>4. CASE Pass \/ Finished \/ UNCHANGED vars
  BY <1>4 DEF Pass, Finished, vars
<1> QED BY <1>1, <1>2, <1>3, <1>4 DEF Next

\* A 201 comes with its row and no row comes of a 400, whenever
\* clients stop waiting.
THEOREM AnswersAreTrue == Spec => []AnswerIsTrue
<1>1. Init => AnswerIsTrue
  BY DEF Init, AnswerIsTrue
<1> QED BY <1>1, AnswerStep, AlwaysCoherent, PTL DEF Spec
-----------------------------------------------------------------------------
\* A message has a reader.
Reads(row, u) == \E i \in DOMAIN row.readBy : row.readBy[i] = u

\* Each name of a list of readers stands there once.
Once(list) == \A i, j \in DOMAIN list : list[i] = list[j] => i = j

LEMMA MarkedReads ==
    ASSUME NEW row \in Message, NEW u \in Users, NEW next,
           next = [row EXCEPT !.readBy = Append(@, u)]
    PROVE  /\ next.readBy = Append(row.readBy, u)
           /\ \A v : Reads(row, v) => Reads(next, v)
           /\ Reads(next, u)
           /\ Once(row.readBy) /\ ~Reads(row, u) => Once(next.readBy)
<1>1. row.readBy \in Seq(Users)
  BY DEF Message
<1>2. next.readBy = Append(row.readBy, u)
  BY <1>1 DEF Message
<1> DEFINE n == Len(row.readBy)
<1>3. /\ n \in Nat /\ DOMAIN row.readBy = 1..n /\ DOMAIN next.readBy = 1..(n + 1)
      /\ \A i \in 1..n : next.readBy[i] = row.readBy[i]
      /\ next.readBy[n + 1] = u
  BY <1>1, <1>2, AppendProperties, LenProperties
<1>4. \A i \in DOMAIN next.readBy : i \in DOMAIN row.readBy \/ i = n + 1
  BY <1>3
<1>5. ASSUME Once(row.readBy), ~Reads(row, u) PROVE Once(next.readBy)
  BY <1>3, <1>4, <1>5 DEF Once, Reads
<1>6. Reads(next, u) /\ \A v : Reads(row, v) => Reads(next, v)
  BY <1>3 DEF Reads
<1> QED BY <1>2, <1>5, <1>6

\* A mark adds its reader to the rows that lack it, and leaves the other readers.
LEMMA MarkChanges ==
    ASSUME Coherent, NEW r \in Requests, MarkRead(r), NEW m \in Requests, message[m] # Null
    PROVE  /\ message'[m] # Null
           /\ \A v : Reads(message[m], v) => Reads(message'[m], v)
           /\ m \in found[r] => Reads(message'[m], args[r].user)
           /\ Once(message[m].readBy) => Once(message'[m].readBy)
<1> DEFINE u == args[r].user
<1>1. u \in Users /\ message[m] \in Message
  BY DEF Coherent, TypeOK, Stands, MarkRead, Args
<1>2. CASE m \in Targets(r)
  <2>1. message'[m] = [message[m] EXCEPT !.readBy = Append(@, u)] /\ ~Reads(message[m], u)
    BY <1>2 DEF MarkRead, Targets, Unread, Has, Reads
  <2>2. message'[m] \in Message
    BY <1>1, <2>1, MarkedType
  <2>3. message'[m] # Null
    <3>1. Null \notin Message
      BY NullAssumption
    <3> QED BY <2>2, <3>1, Zenon
  <2> HIDE DEF u
  <2>4. /\ \A v : Reads(message[m], v) => Reads(message'[m], v)
        /\ Reads(message'[m], u)
        /\ Once(message[m].readBy) => Once(message'[m].readBy)
    BY <1>1, <2>1, MarkedReads
  <2> QED BY <2>3, <2>4 DEF u
<1>3. CASE m \notin Targets(r)
  <2>1. message'[m] = message[m]
    BY <1>3 DEF MarkRead
  <2>2. m \in found[r] => Reads(message[m], u)
    BY <1>3 DEF Targets, Unread, Has, Reads
  <2> QED BY <2>1, <2>2
<1> QED BY <1>2, <1>3

\* A statement finds rows that are there, and rows stay.
Receipts == /\ ReceiptsOnce
            /\ \A r \in Requests : \A m \in found[r] : message[m] # Null

LEMMA ReceiptsStep == Coherent /\ Receipts /\ [Next]_vars => Receipts'
<1> SUFFICES ASSUME Coherent, Receipts, [Next]_vars PROVE Receipts'
  OBVIOUS
<1>s. \A r \in Requests : /\ found[r] \subseteq Requests
                          /\ answer[r] = 200 => pc[r] = "done"
  BY DEF Coherent, TypeOK, Stands, Phases, TimedOut
<1>k. ASSUME UNCHANGED <<message, found>>,
             \A q \in Requests : answer'[q] = 200 => answer[q] = 200 /\ args'[q] = args[q]
      PROVE  Receipts'
  BY <1>k, <1>s DEF Receipts, ReceiptsOnce, Has
<1> USE DEF Coherent, TypeOK, Stands, Phases, Goto, Reply, TimedOut, storage, config
<1>1. ASSUME NEW r \in Requests, Chat(r) PROVE Receipts'
  <2>1. CASE SendMessage(r)
    BY <2>1, <1>k, <1>s DEF SendMessage, Send
  <2>2. CASE CreateMessage(r)
    <3>1. /\ message'[r] = NewMessage(args[r].user) /\ message[r] = Null
          /\ \A m \in Requests \ {r} : message'[m] = message[m]
          /\ UNCHANGED <<found, args>> /\ \A q \in Requests : answer'[q] = 200 => answer[q] = 200
      BY <2>2 DEF CreateMessage
    <3>2. message'[r] # Null
      BY <2>2, <3>1, NewMessageType DEF CreateMessage, Args
    <3>3. Once(message'[r].readBy)
      BY <3>1 DEF NewMessage, Once
    <3> QED BY <1>s, <3>1, <3>2, <3>3 DEF Receipts, ReceiptsOnce, Has, Once
  <2>3. CASE FindUnread(r)
    <3>1. /\ UNCHANGED <<message, answer>> /\ answer[r] = 0
          /\ \A q \in Requests \ {r} : found'[q] = found[q] /\ args'[q] = args[q]
          /\ \A m \in found'[r] : message[m] # Null
      BY <2>3 DEF FindUnread, Send, Unread
    <3> QED BY <3>1 DEF Receipts, ReceiptsOnce, Has
  <2>4. CASE MarkRead(r)
    <3>1. /\ UNCHANGED <<found, args>>
          /\ \A q \in Requests \ {r} : answer'[q] = answer[q]
          /\ \A m \in Requests : message'[m] # Null => message[m] # Null
      BY <2>4 DEF MarkRead, Targets, Unread
    <3>2. \A m \in Requests : message'[m] # Null => Once(message'[m].readBy)
      BY <2>4, <3>1, MarkChanges DEF Receipts, ReceiptsOnce, Once
    <3>3. \A q \in Requests : \A m \in found'[q] : message'[m] # Null
      BY <2>4, <1>s, <3>1, MarkChanges DEF Receipts
    <3>4. ASSUME NEW q \in Requests, answer'[q] = 200, NEW m \in found'[q]
          PROVE  Has(m, args[q].user)'
      <4>1. m \in Requests /\ m \in found[q] /\ message[m] # Null
        BY <3>1, <3>4, <1>s DEF Receipts
      <4>2. Reads(message'[m], args[q].user)
        <5>1. CASE q = r
          BY <2>4, <4>1, <5>1, MarkChanges
        <5>2. CASE q # r
          <6>1. Reads(message[m], args[q].user)
            BY <3>1, <3>4, <4>1, <5>2 DEF Receipts, ReceiptsOnce, Has, Reads
          <6> QED BY <2>4, <4>1, <6>1, MarkChanges
        <5> QED BY <5>1, <5>2
      <4> QED BY <3>1, <4>2 DEF Has, Reads
    <3> QED BY <3>2, <3>3, <3>4 DEF Receipts, ReceiptsOnce, Once
  <2> QED BY <1>1, <2>1, <2>2, <2>3, <2>4 DEF Chat
<1>2. ASSUME NEW r \in Requests, Upload(r) PROVE Receipts'
  <2>1. CASE SendFile(r) \/ SendRemove(r)
    BY <2>1, <1>k, <1>s DEF SendFile, SendRemove, Send
  <2>2. CASE Receive(r) \/ Exists(r) \/ Open(r) \/ WriteFile(r) \/ PutObject(r)
    BY <2>2, <1>k DEF Receive, Exists, Open, WriteFile, PutObject
  <2>3. CASE CreateAttachment(r) \/ Remove(r)
    BY <2>3, <1>k DEF CreateAttachment, Remove
  <2> QED BY <1>2, <2>1, <2>2, <2>3 DEF Upload
<1>3. ASSUME NEW r \in Requests, Fail(r) \/ ClientTimeout(r) PROVE Receipts'
  BY <1>3, <1>k DEF Fail, ClientTimeout
<1>4. CASE Pass \/ Finished \/ UNCHANGED vars
  BY <1>4, <1>k DEF Pass, Finished, vars
<1> QED BY <1>1, <1>2, <1>3, <1>4 DEF Next

\* A user reads a message once, and a mark that is answered reached all it found.
THEOREM ReceiptsStayOnce == Spec => []ReceiptsOnce
<1>1. Init => Receipts
  BY NullAssumption DEF Init, Receipts, ReceiptsOnce
<1> QED BY <1>1, ReceiptsStep, AlwaysCoherent, PTL DEF Spec, Receipts
=============================================================================
