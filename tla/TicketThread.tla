------------------------------ MODULE TicketThread ------------------------------
(***************************************************************************)
(* The thread of one ticket: its messages with their read receipts           *)
(* (modules/chat/routes.ts) and its attachments (modules/uploads/routes.ts    *)
(* over services/storage.ts), beside clients that wait 30 s for an answer.    *)
(*                                                                          *)
(* An upload is received, checked, stored as a file, and then recorded in a   *)
(* row:   receive  ->  open  ->  write  ->  record                            *)
(* The S3 provider stores in one call, the local one creates the file and     *)
(* then fills it.  Removing an attachment marks the row and leaves the file.  *)
(***************************************************************************)
EXTENDS Integers, Sequences, FiniteSets

CONSTANTS
    Requests,   \* HTTP requests, each sent at most once; one that creates a row
                \* gives the row its id
    Users,
    Files,      \* what clients send: [name, size, valid], valid if name, type and
                \* extension pass validateUpload
    FileLimit,  \* fileSize of the multipart plugin, which cuts what is longer
    MaxSizes,   \* values of UPLOAD_MAX_SIZE_MB to choose from
    MaxTime,    \* bound on the clock
    Null

ASSUME FileAssumption ==
    /\ \A f \in Files : f.size \in Nat /\ f.valid \in BOOLEAN
    /\ FileLimit \in Nat /\ MaxSizes \subseteq Nat /\ MaxTime \in Nat

VARIABLES
    message,     \* [Requests -> Message row or Null]
    attachment,  \* [Requests -> Attachment row or Null]
    stored,      \* [Keys -> "absent", "open" (created, not filled) or "whole"]
    clock,       \* Date.now()
    pc,          \* per request: where its handler stands
    args,        \* per request: what it does, for whom, with which file or row
    key,         \* per request: the key it stored under, or Null
    found,       \* per request: the messages its statement found
    answer,      \* per request: the status its client got, 0 before, or TimedOut
    provider, maxSize  \* STORAGE_PROVIDER and UPLOAD_MAX_SIZE_MB
storage == <<attachment, stored, key>>
config  == <<provider, maxSize>>
vars == <<message, storage, clock, pc, args, found, answer, config>>

\* Date.now() and the checksum; what is cut has the checksum of what is left.
Keys == (0..MaxTime) \X Files
Ops  == {"post", "mark", "upload", "remove"}
Args == [op : Ops, user : Users, file : Files \cup {Null}, row : Requests \cup {Null}]
Message    == [by : Users, readBy : Seq(Users)]
Attachment == [url : Keys, size : Nat, deleted : BOOLEAN]

ASSUME NullAssumption ==
    Null \notin Files \cup Users \cup Requests \cup Keys \cup Message \cup Attachment

Init == /\ message = [r \in Requests |-> Null] /\ attachment = [r \in Requests |-> Null]
        /\ stored = [k \in Keys |-> "absent"] /\ clock = 0
        /\ pc = [r \in Requests |-> "idle"] /\ args = [r \in Requests |-> Null]
        /\ key = [r \in Requests |-> Null] /\ found = [r \in Requests |-> {}]
        /\ answer = [r \in Requests |-> 0]
        /\ provider \in {"local", "s3"} /\ maxSize \in MaxSizes

Goto(r, phase) == pc' = [pc EXCEPT ![r] = phase]
Send(r, op, user, file, row, phase) ==
    /\ pc[r] = "idle" /\ Goto(r, phase)
    /\ args' = [args EXCEPT ![r] = [op |-> op, user |-> user, file |-> file, row |-> row]]

TimedOut == -1  \* no status: the client stopped waiting

\* A reply reaches the client unless it has stopped waiting.
Reply(r, status) == answer' = [answer EXCEPT ![r] = IF @ = 0 THEN status ELSE @]
-----------------------------------------------------------------------------
\* POST messages/:channel.  The idempotency key of the body is not looked at.
SendMessage(r) ==
    /\ \E u \in Users : Send(r, "post", u, Null, Null, "post")
    /\ UNCHANGED <<message, storage, clock, found, answer, config>>

NewMessage(u) == [by |-> u, readBy |-> <<u>>]

CreateMessage(r) ==
    /\ pc[r] = "post"
    /\ message' = [message EXCEPT ![r] = NewMessage(args[r].user)]
    /\ Goto(r, "done") /\ Reply(r, 201)
    /\ UNCHANGED <<storage, clock, args, found, config>>

\* PATCH messages/read: one UPDATE.  It finds its rows as of its start, and looks at
\* each again when it has been changed since.
Has(m, u) == \E i \in DOMAIN message[m].readBy : message[m].readBy[i] = u
Unread(u) == {m \in Requests : message[m] # Null /\ ~Has(m, u)}

FindUnread(r) ==
    /\ \E u \in Users :
          /\ Send(r, "mark", u, Null, Null, "mark")
          /\ found' = [found EXCEPT ![r] = Unread(u)]
    /\ UNCHANGED <<message, storage, clock, answer, config>>

TargetsFound(r) == found[r]  \* mutated form: by id alone
Targets(r) == found[r] \cap Unread(args[r].user)

MarkRead(r) ==
    /\ pc[r] = "mark"
    /\ message' = [m \in Requests |-> IF m \in Targets(r)
                                      THEN [message[m] EXCEPT !.readBy = Append(@, args[r].user)]
                                      ELSE message[m]]
    /\ Goto(r, "done") /\ Reply(r, 200)
    /\ UNCHANGED <<storage, clock, args, found, config>>
-----------------------------------------------------------------------------
SendFile(r) ==
    /\ \E u \in Users, f \in Files : Send(r, "upload", u, f, Null, "receive")
    /\ UNCHANGED <<message, storage, clock, found, answer, config>>

\* What the multipart plugin lets through; nobody asks whether it was cut.
Received(f) == IF f.size < FileLimit THEN f.size ELSE FileLimit

\* validateUpload
AcceptableAnySize(f) == f.valid  \* mutated form: size not looked at
Acceptable(f) == f.valid /\ Received(f) <= maxSize

ReceiveGoingOn(r) ==  \* mutated form: the handler goes on after badRequest
    /\ pc[r] = "receive" /\ Goto(r, "open")
    /\ IF Acceptable(args[r].file) THEN UNCHANGED answer ELSE Reply(r, 400)
    /\ UNCHANGED <<message, storage, clock, args, found, config>>
Receive(r) ==
    /\ pc[r] = "receive"
    /\ \/ Acceptable(args[r].file) /\ Goto(r, "open") /\ UNCHANGED answer
       \/ ~Acceptable(args[r].file) /\ Goto(r, "done") /\ Reply(r, 400)
    /\ UNCHANGED <<message, storage, clock, args, found, config>>

NewKey(r) == <<clock, args[r].file>>

\* LocalStorageProvider.put: writeFile with flag "wx" creates the file or rejects.
OpenOver(r) ==  \* mutated form: flag "w"
    /\ pc[r] = "open" /\ provider = "local"
    /\ stored' = [stored EXCEPT ![NewKey(r)] = "open"]
    /\ key' = [key EXCEPT ![r] = NewKey(r)]
    /\ Goto(r, "write")
    /\ UNCHANGED <<message, attachment, clock, args, found, answer, config>>
Open(r) ==
    /\ pc[r] = "open" /\ provider = "local"
    /\ stored[NewKey(r)] = "absent"
    /\ stored' = [stored EXCEPT ![NewKey(r)] = "open"]
    /\ key' = [key EXCEPT ![r] = NewKey(r)]
    /\ Goto(r, "write")
    /\ UNCHANGED <<message, attachment, clock, args, found, answer, config>>

Exists(r) ==
    /\ pc[r] = "open" /\ provider = "local"
    /\ stored[NewKey(r)] # "absent"
    /\ Goto(r, "done") /\ Reply(r, 500)
    /\ UNCHANGED <<message, storage, clock, args, found, config>>

WriteFile(r) ==
    /\ pc[r] = "write"
    /\ stored' = [stored EXCEPT ![key[r]] = "whole"]
    /\ Goto(r, "record")
    /\ UNCHANGED <<message, attachment, clock, args, key, found, answer, config>>

\* S3StorageProvider.put: an object of that key is replaced.  A call that times out
\* may have stored it.
PutObject(r) ==
    /\ pc[r] = "open" /\ provider = "s3"
    /\ stored' = [stored EXCEPT ![NewKey(r)] = "whole"]
    /\ key' = [key EXCEPT ![r] = NewKey(r)]
    /\ \/ Goto(r, "record") /\ UNCHANGED answer
       \/ Goto(r, "done") /\ Reply(r, 500)
    /\ UNCHANGED <<message, attachment, clock, args, found, config>>

CreateAttachment(r) ==
    /\ pc[r] = "record"
    /\ attachment' = [attachment EXCEPT ![r] =
                        [url |-> key[r], size |-> Received(args[r].file), deleted |-> FALSE]]
    /\ Goto(r, "done") /\ Reply(r, 201)
    /\ UNCHANGED <<message, stored, key, clock, args, found, config>>
-----------------------------------------------------------------------------
\* DELETE attachments/:attachmentId of an attachment somebody was told of.
SendRemove(r) ==
    /\ \E u \in Users, a \in Requests :
          attachment[a] # Null /\ answer[a] = 201 /\ Send(r, "remove", u, Null, a, "remove")
    /\ UNCHANGED <<message, storage, clock, found, answer, config>>

RemovedForGood(row) == Null  \* mutated form: the row is deleted
Removed(row) == [row EXCEPT !.deleted = TRUE]

Remove(r) ==
    /\ pc[r] = "remove"
    /\ attachment' = [attachment EXCEPT ![args[r].row] = IF @ = Null THEN @ ELSE Removed(@)]
    /\ Goto(r, "done") /\ Reply(r, 204)
    /\ UNCHANGED <<message, stored, key, clock, args, found, config>>

\* A call is rejected or the instance stops.
Fail(r) ==
    /\ pc[r] \notin {"idle", "done"}
    /\ Goto(r, "done") /\ Reply(r, 500)
    /\ UNCHANGED <<message, storage, clock, args, found, config>>

\* The client's 30 s are over: to it the request has failed, and the handler goes on.
ClientTimeout(r) ==
    /\ pc[r] \notin {"idle", "done"} /\ answer[r] = 0
    /\ Reply(r, TimedOut)
    /\ UNCHANGED <<message, storage, clock, pc, args, found, config>>

Pass ==
    /\ clock < MaxTime /\ clock' = clock + 1
    /\ UNCHANGED <<message, storage, pc, args, found, answer, config>>

Finished ==
    /\ clock = MaxTime /\ \A r \in Requests : pc[r] = "done"
    /\ UNCHANGED vars

Chat(r) == SendMessage(r) \/ CreateMessage(r) \/ FindUnread(r) \/ MarkRead(r)
Upload(r) == \/ SendFile(r) \/ Receive(r) \/ Open(r) \/ Exists(r) \/ WriteFile(r)
             \/ PutObject(r) \/ CreateAttachment(r) \/ SendRemove(r) \/ Remove(r)

Next == Pass \/ Finished \/ \E r \in Requests : Chat(r) \/ Upload(r) \/ Fail(r) \/ ClientTimeout(r)

Spec == Init /\ [][Next]_vars
-----------------------------------------------------------------------------
Phases == {"idle", "post", "mark", "receive", "open", "write", "record", "remove", "done"}

\* Every variable keeps its shape.
TypeOK ==
    /\ message \in [Requests -> Message \cup {Null}]
    /\ attachment \in [Requests -> Attachment \cup {Null}]
    /\ stored \in [Keys -> {"absent", "open", "whole"}] /\ clock \in 0..MaxTime
    /\ pc \in [Requests -> Phases] /\ args \in [Requests -> Args \cup {Null}]
    /\ key \in [Requests -> Keys \cup {Null}] /\ found \in [Requests -> SUBSET Requests]
    /\ answer \in [Requests -> {0, 200, 201, 204, 400, 500, TimedOut}]
    /\ provider \in {"local", "s3"} /\ maxSize \in MaxSizes

\* A row of an attachment, removed or not, has its file, all of it, although uploads
\* of one file in one millisecond name one key and handlers fail half-way.
RowsBacked ==
    \A r \in Requests : attachment[r] # Null => stored[attachment[r].url] = "whole"

\* A file that no row names belongs to an upload under way, or to one that ended
\* without its row: nothing else orphans files, and no orphan's client was told that
\* the upload went well: it got an error, or no answer in time.
FilesAccountedFor ==
    \A k \in Keys : stored[k] # "absent" =>
        \/ \E r \in Requests : attachment[r] # Null /\ attachment[r].url = k
        \/ \E r \in Requests : key[r] = k /\ (pc[r] = "done" => answer[r] \in {500, TimedOut})

\* A file is recorded as it was sent if UPLOAD_MAX_SIZE_MB is below the limit of the
\* multipart plugin; at the defaults, where both are 10 MB, one that was cut passes.
WholeBelowLimit ==
    \A r \in Requests : attachment[r] # Null /\ maxSize < FileLimit =>
        attachment[r].size = args[r].file.size

\* What a client is told of its one request is so, although handlers fail half-way
\* and go on without it: 201 comes with the row, and no row comes of a 400.
AnswerIsTrue ==
    \A r \in Requests :
        LET made == message[r] # Null \/ attachment[r] # Null IN
        (answer[r] = 201 => made) /\ (answer[r] = 400 => ~made)

\* A user is in readBy at most once, although tabs mark at the same time, and a mark
\* that is answered has reached every message it found.
ReceiptsOnce ==
    /\ \A m \in Requests : message[m] # Null =>
          \A i, j \in DOMAIN message[m].readBy : message[m].readBy[i] = message[m].readBy[j] => i = j
    /\ \A r \in Requests : answer[r] = 200 => \A m \in found[r] : Has(m, args[r].user)
=============================================================================
