---------------------------- MODULE MessageStore ----------------------------
(***************************************************************************)
(* The store's copy of the mail: the tables of folders, messages and       *)
(* pending operations, the full-text index, the conversations and the      *)
(* cached bodies (mail-core/src/store/worker.rs), as the workers of all    *)
(* accounts use them (sync/mod.rs, sync/body.rs, sync/ops.rs).             *)
(*                                                                         *)
(* The rows of a table are a function on their ids.  An id is the largest  *)
(* one in the table plus one, as SQLite gives them: the id of a row that   *)
(* is gone comes back, and several tables, files and workers keep ids of   *)
(* other tables.  FolderSync has the synchronisation of a folder call by   *)
(* call and AccountWorker the replay; here they take as few steps as the   *)
(* tables can tell apart.                                                  *)
(*                                                                         *)
(* Abstractions.  A mail is its text, its headers and its attachments; the *)
(* index of a row holds the mail whose subject, and the one whose body, it *)
(* finds the row by.  Every pending operation is a deletion.               *)
(***************************************************************************)
EXTENDS Threading, Sequences, Functions

CONSTANTS
    Boxes,          \* the mailboxes of all accounts
    Accounts,
    Removable,      \* the mailboxes that can be removed and made again
    Mails, None,
    Worlds,         \* headers of the mails (None: an unknown ancestor), owners of the mailboxes
                    \* and the order in which they were found
    MaxUid,         \* the largest UID (bounds the state space)
    MaxEvents,      \* how much may happen on the server (bounds it too)
    MaxActions,     \* how much the user may do (bounds it)
    MaxFaults       \* how many calls may fail (bounds it)

Uids == 1 .. MaxUid

ASSUME MessageStoreAssumption ==
    /\ IsFiniteSet(Boxes) /\ Removable \subseteq Boxes /\ None \notin Mails /\ None \notin Boxes
    /\ Absent \notin Mails \cup {None}
    /\ Worlds \subseteq [headers : [Mails -> [mid : Mails \cup {Absent},
                                              ancestors : SUBSET (Mails \cup {None}),
                                              subject : Mails \cup {Absent}]],
                         owner : [Boxes -> Accounts],
                         found : Bijection(1 .. Cardinality(Boxes), Boxes)]
    /\ MaxUid \in Nat \ {0} /\ MaxEvents \in Nat /\ MaxActions \in Nat /\ MaxFaults \in Nat

VARIABLES
    headers, owner,     \* of the mails and the mailboxes, chosen at first
    mailbox,    \* the servers
    folder,     \* the folder table
    message,    \* the message table, with the attachments of each row
    index,      \* message_fts
    files,      \* the directory of bodies: <<folder id, UID>> names a file
    pending,    \* the table of pending operations
    worker,     \* what each account's worker is doing
    events, actions, faults,
    stray,      \* history: rows whose index or attachments another row left
    cut,        \* history: rows whose body was recorded but not indexed
    threaded    \* history: nothing was deleted since the last rethread

store == <<folder, message, index, files, pending>>
history == <<stray, cut, threaded>>
vars == <<headers, owner, mailbox, store, worker, events, actions, faults, history>>

(***************************************************************************)
(* Tables                                                                  *)
(***************************************************************************)
NextId(table) == Max(DOMAIN table \cup {0}) + 1
Put(table, k, row) == [x \in DOMAIN table \cup {k} |-> IF x = k THEN row ELSE table[x]]
Without(table, ids) == Restrict(table, DOMAIN table \ ids)

Rows(f, uids) == {i \in DOMAIN message : message[i].folder = f /\ message[i].uid \in uids}
RowsOf(table, f, u) == {i \in DOMAIN table : table[i].folder = f /\ table[i].uid = u}
UidsOf(f) == {message[i].uid : i \in Rows(f, Uids)}

(* message_record, as sync_folder makes it: no body, no thread.            *)
Envelope(f, u, mail) ==
    [folder |-> f, uid |-> u, mail |-> mail, body |-> "none", parts |-> None, thread |-> 0]

(* The UIDs that have no row, or as if none had one.                       *)
UnknownAll(table, f, uids) == uids
Unknown(table, f, uids) == {u \in uids : RowsOf(table, f, u) = {}}

(* insert_message, for one UID after the other: a row that is there keeps  *)
(* its id and its attachments, and loses the rest; index_message: the      *)
(* words of its body stay.                                                 *)
RowId(table, f, uids, u) ==
    LET new == Unknown(table, f, uids)
    IN  IF u \in new THEN NextId(table) + Cardinality({v \in new : v < u})
        ELSE CHOOSE i \in RowsOf(table, f, u) : TRUE

Upserted(tables, f, box, uids) ==
    LET table == tables.message
        ids == {RowId(table, f, uids, u) : u \in uids}
        Uid(i) == CHOOSE u \in uids : RowId(table, f, uids, u) = i
        Row(i) == [Envelope(f, Uid(i), box.at[Uid(i)]) EXCEPT
                      !.parts = IF i \in DOMAIN table THEN table[i].parts ELSE None]
        Words(i) == [subject |-> box.at[Uid(i)],
                     body |-> IF i \in DOMAIN tables.index THEN tables.index[i].body ELSE None]
    IN  [message |-> [i \in DOMAIN table \cup ids |-> IF i \in ids THEN Row(i) ELSE table[i]],
         index |-> [i \in DOMAIN tables.index \cup ids |->
                       IF i \in ids THEN Words(i) ELSE tables.index[i]]]

(* rethread, over the messages of all accounts.                            *)
ThreadInputs(table) ==
    {[id |-> i, account |-> owner[folder[table[i].folder].box],
      mid |-> headers[table[i].mail].mid, ancestors |-> headers[table[i].mail].ancestors,
      subject |-> headers[table[i].mail].subject] : i \in DOMAIN table}

(* As if only the rows that have no conversation yet were given one.       *)
RethreadedNew(table) ==
    LET roots == ThreadRoots(ThreadInputs(table))
    IN  [i \in DOMAIN table |->
            IF table[i].thread = 0 THEN [table[i] EXCEPT !.thread = roots[i]] ELSE table[i]]

Rethreaded(table) ==
    LET roots == ThreadRoots(ThreadInputs(table))
    IN  [i \in DOMAIN table |-> [table[i] EXCEPT !.thread = roots[i]]]

(* delete_messages, clear_messages: the rows and their index, or as if the *)
(* rows alone.                                                             *)
ClearedRows(ids) == [message |-> Without(message, ids), index |-> index]
Cleared(ids) == [message |-> Without(message, ids), index |-> Without(index, ids)]

DeleteRows(ids) ==
    /\ message' = Cleared(ids).message
    /\ index' = Cleared(ids).index
    /\ stray' = stray \ ids
    /\ threaded' = (threaded /\ ids = {})

(***************************************************************************)
(* The server                                                              *)
(***************************************************************************)
EmptyBox(validity) ==
    [exists |-> TRUE, validity |-> validity, next |-> 1, at |-> [u \in Uids |-> None]]

Happens == events < MaxEvents /\ events' = events + 1
                              /\ UNCHANGED <<headers, owner, store, worker, actions, faults, history>>

Deliver(b, mail) ==
    /\ Happens
    /\ mailbox[b].exists /\ mailbox[b].next \in Uids
    /\ \A u \in Uids : mailbox[b].at[u] # mail
    /\ mailbox' = [mailbox EXCEPT ![b].at[mailbox[b].next] = mail, ![b].next = @ + 1]

Expunge(b, u) ==
    /\ Happens
    /\ mailbox[b].exists /\ mailbox[b].at[u] # None
    /\ mailbox' = [mailbox EXCEPT ![b].at[u] = None]

(* A mailbox is removed, or made again with the mail it had in a new order.*)
RemoveBox(b) ==
    /\ Happens
    /\ b \in Removable /\ mailbox[b].exists
    /\ mailbox' = [mailbox EXCEPT ![b].exists = FALSE]

Rebuild(b) ==
    /\ Happens
    /\ b \in Removable
    /\ \E mail \in Mails :
           mailbox' = [mailbox EXCEPT ![b] = [EmptyBox(mailbox[b].validity + 1) EXCEPT
                                                 !.next = 2, !.at[1] = mail]]

(***************************************************************************)
(* A synchronisation: replay_pending, sync_folders, then each folder       *)
(***************************************************************************)
AtRest == [pc |-> "idle", todo |-> {}, folder |-> 0, vanished |-> {},
           row |-> 0, uid |-> 0, mail |-> None]
Works(a, w) == worker' = [worker EXCEPT ![a] = w]

Sync(a) ==
    /\ worker[a].pc = "idle"
    /\ actions < MaxActions /\ actions' = actions + 1
    /\ Works(a, [AtRest EXCEPT !.pc = "replay"])
    /\ UNCHANGED <<headers, owner, mailbox, store, events, faults, history>>

OpsOf(a) == SelectSeq(pending, LAMBDA o : o.account = a)

(* apply: an operation names a row of the folder table and a UID.          *)
Resolved(o) ==
    {f \in DOMAIN folder : f = o.folder /\ owner[folder[f].box] = o.account}

ReplayOne(a) ==
    /\ worker[a].pc = "replay" /\ OpsOf(a) # <<>>
    /\ LET o == Head(OpsOf(a)) IN
       /\ \/ /\ Resolved(o) = {}
             /\ UNCHANGED mailbox
          \/ \E f \in Resolved(o) :
                 /\ mailbox[folder[f].box].exists
                 /\ mailbox' = [mailbox EXCEPT ![folder[f].box].at[o.uid] = None]
       /\ pending' = SelectSeq(pending, LAMBDA p : p # o)
    /\ UNCHANGED <<headers, owner, folder, message, index, files, worker, events, actions, faults,
                   stray, cut, threaded>>

(* The replay is over, or stopped at an operation on a mailbox that is not *)
(* there.                                                                  *)
Replayed(a) ==
    OpsOf(a) # <<>> =>
        \E f \in Resolved(Head(OpsOf(a))) : ~mailbox[folder[f].box].exists

Listed(a) == {b \in Boxes : owner[b] = a /\ mailbox[b].exists}
FoldersOf(a, table) == {f \in DOMAIN table : owner[table[f].box] = a}

(* upsert_discovered_folder for each mailbox, in the order of the server's *)
(* list, then delete_missing_folders, which takes the messages with it and *)
(* leaves their index (or as if it left the messages too).                 *)
Added(table, boxes) ==
    LET new == NextId(table) .. NextId(table) + Cardinality(boxes) - 1
    IN  {[f \in DOMAIN table \cup new |->
             IF f \in new THEN [box |-> order[f], validity |-> 0] ELSE table[f]] :
            order \in Bijection(new, boxes)}
Discovered(a) == Added(folder, Listed(a) \ {folder[f].box : f \in DOMAIN folder})
MissingFolders(a) == {f \in FoldersOf(a, folder) : folder[f].box \notin Listed(a)}
Cascaded(fs) == {i \in DOMAIN message : message[i].folder \in fs}

NextFolder(todo) ==
    IF todo = {} THEN AtRest ELSE [AtRest EXCEPT !.pc = "folders", !.todo = todo]

SyncFolders(a) ==
    /\ worker[a].pc = "replay" /\ Replayed(a)
    /\ LET missing == MissingFolders(a)
           lost == Cascaded(missing) IN
       /\ \E table \in Discovered(a) : folder' = Without(table, missing)
       /\ message' = Without(message, lost)
       /\ stray' = stray \cup lost
       /\ threaded' = (threaded /\ lost = {})
       /\ Works(a, NextFolder(FoldersOf(a, folder')))
    /\ UNCHANGED <<headers, owner, mailbox, index, files, pending, events, actions, faults, cut>>

(* sync_folder up to the upsert: a new UIDVALIDITY clears the folder; the  *)
(* envelopes are those of new messages and of some whose flags were        *)
(* changed.  upsert_messages commits the rows, then rethreads.             *)
Stale(f, box) == folder[f].validity # 0 /\ folder[f].validity # box.validity

Fetched(f, box, flagged) ==
    LET gone == IF Stale(f, box) THEN Rows(f, Uids) ELSE {}
        known == IF Stale(f, box) THEN {} ELSE UidsOf(f)
        present == {u \in Uids : box.at[u] # None}
        changed == (present \ known) \cup (flagged \cap known \cap present)
    IN  [gone |-> gone, vanished |-> known \ present,
         tables |-> Upserted(Cleared(gone), f, box, changed)]

(* What set_folder_state and upsert_messages leave in the tables.          *)
Stores(f, fetched) ==
    /\ folder' = [folder EXCEPT ![f].validity = mailbox[folder[f].box].validity]
    /\ index' = fetched.tables.index
    /\ stray' = stray \ fetched.gone
    /\ UNCHANGED <<headers, owner, mailbox, files, pending, events, actions>>

SyncFolder(a, f) ==
    /\ worker[a].pc = "folders" /\ f \in worker[a].todo
    /\ mailbox[folder[f].box].exists
    /\ \E flagged \in SUBSET Uids :
           LET fetched == Fetched(f, mailbox[folder[f].box], flagged) IN
           /\ Stores(f, fetched)
           /\ message' = Rethreaded(fetched.tables.message)
           /\ Works(a, [worker[a] EXCEPT !.pc = "prune", !.folder = f,
                                         !.vanished = fetched.vanished])
    /\ threaded' = TRUE
    /\ UNCHANGED <<faults, cut>>

DeleteVanished(a) ==
    /\ worker[a].pc = "prune"
    /\ DeleteRows(Rows(worker[a].folder, worker[a].vanished))
    /\ Works(a, NextFolder(worker[a].todo \ {worker[a].folder}))
    /\ UNCHANGED <<headers, owner, mailbox, folder, files, pending, events, actions, faults, cut>>

(* The mailbox is not there: the whole synchronisation ends.               *)
SelectFails(a) ==
    /\ worker[a].pc = "folders"
    /\ \E f \in worker[a].todo : ~mailbox[folder[f].box].exists
    /\ Works(a, AtRest)
    /\ UNCHANGED <<headers, owner, mailbox, store, events, actions, faults, history>>

(***************************************************************************)
(* The body of a message (fetch_body): the text is read from the server    *)
(* and the row looked up by its UID; the file is written; then three       *)
(* statements, the first by UID and the others by the row's id.            *)
(***************************************************************************)
BodyFileOfUid(f, u) == <<0, u>>
BodyFile(f, u) == <<f, u>>

(* The statement after one of them, or as if the attachments were left.    *)
AfterText(pc) == "words"
After(pc) == IF pc = "body" THEN "attachments" ELSE "words"

FetchMessage(a, f, u) ==
    /\ worker[a].pc = "idle"
    /\ actions < MaxActions /\ actions' = actions + 1
    /\ f \in FoldersOf(a, folder)
    /\ mailbox[folder[f].box].exists /\ mailbox[folder[f].box].at[u] # None
    /\ \E i \in Rows(f, {u}) :
           Works(a, [AtRest EXCEPT !.pc = "body", !.folder = f, !.row = i, !.uid = u,
                                   !.mail = mailbox[folder[f].box].at[u]])
    /\ files' = Put(files, BodyFile(f, u), worker'[a].mail)
    /\ UNCHANGED <<headers, owner, mailbox, folder, message, index, pending, events, faults, history>>

SetMessageBody(a) ==
    LET w == worker[a] IN
    /\ w.pc = "body"
    /\ message' = [i \in DOMAIN message |->
                      IF i \in Rows(w.folder, {w.uid})
                      THEN [message[i] EXCEPT !.body = "full"] ELSE message[i]]
    /\ Works(a, [w EXCEPT !.pc = After("body")])
    /\ UNCHANGED <<headers, owner, mailbox, folder, index, files, pending, events, actions, faults,
                   history>>

(* The row that is there now is the one that was looked up.                *)
SameRow(w) == w.row \in Rows(w.folder, {w.uid})

ReplaceAttachments(a) ==
    LET w == worker[a] IN
    /\ w.pc = "attachments" /\ w.row \in DOMAIN message
    /\ message' = [message EXCEPT ![w.row].parts = w.mail]
    /\ stray' = IF SameRow(w) THEN stray ELSE stray \cup {w.row}
    /\ Works(a, [w EXCEPT !.pc = After("attachments")])
    /\ UNCHANGED <<headers, owner, mailbox, folder, index, files, pending, events, actions, faults,
                   cut, threaded>>

IndexBody(a) ==
    LET w == worker[a] IN
    /\ w.pc = "words" /\ w.row \in DOMAIN index
    /\ index' = [index EXCEPT ![w.row].body = w.mail]
    /\ stray' = IF SameRow(w) THEN stray ELSE stray \cup {w.row}
    /\ cut' = cut \ {w.row}
    /\ Works(a, AtRest)
    /\ UNCHANGED <<headers, owner, mailbox, folder, message, files, pending, events, actions, faults,
                   threaded>>

(* The row is gone: the foreign key, or "no fts row", ends the fetch.      *)
RowGone(a) ==
    LET w == worker[a] IN
    /\ \/ w.pc = "attachments" /\ w.row \notin DOMAIN message
       \/ w.pc = "words" /\ w.row \notin DOMAIN index
    /\ Works(a, AtRest)
    /\ UNCHANGED <<headers, owner, mailbox, store, events, actions, faults, history>>

(* A call fails.                                                           *)
Halfway(a) == IF worker[a].pc \in {"attachments", "words"} THEN {worker[a].row} ELSE {}

Fail(a) ==
    /\ faults < MaxFaults /\ faults' = faults + 1
    /\ worker[a].pc # "idle"
    /\ cut' = cut \cup Halfway(a)
    /\ Works(a, AtRest)
    /\ UNCHANGED <<headers, owner, mailbox, store, events, actions, stray, threaded>>

(* The program ends and is started again: between two commands of the      *)
(* store, or after the commit of upsert_messages, before the rethread.     *)
Crash ==
    /\ faults < MaxFaults /\ faults' = faults + 1
    /\ cut' = cut \cup UNION {Halfway(a) : a \in Accounts}
    /\ worker' = [a \in Accounts |-> AtRest]
    /\ \/ UNCHANGED <<headers, owner, mailbox, store, events, actions, stray, threaded>>
       \/ \E a \in Accounts : \E f \in worker[a].todo, flagged \in SUBSET Uids :
              /\ worker[a].pc = "folders" /\ mailbox[folder[f].box].exists
              /\ LET fetched == Fetched(f, mailbox[folder[f].box], flagged)
                 IN  /\ Stores(f, fetched) /\ message' = fetched.tables.message
                     /\ threaded' = (threaded /\ fetched.gone = {})

(***************************************************************************)
(* The user deletes a message while offline: the window removes the row,   *)
(* the worker keeps the operation (queue_delete).                          *)
(***************************************************************************)
Delete(i) ==
    LET row == message[i] IN
    /\ actions < MaxActions /\ actions' = actions + 1
    /\ DeleteRows({i})
    /\ pending' = Append(pending, [account |-> owner[folder[row.folder].box],
                                   folder |-> row.folder, uid |-> row.uid])
    /\ UNCHANGED <<headers, owner, mailbox, folder, files, worker, events, faults, cut>>

Init ==
    /\ \E world \in Worlds :
           /\ headers = world.headers /\ owner = world.owner
           /\ folder = [f \in DOMAIN world.found |-> [box |-> world.found[f], validity |-> 1]]
    /\ mailbox = [b \in Boxes |-> EmptyBox(1)]
    /\ message = <<>> /\ index = <<>> /\ files = <<>> /\ pending = <<>>
    /\ worker = [a \in Accounts |-> AtRest]
    /\ events = 0 /\ actions = 0 /\ faults = 0
    /\ stray = {} /\ cut = {} /\ threaded = TRUE

Server ==
    \E b \in Boxes : \/ \E mail \in Mails : Deliver(b, mail)
                     \/ \E u \in Uids : Expunge(b, u)
                     \/ RemoveBox(b)
                     \/ Rebuild(b)
Work(a) ==
    \/ Sync(a) \/ ReplayOne(a) \/ SyncFolders(a)
    \/ \E f \in DOMAIN folder : SyncFolder(a, f)
    \/ DeleteVanished(a) \/ SelectFails(a)
    \/ \E f \in DOMAIN folder, u \in Uids : FetchMessage(a, f, u)
    \/ SetMessageBody(a) \/ ReplaceAttachments(a) \/ IndexBody(a) \/ RowGone(a)
    \/ Fail(a)

Next == Server \/ Crash \/ (\E a \in Accounts : Work(a)) \/ (\E i \in DOMAIN message : Delete(i))

Spec == Init /\ [][Next]_vars

(***************************************************************************)
(* Properties                                                              *)
(***************************************************************************)
(* A message has one row, and so has a mailbox (the unique keys of the     *)
(* schema): rows are found by UID and by name, and their ids come back.    *)
OneRowEach ==
    /\ \A i, j \in DOMAIN message :
           message[i].folder = message[j].folder /\ message[i].uid = message[j].uid => i = j
    /\ \A f, g \in DOMAIN folder : folder[f].box = folder[g].box => f = g

(* Types and keys: insert_message finds the row that is there, and         *)
(* delete_missing_folders takes the messages of a folder along.            *)
TypeOK ==
    /\ \A f \in DOMAIN folder : folder[f].box \in Boxes /\ folder[f].validity \in Nat
    /\ \A i \in DOMAIN message :
           /\ message[i].folder \in DOMAIN folder /\ message[i].uid \in Uids
           /\ message[i].mail \in Mails /\ message[i].parts \in Mails \cup {None}
           /\ message[i].body \in {"none", "full"}
    /\ OneRowEach

(* The store has seen the present life of the row's mailbox.               *)
Current(i) ==
    LET f == message[i].folder IN folder[f].validity = mailbox[folder[f].box].validity

(* A search finds a message by its own words, and by no other's: every row *)
(* has its index, which names the row's mail.  Only ids that came back     *)
(* after a folder was removed, or in the middle of a fetch, escape this.   *)
IndexIsOwn ==
    \A i \in DOMAIN message \ stray :
        /\ i \in DOMAIN index /\ index[i].subject = message[i].mail
        /\ Current(i) => index[i].body \in {None, message[i].mail}

(* A body that is shown from the cache is the one of the message, whatever *)
(* became of the folder, its row and its UIDs since the file was written.  *)
BodyIsOwn ==
    \A i \in DOMAIN message :
        message[i].body = "full" /\ Current(i)
            => files[BodyFile(message[i].folder, message[i].uid)] = message[i].mail

(* A message whose body is recorded has its attachments listed and its     *)
(* words indexed, unless the fetch was cut short between the statements    *)
(* (nobody fetches a body again that is recorded) or is still on its way.  *)
RecordedIsComplete ==
    \A i \in DOMAIN message \ (stray \cup cut) :
        /\ message[i].body = "full" /\ Current(i)
        /\ \A a \in Accounts : worker[a].row # i
        => message[i].parts = message[i].mail /\ index[i].body = message[i].mail

(* Two messages are shown as one conversation exactly when they belong     *)
(* together, in whichever order they came and whatever ids came back; it   *)
(* is named after a row that is there.                                     *)
ThreadsAreConversations ==
    LET msgs == ThreadInputs(message)
        sets == Closed(msgs)
        settled == \A i \in DOMAIN message : message[i].thread # 0
    IN  threaded /\ settled =>
            /\ \A m \in msgs : message[m.id].thread \in DOMAIN message
            /\ \A m, n \in msgs :
                   (message[m.id].thread = message[n.id].thread)
                       <=> \A S \in sets : m \in S <=> n \in S
=============================================================================
