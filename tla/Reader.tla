------------------------------- MODULE Reader -------------------------------
(***************************************************************************)
(* The reading side of the application: the window (app/src/window.rs),    *)
(* the list of a folder's messages (message_list.rs) and the conversation  *)
(* (conversation.rs), which share a database that synchronisation changes  *)
(* under them.                                                             *)
(*                                                                         *)
(* Each component handles one message at a time from a queue of its own; a *)
(* handler never waits but starts a task, which reads or writes the store  *)
(* and then puts a message into a queue.  Tasks run in any order, and      *)
(* between what a task reads and the handling of its answer anything may   *)
(* happen.  What a component emits enters the receiver's queue at once.    *)
(* The list widget is GTK's: it keeps one row selected whenever there is a *)
(* row, and signals only a selection that a call or the user changes.      *)
(***************************************************************************)
EXTENDS Integers, Sequences, FiniteSets, Functions

CONSTANTS
    Folders,        \* the folders of the database
    AccountOf,      \* the account of each folder
    Trashes,        \* the folders whose special use is Trash
    Keys,           \* the messages: pairs of a folder and a UID
    Threads,        \* sets of messages that are one conversation
    Deliverable,    \* messages that may arrive, change and vanish
    None,
    MaxSteps,       \* what the user and synchronisation do, and the calls of the store
                    \* that fail (bounds the state space)
    MaxBusy         \* how much may be under way when they do the next thing (bounds it)

ASSUME ReaderAssumption ==
    /\ AccountOf \in [Folders -> {AccountOf[f] : f \in Folders}]
    /\ Trashes \subseteq Folders /\ Deliverable \subseteq Keys
    /\ IsFiniteSet(Keys) /\ \A k \in Keys : k = <<k[1], k[2]>> /\ k[1] \in Folders
    /\ None \notin Folders /\ None \notin {AccountOf[f] : f \in Folders}
    /\ MaxSteps \in Nat /\ MaxBusy \in Nat

VARIABLES
    mail,       \* the message table: key -> unread, flagged, full (body cached)
    window,     \* Window: selected folder, anchor, folders of its account, move menu, reloads
    list,       \* MessageList, with the row GTK has selected
    conv,       \* Conversation
    winQ, listQ, convQ,     \* what each has still to handle
    tasks,      \* bag of what runs beside them: task -> how many
    request,    \* the last action asked of the synchronisation service
    steps,
    overtaken   \* history: what a Retry asked for came after a newer selection

readerVars == <<mail, window, list, conv, winQ, listQ, convQ, tasks, request, steps, overtaken>>

Message == [unread : BOOLEAN, flagged : BOOLEAN, full : BOOLEAN]
Uid(k) == k[2]
InFolder(f) == {k \in DOMAIN mail : k[1] = f}
Unqueued == <<window, list, conv, request>>

(* A task: what it does, on what, and what it has got (None: not run yet). *)
Task(do, on) == [do |-> do, on |-> on, got |-> None]
Plus(bag, t) == [x \in DOMAIN bag \cup {t} |-> (IF x \in DOMAIN bag THEN bag[x] ELSE 0)
                                                   + (IF x = t THEN 1 ELSE 0)]
Minus(bag, t) == [x \in {y \in DOMAIN bag : y # t \/ bag[y] > 1} |->
                      bag[x] - (IF x = t THEN 1 ELSE 0)]
Spawn(do, on) == tasks' = Plus(tasks, Task(do, on))

Post(do, on) == [do |-> do, on |-> on]
Turn(queue, do) == queue # <<>> /\ Head(queue).do = do

(***************************************************************************)
(* The window.  Every handler is one action.                               *)
(***************************************************************************)
ListLoad(f) == Post("Load", f)

FolderSelected ==
    /\ Turn(winQ, "FolderSelected")
    /\ window' = [window EXCEPT !.folder = Head(winQ).on]
    /\ listQ' = Append(listQ, ListLoad(Head(winQ).on))
    /\ winQ' = Tail(winQ)
    /\ UNCHANGED <<mail, list, conv, convQ, tasks, request, steps, overtaken>>

MessageSelected ==
    /\ Turn(winQ, "MessageSelected")
    /\ convQ' = Append(convQ, Post("Load", Head(winQ).on))
    /\ winQ' = Tail(winQ)
    /\ UNCHANGED <<mail, Unqueued, listQ, tasks, steps, overtaken>>

(* OpenMessage: a notification is clicked.                                 *)
OpenMessage ==
    /\ Turn(winQ, "Open")
    /\ LET k == Head(winQ).on IN
       /\ window' = [window EXCEPT !.folder = k[1]]
       /\ listQ' = listQ \o <<ListLoad(k[1]), Post("Select", Uid(k))>>
    /\ winQ' = Tail(winQ)
    /\ UNCHANGED <<mail, list, conv, convQ, tasks, request, steps, overtaken>>

FetchBody ==
    /\ Turn(winQ, "FetchBody")
    /\ Spawn("fetch", Head(winQ).on)
    /\ winQ' = Tail(winQ)
    /\ UNCHANGED <<mail, Unqueued, listQ, convQ, steps, overtaken>>

BodyFetched ==
    /\ Turn(winQ, "BodyFetched")
    /\ convQ' = Append(convQ, Post("BodyFetched", Head(winQ).on))
    /\ winQ' = Tail(winQ)
    /\ UNCHANGED <<mail, Unqueued, listQ, tasks, steps, overtaken>>

(* FolderChanged and MessagesChanged: reloads are collected for 80 ms.     *)
QueueFolderReload ==
    /\ Turn(winQ, "Changed")
    /\ window' = [window EXCEPT !.reload = @ \cup {Head(winQ).on}, !.scheduled = TRUE]
    /\ IF window.scheduled THEN UNCHANGED tasks ELSE Spawn("timer", None)
    /\ winQ' = Tail(winQ)
    /\ UNCHANGED <<mail, list, conv, listQ, convQ, request, steps, overtaken>>

FlushReloadsKeeping ==
    /\ Turn(winQ, "Flush")
    /\ window' = [window EXCEPT !.reload = {}]
    /\ listQ' = IF window.folder \in window.reload THEN Append(listQ, ListLoad(window.folder))
                                                   ELSE listQ
    /\ winQ' = Tail(winQ)
    /\ UNCHANGED <<mail, list, conv, convQ, tasks, request, steps, overtaken>>

FlushReloads ==
    /\ Turn(winQ, "Flush")
    /\ window' = [window EXCEPT !.scheduled = FALSE, !.reload = {}]
    /\ listQ' = IF window.folder \in window.reload THEN Append(listQ, ListLoad(window.folder))
                                                   ELSE listQ
    /\ winQ' = Tail(winQ)
    /\ UNCHANGED <<mail, list, conv, convQ, tasks, request, steps, overtaken>>

(* The menu of a message offers the folders that were loaded, but its own. *)
Account(anchor) == IF anchor = None THEN None ELSE AccountOf[anchor.key[1]]
FoldersOf(account) == {f \in Folders : AccountOf[f] = account}
MoveMenu(folders, anchor) == folders \ {anchor.key[1]}

AnchorChanged ==
    /\ Turn(winQ, "Anchor")
    /\ LET anchor == Head(winQ).on
           previous == window.anchor
           moved == /\ anchor # None /\ anchor.key[1] # previous.key[1]
                    /\ window.folders # {}
       IN
       IF Account(anchor) # Account(previous)
       THEN /\ window' = [window EXCEPT !.anchor = anchor, !.folders = {},
                                        !.menu = IF anchor = None THEN {} ELSE @]
            /\ IF anchor = None THEN UNCHANGED tasks ELSE Spawn("folders", Account(anchor))
       ELSE /\ window' = [window EXCEPT !.anchor = anchor,
                              !.menu = IF moved THEN MoveMenu(window.folders, anchor) ELSE @]
            /\ UNCHANGED tasks
    /\ winQ' = Tail(winQ)
    /\ UNCHANGED <<mail, list, conv, listQ, convQ, request, steps, overtaken>>

AnyAnchor(account) == window.anchor # None
OfAnchor(account) == Account(window.anchor) = account

FoldersLoaded ==
    /\ Turn(winQ, "FoldersLoaded")
    /\ window' = IF OfAnchor(Head(winQ).on)
                 THEN [window EXCEPT !.folders = FoldersOf(Head(winQ).on),
                                     !.menu = MoveMenu(FoldersOf(Head(winQ).on), window.anchor)]
                 ELSE window
    /\ winQ' = Tail(winQ)
    /\ UNCHANGED <<mail, list, conv, listQ, convQ, tasks, request, steps, overtaken>>

(* apply_flag_change: the table at once, by a task, and the server.        *)
ApplyFlagChange(f, uids, field, to) ==
    /\ Spawn("flags", [folder |-> f, uids |-> uids, field |-> field, to |-> to])
    /\ request' = [do |-> "SetFlags", by |-> field, from |-> f, to |-> None]

Viewed ==
    /\ Turn(winQ, "Viewed")
    /\ ApplyFlagChange(Head(winQ).on.folder, Head(winQ).on.uids, "unread", FALSE)
    /\ winQ' = Tail(winQ)
    /\ UNCHANGED <<mail, window, list, conv, listQ, convQ, steps, overtaken>>

ToggleFlagged ==
    /\ Turn(winQ, "Toggle") /\ window.anchor # None
    /\ LET a == window.anchor IN
       /\ window' = [window EXCEPT !.anchor.flagged = ~a.flagged]
       /\ ApplyFlagChange(a.key[1], {Uid(a.key)}, "flagged", ~a.flagged)
    /\ winQ' = Tail(winQ)
    /\ UNCHANGED <<mail, list, conv, listQ, convQ, steps, overtaken>>

(* remove_message, and what DeleteMessage and MoveMessage do after it.     *)
Discard(do, by, target) ==
    /\ Spawn("remove", window.anchor.key)
    /\ request' = [do |-> do, by |-> by, from |-> window.anchor.key[1], to |-> target]
    /\ window' = [window EXCEPT !.anchor = None]
    /\ convQ' = Append(convQ, Post("Clear", None))
    /\ winQ' = Tail(winQ)
    /\ UNCHANGED <<mail, list, conv, listQ, steps, overtaken>>

MoveMessage ==
    /\ Turn(winQ, "Move") /\ window.anchor # None
    /\ Discard("Move", "menu", Head(winQ).on)

DeleteMessage ==
    /\ Turn(winQ, "Delete") /\ window.anchor # None
    /\ LET trash == (window.folders \cap Trashes) \ {window.anchor.key[1]} IN
       \/ \E t \in trash : Discard("Move", "delete", t)
       \/ trash = {} /\ Discard("Delete", "delete", None)

(* Without an anchor these three do nothing.                               *)
NothingShown ==
    /\ winQ # <<>> /\ Head(winQ).do \in {"Toggle", "Delete", "Move"} /\ window.anchor = None
    /\ winQ' = Tail(winQ)
    /\ UNCHANGED <<mail, Unqueued, listQ, convQ, tasks, steps, overtaken>>

WindowNext ==
    \/ FolderSelected \/ MessageSelected \/ OpenMessage \/ FetchBody \/ BodyFetched
    \/ QueueFolderReload \/ FlushReloads \/ AnchorChanged \/ FoldersLoaded \/ Viewed
    \/ ToggleFlagged \/ MoveMessage \/ DeleteMessage \/ NothingShown

(***************************************************************************)
(* The message list.  Its rows are a function from UIDs to what is shown.  *)
(***************************************************************************)
Row(k) == [unread |-> mail[k].unread, flagged |-> mail[k].flagged]
RowsOf(f) == [u \in {Uid(k) : k \in InFolder(f)} |-> Row(<<f, u>>)]

(* plan_update: rows that look the same stay, the others are taken out and *)
(* put in anew.                                                            *)
Same(rows, next) == {u \in DOMAIN rows \cap DOMAIN next : rows[u] = next[u]}
ApplyUpdate(rows, next) ==
    LET kept == Same(rows, next)
        inserts == DOMAIN next \ kept
    IN  [u \in kept \cup inserts |-> IF u \in kept THEN rows[u] ELSE next[u]]
ApplyUpdateByUid(rows, next) ==
    [u \in DOMAIN next |-> IF u \in DOMAIN rows THEN rows[u] ELSE next[u]]

(* GTK: where the selection may be once the kept rows are among these.     *)
Autoselected(row, kept, rows) ==
    IF row \in kept THEN {row} ELSE IF DOMAIN rows = {} THEN {None} ELSE DOMAIN rows

(* set_selected signals only a change; the signal is handled in its turn.  *)
SelectRow(l, u) == [l EXCEPT !.row = u]
Signalled(l, u) == IF l.row = u THEN <<>> ELSE <<Post("SelectionChanged", None)>>

Cleared(l, state) == [l EXCEPT !.uid = None, !.rows = <<>>, !.row = None, !.state = state]

ListLoads ==
    /\ Turn(listQ, "Load")
    /\ LET f == Head(listQ).on
           opened == IF list.folder # f THEN Cleared(list, "Loading")
                     ELSE IF list.state \in {"Idle", "Error"} THEN [list EXCEPT !.state = "Loading"]
                     ELSE list
       IN /\ list' = [opened EXCEPT !.folder = f, !.seq = @ + 1]
          /\ Spawn("rows", [folder |-> f, seq |-> list.seq + 1])
    /\ listQ' = Tail(listQ)
    /\ UNCHANGED <<mail, window, conv, winQ, convQ, request, steps, overtaken>>

(* The rest of Loaded: a row asked for meanwhile, and the signal that GTK  *)
(* does not give when the rows themselves change.                          *)
AfterLoaded(l, signals) ==
    LET asks == l.uid = None /\ l.state = "Ready"
        found == l.wanted # None /\ l.state = "Ready" /\ l.wanted \in DOMAIN l.rows
        done == [l EXCEPT !.wanted = None]
        reemit == IF asks THEN <<Post("SelectionChanged", None)>> ELSE <<>>
    IN  /\ list' = IF found THEN [SelectRow(done, l.wanted) EXCEPT !.uid = None] ELSE done
        /\ listQ' = Tail(listQ) \o signals \o reemit
                        \o (IF found THEN Signalled(l, l.wanted) ELSE <<>>)

Restored(l) == IF l.uid = None THEN l
               ELSE IF l.uid \in DOMAIN l.rows THEN SelectRow(l, l.uid)
               ELSE [l EXCEPT !.uid = None]

CurrentFolder(load) == load.folder = list.folder
Current(load) == load.folder = list.folder /\ load.seq = list.seq

ListLoaded ==
    /\ Turn(listQ, "Loaded")
    /\ LET load == Head(listQ).on.load
           next == Head(listQ).on.result
           kept == IF list.state = "Ready" THEN Same(list.rows, next) ELSE {}
           rows == IF list.state = "Ready" THEN ApplyUpdate(list.rows, next) ELSE next
       IN IF ~Current(load) THEN listQ' = Tail(listQ) /\ UNCHANGED list
          ELSE IF next = None THEN AfterLoaded(Cleared(list, "Error"), <<>>)
          ELSE IF next = <<>> THEN AfterLoaded(Cleared(list, "Empty"), <<>>)
          ELSE \E row \in Autoselected(list.row, kept, rows) :
                  LET shown == [list EXCEPT !.rows = rows, !.row = row, !.state = "Ready"]
                      back == list.uid \in DOMAIN rows
                  IN AfterLoaded(Restored(shown),
                                 IF back THEN Signalled(shown, list.uid) ELSE <<>>)
    /\ UNCHANGED <<mail, window, conv, winQ, convQ, tasks, request, steps, overtaken>>

ListSelects ==
    /\ Turn(listQ, "Select")
    /\ LET u == Head(listQ).on
           there == u \in DOMAIN list.rows
           none == [list EXCEPT !.uid = None]
       IN \/ /\ list.state = "Ready" /\ there
             /\ list' = SelectRow(none, u) /\ listQ' = Tail(listQ) \o Signalled(list, u)
          \/ /\ list.state = "Ready" /\ ~there
             /\ list' = none /\ listQ' = Tail(listQ)
          \/ /\ list.state # "Ready"
             /\ list' = [none EXCEPT !.wanted = u] /\ listQ' = Tail(listQ)
    /\ UNCHANGED <<mail, window, conv, winQ, convQ, tasks, request, steps, overtaken>>

ListRetries ==
    /\ Turn(listQ, "Retry")
    /\ listQ' = Tail(listQ)
                  \o (IF list.folder = None THEN <<>> ELSE <<ListLoad(list.folder)>>)
    /\ overtaken' = (overtaken \/ \E i \in 2..Len(listQ) : listQ[i].do = "Load")
    /\ UNCHANGED <<mail, Unqueued, winQ, convQ, tasks, steps>>

SelectionChanged ==
    /\ Turn(listQ, "SelectionChanged")
    /\ IF list.folder = None THEN UNCHANGED <<list, winQ>>
       ELSE /\ list' = [list EXCEPT !.uid = list.row]
            /\ winQ' = IF list.row \in {None, list.uid} THEN winQ
                       ELSE Append(winQ, Post("MessageSelected", <<list.folder, list.row>>))
    /\ listQ' = Tail(listQ)
    /\ UNCHANGED <<mail, window, conv, convQ, tasks, request, steps, overtaken>>

ListNext == ListLoads \/ ListLoaded \/ ListSelects \/ ListRetries \/ SelectionChanged

(***************************************************************************)
(* The conversation: the messages of the thread of the one selected, as    *)
(* cards.  An anchor is the selected message as it was read.               *)
(***************************************************************************)
ThreadOf(k) == {x \in DOMAIN mail : x = k \/ \E t \in Threads : {k, x} \subseteq t}
Status(k) == IF k \notin DOMAIN mail THEN "unavailable"
             ELSE IF mail[k].full THEN "ready" ELSE "pending"
Card(k) == [unread |-> mail[k].unread, body |-> Status(k)]

Conversation(k) ==
    IF k \notin DOMAIN mail THEN None
    ELSE [cards |-> [x \in ThreadOf(k) |-> Card(x)],
          anchor |-> [key |-> k, flagged |-> mail[k].flagged]]

ConversationLoads ==
    /\ Turn(convQ, "Load")
    /\ conv' = [selection |-> Head(convQ).on, state |-> "Loading", cards |-> <<>>]
    /\ winQ' = Append(winQ, Post("Anchor", None))
    /\ Spawn("thread", Head(convQ).on)
    /\ convQ' = Tail(convQ)
    /\ UNCHANGED <<mail, window, list, listQ, request, steps, overtaken>>

(* Everything unread on the cards is seen, under the folder of the anchor; *)
(* a body that is not cached is asked for.                                 *)
ConversationLoaded ==
    /\ Turn(convQ, "Loaded")
    /\ LET k == Head(convQ).on.key
           read == Head(convQ).on.result
           unread == {x \in DOMAIN read.cards : read.cards[x].unread}
           pending == {x \in DOMAIN read.cards : read.cards[x].body = "pending"}
       IN IF conv.selection # k THEN UNCHANGED <<conv, winQ>>
          ELSE IF read = None
          THEN /\ conv' = [conv EXCEPT !.state = "Error", !.cards = <<>>]
               /\ winQ' = Append(winQ, Post("Anchor", None))
          ELSE /\ conv' = [conv EXCEPT !.state = "Ready",
                              !.cards = [x \in DOMAIN read.cards |->
                                             [read.cards[x] EXCEPT !.unread = FALSE]]]
               /\ \E order \in Bijection(1 .. Cardinality(pending), pending) :
                      winQ' = winQ \o <<Post("Anchor", read.anchor)>>
                                \o (IF unread = {} THEN <<>>
                                    ELSE <<Post("Viewed", [folder |-> k[1],
                                                           uids |-> {Uid(x) : x \in unread}])>>)
                                \o [i \in DOMAIN order |-> Post("FetchBody", order[i])]
    /\ convQ' = Tail(convQ)
    /\ UNCHANGED <<mail, window, list, listQ, tasks, request, steps, overtaken>>

CardBodyFetched ==
    /\ Turn(convQ, "BodyFetched")
    /\ IF Head(convQ).on \in DOMAIN conv.cards THEN Spawn("body", Head(convQ).on)
                                               ELSE UNCHANGED tasks
    /\ convQ' = Tail(convQ)
    /\ UNCHANGED <<mail, Unqueued, winQ, listQ, steps, overtaken>>

CardBodyLoaded ==
    /\ Turn(convQ, "BodyLoaded")
    /\ LET k == Head(convQ).on.key IN
       conv' = IF k \in DOMAIN conv.cards
               THEN [conv EXCEPT !.cards[k].body = Head(convQ).on.result] ELSE conv
    /\ convQ' = Tail(convQ)
    /\ UNCHANGED <<mail, window, list, winQ, listQ, tasks, request, steps, overtaken>>

NoConversation == [selection |-> None, state |-> "Idle", cards |-> <<>>]

ConversationClearsSilently ==
    /\ Turn(convQ, "Clear")
    /\ conv' = NoConversation
    /\ convQ' = Tail(convQ)
    /\ UNCHANGED <<mail, window, list, winQ, listQ, tasks, request, steps, overtaken>>

ConversationClears ==
    /\ Turn(convQ, "Clear")
    /\ conv' = NoConversation
    /\ winQ' = Append(winQ, Post("Anchor", None))
    /\ convQ' = Tail(convQ)
    /\ UNCHANGED <<mail, window, list, listQ, tasks, request, steps, overtaken>>

ConversationRetries ==
    /\ Turn(convQ, "Retry")
    /\ convQ' = Tail(convQ)
                  \o (IF conv.selection = None THEN <<>> ELSE <<Post("Load", conv.selection)>>)
    /\ overtaken' = (overtaken \/ \E i \in 2..Len(convQ) : convQ[i].do = "Load")
    /\ UNCHANGED <<mail, Unqueued, winQ, listQ, tasks, steps>>

ConversationNext ==
    \/ ConversationLoads \/ ConversationLoaded \/ CardBodyFetched \/ CardBodyLoaded
    \/ ConversationClears \/ ConversationRetries

(***************************************************************************)
(* The tasks.  One that reads may report what it read much later; one that *)
(* writes reports at once, for the report waits in the queue as well.      *)
(***************************************************************************)
Fault == steps < MaxSteps /\ steps' = steps + 1
NoFault == UNCHANGED steps
ToWindow(do, on) == winQ' = Append(winQ, Post(do, on)) /\ UNCHANGED <<listQ, convQ>>
ToList(do, on) == listQ' = Append(listQ, Post(do, on)) /\ UNCHANGED <<winQ, convQ>>
ToConversation(do, on) == convQ' = Append(convQ, Post(do, on)) /\ UNCHANGED <<winQ, listQ>>
Beside == <<window, list, conv, request, overtaken>>

Gets(t, result) == tasks' = Plus(Minus(tasks, t), [t EXCEPT !.got = [result |-> result]])

Reads(t) ==
    /\ t.got = None
    /\ \/ t.do = "rows" /\ Gets(t, RowsOf(t.on.folder)) /\ NoFault
       \/ t.do = "thread" /\ Gets(t, Conversation(t.on)) /\ NoFault
       \/ t.do \in {"rows", "thread"} /\ Gets(t, None) /\ Fault
    /\ UNCHANGED <<mail, Beside, winQ, listQ, convQ>>

FlagsWritten(on) ==
    [k \in DOMAIN mail |-> IF k[1] = on.folder /\ Uid(k) \in on.uids
                           THEN [mail[k] EXCEPT ![on.field] = on.to] ELSE mail[k]]

Writes(t) ==
    /\ \/ t.do = "flags" /\ ToWindow("Changed", t.on.folder)
          /\ mail' = FlagsWritten(t.on) /\ NoFault
       \/ t.do = "remove" /\ ToWindow("Changed", t.on[1])
          /\ mail' = Restrict(mail, DOMAIN mail \ {t.on}) /\ NoFault
       \/ t.do = "fetch" /\ t.on \in DOMAIN mail /\ ToWindow("BodyFetched", t.on)
          /\ mail' = [mail EXCEPT ![t.on].full = TRUE] /\ NoFault
       \/ t.do \in {"flags", "remove"} /\ UNCHANGED mail /\ Fault
          /\ ToWindow("Changed", IF t.do = "flags" THEN t.on.folder ELSE t.on[1])
    /\ tasks' = Minus(tasks, t) /\ UNCHANGED Beside

(* A fetch of a message that is gone fails, and the window is not told.    *)
FetchFails(t) ==
    /\ t.do = "fetch" /\ t.on \notin DOMAIN mail
    /\ tasks' = Minus(tasks, t)
    /\ UNCHANGED <<mail, Beside, winQ, listQ, convQ, steps>>

Has(t, do) == t.do = do /\ t.got # None
Reports(t) ==
    /\ \/ Has(t, "rows") /\ ToList("Loaded", [load |-> t.on, result |-> t.got.result])
       \/ Has(t, "thread") /\ ToConversation("Loaded", [key |-> t.on, result |-> t.got.result])
       \/ t.do = "body" /\ ToConversation("BodyLoaded", [key |-> t.on, result |-> Status(t.on)])
       \/ t.do = "folders" /\ ToWindow("FoldersLoaded", t.on)
       \/ t.do = "timer" /\ ToWindow("Flush", None)
    /\ tasks' = Minus(tasks, t)
    /\ UNCHANGED <<mail, Beside, steps>>

TaskNext == \E t \in DOMAIN tasks : Reads(t) \/ Writes(t) \/ FetchFails(t) \/ Reports(t)

(***************************************************************************)
(* Synchronisation: it changes the table, and then reports the folder.     *)
(***************************************************************************)
Busy == Len(winQ) + Len(listQ) + Len(convQ) + Cardinality(DOMAIN tasks)
Step == steps < MaxSteps /\ Busy <= MaxBusy /\ steps' = steps + 1
Synced(f) ==
    /\ Step
    /\ ToWindow("Changed", f)
    /\ UNCHANGED <<Unqueued, tasks, overtaken>>

Arrives(k) ==
    /\ k \in Deliverable \ DOMAIN mail
    /\ mail' = [x \in DOMAIN mail \cup {k} |->
                    IF x = k THEN [unread |-> TRUE, flagged |-> FALSE, full |-> FALSE]
                             ELSE mail[x]]
    /\ Synced(k[1])
Vanishes(k) ==
    /\ k \in DOMAIN mail /\ mail' = Restrict(mail, DOMAIN mail \ {k}) /\ Synced(k[1])
FlagsChange(k) ==
    /\ k \in DOMAIN mail /\ mail' = [mail EXCEPT ![k].unread = ~@] /\ Synced(k[1])

SyncNext == \E k \in Deliverable : Arrives(k) \/ Vanishes(k) \/ FlagsChange(k)

(***************************************************************************)
(* The user.  Buttons that act on a message need an anchor when clicked.   *)
(***************************************************************************)
Untouched == <<mail, window, conv, tasks, request, overtaken>>

Tells(do, on) ==
    Step /\ winQ' = Append(winQ, Post(do, on)) /\ UNCHANGED <<Untouched, list, listQ, convQ>>

ChooseFolder(f) == Tells("FolderSelected", f)
ChooseRow(u) ==
    /\ list.state = "Ready" /\ u \in DOMAIN list.rows /\ u # list.row
    /\ Step /\ list' = SelectRow(list, u)
    /\ listQ' = Append(listQ, Post("SelectionChanged", None))
    /\ UNCHANGED <<Untouched, winQ, convQ>>
ChooseHit(k) == k \in Deliverable /\ Tells("MessageSelected", k)
ClickNotification(k) == k \in Deliverable /\ k \in DOMAIN mail /\ Tells("Open", k)
Press(do) == window.anchor # None /\ Tells(do, None)
PressMove(f) == window.anchor # None /\ f \in window.menu /\ Tells("Move", f)
Retry ==
    \/ list.state = "Error" /\ Step /\ listQ' = Append(listQ, Post("Retry", None))
       /\ UNCHANGED <<Untouched, list, winQ, convQ>>
    \/ conv.state = "Error" /\ Step /\ convQ' = Append(convQ, Post("Retry", None))
       /\ UNCHANGED <<Untouched, list, winQ, listQ>>

UserNext ==
    \/ \E f \in Folders : ChooseFolder(f) \/ PressMove(f)
    \/ \E k \in Keys : ChooseRow(Uid(k)) \/ ChooseHit(k) \/ ClickNotification(k)
    \/ \E do \in {"Toggle", "Delete"} : Press(do)
    \/ Retry

ReaderInit ==
    /\ mail = [k \in Keys \ Deliverable |-> [unread |-> FALSE, flagged |-> FALSE, full |-> TRUE]]
    /\ window = [folder |-> None, anchor |-> None, folders |-> {}, menu |-> {}, reload |-> {},
                 scheduled |-> FALSE]
    /\ list = [folder |-> None, uid |-> None, wanted |-> None, seq |-> 0, state |-> "Idle",
               rows |-> <<>>, row |-> None]
    /\ conv = NoConversation
    /\ winQ = <<>> /\ listQ = <<>> /\ convQ = <<>> /\ tasks = <<>> /\ request = None
    /\ steps = 0 /\ overtaken = FALSE

ReaderNext == WindowNext \/ ListNext \/ ConversationNext \/ TaskNext \/ SyncNext \/ UserNext

ReaderSpec == ReaderInit /\ [][ReaderNext]_readerVars

(***************************************************************************)
(* What must hold                                                          *)
(***************************************************************************)
Quiet == winQ = <<>> /\ listQ = <<>> /\ convQ = <<>> /\ DOMAIN tasks = {}

(* Once nothing is under way, the list is that of the folder selected and  *)
(* shows what the store has of it, whatever was selected or synchronised   *)
(* while it loaded (MessageList::update, queue_folder_reload).             *)
ListConverges ==
    Quiet /\ ~overtaken =>
             /\ list.folder = window.folder
             /\ list.folder # None /\ list.state # "Error" => list.rows = RowsOf(list.folder)

(* Once nothing is under way, the buttons act on the message the           *)
(* conversation shows, or on none, and no card waits for a body that the   *)
(* store has (ConversationMsg, WindowMsg::Anchor).                         *)
AnchorIsShown ==
    window.anchor # None => conv.state = "Ready" /\ window.anchor.key = conv.selection
NoBodyAwaited ==
    \A k \in DOMAIN conv.cards : conv.cards[k].body = "pending" => Status(k) # "ready"
ConversationSettles == Quiet => AnchorIsShown /\ NoBodyAwaited

(* Deleting moves a message to the Trash of its own account, however fast  *)
(* the user goes from an account to another (WindowMsg::FoldersLoaded).    *)
TrashOfItsAccount ==
    (request # None /\ request.by = "delete" /\ request.do = "Move")
        => AccountOf[request.from] = AccountOf[request.to]
=============================================================================
