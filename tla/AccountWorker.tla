---------------------------- MODULE AccountWorker ----------------------------
(***************************************************************************)
(* The account worker (mail-core/src/worker.rs) and what becomes of the    *)
(* user's actions on messages: the service resolves them (app/src/sync.rs, *)
(* resolve_action), the worker applies them to the server or keeps them in *)
(* the table of pending operations, and a Sync command replays those       *)
(* (mail-core/src/sync/ops.rs), while the connection comes and goes.       *)
(*                                                                         *)
(* Abstractions.  An action changes one message of one folder, the one     *)
(* that is watched; it is known by its number, which is also its row in    *)
(* the table.  A synchronisation is one call (FolderSync has its steps),   *)
(* and so is everything the other commands do.  The worker's thread        *)
(* empties its channel in one step.                                        *)
(***************************************************************************)
EXTENDS Integers, Sequences, FiniteSets

CONSTANTS
    Messages,
    Nothing,        \* "no command"
    HasIdle,        \* the server has IDLE
    HasMove,        \* the server has MOVE
    Faults,         \* the kinds of failure that may happen ...
    MaxFaults,      \* ... and how many of them (bounds the state space)
    MaxActions,     \* how often the user acts (bounds it too)
    Requests,       \* the kinds of other commands ...
    MaxRequests     \* ... and how many of them (bounds it too)

FaultKinds == {"offline",    \* the network goes away; it may come back
               "refused",    \* the server answers NO, or the login fails
               "ambiguous",  \* the server does it, the answer is lost
               "partial",    \* without MOVE: only the COPY is done
               "store",      \* a statement on the store fails
               "reorder",    \* a younger action is resolved first
               "crash"}      \* the process dies, and is started again

RequestKinds == {"Sync", "SyncFolder", "Watch", "FetchBody", "Copy", "SaveSent",
                 "AppendDraft", "DeleteDraft", "Shutdown"}

ASSUME AccountWorkerAssumption ==
    /\ HasIdle \in BOOLEAN /\ HasMove \in BOOLEAN
    /\ Faults \subseteq FaultKinds /\ Requests \subseteq RequestKinds
    /\ MaxFaults \in Nat /\ MaxActions \in Nat /\ MaxRequests \in Nat
    /\ Nothing \notin [kind : RequestKinds \cup {"Action"}, id : 0 .. MaxActions]

VARIABLES
    server,     \* the messages, as the server has them
    online,     \* is there a network?
    session,    \* does the backend have a working session?
    known,      \* does the store know the account's folders?
    resolving,  \* actions whose folder the service is looking up
    channel,    \* the worker's channel
    queue,      \* the worker's own queue
    worker,     \* the rest of the worker
    pending,    \* the table of pending operations, in the order of their ids
    faults, requests,
    intents,    \* history: what the user did
    applied,    \* history: how often the server did each action
    reported,   \* history: actions that ended in a Failed event, or a log line
    lost,       \* history: actions that were in memory when the thread ended
    overtaken   \* history: messages of which a younger action came first

netVars == <<online, session>>
userVars == <<resolving, intents, requests>>
fateVars == <<reported, lost, overtaken>>
vars == <<server, netVars, known, userVars, channel, queue, worker, pending,
          faults, applied, fateVars>>

Ids == 1 .. MaxActions
ActionKinds == {"flag", "unflag", "move", "delete"}

Commands == [kind : RequestKinds \cup {"Action"}, id : 0 .. MaxActions]
Request(kind) == [kind |-> kind, id |-> 0]
Actions(commands) == {commands[i].id : i \in DOMAIN commands} \ {0}

(* The worker: where it is, the command in hand, its fields connected,     *)
(* watch and resync_pending, the operations of a replay still to apply,    *)
(* and whether a command has interrupted the IDLE.                         *)
Workers == [pc : {"off", "next", "connect", "run", "keep", "replay", "forget",
                  "sync", "idle", "wait"},
            cur : Commands \cup {Nothing}, connected : BOOLEAN, watch : BOOLEAN,
            resync : BOOLEAN, batch : Seq(Ids), interrupted : BOOLEAN]
Fresh == [pc |-> "next", cur |-> Nothing, connected |-> FALSE, watch |-> FALSE,
          resync |-> FALSE, batch |-> <<>>, interrupted |-> FALSE]

InHand == IF worker.cur = Nothing THEN {} ELSE {worker.cur.id} \ {0}
InMemory == Actions(channel) \cup Actions(queue) \cup InHand
Table == {pending[i] : i \in DOMAIN pending}
On(m, ids) == {a \in ids : intents[a].msg = m}

Init ==
    /\ server = [m \in Messages |-> [flag |-> FALSE, here |-> TRUE, copies |-> 0]]
    /\ online = TRUE /\ session = FALSE /\ known = FALSE
    /\ resolving = {} /\ channel = <<>> /\ queue = <<Request("Sync")>>
    /\ worker = Fresh
    /\ pending = <<>>
    /\ faults = 0 /\ requests = 0
    /\ intents = <<>> /\ applied = [a \in Ids |-> 0]
    /\ reported = {} /\ lost = {} /\ overtaken = {}

-----------------------------------------------------------------------------
(* Failures, and the calls of the backend.                                 *)

Fault(kind) ==
    /\ kind \in Faults /\ faults < MaxFaults
    /\ faults' = faults + 1

(* What the server does when it is asked: an operation on a UID that the   *)
(* folder no longer has does nothing.                                      *)
Done(a) ==
    LET m == intents[a].msg
        kind == intents[a].kind
    IN  IF ~server[m].here THEN server
        ELSE CASE kind = "flag"   -> [server EXCEPT ![m].flag = TRUE]
               [] kind = "unflag" -> [server EXCEPT ![m].flag = FALSE]
               [] kind = "move"   -> [server EXCEPT ![m].here = FALSE, ![m].copies = @ + 1]
               [] kind = "delete" -> [server EXCEPT ![m].here = FALSE]

Copied(a) == [server EXCEPT ![intents[a].msg].copies = @ + 1]

(* set_flags, move_messages or delete_permanently succeeds.                *)
Applies(a) ==
    /\ session
    /\ server' = Done(a)
    /\ applied' = [applied EXCEPT ![a] = @ + 1]
    /\ UNCHANGED <<session, faults>>

(* Any call fails: the session is dead, or the server refuses ...          *)
Refuses == (~session /\ UNCHANGED faults) \/ (session /\ Fault("refused"))

(* ... and an action may have been done nevertheless, or only half.        *)
FailsToApply(a) ==
    \/ Refuses /\ UNCHANGED <<server, session, applied>>
    \/ /\ session /\ Fault("ambiguous")
       /\ server' = Done(a)
       /\ session' = FALSE
       /\ applied' = [applied EXCEPT ![a] = @ + 1]
    \/ /\ session /\ Fault("partial") /\ ~HasMove
       /\ intents[a].kind = "move" /\ server[intents[a].msg].here
       /\ server' = Copied(a)
       /\ session' = FALSE
       /\ UNCHANGED applied

GoOffline ==
    /\ online /\ Fault("offline")
    /\ online' = FALSE /\ session' = FALSE
    /\ UNCHANGED <<server, known, userVars, channel, queue, worker, pending,
                   applied, fateVars>>

GoOnline ==
    /\ ~online /\ online' = TRUE
    /\ UNCHANGED <<server, session, known, userVars, channel, queue, worker, pending,
                   faults, applied, fateVars>>

-----------------------------------------------------------------------------
(* The user and the service.                                               *)

(* The window changes the store's copy at once and hands the action to the *)
(* service.  A message moved or deleted is no longer in the list.          *)
Act(m, kind) ==
    /\ known /\ Len(intents) < MaxActions
    /\ \A a \in DOMAIN intents :
          intents[a].msg = m => intents[a].kind \notin {"move", "delete"}
    /\ intents' = Append(intents, [msg |-> m, kind |-> kind])
    /\ resolving' = resolving \cup {Len(intents) + 1}
    /\ UNCHANGED <<server, netVars, known, requests, channel, queue, worker,
                   pending, faults, applied, fateVars>>

(* resolve_action finds the folder, and the command is sent, to a worker   *)
(* that may have ended.  Nothing orders two tasks that resolve actions.    *)
Post(command) == channel' = IF worker.pc = "off" THEN channel ELSE Append(channel, command)

Resolve(a) ==
    LET older == {b \in resolving : b < a}
    IN  /\ IF older = {} THEN UNCHANGED faults ELSE Fault("reorder")
        /\ resolving' = resolving \ {a}
        /\ Post([kind |-> "Action", id |-> a])
        /\ lost' = IF worker.pc = "off" THEN lost \cup {a} ELSE lost
        /\ overtaken' = overtaken \cup {m \in {intents[a].msg} : On(m, older) # {}}
        /\ UNCHANGED <<server, netVars, known, intents, requests, queue, worker,
                       pending, applied, reported>>

ResolveFails(a) ==
    /\ Fault("store")
    /\ resolving' = resolving \ {a}
    /\ reported' = reported \cup {a}
    /\ UNCHANGED <<server, netVars, known, intents, requests, channel, queue, worker,
                   pending, applied, lost, overtaken>>

(* Any other command, of the user or of the service; most of them name a   *)
(* folder, which the user picked among those that the store knows.         *)
Ask(kind) ==
    /\ kind \in Requests /\ requests < MaxRequests
    /\ worker.pc # "off"
    /\ known \/ kind \in {"Sync", "SaveSent", "Shutdown"}
    /\ requests' = requests + 1
    /\ Post(Request(kind))
    /\ UNCHANGED <<server, netVars, known, resolving, intents, queue, worker, pending,
                   faults, applied, fateVars>>

-----------------------------------------------------------------------------
(* The worker: one command.                                                *)

At(pc) == worker.pc = pc
Becomes(pc, connected) ==
    worker' = [worker EXCEPT !.pc = pc, !.connected = connected,
                             !.cur = IF pc = "next" THEN Nothing ELSE @]
Enqueue(kind) == queue' = Append(queue, Request(kind))

TakeCommand ==
    /\ At("next") /\ queue # <<>>
    /\ queue' = Tail(queue)
    /\ worker' = [worker EXCEPT !.pc = "connect", !.cur = Head(queue),
                     !.resync = IF Head(queue).kind = "SyncFolder" THEN FALSE ELSE @]
    /\ UNCHANGED <<server, netVars, known, userVars, channel, pending, faults,
                   applied, fateVars>>

(* Shutdown: the thread ends.                                              *)
ShutDown ==
    /\ At("connect") /\ worker.cur.kind = "Shutdown"
    /\ lost' = lost \cup Actions(channel) \cup Actions(queue)
    /\ worker' = [Fresh EXCEPT !.pc = "off"]
    /\ channel' = <<>> /\ queue' = <<>>
    /\ session' = FALSE
    /\ UNCHANGED <<server, online, known, userVars, pending, faults, applied,
                   reported, overtaken>>

(* ensure_connected.                                                       *)
Connects ==
    /\ At("connect") /\ worker.cur.kind # "Shutdown"
    /\ IF worker.connected THEN UNCHANGED session ELSE online /\ session' = TRUE
    /\ Becomes("run", TRUE)
    /\ UNCHANGED <<server, online, known, userVars, channel, queue, pending, faults,
                   applied, fateVars>>

CannotConnectKeeps ==
    /\ At("connect") /\ worker.cur.kind # "Shutdown" /\ ~worker.connected
    /\ (~online /\ UNCHANGED faults) \/ (online /\ Fault("refused"))
    /\ Becomes("keep", FALSE)
    /\ UNCHANGED <<server, netVars, known, userVars, channel, queue, pending, applied,
                   fateVars>>

(* Only an action is kept for later.                                       *)
CannotConnect ==
    /\ At("connect") /\ worker.cur.kind # "Shutdown" /\ ~worker.connected
    /\ (~online /\ UNCHANGED faults) \/ (online /\ Fault("refused"))
    /\ Becomes(IF worker.cur.kind = "Action" THEN "keep" ELSE "next", FALSE)
    /\ UNCHANGED <<server, netVars, known, userVars, channel, queue, pending, applied,
                   fateVars>>

(* The message of an action that is done while older ones wait.            *)
PastTable(a) == {m \in {intents[a].msg} : On(m, Table) # {}}

(* set_flags, move_messages, delete: on the server, after which the folder *)
(* is synchronised (and a move's target, which is not in the model) ...    *)
RunAction ==
    LET a == worker.cur.id IN
    /\ At("run") /\ worker.cur.kind = "Action"
    /\ Applies(a)
    /\ Enqueue("SyncFolder")
    /\ Becomes("next", worker.connected)
    /\ overtaken' = overtaken \cup PastTable(a)
    /\ UNCHANGED <<online, known, userVars, channel, pending, reported, lost>>

(* ... or, after any error, into the table; the worker goes on believing   *)
(* that it is connected.                                                   *)
ActionFails ==
    /\ At("run") /\ worker.cur.kind = "Action"
    /\ FailsToApply(worker.cur.id)
    /\ Becomes("keep", worker.connected)
    /\ overtaken' = IF applied' = applied THEN overtaken
                    ELSE overtaken \cup PastTable(worker.cur.id)
    /\ UNCHANGED <<online, known, userVars, channel, queue, pending, reported, lost>>

(* queue_flag_ops, queue_moves, queue_deletes.                             *)
KeepAction ==
    LET a == worker.cur.id IN
    /\ At("keep")
    /\ \/ pending' = Append(pending, a) /\ UNCHANGED <<faults, reported>>
       \/ Fault("store") /\ reported' = reported \cup {a} /\ UNCHANGED pending
    /\ Becomes("next", worker.connected)
    /\ UNCHANGED <<server, netVars, known, userVars, channel, queue, applied, lost,
                   overtaken>>

(* The other commands: which of them synchronise a folder afterwards, and  *)
(* after an error of which the connection is given up.  SaveSent           *)
(* synchronises only when it saved something.                              *)
Plain == {"SyncFolder", "Watch", "FetchBody", "Copy", "SaveSent", "AppendDraft",
          "DeleteDraft"}
Followed == {"Copy", "AppendDraft", "DeleteDraft", "SaveSent"}
Disconnecting == {"SyncFolder", "Watch", "FetchBody", "AppendDraft", "DeleteDraft"}

(* An error of the store may keep the connection, too, where the folder is *)
(* looked up first: what the field connected may be after one.             *)
StoreOutcomes(kind) ==
    CASE kind \in {"SyncFolder", "FetchBody"} -> {TRUE, FALSE}
      [] kind = "Watch"                      -> {FALSE}
      [] kind = "SaveSent"                   -> {TRUE}
      [] OTHER                               -> {}

(* A watched folder is one to IDLE on, if the server can.                  *)
Watching == [worker EXCEPT !.watch = IF worker.cur.kind = "Watch" THEN HasIdle ELSE @]

RunPlain ==
    LET kind == worker.cur.kind IN
    /\ At("run") /\ kind \in Plain
    /\ session
    /\ \/ kind \in Followed /\ Enqueue("SyncFolder")
       \/ kind \notin Followed \ {"SaveSent"} /\ UNCHANGED queue
    /\ known' = (known \/ kind = "Watch")
    /\ worker' = [Watching EXCEPT !.pc = "next", !.cur = Nothing]
    /\ UNCHANGED <<server, netVars, userVars, channel, pending, faults, applied,
                   fateVars>>

PlainFails ==
    LET kind == worker.cur.kind IN
    /\ At("run") /\ kind \in Plain
    /\ \E connected \in BOOLEAN :
          /\ \/ Refuses /\ connected = (kind \notin Disconnecting)
             \/ Fault("store") /\ connected \in StoreOutcomes(kind)
          /\ worker' = [Watching EXCEPT !.pc = "next", !.cur = Nothing, !.connected = connected]
    /\ UNCHANGED <<server, netVars, known, userVars, channel, queue, pending, applied,
                   fateVars>>

-----------------------------------------------------------------------------
(* The worker: Sync.                                                       *)

(* replay_pending reads the table ...                                      *)
ReplayBegins ==
    /\ At("run") /\ worker.cur.kind = "Sync"
    /\ \/ /\ worker' = [worker EXCEPT !.pc = "replay", !.batch = pending]
          /\ UNCHANGED faults
       \/ Fault("store") /\ Becomes("sync", FALSE)
    /\ UNCHANGED <<server, netVars, known, userVars, channel, queue, pending, applied,
                   fateVars>>

(* ... applies the oldest operation ...                                    *)
Youngest(ops) == ops[Len(ops)]
Oldest(ops) == Head(ops)

ReplayOne ==
    /\ At("replay") /\ worker.batch # <<>>
    /\ Applies(Oldest(worker.batch))
    /\ Becomes("forget", worker.connected)
    /\ UNCHANGED <<online, known, userVars, channel, queue, pending, fateVars>>

(* ... and deletes its row; any error ends the replay, not the Sync.       *)
Without(ops, a) ==
    LET Before(i) == \A j \in 1 .. i : ops[j] # a
    IN  IF Before(Len(ops)) THEN ops
        ELSE [i \in 1 .. Len(ops) - 1 |-> IF Before(i) THEN ops[i] ELSE ops[i + 1]]

ForgetOne ==
    LET a == Oldest(worker.batch) IN
    /\ At("forget")
    /\ \/ /\ pending' = Without(pending, a)
          /\ worker' = [worker EXCEPT !.pc = "replay", !.batch = Tail(@)]
          /\ UNCHANGED faults
       \/ /\ Fault("store")
          /\ worker' = [worker EXCEPT !.pc = "sync", !.connected = FALSE, !.batch = <<>>]
          /\ UNCHANGED pending
    /\ UNCHANGED <<server, netVars, known, userVars, channel, queue, applied, fateVars>>

ReplayFailsForgetting ==
    /\ At("replay") /\ worker.batch # <<>>
    /\ FailsToApply(Oldest(worker.batch))
    /\ worker' = [worker EXCEPT !.pc = "sync", !.connected = FALSE, !.batch = <<>>]
    /\ pending' = Without(pending, Oldest(worker.batch))
    /\ UNCHANGED <<online, known, userVars, channel, queue, fateVars>>

ReplayFails ==
    /\ At("replay") /\ worker.batch # <<>>
    /\ FailsToApply(Oldest(worker.batch))
    /\ worker' = [worker EXCEPT !.pc = "sync", !.connected = FALSE, !.batch = <<>>]
    /\ UNCHANGED <<online, known, userVars, channel, queue, pending, fateVars>>

ReplayEnds ==
    /\ At("replay") /\ worker.batch = <<>>
    /\ Becomes("sync", worker.connected)
    /\ UNCHANGED <<server, netVars, known, userVars, channel, queue, pending, faults,
                   applied, fateVars>>

(* save_sent, which asks for the Sent folder when it saved something, and  *)
(* sync_account; then adopt_default_watch looks for the inbox among the    *)
(* folders that the store knows.                                           *)
SyncAccount ==
    /\ At("sync")
    /\ IF session THEN queue' \in {queue, Append(queue, Request("SyncFolder"))}
       ELSE UNCHANGED queue
    /\ \/ /\ session /\ UNCHANGED faults
          /\ known' = TRUE
          /\ worker' = [worker EXCEPT !.pc = "next", !.cur = Nothing,
                                      !.watch = @ \/ HasIdle]
       \/ /\ Refuses
          /\ worker' = [worker EXCEPT !.pc = "next", !.cur = Nothing, !.connected = FALSE,
                                      !.watch = @ \/ (HasIdle /\ known)]
          /\ UNCHANGED known
    /\ UNCHANGED <<server, netVars, userVars, channel, pending, applied, fateVars>>

-----------------------------------------------------------------------------
(* The worker: its loop.                                                   *)

ReadChannel ==
    /\ At("next") /\ queue = <<>> /\ channel # <<>>
    /\ queue' = channel /\ channel' = <<>>
    /\ UNCHANGED <<server, netVars, known, userVars, worker, pending, faults, applied,
                   fateVars>>

Rest ==
    /\ At("next") /\ queue = <<>> /\ channel = <<>>
    /\ worker' = [worker EXCEPT !.pc = IF worker.watch THEN "idle" ELSE "wait",
                                !.interrupted = FALSE]
    /\ UNCHANGED <<server, netVars, known, userVars, channel, queue, pending, faults,
                   applied, fateVars>>

Receive ==
    /\ At("wait") /\ channel # <<>>
    /\ queue' = Append(queue, Head(channel)) /\ channel' = Tail(channel)
    /\ Becomes("next", worker.connected)
    /\ UNCHANGED <<server, netVars, known, userVars, pending, faults, applied, fateVars>>

(* A command that comes while the worker is in IDLE interrupts it.         *)
IdleReceivesQuietly ==
    /\ At("idle") /\ channel # <<>>
    /\ queue' = Append(queue, Head(channel)) /\ channel' = Tail(channel)
    /\ UNCHANGED <<server, netVars, known, userVars, worker, pending, faults, applied,
                   fateVars>>

IdleReceives ==
    /\ At("idle") /\ channel # <<>>
    /\ queue' = Append(queue, Head(channel)) /\ channel' = Tail(channel)
    /\ worker' = [worker EXCEPT !.interrupted = TRUE]
    /\ UNCHANGED <<server, netVars, known, userVars, pending, faults, applied, fateVars>>

IdleInterrupted ==
    /\ At("idle") /\ worker.interrupted /\ session
    /\ Becomes("next", worker.connected)
    /\ UNCHANGED <<server, netVars, known, userVars, channel, queue, pending, faults,
                   applied, fateVars>>

(* The server reports a change, or the IDLE has lasted long enough.        *)
IdleChanged ==
    /\ At("idle") /\ session
    /\ worker' = [worker EXCEPT !.pc = "next", !.resync = TRUE]
    /\ IF worker.resync THEN UNCHANGED queue ELSE Enqueue("SyncFolder")
    /\ UNCHANGED <<server, netVars, known, userVars, channel, pending, faults, applied,
                   fateVars>>

IdleFails ==
    /\ At("idle") /\ Refuses
    /\ worker' = [worker EXCEPT !.pc = "next", !.watch = FALSE, !.connected = FALSE]
    /\ session' = FALSE
    /\ UNCHANGED <<server, online, known, userVars, channel, queue, pending, applied,
                   fateVars>>

(* The process dies and starts again.                                      *)
Crash ==
    /\ Fault("crash")
    /\ lost' = lost \cup ((InMemory \cup resolving) \ Table)
    /\ resolving' = {} /\ channel' = <<>> /\ queue' = <<Request("Sync")>>
    /\ worker' = Fresh
    /\ session' = FALSE
    /\ UNCHANGED <<server, online, known, intents, requests, pending, applied,
                   reported, overtaken>>

HandleCommand ==
    \/ TakeCommand \/ ShutDown \/ Connects \/ CannotConnect
    \/ RunAction \/ ActionFails \/ KeepAction \/ RunPlain \/ PlainFails
    \/ ReplayBegins \/ ReplayOne \/ ForgetOne \/ ReplayFails \/ ReplayEnds
    \/ SyncAccount

WorkerStep ==
    \/ HandleCommand
    \/ ReadChannel \/ Rest \/ Receive \/ IdleReceives \/ IdleInterrupted
    \/ IdleFails

Next ==
    \/ WorkerStep \/ IdleChanged
    \/ GoOffline \/ GoOnline \/ Crash
    \/ \E m \in Messages, kind \in ActionKinds : Act(m, kind)
    \/ \E a \in resolving : Resolve(a) \/ ResolveFails(a)
    \/ \E kind \in RequestKinds : Ask(kind)

Spec == Init /\ [][Next]_vars

(* The worker's thread runs, and every call of the backend returns, with   *)
(* an error if the session is dead; an IDLE ends when it is interrupted.   *)
(* Neither the server's news, nor the network, nor the user is counted on. *)
FairSpec == Spec /\ WF_vars(WorkerStep)

-----------------------------------------------------------------------------
(* Properties.                                                             *)

(* Every variable has its type.                                            *)
TypeOK ==
    /\ server \in [Messages -> [flag : BOOLEAN, here : BOOLEAN, copies : Nat]]
    /\ online \in BOOLEAN /\ session \in BOOLEAN /\ known \in BOOLEAN
    /\ resolving \subseteq Ids
    /\ channel \in Seq(Commands) /\ queue \in Seq(Commands)
    /\ worker \in Workers
    /\ pending \in Seq(Ids)
    /\ faults \in Nat /\ requests \in Nat
    /\ intents \in Seq([msg : Messages, kind : ActionKinds])
    /\ applied \in [Ids -> Nat]
    /\ reported \subseteq Ids /\ lost \subseteq Ids /\ overtaken \subseteq Messages

(* Nothing the user does just disappears: an action is on its way, or the  *)
(* server did it, or it is in the table of pending operations, through     *)
(* lost connections, errors and crashes - unless the store failed to take  *)
(* it, or it was in memory when the thread ended (worker.rs, ops.rs).      *)
NoActionLost ==
    \A a \in DOMAIN intents :
        a \in resolving \cup InMemory \cup Table \cup reported \cup lost
            \/ applied[a] > 0

(* When everything is done, a message is as the user wanted it last: it    *)
(* has the flag or not, it is in its folder or not - unless an action on   *)
(* it went wrong before (see NoActionLost), or a younger one came first:   *)
(* in the service, or past the table of pending operations.                *)
Settled == resolving \cup InMemory \cup Table = {} /\ worker.pc \in {"idle", "wait"}
Wanted(m, kinds) == {a \in On(m, DOMAIN intents) : intents[a].kind \in kinds}
LastIntentHolds ==
    Settled =>
        \A m \in Messages \ overtaken :
            On(m, reported \cup lost) = {} =>
                /\ \A a \in Wanted(m, {"flag", "unflag"}) :
                      (\A b \in Wanted(m, {"flag", "unflag"}) : b <= a)
                          => server[m].flag = (intents[a].kind = "flag")
                /\ Wanted(m, {"move", "delete"}) # {} => ~server[m].here

(* A command is soon read by the worker, which never sleeps on it, not     *)
(* even in an IDLE on a silent server or a dead connection (worker.rs,     *)
(* run).                                                                   *)
CommandsAreRead == (channel # <<>> \/ queue # <<>>) ~> (channel = <<>> /\ queue = <<>>)

=============================================================================
