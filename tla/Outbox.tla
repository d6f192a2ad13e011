------------------------------- MODULE Outbox -------------------------------
(***************************************************************************)
(* The outgoing mail of one account: the send worker's retry loop          *)
(* (mail-core/src/send_worker.rs), the outbox policy it runs               *)
(* (mail-core/src/outbox.rs), the outbox table of the store, the directory *)
(* of queued MIME files, and the copying of delivered mail into the Sent   *)
(* folder by the account worker (mail-core/src/sync/save.rs).              *)
(*                                                                         *)
(* The application can replace the pair of workers of an account           *)
(* (app/src/sync.rs, reconcile), and the old pair keeps running until it   *)
(* reads its Shutdown command: a "worker" w below is one such pair, and    *)
(* several of them may be at work on the same rows and files.              *)
(*                                                                         *)
(* Abstractions.  A message stands for its MIME text, for the file that    *)
(* enqueue gives it (raw_name is unique) and for its outbox row.  A        *)
(* send_after is kept as the time left until it (0: due, or no send_after) *)
(* and so is the sleep of the worker.  A pass takes the entries of its     *)
(* snapshot in any order.                                                  *)
(***************************************************************************)
EXTENDS Integers, Sequences, FiniteSets

CONSTANTS
    Messages,       \* what the user may send
    NoRecipients,   \* messages in which envelope() finds no usable recipient
    Workers,        \* generations of the account's workers
    None,           \* "no worker", "no entry"
    MaxAttempts,    \* MAX_ATTEMPTS
    BaseBackoff,    \* BASE_BACKOFF_SECS
    MaxBackoff,     \* MAX_BACKOFF_SECS
    Faults,         \* the kinds of failure that may happen ...
    MaxFaults,      \* ... and how many of them (bounds the state space)
    MaxInbox,       \* commands waiting for a worker (bounds the state space)
    MaxDeliveries   \* times a server takes a message (bounds the state space)

FaultKinds == {"crash",      \* the process dies, and is started again
               "store",      \* a statement on the store fails
               "file",       \* a file cannot be read or written
               "ambiguous",  \* the server accepts, the client sees an error
               "retire",     \* reconcile drops the account's workers
               "prune"}      \* discover deletes the account from the store

ASSUME OutboxAssumption ==
    /\ NoRecipients \subseteq Messages
    /\ None \notin Messages /\ None \notin Workers
    /\ None \notin [msg : Messages, attempts : 0 .. MaxAttempts]
    /\ MaxAttempts \in Nat \ {0}
    /\ BaseBackoff \in Nat \ {0}
    /\ MaxBackoff \in Nat \ {0}
    /\ Faults \subseteq FaultKinds
    /\ MaxFaults \in Nat /\ MaxInbox \in Nat /\ MaxDeliveries \in Nat

VARIABLES
    files,      \* the messages whose MIME file is on disk
    outbox,     \* the outbox table: the row of each message, NoRow without one
    account,    \* does the account's own row exist?
    storeOpen,  \* is the store's thread alive?
    current,    \* the pair of workers the service has a handle to
    inbox,      \* the command channel of each send worker
    worker,     \* the send workers
    saver,      \* the account workers, as far as save_sent goes
    faults,     \* how many failures happened
    handed,     \* history: messages put into a worker's channel
    recorded,   \* history: messages that enqueue recorded
    pruned,     \* history: messages whose row went with the account
    delivered,  \* history: how often the SMTP server accepted each message
    resend,     \* history: messages with a reason to be submitted twice
    copies,     \* how many copies of each message the Sent folder holds
    recopy      \* history: messages with a reason to be appended twice

hostVars == <<account, storeOpen, current>>
smtpVars == <<delivered, resend>>
imapVars == <<copies, recopy>>
logVars == <<handed, recorded, pruned>>
vars == <<files, outbox, hostVars, inbox, worker, saver, faults, logVars,
          smtpVars, imapVars>>

(* OutboxRecord: its state, attempts, and send_after as the time left.     *)
Rows == [state : {"none", "queued", "sending", "sent", "failed"},
         attempts : 0 .. MaxAttempts, wait : 0 .. MaxBackoff]
NoRow == [state |-> "none", attempts |-> 0, wait |-> 0]

(* An entry as a pass read it.                                             *)
Entries == [msg : Messages, attempts : 0 .. MaxAttempts]
Commands == [kind : {"Send"}, raw : Messages] \cup [kind : {"Drain", "Shutdown"}]
NoTimer == -1

(* A send worker: where its thread is, the DrainMode of its next or        *)
(* current pass, the entries of the pass still to submit, the entry being  *)
(* submitted or enqueued, the time left to sleep (NoTimer: until the next  *)
(* command), the time since the pass read the clock.                       *)
InPass == {"pass", "sending", "accepted", "rejected"}
WorkerStates ==
    [pc : {"off", "drain", "timer", "select", "enqueue"} \cup InPass,
     mode : {"Force", "Due"}, batch : SUBSET Entries, cur : Entries \cup {None},
     timer : -1 .. MaxBackoff, lag : 0 .. MaxBackoff]
Off == [pc |-> "off", mode |-> "Force", batch |-> {}, cur |-> None,
        timer |-> NoTimer, lag |-> 0]

(* save_sent: the Sent entries still to append, the one being cleared.     *)
SaverStates == [pc : {"off", "idle", "saving", "clear", "unlink"},
                batch : SUBSET Messages, cur : Messages \cup {None}]
SaverOff == [pc |-> "off", batch |-> {}, cur |-> None]

(* The delay after that many failed attempts: doubled each time, capped.   *)
Clamp(n, low, high) == IF n < low THEN low ELSE IF n > high THEN high ELSE n
Backoff(n) ==
    LET delay == BaseBackoff * 2 ^ (Clamp(n, 1, 20) - 1)
    IN  IF delay < MaxBackoff THEN delay ELSE MaxBackoff

Less(a, b) == IF a > b THEN a - b ELSE 0

(* Entries still to submit, and entries to copy into the Sent folder.      *)
IsPendingQueuedOnly(m) == outbox[m].state = "queued"
IsPending(m) == outbox[m].state \in {"queued", "sending"}
ToSaveAll == {m \in Messages : outbox[m] # NoRow}
ToSave == {m \in Messages : outbox[m].state = "sent"}

(* The loops of drain and save_sent: what is left after x.                 *)
ServedNever(batch, x) == batch
Served(batch, x) == batch \ {x}

(* The messages that w is going to submit, or is submitting.               *)
Holds(w, m) ==
    \/ \E e \in worker[w].batch : e.msg = m
    \/ worker[w].pc \in InPass /\ worker[w].cur # None /\ worker[w].cur.msg = m

(* The messages that w is going to append, or to clear.                    *)
Appending(w, m) == m \in saver[w].batch \/ saver[w].cur = m

Init ==
    /\ files = {}
    /\ outbox = [m \in Messages |-> NoRow]
    /\ account = TRUE /\ storeOpen = TRUE /\ current = None
    /\ inbox = [w \in Workers |-> <<>>]
    /\ worker = [w \in Workers |-> Off]
    /\ saver = [w \in Workers |-> SaverOff]
    /\ faults = 0
    /\ handed = {} /\ recorded = {} /\ pruned = {} /\ resend = {} /\ recopy = {}
    /\ delivered = [m \in Messages |-> 0] /\ copies = [m \in Messages |-> 0]

-----------------------------------------------------------------------------
(* Failures, and the statements on the outbox table.                       *)

Fault(kind) ==
    /\ kind \in Faults /\ faults < MaxFaults
    /\ faults' = faults + 1

StoreWorks == storeOpen /\ UNCHANGED faults
StoreFails == (~storeOpen /\ UNCHANGED faults) \/ (storeOpen /\ Fault("store"))

(* update_outbox: an UPDATE of a row that is gone changes nothing.         *)
UpdateOutbox(m, state, attempts, wait) ==
    outbox' = IF outbox[m] = NoRow THEN outbox
              ELSE [outbox EXCEPT ![m] = [state |-> state, attempts |-> attempts,
                                          wait |-> wait]]

-----------------------------------------------------------------------------
(* The service that owns the workers.                                      *)

(* reconcile starts the workers of an account that has none.               *)
Spawn(w) ==
    /\ account /\ current = None /\ worker[w].pc = "off" /\ saver[w].pc = "off"
    /\ current' = w
    /\ worker' = [worker EXCEPT ![w] = [Off EXCEPT !.pc = "drain"]]
    /\ saver' = [saver EXCEPT ![w].pc = "idle"]
    /\ UNCHANGED <<files, outbox, account, storeOpen, inbox, faults, logVars,
                   smtpVars, imapVars>>

(* A command for the worker the service has a handle to.                   *)
Post(command) ==
    /\ current # None
    /\ inbox' = [inbox EXCEPT ![current] = Append(@, command)]

(* reconcile drops the handles: the account or its credential is gone.     *)
Retire ==
    /\ Fault("retire")
    /\ Post([kind |-> "Shutdown"])
    /\ current' = None
    /\ UNCHANGED <<files, outbox, account, storeOpen, worker, saver, logVars,
                   smtpVars, imapVars>>

(* The window hands a message over.  Without a send worker the service     *)
(* logs a warning, and nothing changes.                                    *)
Send(m) ==
    /\ m \notin handed
    /\ Post([kind |-> "Send", raw |-> m]) /\ Len(inbox[current]) < MaxInbox
    /\ handed' = handed \cup {m}
    /\ UNCHANGED <<files, outbox, hostVars, worker, saver, faults, recorded,
                   pruned, smtpVars, imapVars>>

(* The account worker connected, or the user asked to send and receive.    *)
RequestDrain ==
    /\ Post([kind |-> "Drain"]) /\ Len(inbox[current]) < MaxInbox
    /\ UNCHANGED <<files, outbox, hostVars, worker, saver, faults, logVars,
                   smtpVars, imapVars>>

(* prune_accounts deletes the rows of an account that is no longer listed; *)
(* the files stay.                                                         *)
Prune ==
    /\ account /\ storeOpen
    /\ Fault("prune")
    /\ account' = FALSE
    /\ pruned' = pruned \cup {m \in Messages : outbox[m] # NoRow}
    /\ outbox' = [m \in Messages |-> NoRow]
    /\ UNCHANGED <<files, storeOpen, current, inbox, worker, saver, handed,
                   recorded, smtpVars, imapVars>>

-----------------------------------------------------------------------------
(* The send worker: a drain pass.                                          *)

(* After a pass the worker drains only what is due.                        *)
EndPass(w) == worker' = [worker EXCEPT ![w] = [Off EXCEPT !.pc = "timer", !.mode = "Due"]]

SelectedIgnoresBackoff(w) == {m \in Messages : IsPending(m)}
SelectedAnyState(w) == {m \in Messages : outbox[m] # NoRow}
Selected(w) ==
    {m \in Messages : IsPending(m) /\ (worker[w].mode = "Due" => outbox[m].wait = 0)}

(* drain reads the entries to submit.  A message that another worker holds *)
(* too may now be submitted by both.                                       *)
DrainSelect(w) ==
    /\ worker[w].pc = "drain"
    /\ StoreWorks
    /\ worker' = [worker EXCEPT ![w].pc = "pass", ![w].lag = 0,
           ![w].batch = {[msg |-> m, attempts |-> outbox[m].attempts] : m \in Selected(w)}]
    /\ resend' = resend \cup
           {m \in Selected(w) : \E v \in Workers \ {w} : Holds(v, m)}
    /\ UNCHANGED <<files, outbox, hostVars, inbox, saver, logVars, delivered,
                   imapVars>>

(* submit reads the file of the next entry, and gives the entry up when it *)
(* cannot, or when the message has nobody to go to ...                     *)
SubmitUnusable(w, e) ==
    /\ worker[w].pc = "pass" /\ e \in worker[w].batch
    /\ \/ StoreWorks /\ (e.msg \notin files \/ e.msg \in NoRecipients)
       \/ storeOpen /\ Fault("file")
    /\ UpdateOutbox(e.msg, "failed", e.attempts, 0)
    /\ worker' = [worker EXCEPT ![w].batch = Served(@, e)]
    /\ UNCHANGED <<files, hostVars, inbox, saver, logVars, smtpVars, imapVars>>

(* ... and otherwise marks it before the transport gets it.                *)
SubmitMark(w, e) ==
    /\ worker[w].pc = "pass" /\ e \in worker[w].batch
    /\ StoreWorks
    /\ e.msg \in files \ NoRecipients
    /\ UpdateOutbox(e.msg, "sending", e.attempts, 0)
    /\ worker' = [worker EXCEPT ![w].pc = "sending", ![w].cur = e,
                                ![w].batch = Served(@, e)]
    /\ UNCHANGED <<files, hostVars, inbox, saver, logVars, smtpVars, imapVars>>

(* The transport: the server accepts, refuses, or accepts without the      *)
(* client ever knowing.                                                    *)
TransportAccepts(w) ==
    /\ worker[w].pc = "sending"
    /\ delivered[worker[w].cur.msg] < MaxDeliveries
    /\ delivered' = [delivered EXCEPT ![worker[w].cur.msg] = @ + 1]
    /\ worker' = [worker EXCEPT ![w].pc = "accepted"]
    /\ UNCHANGED <<files, outbox, hostVars, inbox, saver, faults, logVars,
                   resend, imapVars>>

TransportFails(w) ==
    /\ worker[w].pc = "sending"
    /\ worker' = [worker EXCEPT ![w].pc = "rejected"]
    /\ \/ UNCHANGED <<faults, smtpVars>>
       \/ /\ Fault("ambiguous")
          /\ delivered' = [delivered EXCEPT ![worker[w].cur.msg] = @ + 1]
          /\ resend' = resend \cup {worker[w].cur.msg}
    /\ UNCHANGED <<files, outbox, hostVars, inbox, saver, logVars, imapVars>>

RecordSent(w) ==
    LET e == worker[w].cur IN
    /\ worker[w].pc = "accepted"
    /\ StoreWorks
    /\ UpdateOutbox(e.msg, "sent", e.attempts, 0)
    /\ worker' = [worker EXCEPT ![w].pc = "pass", ![w].cur = None]
    /\ UNCHANGED <<files, hostVars, inbox, saver, logVars, smtpVars, imapVars>>

ExhaustedLate(n) == n > MaxAttempts
ExhaustedEarly(n) == n + 1 >= MaxAttempts
Exhausted(n) == n >= MaxAttempts

(* reschedule: the deadline counts from the clock the pass started with.   *)
Reschedule(w) ==
    LET e == worker[w].cur
        n == e.attempts + 1
    IN  /\ worker[w].pc = "rejected"
        /\ StoreWorks
        /\ IF Exhausted(n)
           THEN UpdateOutbox(e.msg, "failed", n, 0)
           ELSE UpdateOutbox(e.msg, "queued", n, Less(Backoff(n), worker[w].lag))
        /\ worker' = [worker EXCEPT ![w].pc = "pass", ![w].cur = None]
        /\ UNCHANGED <<files, hostVars, inbox, saver, logVars, smtpVars, imapVars>>

(* An error of the store ends the pass: the rest of the snapshot is not    *)
(* served, and a message just accepted stays pending.                      *)
PassAborts(w) ==
    LET here == worker[w] IN
    /\ here.pc \in {"drain", "pass", "accepted", "rejected"}
    /\ here.pc = "pass" => here.batch # {}
    /\ StoreFails
    /\ EndPass(w)
    /\ resend' = IF here.pc = "accepted" THEN resend \cup {here.cur.msg} ELSE resend
    /\ UNCHANGED <<files, outbox, hostVars, inbox, saver, logVars, delivered,
                   imapVars>>

FinishPass(w) ==
    /\ worker[w].pc = "pass" /\ worker[w].batch = {}
    /\ EndPass(w)
    /\ UNCHANGED <<files, outbox, hostVars, inbox, saver, faults, logVars,
                   smtpVars, imapVars>>

-----------------------------------------------------------------------------
(* The send worker between two passes.                                     *)

(* next_retry: sleep until the earliest deadline, a second at least.       *)
Deadlines == {outbox[m].wait : m \in {n \in Messages : IsPending(n)}}
Latest(at) == \A other \in Deadlines : at >= other
Earliest(at) == \A other \in Deadlines : at <= other

(* With nothing pending, or an error, the worker waits for a command.      *)
NextRetry(w) ==
    /\ worker[w].pc = "timer"
    /\ \E sleep \in -1 .. MaxBackoff :
          /\ \/ /\ StoreWorks
                /\ IF Deadlines = {}
                   THEN sleep = NoTimer
                   ELSE \E at \in Deadlines :
                          Earliest(at) /\ sleep = IF at > 1 THEN at ELSE 1
             \/ StoreFails /\ sleep = NoTimer
          /\ worker' = [worker EXCEPT ![w].pc = "select", ![w].timer = sleep]
    /\ UNCHANGED <<files, outbox, hostVars, inbox, saver, logVars, smtpVars,
                   imapVars>>

TimerFires(w) ==
    /\ worker[w].pc = "select" /\ worker[w].timer = 0
    /\ worker' = [worker EXCEPT ![w].pc = "drain", ![w].timer = NoTimer]
    /\ UNCHANGED <<files, outbox, hostVars, inbox, saver, faults, logVars,
                   smtpVars, imapVars>>

(* The next command of the channel.                                        *)
Receive(w, kind) ==
    /\ worker[w].pc = "select"
    /\ inbox[w] # <<>> /\ Head(inbox[w]).kind = kind
    /\ inbox' = [inbox EXCEPT ![w] = Tail(@)]

ReceiveDrain(w) ==
    /\ Receive(w, "Drain")
    /\ worker' = [worker EXCEPT ![w] = [Off EXCEPT !.pc = "drain"]]
    /\ UNCHANGED <<files, outbox, hostVars, saver, faults, logVars, smtpVars,
                   imapVars>>

(* enqueue writes the MIME file first ...                                  *)
ReceiveSend(w) ==
    LET m == Head(inbox[w]).raw IN
    /\ Receive(w, "Send")
    /\ \/ /\ files' = files \cup {m}
          /\ worker' = [worker EXCEPT ![w] =
                [Off EXCEPT !.pc = "enqueue", !.cur = [msg |-> m, attempts |-> 0]]]
          /\ UNCHANGED faults
       \/ /\ Fault("file")
          /\ worker' = [worker EXCEPT ![w] = [Off EXCEPT !.pc = "drain"]]
          /\ UNCHANGED files
    /\ UNCHANGED <<outbox, hostVars, saver, logVars, smtpVars, imapVars>>

(* ... then inserts the row, which needs the account's own row to exist,   *)
(* and takes the file back when that fails.                                *)
Enqueue(w) ==
    LET m == worker[w].cur.msg IN
    /\ worker[w].pc = "enqueue"
    /\ \/ /\ StoreWorks /\ account
          /\ outbox' = [outbox EXCEPT ![m] = [NoRow EXCEPT !.state = "queued"]]
          /\ recorded' = recorded \cup {m}
          /\ UNCHANGED files
       \/ /\ StoreFails \/ (StoreWorks /\ ~account)
          /\ files' = files \ {m}
          /\ UNCHANGED <<outbox, recorded>>
    /\ worker' = [worker EXCEPT ![w].pc = "drain", ![w].cur = None]
    /\ UNCHANGED <<hostVars, inbox, saver, handed, pruned, smtpVars, imapVars>>

(* Shutdown: the thread ends and drops its clone of the Store handle, and  *)
(* the drop of any clone stops the store's thread for everybody.           *)
ReceiveShutdown(w) ==
    /\ Receive(w, "Shutdown")
    /\ worker' = [worker EXCEPT ![w] = Off]
    /\ storeOpen' = FALSE
    /\ UNCHANGED <<files, outbox, account, current, saver, faults, logVars,
                   smtpVars, imapVars>>

SendWorkerStep(w) ==
    \/ DrainSelect(w) \/ PassAborts(w) \/ FinishPass(w)
    \/ \E e \in worker[w].batch : SubmitUnusable(w, e) \/ SubmitMark(w, e)
    \/ TransportAccepts(w) \/ TransportFails(w) \/ RecordSent(w) \/ Reschedule(w)
    \/ NextRetry(w) \/ TimerFires(w)
    \/ ReceiveDrain(w) \/ ReceiveSend(w) \/ Enqueue(w) \/ ReceiveShutdown(w)

-----------------------------------------------------------------------------
(* The account worker: save_sent.  It runs on SaveSent and on Sync, which  *)
(* may come at any time; without a Sent folder it changes nothing.         *)

(* The delivered entries are read.  A message that another worker is about *)
(* to append too may now be appended by both.                              *)
SaveSelect(w) ==
    /\ saver[w].pc = "idle" /\ ToSave # {}
    /\ StoreWorks
    /\ saver' = [saver EXCEPT ![w].pc = "saving", ![w].batch = ToSave]
    /\ recopy' = recopy \cup
           {m \in ToSave : \E v \in Workers \ {w} : Appending(v, m)}
    /\ UNCHANGED <<files, outbox, hostVars, inbox, worker, logVars, smtpVars,
                   copies>>

SaveTakenKeeps(w, m) ==
    /\ saver[w].pc = "saving" /\ m \in saver[w].batch /\ m \in files
    /\ copies[m] < MaxDeliveries
    /\ copies' = [copies EXCEPT ![m] = @ + 1]
    /\ saver' = [saver EXCEPT ![w].batch = Served(@, m)]
    /\ UNCHANGED <<files, outbox, hostVars, inbox, worker, faults, logVars, smtpVars,
                   recopy>>

(* The server takes a copy of the next one, and its entry is to be cleared *)
(* - as is one whose file cannot be read.                                  *)
SaveTaken(w, m) ==
    /\ saver[w].pc = "saving" /\ m \in saver[w].batch
    /\ \/ /\ m \in files /\ copies[m] < MaxDeliveries
          /\ copies' = [copies EXCEPT ![m] = @ + 1]
          /\ UNCHANGED faults
       \/ m \in files /\ Fault("file") /\ UNCHANGED copies
       \/ m \notin files /\ UNCHANGED <<faults, copies>>
    /\ saver' = [saver EXCEPT ![w].pc = "clear", ![w].cur = m, ![w].batch = Served(@, m)]
    /\ UNCHANGED <<files, outbox, hostVars, inbox, worker, logVars, smtpVars,
                   recopy>>

SaveRefusedClears(w, m) ==
    /\ saver[w].pc = "saving" /\ m \in saver[w].batch /\ m \in files
    /\ saver' = [saver EXCEPT ![w].pc = "clear", ![w].cur = m, ![w].batch = @ \ {m}]
    /\ UNCHANGED <<files, outbox, hostVars, inbox, worker, faults, logVars,
                   smtpVars, imapVars>>

(* The server refuses, or accepts without the client knowing.              *)
SaveRefused(w, m) ==
    /\ saver[w].pc = "saving" /\ m \in saver[w].batch /\ m \in files
    /\ \/ UNCHANGED <<faults, imapVars>>
       \/ /\ Fault("ambiguous")
          /\ copies' = [copies EXCEPT ![m] = @ + 1]
          /\ recopy' = recopy \cup {m}
    /\ saver' = [saver EXCEPT ![w].batch = Served(@, m)]
    /\ UNCHANGED <<files, outbox, hostVars, inbox, worker, logVars, smtpVars>>

(* delete_outbox, then the file; errors of either are ignored.             *)
ClearRow(w) ==
    /\ saver[w].pc = "clear"
    /\ \/ StoreWorks /\ outbox' = [outbox EXCEPT ![saver[w].cur] = NoRow]
       \/ StoreFails /\ UNCHANGED outbox
    /\ saver' = [saver EXCEPT ![w].pc = "unlink"]
    /\ UNCHANGED <<files, hostVars, inbox, worker, logVars, smtpVars, imapVars>>

(* The message that w appended, while its row is still there.              *)
Uncleared(w) ==
    {m \in Messages : /\ saver[w].pc \in {"clear", "unlink"} /\ saver[w].cur = m
                      /\ outbox[m] # NoRow}

ClearFile(w) ==
    /\ saver[w].pc = "unlink"
    /\ \/ files' = files \ {saver[w].cur} /\ UNCHANGED <<faults, recopy>>
       \/ Fault("file") /\ recopy' = recopy \cup Uncleared(w) /\ UNCHANGED files
    /\ saver' = [saver EXCEPT ![w].pc = "saving", ![w].cur = None]
    /\ UNCHANGED <<outbox, hostVars, inbox, worker, logVars, smtpVars, copies>>

SaveEnds(w) ==
    /\ saver[w].pc = "saving" /\ saver[w].batch = {}
    /\ saver' = [saver EXCEPT ![w].pc = "idle"]
    /\ UNCHANGED <<files, outbox, hostVars, inbox, worker, faults, logVars,
                   smtpVars, imapVars>>

(* The account worker of a retired pair ends, and with it the store.       *)
AccountWorkerEnds(w) ==
    /\ saver[w].pc = "idle" /\ current # w
    /\ saver' = [saver EXCEPT ![w].pc = "off"]
    /\ storeOpen' = FALSE
    /\ UNCHANGED <<files, outbox, account, current, inbox, worker, faults,
                   logVars, smtpVars, imapVars>>

SaveStep(w) ==
    \/ SaveSelect(w) \/ ClearRow(w) \/ ClearFile(w) \/ SaveEnds(w)
    \/ AccountWorkerEnds(w)
    \/ \E m \in saver[w].batch : SaveTaken(w, m) \/ SaveRefused(w, m)

-----------------------------------------------------------------------------
(* The machine.                                                            *)

(* A second passes: for the deadlines, the sleeps and the running passes.  *)
Tick ==
    /\ outbox' = [m \in Messages |-> [outbox[m] EXCEPT !.wait = Less(@, 1)]]
    /\ worker' = [w \in Workers |->
          [worker[w] EXCEPT
             !.timer = IF @ > 0 THEN @ - 1 ELSE @,
             !.lag = IF worker[w].pc \in InPass /\ @ < MaxBackoff THEN @ + 1 ELSE @]]
    /\ UNCHANGED <<files, hostVars, inbox, saver, faults, logVars, smtpVars,
                   imapVars>>

(* The process dies and starts again: what it had in memory is gone, the   *)
(* store is opened again.  A message accepted but not yet recorded as Sent *)
(* will be submitted again, one appended but not yet cleared appended.     *)
Crash ==
    /\ Fault("crash")
    /\ resend' = resend \cup {worker[w].cur.msg : w \in
                                {v \in Workers : worker[v].pc = "accepted"}}
    /\ recopy' = recopy \cup UNION {Uncleared(w) : w \in Workers}
    /\ storeOpen' = TRUE /\ current' = None
    /\ inbox' = [w \in Workers |-> <<>>]
    /\ worker' = [w \in Workers |-> Off]
    /\ saver' = [w \in Workers |-> SaverOff]
    /\ UNCHANGED <<files, outbox, account, logVars, delivered, copies>>

Next ==
    \/ \E w \in Workers : Spawn(w) \/ SendWorkerStep(w) \/ SaveStep(w)
    \/ \E m \in Messages : Send(m)
    \/ Retire \/ RequestDrain \/ Prune \/ Tick \/ Crash

Spec == Init /\ [][Next]_vars

(* Startup brings the workers up, every thread runs, a submission returns  *)
(* (the transport has a timeout) and time passes.  Nothing is assumed of   *)
(* the user, of the failures, or of the commands of the account worker.    *)
FairSpec ==
    /\ Spec
    /\ WF_vars(\E w \in Workers : Spawn(w))
    /\ \A w \in Workers : WF_vars(SendWorkerStep(w))
    /\ WF_vars(Tick)

-----------------------------------------------------------------------------
(* Properties.                                                             *)

(* Every variable has its type; in particular no row ever counts more than *)
(* MAX_ATTEMPTS attempts or waits longer than MAX_BACKOFF_SECS, whichever  *)
(* workers wrote it (outbox.rs, reschedule and backoff).                   *)
TypeOK ==
    /\ files \subseteq Messages
    /\ outbox \in [Messages -> Rows]
    /\ account \in BOOLEAN /\ storeOpen \in BOOLEAN
    /\ current \in Workers \cup {None}
    /\ inbox \in [Workers -> Seq(Commands)]
    /\ worker \in [Workers -> WorkerStates]
    /\ saver \in [Workers -> SaverStates]
    /\ faults \in Nat
    /\ handed \subseteq Messages /\ recorded \subseteq Messages
    /\ pruned \subseteq Messages
    /\ delivered \in [Messages -> Nat] /\ resend \subseteq Messages
    /\ copies \in [Messages -> Nat] /\ recopy \subseteq Messages

(* No failure loses the mail: once recorded, a message that the server has *)
(* not accepted keeps its row and its file through crashes, errors of the  *)
(* store and of the disk, lost answers and overlapping workers, until the  *)
(* account itself goes (outbox.rs, module comment).                        *)
KeptUntilDelivered ==
    \A m \in recorded \ pruned :
        delivered[m] = 0 => outbox[m] # NoRow /\ m \in files

(* The server gets a message twice only for one of four reasons: the       *)
(* process died, or the store failed, between the server's answer and the  *)
(* Sent mark; the answer was lost; two workers had the entry in their      *)
(* snapshots (outbox.rs, submit).                                          *)
DuplicatesHaveACause == \A m \in Messages : delivered[m] > 1 => m \in resend

(* A message that the server could have taken is given up only after       *)
(* MAX_ATTEMPTS refusals, except when its file could not be read           *)
(* (outbox.rs, submit and reschedule).                                     *)
GivesUpOnlyWhenExhausted ==
    "file" \notin Faults =>
        \A m \in Messages \ NoRecipients :
            outbox[m].state = "failed" /\ delivered[m] = 0
                => outbox[m].attempts = MaxAttempts

(* The Sent folder gets a second copy only for a reason: the process died, *)
(* or both clean-ups failed, after the append; its answer was lost; two    *)
(* workers had the entry in their snapshots (save.rs, save_sent).          *)
CopiesHaveACause == \A m \in Messages : copies[m] > 1 => m \in recopy

(* save_sent clears the outbox entries and their files once the server     *)
(* accepted them (save.rs, comment of save_sent).                          *)
ClearedOnlyOnceAccepted ==
    \A m \in recorded \ pruned : outbox[m] = NoRow => copies[m] > 0

(* While the worker sleeps with no command to read, its sleep ends no      *)
(* later than the earliest deadline of a pending message, or a second      *)
(* later (send_worker.rs, module comment: "waits for the earliest backoff  *)
(* deadline").                                                             *)
SleepCoversDeadline ==
    \A w \in Workers, m \in Messages :
        worker[w].pc = "select" /\ inbox[w] = <<>> /\ IsPending(m)
            => /\ worker[w].timer # NoTimer
               /\ worker[w].timer <= outbox[m].wait \/ worker[w].timer <= 1

(* A message handed to a running send worker is waiting in its channel, or *)
(* being enqueued, or recorded: it never just disappears.                  *)
HandedIsRecorded ==
    \A m \in handed \ recorded :
        \E w \in Workers :
            \/ \E i \in DOMAIN inbox[w] : inbox[w][i] = [kind |-> "Send", raw |-> m]
            \/ worker[w].pc = "enqueue" /\ worker[w].cur.msg = m

(* Until a command asks for it, a message the server refused is not        *)
(* submitted again before its backoff has elapsed: a pass that no command  *)
(* caused hands the transport only messages whose deadline has passed      *)
(* (outbox.rs, drain; send_worker.rs, run).                                *)
BackoffRespected ==
    [][\A w \in Workers :
          worker[w].mode = "Due" /\ worker[w].pc = "pass" /\ worker'[w].pc = "sending"
              => outbox[worker'[w].cur.msg].wait = 0]_vars

(* A pending message does not stay pending for ever: it is delivered, or   *)
(* given up (outbox.rs, drain; send_worker.rs, run).                       *)
EveryEntrySettles ==
    \A m \in Messages :
        outbox[m].state \in {"queued", "sending"}
            ~> outbox[m].state \notin {"queued", "sending"}

(* The outbox keeps the promise of MailPromise: a message is kept while it *)
(* has both its row and its file (outbox.rs, module comment).              *)
Promise == INSTANCE MailPromise WITH
    kept <- {m \in files : outbox[m] # NoRow},
    seen <- recorded, accepted <- delivered, open <- account

KeepsPromise == Promise!PromiseSpec

=============================================================================
