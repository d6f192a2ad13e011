# Tegami in TLA+

A formal model of the engine of Tegami, the mail client in this repository:
TLA+ modules, TLC configurations that check them on small instances, and
theorems checked by TLAPS for all values of the constants.

`tlc -config X.cfg M` checks a run, `tlapm M.tla` checks the proofs of a module.
`PROJECT.json` lists the runs, which lines of the source each definition stands
for, the hazards the properties are for, and the disagreements found.

## The system

Tegami is a GTK application (`src/crates/app`) over a mail engine without a user
interface (`src/crates/mail-core`) and a crate that finds the accounts of the
desktop (`src/crates/accounts`). For every account the application starts two
threads, an *account worker* (IMAP) and a *send worker* (SMTP); one more thread,
the *store*, owns the SQLite database. Threads talk through unbounded channels
of commands and events; there are no shared variables but the database, the
directory of queued mail and the directory of cached bodies.

| Component | State | Operations | Talks to |
|---|---|---|---|
| Outbox (`outbox.rs`) | outbox table, directory of MIME files | `enqueue`, `drain`, `submit`, `reschedule`, `next_retry` | store, SMTP |
| Send worker (`send_worker.rs`) | mode of the next pass, timer, channel | `Send`, `Drain`, `Shutdown`, timer | outbox; events to the service |
| Sent folder and drafts (`sync/save.rs`) | none of its own | `save_sent`, `save_draft` | outbox table, files, IMAP APPEND |
| Folder synchronisation (`sync/mod.rs`) | folder and message tables | `sync_account`, `sync_folder` | store, IMAP |
| Account worker (`worker.rs`, `sync/ops.rs`, `sync/body.rs`) | command queue, `connected`, `watch`, `resync_pending`, table of pending operations | `Sync`, `SyncFolder`, `SetFlags`, `Move`, `Copy`, `Delete`, `FetchBody`, drafts, `Watch`, IDLE | store, IMAP, events |
| Store (`store/`) | the database, its thread, its channel | one command per statement, `prune_accounts`, shutdown | everybody |
| Threading (`threading.rs`) | none (pure) | `thread` | store (`rethread`) |
| IMAP backend (`imap/`, `backend.rs`) | session, capabilities | `select`, `fetch_delta`, `idle`, ... | server |
| SMTP, MIME, composing | none (conversions) | | server |
| Synchronisation service (`app/src/sync.rs`) | handles of the workers, progress tracker, watched accounts | `reconcile`, `handle_event`, `dispatch`, `discover` | workers, window |
| Window, composer (`app/src/window.rs`, `composer.rs`) | open composer, pending draft, undo | optimistic actions, drafts | service, store |
| Message list, conversation, search, sidebar | shown rows, selection, load in flight | load, filter, select | store |
| Account discovery (`accounts/`) | list of accounts, snapshot of the watcher, token cache | `merge`, `diff`, `changes` | GOA and EDS over D-Bus |
| Rendering (`html_view.rs`, `message_text.rs`, ...) | none | | |

What is hard here, and what each part should guarantee:

* **Outbox and send worker.** A crash, an error of the store or of the disk, or a
  lost answer may come between any two of: file written, row inserted, row marked,
  server's answer, row marked again, copy appended, row deleted, file deleted. Two
  generations of workers may run at once on the same rows. Mail must never be
  lost; duplicates must have an unavoidable cause; retries must follow the backoff,
  end after `MAX_ATTEMPTS`, and happen at all.
* **Folder synchronisation.** The folder changes between SELECT, FETCH and the
  statements on the store, and any call may fail. The mirror must not run behind
  the position recorded with it, must not mix two lives of a folder, and must not
  drop mail the server has.
* **Account worker.** Actions of the user are applied to the server, or kept and
  applied later; they must not be lost, reordered, or undone by an older one.
* **Service.** A pass over all accounts must end, whatever worker fails or goes
  away; otherwise the button stays dead.
* **Store.** Any clone of its handle ends its thread; callers must be told the truth and
  nobody may wait for ever. Index, cached bodies and attachments must be those of
  their message though SQLite gives the id of a deleted row again; conversations must
  not depend on the order of arrival.
* **Window, list, conversation.** Loads overlap with selections and with
  synchronisation; once all is quiet the screen must show the store, and a button
  must act on what is shown. A draft must not vanish while it is replaced.
* **Discovery.** The desktop changes between two reads; the snapshot, the account
  table and the workers must follow it, and no worker may serve another account's row.

## What is modelled

### `Outbox`

The outgoing mail of one account. A *worker* `w` of the model is one generation of
the account's pair of threads: `worker[w]` is its send worker (program counter,
`DrainMode` of the next pass, snapshot of the pass, entry in hand, timer), `saver[w]`
is its account worker as far as `save_sent` goes, `inbox[w]` its command channel.
`outbox`, `files` and `storeOpen` are the table, the directory and the thread of the
store. Each action is one stretch of code between two calls that can fail or
interleave: `DrainSelect` (`drain` reads its snapshot), `SubmitUnusable`,
`SubmitMark`, `TransportAccepts`/`TransportFails`, `RecordSent`/`Reschedule`,
`PassAborts`/`FinishPass`, `NextRetry`, `TimerFires`, `ReceiveSend`+`Enqueue`,
`ReceiveDrain`, `ReceiveShutdown`; `SaveSelect`, `SaveTaken`/`SaveRefused`,
`ClearRow`, `ClearFile`, `SaveEnds`, `AccountWorkerEnds`; `Spawn`, `Send`,
`RequestDrain`, `Retire`, `Prune` of the service; and `Tick` and `Crash`.

Time is kept relative: a row has the time left until `send_after`, a worker the time
left to sleep and the time since its pass read the clock. A message stands for its
text, its file and its row. Failures are bounded by `MaxFaults` and chosen by
`Faults`; `MaxInbox` and `MaxDeliveries` bound the channel and the server's counter.
The variables `handed`, `recorded`, `pruned`, `resend`, `recopy`, `delivered` and
`copies` are history: no action of the program reads them.

### `MailPromise`

What the outbox promises to the writer of a mail, abstractly: it is kept before the
transport sees it, only what is kept is sent, only what was accepted is let go.
`Outbox` implements it with `kept <- {m \in files : outbox[m] # NoRow}`.

### `FolderSync`

`sync_folder` one call at a time, for a set of folders and the three kinds of server
the code tells apart (no CONDSTORE, CONDSTORE, QRESYNC). `mailbox` is the server
(UIDVALIDITY, HIGHESTMODSEQ, a version per UID), `row` and `stored` the folder and
message tables, `sync` the locals of the running call, `announced` the VANISHED
responses in the session that nobody has looked at. Between any two steps other
clients may `Deliver`, `Change`, `Expunge` or `Rebuild`; `Delete` is this client's own
deletion. `Abort` is a failing call or a crash. `owed` is history: the messages that
a complete synchronisation would have brought.

### `AccountWorker`

The loop of the account worker and the way of the user's actions to the server.
`worker` holds the fields of `Worker` (`connected`, `watch`, `resync_pending`), the
command in hand and the place in the loop; `queue` and `channel` are its two queues;
`pending` is the table of pending operations; `session` is the backend's connection,
which may be dead while `connected` is still set; `server` is what became of the
messages. `Act` is the window's handler (it changes the store's copy at once),
`Resolve`/`ResolveFails` are `resolve_action` and `dispatch`; `TakeCommand`, `Connects`,
`CannotConnect`, `RunAction`, `ActionFails`, `KeepAction`, `RunPlain`, `PlainFails`,
`ReplayBegins`, `ReplayOne`, `ForgetOne`, `ReplayFails`, `ReplayEnds`, `SyncAccount` and
`ShutDown` are `handle`; `ReadChannel`, `Rest`, `Receive` and the `Idle...` actions are
`run`. Failures: the network goes and comes, the server refuses, does the work but the
answer is lost, does half of a move (COPY without the deletion, where the server has no
MOVE), a statement of the store fails, two actions are resolved in the other order, the
process dies. `intents`, `applied`, `reported`, `lost` and `overtaken` are history.

### `SyncService`

The service: `workers` and `threads` are the map of workers and the threads ever
spawned (a thread outlives its entry in the map until it reads `Shutdown`), `tracker` is
`SyncTracker`. `Reconcile`, `DiscoverFails`, `SendReceive`, `Ask` and `HandleEvent` are
messages to the service; `Handle` and `End` are a worker's thread as the service sees
it: a command in, its settling events out. `pass` is history.

### `Threading` and `MessageStore`

`Threading` has the algorithm of `threading.rs` - `Forest` by three rounds of unions,
`ThreadRoots` - and, apart from it, what a conversation is: messages that no set closed
under `Related` separates.

`MessageStore` has the tables a message's data is spread over: `folder`, `message` (with
its attachments), `index` (`message_fts`), `files` (the cached bodies) and `pending`, for
mailboxes of one or several accounts. Tables are functions on row ids, and `NextId` gives
the largest id plus one, as SQLite does: ids of deleted rows come back, which is what the
properties are about. `RowId` is the row that `insert_message` finds or makes,
`Upserted` what a batch of them leaves. An account's worker synchronises (`Sync`, `ReplayOne`,
`SyncFolders`, `SyncFolder`, `DeleteVanished`, `SelectFails`) or fetches a body
(`FetchMessage`, `SetMessageBody`, `ReplaceAttachments`, `IndexBody`, `RowGone`), one
statement at a time; `Fail` and `Crash` cut either short, also between the commit of
`upsert_messages` and its rethread. Mailboxes are removed and made again
(`RemoveBox`, `Rebuild`). `stray`, `cut` and `threaded` are history; they name the
escapes that the code has (see the limits below).

### `StoreThread`

The store's thread from the outside: `Handles` are the clones of `Store`, `Callers` the
tasks that call it. A call finds a slot (`CallQueued`), waits for one (`CallBlocks`,
`Push`) or finds the thread gone (`CallRefused`); its future may be dropped at any moment
(`Abandon`). `Drop` posts `Shutdown` if there is room. `Open`, `Receive`, `Execute`,
`Answer` and `Leave` are the thread. tokio's bounded channel is external: it gives a free
slot to the sender that waits longest. `executed` and `early` are history.

### `AccountDiscovery`

The way from the desktop's accounts to the workers. `Merged` is `merge`, `Diff` counts
what `diff` returns. The watcher (`Subscribe`, `TakeSignal`, `WatchGoa`, `WatchEds`) and the
discovery (`TakeDifference`, `DiscoverGoa`, `DiscoverEds`, `DiscoverAccount`,
`DiscoverEnds`) each read the two backends in two calls while the desktop changes;
`Reconcile` is `AccountsLoaded` in the service. A backend that fails looks empty, an
account whose properties cannot be read looks absent, as in the code. `rows` is the
account table, whose ids come back. `blind` and `undone` are history.

### `Reader`

The window, the message list and the conversation as three components with a queue of
messages each (`winQ`, `listQ`, `convQ`), and a bag of `tasks`: what a handler starts and
does not wait for. One action per handler; tasks run (`Reads`, `Writes`, `FetchFails`)
and report (`Reports`) in any order; `SyncNext` changes the message table under them and
`UserNext` is the user. The list widget is GTK's and external: it keeps some row
selected while there is one (`Autoselected`) and signals a selection that changed.
What a component emits enters the receiver's queue at once.

### `Drafts`

Composer, window, service and account workers as far as a draft goes: opening and
replacing a composer, `Clicks` (Save and Send), `SaveDraft`, `SaveDraftResolved`,
`AppendDraft` (`save_draft`: the new version, then the deletion of the one before),
`DraftSaved`, `DraftReady`, `SendResult`, `DeleteDraft`. A message is a number, its text a
version. `saved` and `muddled` are history.

### `Window`

`Reader` and `Drafts` side by side: the two share the window's message loop but no state, so
the queue of the second is renamed. `MCWindow` checks them as two *scenes* of one run: a
state belongs to one of them, and the other rests in its initial state.

## What the runs check

Some operators have a faulty twin beside them (`SelectedAnyState` beside `Selected`,
`SinceLatest` beside `SinceRecorded`, ...), which no action uses. Each is a mistake one
could make in that piece of code; `PROJECT.json` ("mutants") says which property of
which run notices if it takes the place of the right one.

| Run | Instance | Shows |
|---|---|---|
| `outbox_safety` | 1 message, 2 generations of workers, 1 failure of 6 kinds | types; nothing recorded is lost; each duplicate submission or copy has a cause; the promise is kept |
| `outbox_live` | 2 messages, 1 worker, 3 attempts, 1 crash or lost answer | the sleep covers the deadline; the backoff is respected; giving up takes all attempts; an entry is cleared only once accepted; each entry settles |
| `outbox_replaced` | violation of `HandedIsRecorded` | finding 1 |
| `folder_mirror` | 1 folder, UIDs 1..3, window 2, 4 changes, 3 kinds of server; 2 failures without CONDSTORE | the mirror is never behind its MODSEQ, has one life, is exact after an undisturbed synchronisation, drops nothing the server has |
| `folder_lost_delta` | violation of `QuietSyncIsExact` | finding 2 |
| `account_faults` | 1 message, 2 actions, 2 failures of 7 kinds, 1 of 9 kinds of commands, no MOVE | no action disappears; the last intent holds in the end; every command is read, also in IDLE |
| `sync_service` | 2 accounts, 3 changes of the list, 1 pass, 1 other command | one true report per pass, one worker per account, every pass ends |
| `message_store` | 2 mailboxes of 1 or 2 accounts, 3 mails, UIDs 1..2, 3 events on the server, 3 actions, 1 failure | a message has one row; index, attachments and cached bodies are those of their message; a recorded body is complete; conversations are what they should be |
| `store_thread` | 2 handles, 3 tasks, 2 calls each, a channel of 2 | what a caller is told is true; what was queued before a drop is done; nobody hangs and the thread ends |
| `account_discovery` | 3 accounts out of 2 of GOA and 2 of EDS, 2 addresses, 2 changes, 1 failure of 6 kinds | the merge is complete, the snapshot is the desktop, the workers follow it, no worker serves another's row |
| `window` | 3 folders of 2 accounts, 3 messages, 3 steps; 2 drafts of 2 versions, 2 clicks, 1 report, 1 failure | list and conversation settle on what the store has; Delete stays in the account; a saved draft is kept |
| `draft_replaced` | violation of `ReplacesItsOwn` | finding 3 |

Why the bounds are enough. In the outbox the interesting cases need one entry and a
failure between its steps; two generations of workers meet on one row, a second message
(`outbox_live`) shows that entries do not disturb each other, three attempts that
deadlines can differ by more than one step. In the folder, a window of 2
among 3 UIDs has a message inside, one outside and one still to come; four changes fit
a change before, during and after a synchronisation, and a rebuild. In the worker two
actions give every order of a pair; replay, table and queue hold two. In the service
three changes are enough to add, remove and add an account again while its first thread
still works. In the message store an id comes back after one deletion, a UID after one
rebuild, and a conversation joins two others with the third mail. In the store's thread
three tasks fill a channel of two and leave one to wait. In the discovery three accounts
fit two that share an address and a third, two changes one that is found back. In the
window `MaxSteps` counts what the user, synchronisation and failing calls do, and the next
of them comes only while at most `MaxBusy` things are under way: three overlap in every
order of handlers and tasks. Where a run has failures and no liveness property, its
specification states no fairness; no run hides a deadlock: `CHECK_DEADLOCK FALSE` stands
where the system may really rest (the worker has been shut down, or waits for a user whose
actions the bounds have used up; the input of the service, the store or the window is
empty).

Failures left out of a passing run because the property is then false, each of them a
finding or a limit below: store errors and unreadable files in `outbox_live`; failing
synchronisations with CONDSTORE, two folders, and a folder made again with QRESYNC in
`folder_mirror`. Exemptions a property names: `LastIntentHolds` exempts the messages of
which a younger action came first; `IndexIsOwn` and `RecordedIsComplete` the rows in
`stray` and `cut`; `DraftsAreKept` the messages whose composer got another's reference
(finding 3); `ListConverges` a `Retry` that was overtaken by a selection;
`ServiceFollowsDesktop` the changes before the watcher runs and calls that failed.

## Fairness

* `Outbox!FairSpec`: a worker is started when the account has none, a send worker's
  thread takes its next step when it can, time passes. Nothing is assumed of the user,
  of other commands, or of the network: a transport that always fails leads to giving
  up. The threads run by themselves in the code, and every call they wait for returns.
* `AccountWorker!FairSpec`: the worker's thread takes its next step when it can. News
  from the server, the end of an IDLE's timeout, and the return of the network are not
  counted on: IDLE must be ended by the command that waits.
* `SyncService!FairSpec`: each thread handles its commands, each thread's events are
  delivered.
* `StoreThread!FairSpec`: the store's thread runs, and so does each task that was given
  a slot. That tasks call, give up or drop their handles is not counted on.

The other modules state no fairness; what must come about in them is stated of the
states in which nothing is under way (`Quiet`, `Settled`).

"Every call returns" is an assumption on the operating system: the backend sets no
timeouts but the one of IDLE, so a connection that is dead without an error would hold a
worker.

## What is proved

With TLAPS, for all values of the constants under the named assumptions of each module
(`OutboxAssumption`, `FolderSyncAssumption`, ...), which say only that the numbers are
numbers, that accounts, mailboxes and keys of messages (a folder and a UID) are finitely many,
and that the marks (`None`, `Absent`, `Nothing`, `Shutdown`) are no messages, commands or tasks. Eight modules hold the proofs. Each proof of an inductive step has a lemma per
action or group of actions, and a step per conjunct that it can disturb.

Five theorems have hypotheses of their own. Each leaves out failures under which the
property is false in the code (TLC shows a counterexample without it), and says so in its
statement: `OwnVanished` and `CondstoreNeverFails` in `FolderSyncProofs`, a fault that is
not in `Faults` in `OutboxProofs`. Nothing else is excluded: the
runs that check these properties leave out the same failures.

`OutboxProofs`:

* `TypeCorrect`: `TypeOK` always holds. `TypeOK` is not inductive: a worker
  in state `sending` must have an entry in hand (`Typed`, with `GoodWorkers` and
  `GoodSavers`). `BackoffBounded` bounds the delay before a retry.
* `NothingLost`: a recorded message has its row and its file until
  the server accepts it or its account is removed. The inductive invariant `Safe` adds
  to the types `OnePlace` (a message that is handed over but not recorded is in one
  channel or one worker's hand only, so no second `enqueue` can remove its file) and
  `Ledger` (a row in state `sent`, a worker in state `accepted`, and a saver with an entry
  to clear each have a delivery behind them): these are what the deletions of rows and
  files rest on.
* `OutboxKeepsPromise`: `Outbox` implements `MailPromise`; every step
  is a step of the promise or leaves it alone (`PromiseStep`), from `Safe`.

The outcomes, also in `OutboxProofs`, each from `Safe` and what is said here:

* `DuplicatesExplained`: a second acceptance has a cause. `Careful`
  adds `Snapshot` (what a snapshot holds was unsent when it was read, or a cause is
  recorded) and `Lone` (without a cause no two workers hold a message).
* `GivenUpLast` and `CopiesExplained`: a message that could have gone out
  is given up only with all its attempts used, as long as no file fails, and a second copy
  in the Sent folder has a cause. `Settled` adds that the rows of an account that
  is gone are gone (`Owned`), so a file that cannot be read was never that of a waiting
  message; `Saved` adds `Single`, which says of a message without a cause that one account
  worker appends it at most, and that what the folder has keeps its row and its file only
  while a worker is about to clear them.
* `ClearedOnceAccepted`: `save_sent` clears what the server accepted and nothing else.
  Hypothesis: files can be read (otherwise `sync/save.rs:73` clears anything). `CopiedFirst`
  says the same of a message whose file or row is gone and of one in a worker's hands, so
  that two account workers on one entry, and a crash between row and file, are covered.
* `NoEarlyRetry`, an action property: no pass that was not asked for submits before the
  backoff has elapsed. Hypothesis: no workers are retired; two generations reschedule each
  other's entries. `DueBatch`: what a timer's pass has left to submit is due, although the
  clock was read before and the rows may have been cleared since.
* `SleepEndsInTime`: a sleeping send worker has a command waiting or a timer that ends in
  time for every pending entry. Hypotheses: as before, and the store answers (after an
  error of `next_retry` no timer is armed). `Covered` says it of the timer as soon as it
  is set, whether a command waits or not.

`FolderSyncProofs`, for any number of folders and UIDs and any kind of server:

* `FolderTypeCorrect` and `FolderOneLife`: whatever fails, the store never mixes two
  lives of a folder. `Lives` says for every folder, and for the locals of a running
  synchronisation, which life what they hold belongs to, and that lives only grow.
* `FolderKeptWhileOnServer`: no synchronisation drops a message that the server has.
  Hypothesis `OwnVanished`: a VANISHED response is about the folder, and the life of it,
  that is synchronised next (see the limits: `fetch_delta` takes all of them). `Deletes`:
  a UID that a response or a running synchronisation is going to delete is gone for good,
  in this life.
* `FolderMirrorsModseq`: a folder's MODSEQ never promises more than the rows hold.
  Hypotheses `OwnVanished` and `CondstoreNeverFails`: after a failure the code records a
  MODSEQ ahead of its rows (finding 2). Within a synchronisation the recorded MODSEQ *is*
  ahead of the rows, so the invariant says for each place of `sync_folder` what is already
  held, what is fetched and what is still wanted (`Progress`, with `Fetched` for the
  union of delta and window, and `MirrorAt` for what the old MODSEQ promised).
* `FolderQuietSyncIsExact`: a synchronisation during which nothing happens leaves exactly
  the server's folder, under the same hypotheses. With CONDSTORE this follows from
  `Mirrors`, because the MODSEQ recorded is the newest; without, `Compared` says what the
  comparison of UIDs has established so far.

`AccountWorkerProofs`, for any number of messages, actions and failures:

* `AccountTypeCorrect` and `NothingForgotten`: an action of
  the user is on its way, in the table, done, or was reported as failed. `Typed` adds that
  queues hold commands of actions that exist, and which command is in hand at which place
  of the loop; what the replay forgets was applied before.
* `LastIntentWins`: once nothing of a message is under way, the server has it as
  the user last wanted it, unless an action failed or was overtaken. The invariant is a line:
  the actions under way stand in the order in which they were asked for, from the table of
  pending operations through the worker's hand, its queue and its channel to those
  that are being resolved (`InOrder`). `Books` says how far the server is: actions leave
  the line from its head only, and the message's flag is as the last of those that left
  it, or as the head, applied already though its answer was lost, set it. The
  replay is where the two could part: the table is written before the queue is read
  (`Replaying`), and what it forgets the server must show (`Forgetting`).

`SyncServiceProofs!ServiceTypeCorrect`, `PassesReportedOnce`, `WorkersMatchAccounts`: for
any accounts and any changes of their list, each pass is reported once and truly, and
each account has one worker. `Owned` ties the map of workers to the threads; the
argument rests on `Order`, the order in which `reconcile` spawns new workers, being a
bijection.

`StoreThreadProofs!ThreadTypeCorrect`, `OutcomesAreTrue`, `DropsSpareTheQueue`: for any
number of handles, tasks and slots. `Places` says that a task's command is in one place,
`Counts` how often it was executed there, `Drops` that what was queued before the first
drop stands before every `Shutdown`.

`AccountDiscoveryProofs`, for any accounts of the desktop and any failures:

* `MergeIsRight`: for any two lists the merge has every GOA account and every address of
  a source once, joins the two where it can, and gives no id twice. This is a fact about
  the operator `Merged`; `Typed` adds that the list a discovery works on is a merge.
* `NoForeignWorker`: no worker runs for a row that is another account's by now, although
  pruned ids come back and lists wait in the service's queue. `Consistent` compares the
  workers with the first list that waits, each list with the next, and the last with the
  table: none of two neighbours gives one id to two accounts.
* `SnapshotKept`: while no call fails, a watcher that waits has the desktop as
  its snapshot, or a signal is waiting (`Watched`, also between its two reads).
* `ServiceFollows`: a change that was seen and did not fail is somewhere on its way
  to the workers - signal, reading, difference, discovery, list (`Due`) - so that at rest
  the workers are those of the desktop's accounts.

`MessageStoreProofs`, for any number of mailboxes, accounts, mails and events, `Inv`:

* `KeysAreKept` (`TypeOK`): a row's folder is there, a message has one row and a mailbox
  one folder (`OneRowEach`). Insertion looks for the row that is there, and each
  new one gets an id of its own (`RowIds`, from `NextIdIs`).
* `CachedBodyIsOwn` (`BodyIsOwn`): the cached file that a message is shown from is its own.
  `Lives`: in the present life of a mailbox a UID was given to one mail, also after
  its removal (`Had`). `Bodies` therefore is about rows of the present life, and a
  worker that holds a file it has just written holds the mail for the same life (`Holds`).
* `SearchFindsItsOwn` (`IndexIsOwn`): `Indexed` adds that no index is left to an id without
  a row but to those in `stray`, because the next row with this id would be found by it.
* `RecordedBodyIsComplete`: `Completed` with `Fetching`: between the three
  statements of a fetch the row is neither cut short nor complete; what the worker
  still has in hand will complete it (`Fetches`). That a folder's id may be taken by another
  account's folder, whose worker may be fetching, is why `Homes` is needed (a worker keeps
  to its account's folders), and why `Fetches` exempts stray rows: an id that
  came back may get the attachments of a fetch that started before.

* `RootsAre`: for every finite set of messages, the algorithm of `Threading` gives two
  messages one root exactly when no set closed under `Related` separates them. The
  theorems of the library on induction take an operator as a parameter and cannot be used
  here; `EveryNumber` gets the induction over the size of a set from the least counterexample,
  which the well-foundedness of `<` gives (`Least`). From it `FoldExists` and `FoldIs` say
  what a fold's recursive function is, for a set of links taken in any order. Each link
  keeps the blocks a partition (`Partition`), and a block never outgrows a closed set (`Coarser`).
* `ConversationsBelongTogether`: conversations are what threading makes of the rows, unless
  something was deleted since the last rethread. `Conversing` says it of the states in which
  every row has a conversation (`Settled`); the rows an upsert brings have none until the rethread that
  follows it, and the others stay as they were (`UpsertedRows`). A process that ends
  between the commit of a batch that deletes and its rethread leaves the conversations as they
  were before; that is why `Crash` clears `threaded` there.

`WindowProofs`, for any number of folders, accounts, messages and of things under way. The first
three are about the specification of `Reader`, the last two about that of `Drafts`:

* `TrashIsOfItsAccount`: Delete moves a message to its own account's Trash. `TrashInv` ties
  the window's folders to the account of the selected message, although they are read by a task that
  a selection may overtake.
* `ListShowsStore`: `FolderFollows` ties the list's folder to the sidebar's, `Scheduled` says that
  a reload that was asked for has its timer or its message on the way, and `RowsFollow` that
  rows which are not the store's will be loaded again. A queue is reasoned about by
  `Finally`: what will hold of a component once it has handled the messages of one kind that
  wait. Lemmas say how it changes when a message is taken, added or passed over.
* `ConversationShown`: `AnchorFollows` is about the message shown, `BodiesFollow` about each
  card that waits for a body: the request or its answer is somewhere on its way (`Coming`).
  Since the requests of a conversation are sent in the order of its cards, which the model leaves
  open, the argument rests on that order being a bijection.
* `SavedDraftsKept`: a message whose saving was confirmed has a version in a Drafts folder until the
  outbox has it, whatever call fails. `Own` says that each reference to a draft - in the
  composer, in the messages to the window, in the jobs of the account workers - is to a draft of
  its own message, or to one that is gone (`OfMessage`), and that the draft which waits for a
  mail to be sent is of a message that the outbox has (`HandedOver`); the UIDs of a folder only grow, so that this lasts (`Lasts`).
* `SavingReplacesItsOwn`, an action property: saving removes only earlier versions of the same
  message, unless a composer got another's reference. So the mix-up of finding 3 (`muddled`) is
  the only way in which a draft can be replaced by another message.

Every invariant and every action property of the passing runs is stated by one of these
theorems. Only model-checked is all liveness (`EveryEntrySettles`, `CommandsAreRead`,
`EveryPassEnds`, `NothingHangs`): the prover has no ENABLED, hence no fairness.

## Findings

1. Dropping any clone of `Store` shuts the store's thread down for all
   (`store/worker.rs:549`), so that retiring one account's workers can lose a mail handed
   to another's, against the comment of `outbox.rs:6-9`.
2. `sync_folder` stores the new HIGHESTMODSEQ before it has what led to it
   (`sync/mod.rs:135`): what a failed synchronisation did not fetch is never fetched.
3. The answer to a saved draft names no message (`window.rs:717`): if another composer
   was opened meanwhile, its next save deletes the first message's draft, against
   `composer.rs:37`.

## Known limits of the code

Met while modelling, and either exempted by name in a property or left as a hazard without
one, because nothing in the repository promises otherwise:

* `save_sent` clears the row and the file of an entry whose file it cannot read, whatever
  the error (`sync/save.rs:73`).
* `fetch_delta` takes every VANISHED response in the session for one of the folder at hand
  (`imap/backend.rs:309`). In `MCFolderSync`, `TwoFolders`, `OnlyQresync`, `Deletion` and
  `NoFailure` give the instance, which no run has, in which `KeptWhileOnServer` fails.
* An error in `next_retry` is taken for "no deadline": the send worker sleeps with entries
  pending.
* A store whose folder came back under an old id finds the body's index, the attachments
  or pending operations of the folder before (`MessageStore`: `stray`); a fetch cut short
  between its statements is never completed (`cut`).
* A pending operation names no UIDVALIDITY; an operation the server refuses stays at the
  head of the table; COPY without MOVE is repeated by a replay; EXPUNGE without UIDPLUS
  removes what any client marked; an older action can be overtaken by a younger one.
* The account worker keeps `connected` after a failing action, and after a failed IDLE
  watches nothing until the next command. No IMAP call but IDLE has a timeout.
* A failure of another command settles an account in the running pass; a worker's thread
  that cannot build its runtime leaves the pass open.
* Without CONDSTORE flags of known messages are never refreshed.
* A first discovery that fails is never repeated by a watcher; one credential that cannot
  be read ends the whole discovery; a backend that cannot be read makes its accounts, and
  their queued mail, disappear.
* `Viewed` marks UIDs of other folders of the thread in the selected one; the move menu is
  that of the account before until the folders are loaded; `SendResult` closes whichever
  composer is open; a `Retry` may load the list of a folder that is no longer selected.

## What is not modelled, and why

* Conversions of text - MIME, composing and quoting, IMAP and SMTP syntax, search
  expressions, rendering, presets of providers: no state, and best tested with examples.
  A transport or a server appears as the outcomes of one call.
* Widgets, dialogs, WebKit, notifications, D-Bus proxies: pure input and output. The rows
  of the sidebar and of the search results hold nothing that another part depends on.
* The token cache (`goa/token.rs`) is one map with an expiry in front of a call. A credential is found, missing or unreadable in `AccountDiscovery`.
* The migration of the schema (`store/schema.rs`) runs before the first command, a
  transaction for each version; its failure is the one of `Open` in `StoreThread`.
* `sync/idle.rs` (`IdleWorker`) is used by tests only.

## What could follow

A replay across two lives of a folder, by giving `AccountWorker`'s pending operations the
ids of `MessageStore`.
