----------------------------- MODULE SyncService -----------------------------
(***************************************************************************)
(* The synchronisation service of the application (app/src/sync.rs): it    *)
(* keeps one worker per account as accounts come and go, hands commands to *)
(* the workers, and follows a Send/Receive pass over all the accounts by   *)
(* the events that the workers' threads send back (SyncTracker).           *)
(*                                                                         *)
(* Abstractions.  A worker handles a command in one step (AccountWorker    *)
(* has its steps); of its events those remain that settle an account.      *)
(* The other commands of the user and the service are one kind: SaveSent   *)
(* and Drain, which follow a connection, are in Outbox.                    *)
(* The service's input is not a queue here: it takes the next event of any *)
(* thread, in every order in which the threads' tasks can deliver them.    *)
(***************************************************************************)
EXTENDS Integers, Sequences, FiniteSets

CONSTANTS
    Accounts,
    Lists,          \* the sets of accounts that discovery may find
    MaxPasses,      \* how often Send/Receive is pressed (bounds the states)
    MaxChanges,     \* how often the accounts change, the first included
    MaxRequests     \* how many other commands there are

ASSUME SyncServiceAssumption ==
    /\ IsFiniteSet(Accounts) /\ Lists \subseteq SUBSET Accounts
    /\ MaxPasses \in Nat /\ MaxChanges \in Nat /\ MaxRequests \in Nat

VARIABLES
    discovery,  \* the first look for accounts, or the watch for changes
    workers,    \* for each account, its worker's number; 0: no worker
    threads,    \* the worker threads that were ever spawned
    tracker,    \* SyncTracker
    changes, passes, requests,
    pass        \* history: the Send/Receive pass

vars == <<discovery, workers, threads, tracker, changes, passes, requests, pass>>

Commands == {"Sync", "Other", "Shutdown"}
Events == {"AccountSynced", "Failed"}

(* A thread: its account, its channel, its events that the service has not *)
(* handled.                                                                *)
Threads == [account : Accounts, commands : Seq(Commands), events : Seq(Events),
            running : BOOLEAN]
Spawned(a) == [account |-> a, commands |-> <<"Sync">>, events |-> <<>>, running |-> TRUE]

Numbers == DOMAIN threads
InService == {workers[a] : a \in Accounts} \ {0}
Busy == tracker.pending # {}

(* The history of the passes: the accounts of the current one, and how     *)
(* many passes were started and reported to the window.                    *)
Passes == [accounts : SUBSET Accounts, started : Nat, reported : Nat]

Init ==
    /\ discovery = "starting"
    /\ workers = [a \in Accounts |-> 0]
    /\ threads = <<>>
    /\ tracker = [pending |-> {}, synced |-> 0, failed |-> 0]
    /\ changes = 0 /\ passes = 0 /\ requests = 0
    /\ pass = [accounts |-> {}, started |-> 0, reported |-> 0]

-----------------------------------------------------------------------------
(* The accounts: AccountsLoaded, reconcile.                                *)

(* AccountWorker::send, to a thread that may have ended.                   *)
Send(ts, numbers, command) ==
    [t \in DOMAIN ts |->
        IF t \in numbers /\ ts[t].running
        THEN [ts[t] EXCEPT !.commands = Append(@, command)] ELSE ts[t]]

(* A worker of an account that is gone is told to stop.  A list without    *)
(* change costs nothing of the bound.                                      *)
RetiredQuietly(ts, gone) == ts
Retired(ts, gone) == Send(ts, {workers[a] : a \in gone}, "Shutdown")

(* The order in which the new workers are spawned.                         *)
Order(new) ==
    CHOOSE s \in [1 .. Cardinality(new) -> new] : \A a \in new : \E i \in DOMAIN s : s[i] = a

Reconcile(found) ==
    LET new == {a \in found : workers[a] = 0}
        gone == {a \in Accounts \ found : workers[a] # 0}
        order == Order(new)
    IN  /\ discovery \in {"starting", "watching"}
        /\ discovery' = "watching"
        /\ IF new \cup gone = {} THEN UNCHANGED changes
           ELSE changes < MaxChanges /\ changes' = changes + 1
        /\ threads' = Retired(threads, gone)
                          \o [i \in DOMAIN order |-> Spawned(order[i])]
        /\ workers' = [a \in Accounts |->
               IF a \in gone THEN 0
               ELSE IF a \notin new THEN workers[a]
               ELSE Len(threads) + (CHOOSE i \in DOMAIN order : order[i] = a)]
        /\ UNCHANGED <<tracker, passes, requests, pass>>

(* discover fails: at the start for good, later until the next change.     *)
DiscoverFails ==
    /\ discovery = "starting"
    /\ discovery' = "failed"
    /\ UNCHANGED <<workers, threads, tracker, changes, passes, requests, pass>>

-----------------------------------------------------------------------------
(* The user.                                                               *)

(* SendReceive: SyncTracker::start, and a Sync for every worker.           *)
SendReceive ==
    LET accounts == {a \in Accounts : workers[a] # 0} IN
    /\ passes < MaxPasses /\ passes' = passes + 1
    /\ ~Busy
    /\ tracker' = [pending |-> accounts, synced |-> 0, failed |-> 0]
    /\ threads' = Send(threads, InService, "Sync")
    /\ pass' = [accounts |-> accounts,
                started |-> IF accounts = {} THEN pass.started ELSE pass.started + 1,
                reported |-> pass.reported]
    /\ UNCHANGED <<discovery, workers, changes, requests>>

(* WatchFolder, FetchBody, SaveDraft, SaveSent and so on.                  *)
Ask(a) ==
    /\ workers[a] # 0
    /\ requests < MaxRequests /\ requests' = requests + 1
    /\ threads' = Send(threads, {workers[a]}, "Other")
    /\ UNCHANGED <<discovery, workers, tracker, changes, passes, pass>>

-----------------------------------------------------------------------------
(* A worker thread handles a command.                                      *)

(* The events of a command.  A Sync goes on after an error of its replay   *)
(* or of save_sent (both at once are one error here), but not without a    *)
(* connection; Watch synchronises the account if the store does not know   *)
(* the folder.                                                             *)
Outcomes(command) ==
    CASE command = "Sync"  -> {<<"AccountSynced">>, <<"Failed">>,
                               <<"Failed", "AccountSynced">>, <<"Failed", "Failed">>}
      [] command = "Other" -> {<<>>, <<"AccountSynced">>, <<"Failed">>}

Handle(t) ==
    LET thread == threads[t]
        command == Head(thread.commands)
    IN  /\ thread.running /\ thread.commands # <<>> /\ command # "Shutdown"
        /\ \E events \in Outcomes(command) :
              threads' = [threads EXCEPT ![t].commands = Tail(@), ![t].events = @ \o events]
        /\ UNCHANGED <<discovery, workers, tracker, changes, passes, requests, pass>>

End(t) ==
    /\ threads[t].running /\ threads[t].commands # <<>>
    /\ Head(threads[t].commands) = "Shutdown"
    /\ threads' = [threads EXCEPT ![t].running = FALSE, ![t].commands = <<>>]
    /\ UNCHANGED <<discovery, workers, tracker, changes, passes, requests, pass>>

-----------------------------------------------------------------------------
(* The service handles an event.                                           *)

(* SyncTracker::complete.                                                  *)
Counted(failed) ==
    [tracker EXCEPT !.synced = IF failed THEN @ ELSE @ + 1,
                    !.failed = IF failed THEN @ + 1 ELSE @]
CompletedAnyway(a, failed) == [Counted(failed) EXCEPT !.pending = @ \ {a}]
CompletedUnlessFailed(a, failed) ==
    IF a \in tracker.pending /\ ~failed THEN [Counted(FALSE) EXCEPT !.pending = @ \ {a}]
    ELSE tracker
Completed(a, failed) ==
    IF a \in tracker.pending THEN [Counted(failed) EXCEPT !.pending = @ \ {a}] ELSE tracker

(* finish_sync: the window hears of it once the last account is in.        *)
FinishSync(a, failed) ==
    /\ tracker' = Completed(a, failed)
    /\ pass' = IF a \in tracker.pending /\ tracker'.pending = {}
               THEN [pass EXCEPT !.reported = @ + 1] ELSE pass

HandleEvent(t) ==
    LET a == threads[t].account
        event == Head(threads[t].events)
    IN  /\ threads[t].events # <<>>
        /\ threads' = [threads EXCEPT ![t].events = Tail(@)]
        /\ FinishSync(a, event = "Failed")
        /\ UNCHANGED <<discovery, workers, changes, passes, requests>>

Next ==
    \/ \E found \in Lists : Reconcile(found)
    \/ DiscoverFails
    \/ SendReceive
    \/ \E a \in Accounts : Ask(a)
    \/ \E t \in Numbers : Handle(t) \/ End(t) \/ HandleEvent(t)

Spec == Init /\ [][Next]_vars

(* Every thread runs until it ends, every call of a backend returns, and   *)
(* the service handles its input.  MaxThreads bounds their numbers.        *)
MaxThreads == MaxChanges * Cardinality(Accounts)
FairSpec ==
    /\ Spec
    /\ \A t \in 1 .. MaxThreads :
          /\ WF_vars(t \in Numbers /\ (Handle(t) \/ End(t)))
          /\ WF_vars(t \in Numbers /\ HandleEvent(t))

-----------------------------------------------------------------------------
(* Properties.                                                             *)

(* Every variable has its type; the counters of a report never exceed the  *)
(* number of accounts.                                                     *)
TypeOK ==
    /\ discovery \in {"starting", "watching", "failed"}
    /\ workers \in [Accounts -> 0 .. Len(threads)]
    /\ threads \in Seq(Threads)
    /\ tracker \in [pending : SUBSET Accounts, synced : 0 .. Cardinality(Accounts),
                    failed : 0 .. Cardinality(Accounts)]
    /\ changes \in Nat /\ passes \in Nat /\ requests \in Nat
    /\ pass \in Passes

(* The window hears once of every pass that was started, also when the     *)
(* accounts change under it, and the report counts each account of the     *)
(* pass once (sync.rs, test sync_tracker_reports_completion_once).         *)
ReportedOnce ==
    /\ pass.started = pass.reported + (IF Busy THEN 1 ELSE 0)
    /\ tracker.pending \subseteq pass.accounts
    /\ tracker.synced + tracker.failed = Cardinality(pass.accounts \ tracker.pending)

(* No account has two workers that go on working: every thread that the    *)
(* service has let go of has ended or is to end, and the ones it keeps run *)
(* and were not told to end (reconcile).                                   *)
ToldToEnd(t) == "Shutdown" \in {threads[t].commands[i] : i \in DOMAIN threads[t].commands}
OneWorkerPerAccount ==
    \A t \in Numbers :
        IF t \in InService
        THEN threads[t].running /\ ~ToldToEnd(t) /\ workers[threads[t].account] = t
        ELSE threads[t].running => ToldToEnd(t)

(* Every pass ends, and Send/Receive can be pressed again, even if an      *)
(* account of it was removed meanwhile: its thread does its Sync before it *)
(* ends, and is still heard.                                               *)
EveryPassEnds == Busy ~> ~Busy

=============================================================================
